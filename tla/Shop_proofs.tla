----------------------------- MODULE Shop_proofs -----------------------------
(***************************************************************************)
(* The store, its counter and one sale, for any number of requests at a    *)
(* time, branches, products, series, quotations and units.                 *)
(*                                                                         *)
(* The store: the kardex of every pair explains its stock, which never     *)
(* goes negative.  Neither is inductive.  Inv adds what a transaction      *)
(* knows of its pairs: a pair it has written is locked by it, its pending  *)
(* movements start at the committed stock, and the stock it has read is    *)
(* still the current one, or the pair is stale and the write will be       *)
(* refused.  The last case needs the annulment, which sees no stale pairs, *)
(* to read only pairs that have a row to lock: they were sold before.      *)
(* LocksOK adds the order in which the rows are locked, whence no circle   *)
(* of waits; CodesOK, that a code not yet committed is the last one, taken *)
(* by the request that holds its row.                                      *)
(*                                                                         *)
(* The counter and the sale: every property excepts what overlapped.  The  *)
(* invariants say what a request not overtaken still knows of the rows it  *)
(* is about to write: SeriesOK that its branches are free, QuotationsOK    *)
(* that its quotation has no sale, PapersOK that the sale is a nota de     *)
(* venta, GoodsOK what is pending of the goods; and that whoever writes    *)
(* makes all the others old; NotasOK, that the units of a credit note not  *)
(* yet written fit what the standing ones leave.  CounterOK is what all    *)
(* of them need: the types, and the object of every request.               *)
(*                                                                         *)
(* The units of the notes and those of the kardex are folds.  The function *)
(* of a fold is expanded, and what a sum returns follows for every finite  *)
(* set from a smallest subset that would contradict it.  TransfersOK and   *)
(* SalesOK say what the pending movements of a request add up to: what a   *)
(* transfer has taken and not yet given, and the lines of a sale that were *)
(* written, or given back by its annulment.                                *)
(***************************************************************************)
EXTENDS StockLedger, Fulfilment, FiniteSetTheorems, WellFoundedInduction, TLAPS

SoldLines(d) == d # <<>> /\ \A i \in 1..Len(d) : d[i].pair \in rows

\* A sale in the books has lines, and every pair it sold has a row.
BooksOK == \A s \in Sales : venta[s] # "none" => SoldLines(detalle[s])

\* The lines of a request and how far it is with them.
Shape(x) ==
  /\ x.pc \notin {"idle", "checked", "commit"} => x.at <= Len(x.lines)
  /\ x.pc = "commit" => x.at = Len(x.lines) + 1
  /\ x.pc # "idle" /\ x.kind \in {"sale", "annul"} => x.sale \in Sales
  /\ x.pc # "idle" /\ x.kind = "annul" => venta[x.sale] # "none"
  /\ x.pc = "checked" => x.kind = "annul"
  /\ x.kind = "annul" => \A i \in 1..Len(x.lines) : x.lines[i].pair \in rows
  /\ x.pc # "idle" /\ x.kind = "sale" => x.lines # <<>>
  /\ \A i \in 1..Len(x.lines) : i < x.at => x.lines[i].pair \in x.wrote
  /\ x.seen \subseteq rows
  /\ x.pc \notin {"idle", "checked"} /\ x.kind # "annul" => rows \subseteq x.seen \cup x.stale

\* A pair without a row has no stock.
BareOK == \A p \in Pairs \ rows : stock[p] = 0

\* Pending movements are of locked pairs and follow the committed stock.
Drafts(t) ==
  \A p \in Pairs :
    /\ p \in tx[t].wrote => owner[p] = t
    /\ tx[t].moves[p] # <<>> => p \in tx[t].wrote
    /\ Chained(tx[t].moves[p], stock[p], Current(t, p))

\* The stock read is the current one, or the write will be refused.
ReadOK(t) ==
  tx[t].pc = "change" =>
    \/ owner[Pair(t)] = t /\ tx[t].read = Current(t, Pair(t))
    \/ Serializable(t) /\ Pair(t) \in tx[t].stale
    \/ Serializable(t) /\ Pair(t) \notin rows /\ tx[t].read = Current(t, Pair(t))

Inv ==
  /\ TypeOK
  /\ KardexExplainsStock
  /\ BooksOK /\ BareOK
  /\ \A t \in Threads : Shape(tx[t]) /\ Drafts(t) /\ ReadOK(t)

----------------------------------------
(* Chains of movements.                                                    *)

\* A movement that starts where a chain ends extends it.
LEMMA ChainAppend ==
  ASSUME NEW m \in Seq(Move), NEW a, NEW b, Chained(m, a, b), NEW v \in Move, v.anterior = b
  PROVE  Chained(Append(m, v), a, v.posterior)
<1> DEFINE n == Append(m, v)
<1>1. n \in Seq(Move) /\ Len(n) = Len(m) + 1 /\ n[Len(n)] = v /\ \A i \in 1..Len(m) : n[i] = m[i]
  OBVIOUS
<1>2. n # <<>> BY <1>1
<1>3. CASE m = <<>>
  <2>1. Len(n) = 1 /\ n[1] = v BY <1>1, <1>3
  <2>2. v.anterior = a BY <1>3 DEF Chained
  <2> QED BY <1>2, <2>1, <2>2 DEF Chained
<1>4. CASE m # <<>>
  <2>1. Len(m) \in Nat \ {0} /\ m[1].anterior = a /\ m[Len(m)].posterior = b
        /\ \A i \in 1..Len(m) - 1 : m[i].posterior = m[i + 1].anterior
    BY <1>4 DEF Chained
  <2>2. n[1].anterior = a BY <1>1, <2>1
  <2>3. ASSUME NEW i \in 1..Len(n) - 1 PROVE n[i].posterior = n[i + 1].anterior
    <3>1. CASE i = Len(m) BY <1>1, <2>1, <3>1
    <3>2. CASE i # Len(m) BY <1>1, <2>1, <3>2
    <3> QED BY <3>1, <3>2
  <2>4. n[Len(n)].posterior = v.posterior BY <1>1
  <2> QED BY <1>2, <2>2, <2>3, <2>4 DEF Chained
<1> QED BY <1>3, <1>4

\* A chain that starts where another ends extends it.
LEMMA ChainConcat ==
  ASSUME NEW m \in Seq(Move), NEW k \in Seq(Move), NEW a, NEW b, NEW c,
         Chained(m, a, b), Chained(k, b, c)
  PROVE  Chained(m \o k, a, c)
<1> DEFINE n == m \o k
<1>1. n \in Seq(Move) /\ Len(n) = Len(m) + Len(k) OBVIOUS
<1>2. \A i \in 1..Len(m) : n[i] = m[i] OBVIOUS
<1>3. \A i \in 1..Len(k) : n[Len(m) + i] = k[i] OBVIOUS
<1>4. CASE m = <<>> BY <1>4 DEF Chained
<1>5. CASE k = <<>> BY <1>5 DEF Chained
<1>6. CASE m # <<>> /\ k # <<>>
  <2>1. Len(m) \in Nat \ {0} /\ m[1].anterior = a /\ m[Len(m)].posterior = b
        /\ \A i \in 1..Len(m) - 1 : m[i].posterior = m[i + 1].anterior
    BY <1>6 DEF Chained
  <2>2. Len(k) \in Nat \ {0} /\ k[1].anterior = b /\ k[Len(k)].posterior = c
        /\ \A i \in 1..Len(k) - 1 : k[i].posterior = k[i + 1].anterior
    BY <1>6 DEF Chained
  <2>3. n[1].anterior = a /\ n[Len(n)].posterior = c /\ n # <<>> BY <1>1, <1>2, <1>3, <2>1, <2>2
  <2>4. ASSUME NEW i \in 1..Len(n) - 1 PROVE n[i].posterior = n[i + 1].anterior
    <3>1. CASE i < Len(m)
      <4>1. i \in 1..Len(m) - 1 /\ i \in 1..Len(m) /\ i + 1 \in 1..Len(m) BY <2>1, <3>1
      <4> QED BY <1>2, <2>1, <4>1
    <3>2. CASE i = Len(m)
      <4>1. n[i] = m[Len(m)] /\ n[i + 1] = k[1] BY <1>2, <1>3, <2>1, <2>2, <3>2
      <4> QED BY <2>1, <2>2, <4>1
    <3>3. CASE i > Len(m)
      <4> DEFINE j == i - Len(m)
      <4>1. j \in 1..Len(k) - 1 /\ j \in 1..Len(k) /\ j + 1 \in 1..Len(k) /\ i = Len(m) + j /\ i + 1 = Len(m) + (j + 1)
        BY <1>1, <2>1, <2>2, <3>3
      <4>2. n[i] = k[j] /\ n[i + 1] = k[j + 1] BY <1>3, <4>1
      <4> QED BY <2>2, <4>1, <4>2
    <3> QED BY <2>1, <3>1, <3>2, <3>3
  <2> QED BY <2>3, <2>4 DEF Chained
<1> QED BY <1>4, <1>5, <1>6

----------------------------------------
(* Steps that leave the books alone: one transaction moves, its locks grow *)
(* or are all released.                                                    *)

\* The pair of the line a transaction is at.
LEMMA PairTyped ==
  ASSUME NEW x \in Tx, x.pc \in {"lock", "change"}, Shape(x)
  PROVE  x.at \in 1..Len(x.lines) /\ x.lines[x.at] \in Line /\ x.lines[x.at].pair \in Pairs
<1>1. x.at \in Nat \ {0} /\ x.lines \in Seq(Line) BY DEF Tx
<1>2. x.at <= Len(x.lines) BY DEF Shape
<1>3. x.at \in 1..Len(x.lines) BY <1>1, <1>2
<1>4. x.lines[x.at] \in Line BY <1>1, <1>3
<1> QED BY <1>3, <1>4 DEF Line

\* A thread between two requests has written nothing.
LEMMA IdleTyped ==
  Idle \in Tx /\ Shape(Idle) /\ Idle.wrote = {} /\ \A p \in Pairs : Idle.moves[p] = <<>>
<1>1. [p \in Pairs |-> <<>>] \in [Pairs -> Seq(Move)] OBVIOUS
<1>2. <<>> \in Seq(Line) /\ Len(<<>>) = 0 OBVIOUS
<1> QED BY <1>1, <1>2 DEF Idle, Tx, PCs, Kinds, Shape

\* What a step of t that takes no lock of another leaves true of the others.
LEMMA PrivateStep ==
  ASSUME Inv, NEW t \in Threads, NEW x \in Tx,
         tx' = [tx EXCEPT ![t] = x], UNCHANGED committed,
         share' \subseteq Threads, requests' \in Nat,
         owner' \in [Rows -> Threads \cup {None}],
         \A r \in Rows : owner[r] \notin {None, t} => owner'[r] = owner[r],
         Shape(x), Drafts(t)', ReadOK(t)'
  PROVE  Inv'
<1>1. tx' \in [Threads -> Tx] /\ tx'[t] = x /\ \A u \in Threads \ {t} : tx'[u] = tx[u]
  BY DEF Inv, TypeOK
<1>2. TypeOK' BY <1>1 DEF Inv, TypeOK, committed
<1>3. KardexExplainsStock' /\ BooksOK' /\ BareOK'
  BY DEF Inv, KardexExplainsStock, BooksOK, BareOK, SoldLines, committed
<1>4. ASSUME NEW u \in Threads PROVE (Shape(tx[u]) /\ Drafts(u) /\ ReadOK(u))'
  <2>1. CASE u = t
    <3>1. Shape(tx[u])' BY <1>1, <2>1 DEF Shape, committed
    <3> QED BY <2>1, <3>1
  <2>2. CASE u # t
    <3>1. tx'[u] = tx[u] /\ tx[u] \in Tx BY <1>1, <2>2 DEF Inv, TypeOK
    <3>2. Shape(tx[u])' BY <3>1 DEF Inv, Shape, committed
    <3>3. \A p \in Pairs : owner[p] = u => owner'[p] = u
      <4>1. u # None BY ShopAssumption
      <4> QED BY <2>2, <4>1 DEF Rows
    <3>4. \A p \in Pairs : Current(u, p)' = Current(u, p) BY <3>1 DEF Current, committed
    <3>5. Drafts(u)' BY <3>1, <3>3, <3>4 DEF Inv, Drafts, committed
    <3>6. ReadOK(u)'
      <4> SUFFICES ASSUME tx[u].pc = "change"
                   PROVE  ReadOK(u)'
        BY <3>1 DEF ReadOK
      <4>1. Pair(u)' = Pair(u) /\ Serializable(u)' = Serializable(u) BY <3>1 DEF Pair, Serializable
      <4>2. Pair(u) \in Pairs
        <5>1. Shape(tx[u]) BY DEF Inv
        <5> QED BY <3>1, <5>1, PairTyped DEF Pair
      <4> QED BY <3>1, <3>3, <3>4, <4>1, <4>2 DEF Inv, ReadOK, committed
    <3> QED BY <3>2, <3>5, <3>6
  <2> QED BY <2>1, <2>2
<1> QED BY <1>2, <1>3, <1>4 DEF Inv

\* A step that leaves the pending movements of t as they were.
LEMMA QuietStep ==
  ASSUME Inv, NEW t \in Threads, NEW x \in Tx,
         tx' = [tx EXCEPT ![t] = x], UNCHANGED committed,
         share' \subseteq Threads, requests' \in Nat,
         owner' \in [Rows -> Threads \cup {None}],
         \A r \in Rows : owner[r] # None => owner'[r] = owner[r],
         x.moves = tx[t].moves, x.wrote = tx[t].wrote, x.pc # "change", Shape(x)
  PROVE  Inv'
<1>1. tx'[t] = x BY DEF Inv, TypeOK
<1>2. \A p \in Pairs : owner[p] = t => owner'[p] = t BY ShopAssumption DEF Rows
<1>3. Drafts(t)' BY <1>1, <1>2 DEF Inv, Drafts, Current, committed
<1>4. ReadOK(t)' BY <1>1 DEF ReadOK
<1> QED BY <1>3, <1>4, PrivateStep

\* A step after which t has written nothing.
LEMMA FreshStep ==
  ASSUME Inv, NEW t \in Threads, NEW x \in Tx,
         tx' = [tx EXCEPT ![t] = x], UNCHANGED committed,
         share' \subseteq Threads, requests' \in Nat,
         owner' \in [Rows -> Threads \cup {None}],
         \A r \in Rows : owner[r] \notin {None, t} => owner'[r] = owner[r],
         \A p \in Pairs : x.moves[p] = <<>>, x.wrote = {}, x.pc # "change", Shape(x)
  PROVE  Inv'
<1>1. tx'[t] = x BY DEF Inv, TypeOK
<1>2. Drafts(t)' BY <1>1 DEF Drafts, Current, Chained
<1>3. ReadOK(t)' BY <1>1 DEF ReadOK
<1> QED BY <1>2, <1>3, PrivateStep

\* A rollback.
LEMMA AbortStep == ASSUME Inv, NEW t \in Threads, Abort(t) PROVE Inv'
<1>1. owner' \in [Rows -> Threads \cup {None}]
      /\ \A r \in Rows : owner[r] \notin {None, t} => owner'[r] = owner[r]
  BY DEF Inv, TypeOK, Abort, Release
<1>2. Idle.pc # "change" BY DEF Idle
<1> QED BY <1>1, <1>2, IdleTyped, FreshStep DEF Abort, Release, Inv, TypeOK

\* Nobody else holds what t does not wait for.
LEMMA GrabStep ==
  ASSUME Inv, NEW t \in Threads, NEW r \in Rows, owner[r] \in {None, t}, Grab(t, r)
  PROVE  owner' \in [Rows -> Threads \cup {None}] /\ owner'[r] = t
         /\ \A q \in Rows : owner[q] # None => owner'[q] = owner[q]
BY DEF Inv, TypeOK, Grab

----------------------------------------
(* Arrivals.                                                               *)

\* The lines that a cart gives a request.
LEMMA LinesTyped ==
  ASSUME NEW b \in Branches, NEW c \in Carts, NEW qty \in Int, NEW how \in {"by", "to"}
  PROVE  /\ LinesOf(b, c, qty, how) \in Seq(Line)
         /\ Len(LinesOf(b, c, qty, how)) = Len(c) /\ Len(c) \in Nat \ {0}
         /\ PairsOf(b, c) \subseteq Pairs
<1>1. c \in Seq(Variants) /\ c # <<>> BY ShopAssumption
<1>2. Len(c) \in Nat \ {0} /\ \A i \in 1..Len(c) : c[i] \in Variants BY <1>1
<1>3. \A i \in 1..Len(c) : [pair |-> <<b, c[i]>>, qty |-> qty, how |-> how] \in Line
  BY <1>2 DEF Line, Pairs
<1>4. LinesOf(b, c, qty, how) \in [1..Len(c) -> Line] BY <1>3 DEF LinesOf
<1>5. LinesOf(b, c, qty, how) \in Seq(Line) /\ Len(LinesOf(b, c, qty, how)) = Len(c) BY <1>2, <1>4
<1>6. PairsOf(b, c) \subseteq Pairs BY <1>2 DEF PairsOf, Pairs
<1> QED BY <1>2, <1>5, <1>6

\* A request that opens a transaction with lines of the right type.
LEMMA BeginStep ==
  ASSUME Inv, NEW t \in Threads, NEW kind \in Kinds,
         NEW first \in {"company", "code", "header", "venta", "upfront", "lock"},
         NEW s \in Sales \cup {None}, NEW lines \in Seq(Line), lines # <<>>, NEW want \in SUBSET Pairs,
         kind \in {"sale", "annul"} => s \in Sales,
         kind = "annul" => venta[s] # "none" /\ \A i \in 1..Len(lines) : lines[i].pair \in rows,
         Begin(t, kind, first, s, lines, want)
  PROVE  Inv'
<1> DEFINE x == [Idle EXCEPT !.pc = first, !.kind = kind, !.sale = s, !.lines = lines, !.want = want,
                             !.seen = rows, !.stale = tx[t].stale]
<1>1. x.pc = first /\ x.kind = kind /\ x.sale = s /\ x.lines = lines /\ x.want = want /\ x.at = 1
      /\ x.moves = Idle.moves /\ x.wrote = {} /\ x.seen = rows
  BY DEF Idle
<1>2. first \in PCs /\ first \notin {"idle", "checked", "commit", "change"} BY DEF PCs
<1>3. x \in Tx
  <2>1. rows \in SUBSET Pairs /\ tx[t].stale \in SUBSET Rows BY DEF Inv, TypeOK, Tx
  <2> QED BY <1>2, <2>1, IdleTyped DEF Tx, Idle
<1>4. Len(lines) \in Nat \ {0} OBVIOUS
<1>5. Shape(x) BY <1>1, <1>2, <1>4 DEF Shape
<1>6. /\ tx' = [tx EXCEPT ![t] = x] /\ UNCHANGED <<committed, owner, share>>
      /\ requests' = requests + 1
  BY DEF Begin
<1>7. share' \subseteq Threads /\ requests' \in Nat /\ owner' \in [Rows -> Threads \cup {None}]
  BY <1>6 DEF Inv, TypeOK
<1> HIDE DEF x
<1> QED BY <1>1, <1>2, <1>3, <1>5, <1>6, <1>7, IdleTyped, FreshStep

\* A sale that arrives keeps the invariant of the ledger.
LEMMA SaleArrivesStep ==
  ASSUME Inv, NEW t \in Threads, NEW s \in Sales, NEW b \in Stores, NEW c \in Carts, SaleArrives(t, s, b, c)
  PROVE  Inv'
<1>1. b \in Branches /\ -1 \in Int /\ "by" \in {"by", "to"} BY ShopAssumption
<1>2. LinesOf(b, c, -1, "by") \in Seq(Line) /\ LinesOf(b, c, -1, "by") # <<>> BY <1>1, LinesTyped
<1>3. Begin(t, "sale", "company", s, LinesOf(b, c, -1, "by"), {}) BY DEF SaleArrives
<1> QED BY <1>2, <1>3, BeginStep DEF Kinds

\* So does a transfer,
LEMMA TransferArrivesStep ==
  ASSUME Inv, NEW t \in Threads, NEW a \in Branches, NEW b \in Branches, NEW c \in Carts,
         TransferArrives(t, a, b, c)
  PROVE  Inv'
<1> DEFINE exits == LinesOf(a, c, -1, "by")
           entries == LinesOf(b, c, 1, "by")
           lines == [i \in 1..2 * Len(c) |-> IF i % 2 = 1 THEN exits[(i + 1) \div 2] ELSE entries[i \div 2]]
           want == PairsOf(a, c) \cup PairsOf(b, c)
<1>1. -1 \in Int /\ 1 \in Int /\ "by" \in {"by", "to"} OBVIOUS
<1>2. exits \in Seq(Line) /\ Len(exits) = Len(c) /\ PairsOf(a, c) \subseteq Pairs /\ Len(c) \in Nat \ {0}
  BY <1>1, LinesTyped
<1>3. entries \in Seq(Line) /\ Len(entries) = Len(c) /\ PairsOf(b, c) \subseteq Pairs
  BY <1>1, LinesTyped
<1>4. Begin(t, "transfer", "upfront", None, lines, want) BY DEF TransferArrives
<1> HIDE DEF exits, entries
<1>5. \A i \in 1..2 * Len(c) :
        (i % 2 = 1 => (i + 1) \div 2 \in 1..Len(c)) /\ (i % 2 # 1 => i \div 2 \in 1..Len(c))
  BY <1>2
<1>6. \A i \in 1..Len(c) : exits[i] \in Line /\ entries[i] \in Line BY <1>2, <1>3
<1>7. \A i \in 1..2 * Len(c) :
        (IF i % 2 = 1 THEN exits[(i + 1) \div 2] ELSE entries[i \div 2]) \in Line
  <2> SUFFICES ASSUME NEW i \in 1..2 * Len(c)
               PROVE  (IF i % 2 = 1 THEN exits[(i + 1) \div 2] ELSE entries[i \div 2]) \in Line
    OBVIOUS
  <2>1. CASE i % 2 = 1 BY <1>5, <1>6, <2>1
  <2>2. CASE i % 2 # 1 BY <1>5, <1>6, <2>2
  <2> QED BY <2>1, <2>2
<1>8. lines \in [1..2 * Len(c) -> Line] BY <1>7
<1>9. lines \in Seq(Line) /\ lines # <<>>
  <2>1. PICK k \in Nat \ {0} : k = 2 * Len(c) BY <1>2
  <2>2. lines \in [1..k -> Line] BY <1>8, <2>1
  <2> HIDE DEF lines
  <2>3. lines \in Seq(Line) /\ Len(lines) = k BY <2>1, <2>2
  <2> QED BY <2>1, <2>3
<1>10. want \in SUBSET Pairs BY <1>2, <1>3
<1> HIDE DEF lines, want
<1> QED BY <1>4, <1>9, <1>10, BeginStep DEF Kinds

\* so do an entry, a loss and an adjustment,
LEMMA OtherArrivalsStep ==
  ASSUME Inv, NEW t \in Threads, NEW b \in Managed, NEW c \in Carts,
         \/ \E qty \in {-1, 1} : MovementArrives(t, b, c, qty)
         \/ PurchaseArrives(t, b, c)
         \/ \E n \in Counts : CountArrives(t, b, c, n)
  PROVE  Inv'
<1>1. b \in Branches /\ "by" \in {"by", "to"} /\ "to" \in {"by", "to"} BY ShopAssumption
<1>2. ASSUME NEW qty \in {-1, 1}, MovementArrives(t, b, c, qty) PROVE Inv'
  <2>1. qty \in Int OBVIOUS
  <2>2. LinesOf(b, c, qty, "by") \in Seq(Line) /\ LinesOf(b, c, qty, "by") # <<>> /\ PairsOf(b, c) \in SUBSET Pairs
    BY <1>1, <2>1, LinesTyped
  <2>3. Begin(t, "movement", "upfront", None, LinesOf(b, c, qty, "by"), PairsOf(b, c))
    BY <1>2 DEF MovementArrives
  <2> QED BY <2>2, <2>3, BeginStep DEF Kinds
<1>3. CASE PurchaseArrives(t, b, c)
  <2>1. 1 \in Int OBVIOUS
  <2>2. LinesOf(b, c, 1, "by") \in Seq(Line) /\ LinesOf(b, c, 1, "by") # <<>>
    BY <1>1, <2>1, LinesTyped
  <2>3. Begin(t, "purchase", "header", None, LinesOf(b, c, 1, "by"), {}) BY <1>3 DEF PurchaseArrives
  <2> QED BY <2>2, <2>3, BeginStep DEF Kinds
<1>4. ASSUME NEW n \in Counts, CountArrives(t, b, c, n) PROVE Inv'
  <2>1. n \in Int BY ShopAssumption
  <2>2. LinesOf(b, c, n, "to") \in Seq(Line) /\ LinesOf(b, c, n, "to") # <<>>
    BY <1>1, <2>1, LinesTyped
  <2>3. Begin(t, "count", "lock", None, LinesOf(b, c, n, "to"), {}) BY <1>4 DEF CountArrives
  <2> QED BY SMTT(20), <2>2, <2>3, BeginStep DEF Kinds
<1> QED BY <1>2, <1>3, <1>4

\* so does an annulment that reads the lines of its sale,
LEMMA AnnulReadsStep ==
  ASSUME Inv, NEW t \in Threads, NEW s \in Sales, AnnulReads(t, s) PROVE Inv'
<1> DEFINE x == [Idle EXCEPT !.pc = "checked", !.kind = "annul", !.sale = s]
<1>1. x.pc = "checked" /\ x.kind = "annul" /\ x.sale = s /\ x.lines = <<>> /\ x.moves = Idle.moves
      /\ x.wrote = {} /\ x.seen = {}
  BY DEF Idle
<1>2. x \in Tx BY IdleTyped DEF Tx, Idle, PCs, Kinds
<1>3. venta[s] # "none" BY DEF AnnulReads
<1>4. Shape(x) BY <1>1, <1>3 DEF Shape
<1>5. tx' = [tx EXCEPT ![t] = x] /\ UNCHANGED <<committed, owner, share, requests>>
  BY DEF AnnulReads
<1>6. share' \subseteq Threads /\ requests' \in Nat /\ owner' \in [Rows -> Threads \cup {None}]
  BY <1>5 DEF Inv, TypeOK
<1> HIDE DEF x
<1> QED BY <1>1, <1>2, <1>4, <1>5, <1>6, IdleTyped, FreshStep

\* and one that begins with what it read.
LEMMA AnnulBeginsStep ==
  ASSUME Inv, NEW t \in Threads, NEW cash \in BOOLEAN, AnnulBegins(t, cash) PROVE Inv'
<1> DEFINE s == tx[t].sale
           d == detalle[s]
           lines == [i \in 1..Len(d) |-> [d[i] EXCEPT !.qty = -d[i].qty]]
           first == IF cash THEN "header" ELSE "venta"
<1>1. tx[t].pc = "checked" /\ Begin(t, "annul", first, s, lines, {}) BY DEF AnnulBegins
<1>2. s \in Sales /\ venta[s] # "none" BY <1>1 DEF Inv, Shape
<1>3. d \in Seq(Line) /\ d # <<>> /\ \A i \in 1..Len(d) : d[i].pair \in rows
  BY <1>2 DEF Inv, TypeOK, BooksOK, SoldLines
<1> HIDE DEF d
<1>4. \A i \in 1..Len(d) : [d[i] EXCEPT !.qty = -d[i].qty] \in Line
                            /\ [d[i] EXCEPT !.qty = -d[i].qty].pair \in rows
  <2> SUFFICES ASSUME NEW i \in 1..Len(d)
               PROVE  [d[i] EXCEPT !.qty = -d[i].qty] \in Line
                      /\ [d[i] EXCEPT !.qty = -d[i].qty].pair \in rows
    OBVIOUS
  <2>1. d[i] \in Line /\ d[i].pair \in rows BY <1>3
  <2> QED BY <2>1 DEF Line
<1>5. lines \in [1..Len(d) -> Line] /\ Len(d) \in Nat \ {0} BY <1>3, <1>4
<1>6. lines \in Seq(Line) /\ Len(lines) = Len(d) /\ lines # <<>> BY <1>5
<1>7. \A i \in 1..Len(lines) : lines[i].pair \in rows BY <1>4, <1>6
<1>8. first \in {"company", "code", "header", "venta", "upfront", "lock"} OBVIOUS
<1> HIDE DEF lines, first, s
<1> QED BY <1>1, <1>2, <1>6, <1>7, <1>8, BeginStep DEF Kinds

----------------------------------------
(* The statements of a transaction.                                        *)

\* A statement that does not wait finds its rows free.
LEMMA NotBlocked ==
  ASSUME NEW t \in Threads, Blockers(t) = {}
  PROVE  /\ tx[t].pc = "company" => owner[Empresa] \in {None, t}
         /\ tx[t].pc = "code" => owner[Secuencia] \in {None, t}
         /\ tx[t].pc = "venta" => owner[tx[t].sale] \in {None, t}
         /\ tx[t].pc = "upfront" =>
              \A p : IsFirst(p, tx[t].want) /\ Sees(t, p) /\ ~Stale(t, p) => owner[p] \in {None, t}
         /\ tx[t].pc = "lock" /\ Sees(t, Pair(t)) /\ ~Stale(t, Pair(t)) => owner[Pair(t)] \in {None, t}
         /\ tx[t].pc = "change" /\ ~(Target(t) < 0) /\ Target(t) \in Int => owner[Pair(t)] \in {None, t}
<1> DEFINE holders(S) == {owner[r] : r \in S} \ {t, None}
           locks(S)   == {p \in S : Sees(t, p) /\ ~Stale(t, p)}
<1>1. ASSUME NEW S, holders(S) = {} PROVE \A r \in S : owner[r] \in {None, t} BY <1>1
<1>2. CASE tx[t].pc = "company"
  <2>1. Blockers(t) = holders({Empresa}) \cup (share \ {t}) BY <1>2 DEF Blockers
  <2>2. holders({Empresa}) = {} BY <2>1
  <2> HIDE DEF holders
  <2> QED BY <1>1, <1>2, <2>2
<1>3. CASE tx[t].pc = "code"
  <2>1. Blockers(t) = holders({Secuencia}) BY <1>3 DEF Blockers
  <2> HIDE DEF holders
  <2> QED BY <1>1, <1>3, <2>1
<1>4. CASE tx[t].pc = "venta"
  <2>1. Blockers(t) = holders({tx[t].sale}) BY <1>4 DEF Blockers
  <2> HIDE DEF holders
  <2> QED BY <1>1, <1>4, <2>1
<1>5. CASE tx[t].pc = "upfront"
  <2>1. Blockers(t) = holders(locks({p \in tx[t].want : IsFirst(p, tx[t].want)}))
    BY <1>5 DEF Blockers
  <2> HIDE DEF holders
  <2>2. \A p : IsFirst(p, tx[t].want) /\ Sees(t, p) /\ ~Stale(t, p) =>
               p \in locks({q \in tx[t].want : IsFirst(q, tx[t].want)})
    BY DEF IsFirst
  <2> QED BY <1>1, <1>5, <2>1, <2>2
<1>6. CASE tx[t].pc = "lock"
  <2>1. Blockers(t) = holders(locks({Pair(t)})) BY <1>6 DEF Blockers
  <2> HIDE DEF holders
  <2>2. Sees(t, Pair(t)) /\ ~Stale(t, Pair(t)) => Pair(t) \in locks({Pair(t)}) OBVIOUS
  <2> QED BY <1>1, <1>6, <2>1, <2>2
<1>7. CASE tx[t].pc = "change"
  <2> DEFINE S == {r \in {Pair(t)} : Target(t) >= 0} \cup {r \in {Empresa} : Inserts(t)}
  <2>1. Blockers(t) = holders(S) BY <1>7 DEF Blockers
  <2> HIDE DEF holders
  <2>2. Target(t) \in Int /\ ~(Target(t) < 0) => Target(t) >= 0 OBVIOUS
  <2>3. Target(t) >= 0 => Pair(t) \in S OBVIOUS
  <2> HIDE DEF S
  <2> QED BY <1>1, <1>7, <2>1, <2>2, <2>3
<1> QED BY <1>2, <1>3, <1>4, <1>5, <1>6, <1>7

\* The lock of the company keeps the invariant of the ledger.
LEMMA LockCompanyStep == ASSUME Inv, NEW t \in Threads, LockCompany(t) PROVE Inv'
<1> DEFINE x == [tx[t] EXCEPT !.pc = "code"]
<1>1. tx[t] \in Tx /\ Shape(tx[t]) /\ tx[t].pc = "company" /\ Empresa \in Rows
  BY DEF Inv, TypeOK, LockCompany, Rows
<1>2. x \in Tx /\ Shape(x) /\ x.pc = "code" /\ x.moves = tx[t].moves /\ x.wrote = tx[t].wrote
  BY <1>1 DEF Tx, PCs, Shape
<1>3. tx' = [tx EXCEPT ![t] = x] /\ Grab(t, Empresa) /\ UNCHANGED <<committed, share, requests>>
  BY DEF LockCompany, Goto
<1>4. owner[Empresa] \in {None, t} BY <1>1, NotBlocked DEF LockCompany
<1> HIDE DEF x
<1>5. owner' \in [Rows -> Threads \cup {None}] /\ \A r \in Rows : owner[r] # None => owner'[r] = owner[r]
  BY <1>1, <1>3, <1>4, GrabStep
<1> QED BY <1>2, <1>3, <1>5, QuietStep DEF Inv, TypeOK

\* So does the code that is taken,
LEMMA NextCodeStep == ASSUME Inv, NEW t \in Threads, NextCode(t) PROVE Inv'
<1>1. CASE Abort(t) BY <1>1, AbortStep
<1>2. CASE ~Abort(t)
  <2> DEFINE x == [tx[t] EXCEPT !.pc = "lock", !.code = contador + 1]
  <2>1. tx[t] \in Tx /\ Shape(tx[t]) /\ tx[t].pc = "code" /\ Secuencia \in Rows /\ contador + 1 \in Nat
    BY DEF Inv, TypeOK, NextCode, Rows
  <2>2. x \in Tx /\ Shape(x) /\ x.pc = "lock" /\ x.moves = tx[t].moves /\ x.wrote = tx[t].wrote
    BY <2>1 DEF Tx, PCs, Shape
  <2>3. tx' = [tx EXCEPT ![t] = x] /\ Grab(t, Secuencia) /\ UNCHANGED <<committed, share, requests>>
    BY <1>2 DEF NextCode
  <2>4. owner[Secuencia] \in {None, t} BY <2>1, NotBlocked DEF NextCode
  <2> HIDE DEF x
  <2>5. owner' \in [Rows -> Threads \cup {None}] /\ \A r \in Rows : owner[r] # None => owner'[r] = owner[r]
    BY <2>1, <2>3, <2>4, GrabStep
  <2> QED BY <2>2, <2>3, <2>5, QuietStep DEF Inv, TypeOK
<1> QED BY <1>1, <1>2

\* the header that is inserted,
LEMMA InsertHeaderStep == ASSUME Inv, NEW t \in Threads, InsertHeader(t) PROVE Inv'
<1> DEFINE pc == IF tx[t].kind = "annul" THEN "venta" ELSE "lock"
           x == [tx[t] EXCEPT !.pc = pc]
<1>1. tx[t] \in Tx /\ Shape(tx[t]) /\ tx[t].pc = "header" BY DEF Inv, TypeOK, InsertHeader
<1>2. x \in Tx /\ Shape(x) /\ x.pc # "change" /\ x.moves = tx[t].moves /\ x.wrote = tx[t].wrote
  <2>1. pc \in PCs /\ pc \notin {"idle", "checked", "commit", "change"} BY DEF PCs
  <2> HIDE DEF pc
  <2> QED BY <1>1, <2>1 DEF Tx, Shape
<1>3. tx' = [tx EXCEPT ![t] = x] /\ UNCHANGED <<committed, owner, requests>> /\ share' = share \cup {t}
  BY DEF InsertHeader, Goto
<1> HIDE DEF x
<1>4. share' \subseteq Threads /\ requests' \in Nat /\ owner' \in [Rows -> Threads \cup {None}]
  BY <1>3 DEF Inv, TypeOK
<1> QED BY <1>2, <1>3, <1>4, QuietStep

\* the sale that is marked annulled,
LEMMA UpdateSaleStep == ASSUME Inv, NEW t \in Threads, UpdateSale(t) PROVE Inv'
<1> DEFINE x == [tx[t] EXCEPT !.pc = "lock"]
<1>1. tx[t] \in Tx /\ Shape(tx[t]) /\ tx[t].pc = "venta" BY DEF Inv, TypeOK, UpdateSale
<1>2. x \in Tx /\ Shape(x) /\ x.pc = "lock" /\ x.moves = tx[t].moves /\ x.wrote = tx[t].wrote
  BY <1>1 DEF Tx, PCs, Shape
<1>3. tx' = [tx EXCEPT ![t] = x] /\ Grab(t, tx[t].sale) /\ UNCHANGED <<committed, share, requests>>
  BY DEF UpdateSale, Goto
<1>4. owner[tx[t].sale] \in {None, t} BY <1>1, NotBlocked DEF UpdateSale
<1> HIDE DEF x
<1>5. owner' \in [Rows -> Threads \cup {None}] /\ \A r \in Rows : owner[r] # None => owner'[r] = owner[r]
  BY <1>3, <1>4 DEF Inv, TypeOK, Grab
<1> QED BY <1>2, <1>3, <1>5, QuietStep DEF Inv, TypeOK

\* the pairs that are locked up front,
LEMMA LockUpFrontStep ==
  ASSUME Inv, NEW t \in Threads, NEW p \in Pairs, LockUpFront(t, p) PROVE Inv'
<1>1. CASE Abort(t) BY <1>1, AbortStep
<1>2. CASE ~Abort(t)
  <2> DEFINE pc == IF tx[t].want # {p} THEN "upfront" ELSE IF tx[t].kind = "transfer" THEN "header" ELSE "lock"
             x == [tx[t] EXCEPT !.want = @ \ {p}, !.pc = pc]
  <2>1. tx[t] \in Tx /\ Shape(tx[t]) /\ tx[t].pc = "upfront" /\ p \in Rows
    BY DEF Inv, TypeOK, LockUpFront, Rows
  <2>2. x \in Tx /\ Shape(x) /\ x.pc # "change" /\ x.moves = tx[t].moves /\ x.wrote = tx[t].wrote
    <3>1. pc \in PCs /\ pc \notin {"idle", "checked", "commit", "change"} BY DEF PCs
    <3> HIDE DEF pc
    <3> QED BY <2>1, <3>1 DEF Tx, Shape
  <2>3. tx' = [tx EXCEPT ![t] = x] /\ UNCHANGED <<committed, share, requests>>
        /\ owner' = IF Sees(t, p) THEN [owner EXCEPT ![p] = t] ELSE owner
    BY <1>2 DEF LockUpFront
  <2>4. Sees(t, p) => owner[p] \in {None, t} BY <1>2, <2>1, NotBlocked DEF LockUpFront
  <2> HIDE DEF x
  <2>5. owner' \in [Rows -> Threads \cup {None}] /\ \A r \in Rows : owner[r] # None => owner'[r] = owner[r]
    BY <2>1, <2>3, <2>4 DEF Inv, TypeOK
  <2> QED BY <2>2, <2>3, <2>5, QuietStep DEF Inv, TypeOK
<1> QED BY <1>1, <1>2

\* A stock that a transaction reads is a natural number.
LEMMA CurrentTyped ==
  ASSUME TypeOK, NEW t \in Threads, NEW p \in Pairs PROVE Current(t, p) \in Nat
<1>1. tx[t].moves[p] \in Seq(Move) /\ stock[p] \in Nat BY DEF TypeOK, Tx
<1>2. CASE tx[t].moves[p] = <<>> BY <1>1, <1>2 DEF Current
<1>3. CASE tx[t].moves[p] # <<>>
  <2>1. Last(tx[t].moves[p]) \in Move BY <1>1, <1>3 DEF Last
  <2> QED BY <1>3, <2>1 DEF Current, Move
<1> QED BY <1>2, <1>3

\* the pair of a line that is locked,
LEMMA LockLineStep == ASSUME Inv, NEW t \in Threads, LockLine(t) PROVE Inv'
<1>1. CASE Abort(t) BY <1>1, AbortStep
<1>2. CASE ~Abort(t)
  <2> DEFINE p == Pair(t)
             x == [tx[t] EXCEPT !.pc = "change", !.read = StockRead(t, p)]
  <2>1. tx[t] \in Tx /\ Shape(tx[t]) /\ tx[t].pc = "lock" BY DEF Inv, TypeOK, LockLine
  <2>2. tx[t].at \in 1..Len(tx[t].lines) /\ p \in Pairs /\ p \in Rows /\ p = tx[t].lines[tx[t].at].pair
    BY <2>1, PairTyped DEF Pair, Rows
  <2>3. StockRead(t, p) \in Nat
    <3>1. Current(t, p) \in Nat BY <2>2, CurrentTyped DEF Inv
    <3> QED BY <3>1 DEF StockRead
  <2>4. tx' = [tx EXCEPT ![t] = x] /\ UNCHANGED <<committed, share, requests>>
        /\ owner' = IF Sees(t, p) THEN [owner EXCEPT ![p] = t] ELSE owner
    BY <1>2 DEF LockLine
  <2>5. Sees(t, p) => owner[p] \in {None, t} /\ ~Stale(t, p) BY <1>2, <2>1, NotBlocked DEF LockLine
  <2> HIDE DEF p
  <2>6. x \in Tx /\ Shape(x) /\ x.pc = "change" /\ x.moves = tx[t].moves /\ x.wrote = tx[t].wrote
        /\ x.kind = tx[t].kind /\ x.read = StockRead(t, p) /\ x.lines = tx[t].lines /\ x.at = tx[t].at
        /\ x.stale = tx[t].stale
    BY <2>1, <2>2, <2>3 DEF Tx, PCs, Shape
  <2> HIDE DEF x
  <2>7. owner' \in [Rows -> Threads \cup {None}] /\ \A r \in Rows : owner[r] # None => owner'[r] = owner[r]
    BY <2>2, <2>4, <2>5 DEF Inv, TypeOK
  <2>8. tx'[t] = x BY <2>4 DEF Inv, TypeOK
  <2>9. \A q \in Pairs : Current(t, q)' = Current(t, q) BY <2>4, <2>6, <2>8 DEF Current, committed
  <2>10. Drafts(t)'
    <3>1. \A q \in Pairs : owner[q] = t => owner'[q] = t BY <2>7, ShopAssumption DEF Rows
    <3> QED BY <2>4, <2>6, <2>8, <2>9, <3>1 DEF Inv, Drafts, committed
  <2>11. ReadOK(t)'
    <3>1. Pair(t)' = p BY <2>2, <2>6, <2>8 DEF Pair
    <3>2. Drafts(t) /\ owner \in [Rows -> Threads \cup {None}] BY DEF Inv, TypeOK
    <3>3. CASE Sees(t, p) BY <2>2, <2>4, <2>6, <2>8, <2>9, <3>1, <3>2, <3>3 DEF ReadOK, StockRead
    <3>4. CASE ~Sees(t, p) /\ p \in tx[t].wrote
      BY <2>2, <2>4, <2>6, <2>8, <2>9, <3>1, <3>2, <3>4 DEF ReadOK, StockRead, Drafts
    <3>5. CASE ~Sees(t, p) /\ p \notin tx[t].wrote
      <4>1. tx[t].kind # "annul" BY <2>1, <2>2, <3>5 DEF Shape, Sees, Serializable
      <4>2. Serializable(t)' /\ Serializable(t) /\ p \notin tx[t].seen
        BY <2>4, <2>6, <2>8, <3>5, <4>1 DEF Serializable, Sees
      <4>3. CASE p \in rows
        <5>1. p \in tx[t].stale BY <2>1, <4>1, <4>2, <4>3 DEF Shape
        <5> QED BY <2>6, <2>8, <3>1, <4>2, <5>1 DEF ReadOK
      <4>4. CASE p \notin rows
        <5>1. Current(t, p) = 0 BY <2>2, <3>2, <3>5, <4>4 DEF Inv, BareOK, Drafts, Current
        <5>2. p \notin rows' BY <2>4, <4>4 DEF committed
        <5> QED BY <2>2, <2>6, <2>8, <2>9, <3>1, <3>5, <4>2, <5>1, <5>2 DEF ReadOK, StockRead
      <4> QED BY <4>3, <4>4
    <3> QED BY <3>3, <3>4, <3>5
  <2>12. share' \subseteq Threads /\ requests' \in Nat BY <2>4 DEF Inv, TypeOK
  <2> QED BY <2>4, <2>6, <2>7, <2>10, <2>11, <2>12, PrivateStep
<1> QED BY <1>1, <1>2

\* the line that changes its stock,
LEMMA ChangeLineStep == ASSUME Inv, NEW t \in Threads, ChangeLine(t) PROVE Inv'
<1>1. CASE Abort(t) BY <1>1, AbortStep
<1>2. CASE ~Abort(t)
  <2> DEFINE p == Pair(t)
             to == Target(t)
             m == tx[t].moves[p]
             move == [anterior |-> tx[t].read, posterior |-> to, tipo |-> tx[t].kind, sale |-> tx[t].sale]
             pc == IF tx[t].at = Len(tx[t].lines) THEN "commit" ELSE "lock"
             n == IF Moves(t) THEN Append(m, move) ELSE m
             x == [tx[t] EXCEPT !.pc = pc, !.at = @ + 1, !.read = 0, !.wrote = @ \cup {p},
                                !.moves = [@ EXCEPT ![p] = n]]
  <2>1. tx[t] \in Tx /\ Shape(tx[t]) /\ tx[t].pc = "change" BY DEF Inv, TypeOK, ChangeLine
  <2>2. tx[t].at \in 1..Len(tx[t].lines) /\ p \in Pairs /\ p \in Rows /\ p = tx[t].lines[tx[t].at].pair
        /\ tx[t].lines[tx[t].at] \in Line
    BY <2>1, PairTyped DEF Pair, Rows
  <2>3. ~(to < 0) /\ ~Stale(t, p) /\ WriteLine(t) BY <1>2 DEF ChangeLine
  <2>4. to \in Nat
    <3>1. tx[t].read \in Nat /\ tx[t].lines[tx[t].at].qty \in Int BY <2>1, <2>2 DEF Tx, Line
    <3>2. to \in Int BY <3>1 DEF Target
    <3> HIDE DEF to
    <3> QED BY <2>3, <3>2
  <2>5. tx[t].read = Current(t, p)
    <3>1. ~(Serializable(t) /\ p \in tx[t].stale) BY <2>3 DEF Stale
    <3> QED BY <2>1, <3>1 DEF Inv, ReadOK
  <2>6. owner[p] \in {None, t} BY <2>1, <2>3, <2>4, NotBlocked DEF ChangeLine
  <2>7. move \in Move BY <2>1, <2>4 DEF Move, Tx
  <2>8. m \in Seq(Move) /\ tx[t].moves \in [Pairs -> Seq(Move)] BY <2>1, <2>2 DEF Tx
  <2>9. tx' = [tx EXCEPT ![t] = x] /\ UNCHANGED <<committed, requests>> /\ Grab(t, p)
        /\ share' \subseteq share \cup {t}
    <3>1. /\ tx' = [tx EXCEPT ![t].pc = pc, ![t].at = @ + 1, ![t].read = 0, ![t].wrote = @ \cup {p},
                             ![t].moves[p] = IF Moves(t) THEN Append(@, move) ELSE @]
          /\ UNCHANGED <<committed, requests>> /\ Grab(t, p)
          /\ share' = IF Inserts(t) THEN share \cup {t} ELSE share
      BY <2>3 DEF WriteLine
    <3>2. tx \in [Threads -> Tx] BY DEF Inv, TypeOK
    <3>3. tx' = [tx EXCEPT ![t] = x]
      <4> HIDE DEF p, pc, move
      <4> QED BY <3>1, <3>2, <2>1 DEF Tx
    <3> HIDE DEF x, p
    <3> QED BY <3>1, <3>3
  <2>10. n \in Seq(Move) BY <2>7, <2>8
  <2>11. Chained(n, stock[p], IF Moves(t) THEN to ELSE Current(t, p))
    <3>1. Chained(m, stock[p], Current(t, p)) BY <2>2 DEF Inv, Drafts
    <3>2. move.anterior = Current(t, p) /\ move.posterior = to BY <2>5
    <3> HIDE DEF m, move, to
    <3>3. Chained(Append(m, move), stock[p], to) BY <2>7, <2>8, <3>1, <3>2, ChainAppend
    <3> QED BY <3>1, <3>3
  <2>12. n = <<>> => m = <<>> /\ ~Moves(t)
    <3> HIDE DEF m, move
    <3> QED BY <2>7, <2>8
  <2>13. n # <<>> => Last(n).posterior = (IF Moves(t) THEN to ELSE Current(t, p))
    <3>1. CASE Moves(t)
      <4>1. move.posterior = to OBVIOUS
      <4> HIDE DEF m, move, to
      <4>2. Last(Append(m, move)) = move BY <2>7, <2>8 DEF Last
      <4> QED BY <3>1, <4>1, <4>2
    <3>2. CASE ~Moves(t) BY <3>2 DEF Current
    <3> QED BY <3>1, <3>2
  <2>14. pc \in PCs /\ (pc = "commit" <=> tx[t].at = Len(tx[t].lines)) /\ pc \in {"commit", "lock"}
    BY DEF PCs
  <2> HIDE DEF pc, n, m, move, to
  <2>15. x.pc = pc /\ x.at = tx[t].at + 1 /\ x.lines = tx[t].lines /\ x.kind = tx[t].kind /\ x.sale = tx[t].sale
         /\ x.wrote = tx[t].wrote \cup {p} /\ x.moves = [tx[t].moves EXCEPT ![p] = n]
         /\ x.seen = tx[t].seen /\ x.stale = tx[t].stale
    BY <2>1 DEF Tx
  <2>16. x \in Tx
    <3>1. [tx[t].moves EXCEPT ![p] = n] \in [Pairs -> Seq(Move)] BY <2>8, <2>10
    <3>2. tx[t].wrote \cup {p} \in SUBSET Pairs /\ tx[t].at + 1 \in Nat \ {0} BY <2>1, <2>2 DEF Tx
    <3> QED BY <2>1, <2>14, <3>1, <3>2 DEF Tx
  <2> HIDE DEF x
  <2>17. Shape(x)
    <3>1. Len(x.lines) \in Nat /\ tx[t].at \in Nat BY <2>1, <2>15 DEF Tx
    <3>2. x.pc \in {"commit", "lock"} BY <2>14, <2>15
    <3>3. x.pc = "commit" => x.at = Len(x.lines) + 1 BY <2>14, <2>15
    <3>4. x.pc # "commit" => x.at <= Len(x.lines) BY <2>2, <2>14, <2>15, <3>1
    <3>5. \A i \in 1..Len(x.lines) : i < x.at => x.lines[i].pair \in x.wrote
      <4> SUFFICES ASSUME NEW i \in 1..Len(x.lines), i < x.at PROVE x.lines[i].pair \in x.wrote
        OBVIOUS
      <4>1. CASE i < tx[t].at BY <2>1, <2>15, <4>1 DEF Shape
      <4>2. CASE ~(i < tx[t].at)
        <5>1. i = tx[t].at BY <2>15, <3>1, <4>2
        <5> QED BY <2>2, <2>15, <5>1
      <4> QED BY <4>1, <4>2
    <3> QED BY <2>1, <2>15, <3>2, <3>3, <3>4, <3>5 DEF Shape
  <2>18. tx'[t] = x BY <2>9 DEF Inv, TypeOK
  <2>19. owner' \in [Rows -> Threads \cup {None}] /\ owner'[p] = t
         /\ \A r \in Rows : owner[r] # None => owner'[r] = owner[r]
    BY <2>2, <2>6, <2>9, GrabStep
  <2>20. Drafts(t)'
    <3> SUFFICES ASSUME NEW q \in Pairs
                 PROVE  /\ q \in x.wrote => owner'[q] = t
                        /\ x.moves[q] # <<>> => q \in x.wrote
                        /\ Chained(x.moves[q], stock[q], Current(t, q)')
      BY <2>9, <2>18 DEF Drafts, committed
    <3>1. Current(t, q)' = IF x.moves[q] = <<>> THEN stock[q] ELSE Last(x.moves[q]).posterior
      BY <2>9, <2>18 DEF Current, committed
    <3>2. CASE q = p
      <4>1. x.moves[q] = n BY <2>8, <2>15, <3>2
      <4>2. Current(t, q)' = IF Moves(t) THEN to ELSE Current(t, p)
        <5>1. CASE n = <<>>
          <6>1. Current(t, p) = stock[p] BY <2>12, <5>1 DEF Current, m
          <6> QED BY <2>12, <3>1, <3>2, <4>1, <5>1, <6>1
        <5>2. CASE n # <<>> BY <2>13, <3>1, <4>1, <5>2
        <5> QED BY <5>1, <5>2
      <4> QED BY <2>11, <2>15, <2>19, <3>2, <4>1, <4>2
    <3>3. CASE q # p
      <4>1. x.moves[q] = tx[t].moves[q] BY <2>8, <2>15, <3>3
      <4>2. Current(t, q)' = Current(t, q) BY <3>1, <4>1 DEF Current
      <4>3. owner[q] = t => owner'[q] = t BY <2>19, ShopAssumption DEF Rows
      <4>4. /\ q \in tx[t].wrote => owner[q] = t
            /\ tx[t].moves[q] # <<>> => q \in tx[t].wrote
            /\ Chained(tx[t].moves[q], stock[q], Current(t, q))
        BY DEF Inv, Drafts
      <4> QED BY <2>15, <3>3, <4>1, <4>2, <4>3, <4>4
    <3> QED BY <3>2, <3>3
  <2>21. ReadOK(t)' BY <2>14, <2>15, <2>18 DEF ReadOK
  <2>22. share' \subseteq Threads /\ requests' \in Nat BY <2>9 DEF Inv, TypeOK
  <2>23. \A r \in Rows : owner[r] \notin {None, t} => owner'[r] = owner[r] BY <2>19
  <2>24. UNCHANGED committed /\ tx' = [tx EXCEPT ![t] = x] BY <2>9
  <2> QED BY ONLY Inv, t \in Threads, <2>16, <2>17, <2>19, <2>20, <2>21, <2>22, <2>23, <2>24, PrivateStep
<1> QED BY <1>1, <1>2

----------------------------------------
(* The commit.                                                             *)

\* What a commit does to the books.
LEMMA CommitBooks ==
  ASSUME Inv, NEW t \in Threads, Commit(t)
  PROVE  /\ BooksOK'
         /\ venta' \in [Sales -> {"none", "completada", "anulada"}]
         /\ detalle' \in [Sales -> Seq(Line)]
         /\ codigo' \in [Sales -> Nat] /\ contador' \in Nat /\ repetidas' \in [Sales -> Nat]
         /\ \A s \in Sales : venta[s] # "none" => venta'[s] # "none"
<1> DEFINE x == tx[t]
           s == x.sale
<1>1. x \in Tx /\ Shape(x) /\ x.pc = "commit" BY DEF Inv, TypeOK, Commit
<1>2. x.lines \in Seq(Line) /\ x.code \in Nat BY <1>1 DEF Tx
<1>3. rows' = rows \cup x.wrote BY DEF Commit
<1>7. repetidas' \in [Sales -> Nat]
  <2>1. repetidas \in [Sales -> Nat] BY DEF Inv, TypeOK
  <2>2. repetidas' = repetidas \/ repetidas' = [repetidas EXCEPT ![s] = @ + 1] BY DEF Commit
  <2> QED BY <2>1, <2>2
<1>4. CASE x.kind = "sale"
  <2>1. /\ venta' = [venta EXCEPT ![s] = "completada"] /\ detalle' = [detalle EXCEPT ![s] = x.lines]
        /\ codigo' = [codigo EXCEPT ![s] = x.code] /\ contador' = x.code
    BY <1>4 DEF Commit
  <2>2. s \in Sales /\ x.lines # <<>> BY <1>1, <1>4 DEF Shape
  <2>3. \A i \in 1..Len(x.lines) : x.lines[i].pair \in rows'
    <3>1. x.at = Len(x.lines) + 1 /\ Len(x.lines) \in Nat BY <1>1, <1>2 DEF Shape
    <3> QED BY <1>1, <1>3, <3>1 DEF Shape
  <2>4. detalle'[s] = x.lines /\ \A r \in Sales \ {s} : detalle'[r] = detalle[r] /\ venta'[r] = venta[r]
    BY <2>1, <2>2 DEF Inv, TypeOK
  <2>5. BooksOK' BY <1>3, <2>2, <2>3, <2>4 DEF Inv, BooksOK, SoldLines
  <2> QED BY <1>2, <1>7, <2>1, <2>2, <2>5 DEF Inv, TypeOK
<1>5. CASE x.kind = "annul"
  <2>1. venta' = [venta EXCEPT ![s] = "anulada"] /\ UNCHANGED <<detalle, codigo, contador>>
    BY <1>5 DEF Commit
  <2>2. s \in Sales /\ venta[s] # "none" BY <1>1, <1>5 DEF Shape
  <2>3. \A r \in Sales : venta'[r] # "none" => venta[r] # "none" BY <2>1, <2>2 DEF Inv, TypeOK
  <2>4. BooksOK' BY <1>3, <2>1, <2>3 DEF Inv, BooksOK, SoldLines
  <2> QED BY <1>7, <2>1, <2>2, <2>4 DEF Inv, TypeOK
<1>6. CASE x.kind \notin {"sale", "annul"}
  <2>1. UNCHANGED <<venta, detalle, codigo, contador>> BY <1>6 DEF Commit
  <2>2. BooksOK' BY <1>3, <2>1 DEF Inv, BooksOK, SoldLines
  <2> QED BY <1>7, <2>1, <2>2 DEF Inv, TypeOK
<1> QED BY <1>4, <1>5, <1>6

\* What a commit does to the other transactions.
LEMMA CommitOthers ==
  ASSUME Inv, NEW t \in Threads, Commit(t), NEW u \in Threads, u # t
  PROVE  tx'[u] \in Tx /\ (Shape(tx[u]) /\ Drafts(u) /\ ReadOK(u))'
<1> DEFINE x == tx[u]
           y == tx'[u]
           news == Outdated(t, u)
<1>1. y = [x EXCEPT !.stale = @ \cup news] BY DEF Commit
<1>2. x \in Tx /\ tx[t] \in Tx /\ Shape(x) /\ Drafts(u) /\ ReadOK(u) BY DEF Inv, TypeOK
<1>3. news \in SUBSET Rows /\ (Active(u) /\ Serializable(u) => tx[t].wrote \subseteq news)
  <2>1. tx[t].kind = "annul" => tx[t].sale \in Sales BY DEF Inv, Shape, Commit
  <2> QED BY <1>2, <2>1 DEF Tx, Rows, Outdated
<1> HIDE DEF news
<1>4. y \in Tx /\ y.pc = x.pc /\ y.kind = x.kind /\ y.sale = x.sale /\ y.lines = x.lines /\ y.at = x.at
      /\ y.read = x.read /\ y.moves = x.moves /\ y.wrote = x.wrote /\ y.seen = x.seen
  <2> DEFINE z == [x EXCEPT !.stale = @ \cup news]
  <2>1. z \in Tx /\ z.pc = x.pc /\ z.kind = x.kind /\ z.sale = x.sale /\ z.lines = x.lines /\ z.at = x.at
        /\ z.read = x.read /\ z.moves = x.moves /\ z.wrote = x.wrote /\ z.seen = x.seen
    <3> HIDE DEF x
    <3> QED BY <1>2, <1>3 DEF Tx
  <2>2. y = z BY <1>1
  <2> HIDE DEF x, y, z
  <2> QED BY <1>2, <2>1, <2>2
<1>5. /\ x.stale \subseteq y.stale
      /\ x.pc \notin {"idle", "checked"} /\ x.kind # "annul" => tx[t].wrote \subseteq y.stale
  BY <1>1, <1>2, <1>3 DEF Tx, Active, Serializable
<1>6. rows' = rows \cup tx[t].wrote BY DEF Commit
<1>7. \A s \in Sales : venta[s] # "none" => venta'[s] # "none" BY CommitBooks
<1> HIDE DEF x, y
<1>8. Shape(tx[u])'
  <2>1. Shape(tx[u])' <=>
          /\ y.pc \notin {"idle", "checked", "commit"} => y.at <= Len(y.lines)
          /\ y.pc = "commit" => y.at = Len(y.lines) + 1
          /\ y.pc # "idle" /\ y.kind \in {"sale", "annul"} => y.sale \in Sales
          /\ y.pc # "idle" /\ y.kind = "annul" => venta'[y.sale] # "none"
          /\ y.pc = "checked" => y.kind = "annul"
          /\ y.kind = "annul" => \A i \in 1..Len(y.lines) : y.lines[i].pair \in rows'
          /\ y.pc # "idle" /\ y.kind = "sale" => y.lines # <<>>
          /\ \A i \in 1..Len(y.lines) : i < y.at => y.lines[i].pair \in y.wrote
          /\ y.seen \subseteq rows'
          /\ y.pc \notin {"idle", "checked"} /\ y.kind # "annul" => rows' \subseteq y.seen \cup y.stale
    BY DEF Shape, y
  <2>2. y.pc \notin {"idle", "checked"} /\ y.kind # "annul" => rows' \subseteq y.seen \cup y.stale
    BY <1>2, <1>4, <1>5, <1>6 DEF Shape
  <2> QED BY <1>2, <1>4, <1>6, <1>7, <2>1, <2>2 DEF Shape
<1>9. \A p \in Pairs : owner[p] = u => owner'[p] = u
  <2>1. owner' = [r \in Rows |-> IF owner[r] = t THEN None ELSE owner[r]] BY DEF Commit, Release
  <2> QED BY <2>1 DEF Rows
<1>10. ASSUME NEW p \in Pairs, owner[p] # t PROVE stock'[p] = stock[p]
  <2>1. tx[t].moves[p] = <<>> BY <1>10 DEF Inv, Drafts
  <2> QED BY <2>1 DEF Commit, Current
<1>11. \A p \in Pairs : (p \in x.wrote => owner[p] = u) /\ (x.moves[p] # <<>> => p \in x.wrote)
  BY <1>2 DEF Drafts, x
<1>12. ASSUME NEW p \in Pairs, owner[p] # t PROVE Current(u, p)' = Current(u, p)
  BY <1>4, <1>10, <1>12 DEF Current, x, y
<1>13. Drafts(u)'
  <2> SUFFICES ASSUME NEW p \in Pairs
               PROVE  /\ p \in y.wrote => owner'[p] = u
                      /\ y.moves[p] # <<>> => p \in y.wrote
                      /\ Chained(y.moves[p], stock'[p], Current(u, p)')
    BY DEF Drafts, y
  <2>1. (p \in y.wrote => owner'[p] = u) /\ (y.moves[p] # <<>> => p \in y.wrote)
    BY <1>4, <1>9, <1>11
  <2>2. CASE owner[p] = t
    <3>1. y.moves[p] = <<>> BY <1>4, <1>11, <2>2
    <3>2. Current(u, p)' = stock'[p] BY <3>1 DEF Current, y
    <3> QED BY <2>1, <3>1, <3>2 DEF Chained
  <2>3. CASE owner[p] # t BY <1>2, <1>4, <1>10, <1>12, <2>1, <2>3 DEF Drafts, x
  <2> QED BY <2>2, <2>3
<1>14. ReadOK(u)'
  <2> SUFFICES ASSUME x.pc = "change" PROVE ReadOK(u)' BY <1>4 DEF ReadOK, y
  <2>1. PICK p \in Pairs : p = Pair(u) BY <1>2, PairTyped DEF Pair, x
  <2>2. Pair(u)' = p /\ Serializable(u)' = Serializable(u) /\ (Serializable(u) <=> x.kind # "annul")
    BY <1>4, <2>1 DEF Pair, Serializable, x, y
  <2>3. \/ owner[p] = u /\ x.read = Current(u, p)
        \/ Serializable(u) /\ p \in x.stale
        \/ Serializable(u) /\ p \notin rows /\ x.read = Current(u, p)
    BY <1>2, <2>1 DEF ReadOK, x
  <2>4. CASE owner[p] = u /\ x.read = Current(u, p)
    <3>1. owner'[p] = u /\ y.read = Current(u, p)' BY <1>4, <1>9, <1>12, <2>1, <2>4
    <3> QED BY <2>2, <3>1 DEF ReadOK, y
  <2>5. CASE Serializable(u) /\ p \in x.stale BY <1>5, <2>2, <2>5 DEF ReadOK, y
  <2>6. CASE Serializable(u) /\ p \notin rows /\ x.read = Current(u, p)
    <3>1. CASE p \in tx[t].wrote BY <1>5, <1>6, <2>2, <2>6, <3>1 DEF ReadOK, y
    <3>2. CASE p \notin tx[t].wrote
      <4>1. p \notin rows' BY <1>6, <2>6, <3>2
      <4>2. stock'[p] = stock[p]
        <5>1. tx[t].moves[p] = <<>> BY <2>1, <3>2 DEF Inv, Drafts
        <5> QED BY <2>1, <5>1 DEF Commit, Current
      <4>3. Current(u, p)' = Current(u, p) BY <1>4, <4>2 DEF Current, x, y
      <4> QED BY <1>4, <2>2, <2>6, <4>1, <4>3 DEF ReadOK, y
    <3> QED BY <3>1, <3>2
  <2> QED BY <2>3, <2>4, <2>5, <2>6
<1> QED BY <1>4, <1>8, <1>13, <1>14 DEF y

\* and the commit, which turns what was pending into the kardex and the stock.
LEMMA CommitStep == ASSUME Inv, NEW t \in Threads, Commit(t) PROVE Inv'
<1>1. tx[t] \in Tx /\ tx'[t] = Idle BY DEF Inv, TypeOK, Commit
<1>2. stock' = [p \in Pairs |-> Current(t, p)] /\ kardex' = [p \in Pairs |-> kardex[p] \o tx[t].moves[p]]
  BY DEF Commit
<1>3. \A p \in Pairs : tx[t].moves[p] \in Seq(Move) /\ kardex[p] \in Seq(Move)
  BY <1>1 DEF Inv, TypeOK, Tx
<1>4. KardexExplainsStock'
  <2> SUFFICES ASSUME NEW p \in Pairs
               PROVE  Chained(kardex'[p], IF p \in Stocked THEN InitialUnits ELSE 0, stock'[p])
    BY DEF KardexExplainsStock
  <2>1. Chained(kardex[p], IF p \in Stocked THEN InitialUnits ELSE 0, stock[p])
        /\ Chained(tx[t].moves[p], stock[p], Current(t, p))
    BY DEF Inv, KardexExplainsStock, Drafts
  <2> DEFINE k == kardex[p]
             m == tx[t].moves[p]
             a == IF p \in Stocked THEN InitialUnits ELSE 0
             c == Current(t, p)
  <2>2. k \in Seq(Move) /\ m \in Seq(Move) BY <1>3
  <2>3. kardex'[p] = k \o m /\ stock'[p] = c BY <1>2
  <2> HIDE DEF k, m, a, c
  <2>4. Chained(k \o m, a, c) BY <2>1, <2>2, ChainConcat DEF k, m, a, c
  <2> QED BY <2>3, <2>4 DEF a
<1>5. TypeOK'
  <2>1. stock' \in [Pairs -> Nat] BY <1>2, CurrentTyped DEF Inv
  <2>2. kardex' \in [Pairs -> Seq(Move)] BY <1>2, <1>3
  <2>3. rows' \subseteq Pairs BY <1>1 DEF Inv, TypeOK, Commit, Tx
  <2>4. owner' \in [Rows -> Threads \cup {None}] /\ share' \subseteq Threads /\ requests' \in Nat
    BY DEF Inv, TypeOK, Commit, Release
  <2>5. tx' \in [Threads -> Tx]
    <3>1. \A u \in Threads : tx'[u] \in Tx BY <1>1, IdleTyped, CommitOthers
    <3>2. DOMAIN tx' = Threads /\ tx' = [u \in Threads |-> tx'[u]] BY DEF Commit
    <3> QED BY <3>1, <3>2
  <2> QED BY <2>1, <2>2, <2>3, <2>4, <2>5, CommitBooks DEF TypeOK
<1>8. BareOK'
  <2> SUFFICES ASSUME NEW p \in Pairs, p \notin rows' PROVE stock'[p] = 0 BY DEF BareOK
  <2>1. p \notin rows /\ p \notin tx[t].wrote BY DEF Commit
  <2>2. Current(t, p) = 0 BY <2>1 DEF Inv, BareOK, Drafts, Current
  <2> QED BY <1>2, <2>2
<1>6. ASSUME NEW u \in Threads PROVE (Shape(tx[u]) /\ Drafts(u) /\ ReadOK(u))'
  <2>1. CASE u = t
    <3>1. tx'[u] = Idle /\ Idle.pc = "idle" /\ Idle.kind = "sale" /\ Idle.lines = <<>> /\ Len(<<>>) = 0
          /\ Idle.seen = {} /\ Idle.wrote = {}
      BY <1>1, <2>1 DEF Idle
    <3>2. Shape(tx[u])' BY <3>1 DEF Shape
    <3>3. \A p \in Pairs : tx'[u].moves[p] = <<>> BY <3>1, IdleTyped
    <3>4. Drafts(u)' BY <3>1, <3>3 DEF Drafts, Current, Chained
    <3>5. ReadOK(u)' BY <3>1 DEF ReadOK
    <3> QED BY <3>2, <3>4, <3>5
  <2>2. CASE u # t BY <2>2, CommitOthers
  <2> QED BY <2>1, <2>2
<1> QED BY <1>4, <1>5, <1>6, <1>8, CommitBooks DEF Inv

----------------------------------------

\* The invariant holds at first ...
LEMMA InitInv == Init => Inv
<1> SUFFICES ASSUME Init PROVE Inv OBVIOUS
<1>1. stock \in [Pairs -> Nat] /\ kardex \in [Pairs -> Seq(Move)] /\ rows \subseteq Pairs
  BY ShopAssumption DEF Init
<1>2. TypeOK BY <1>1, IdleTyped DEF Init, TypeOK
<1>3. KardexExplainsStock BY DEF Init, KardexExplainsStock, Chained
<1>4. BooksOK /\ BareOK BY DEF Init, BooksOK, BareOK
<1>5. ASSUME NEW t \in Threads PROVE Shape(tx[t]) /\ Drafts(t) /\ ReadOK(t)
  <2>1. tx[t] = Idle /\ Idle.pc = "idle" BY DEF Init, Idle
  <2> QED BY <2>1, IdleTyped DEF Drafts, ReadOK, Current, Chained
<1> QED BY <1>2, <1>3, <1>4, <1>5 DEF Inv

\* ... and every step keeps it.
LEMMA NextInv == Inv /\ [Next]_vars => Inv'
<1> SUFFICES ASSUME Inv, [Next]_vars PROVE Inv' OBVIOUS
<1>1. CASE UNCHANGED vars
  <2>1. TypeOK' /\ KardexExplainsStock' /\ BooksOK' /\ BareOK'
    BY <1>1 DEF vars, committed, Inv, TypeOK, KardexExplainsStock, BooksOK, BareOK, SoldLines
  <2>2. ASSUME NEW t \in Threads PROVE (Shape(tx[t]) /\ Drafts(t) /\ ReadOK(t))'
    <3>1. Shape(tx[t])' BY <1>1 DEF vars, Inv, Shape
    <3>2. \A p \in Pairs : Current(t, p)' = Current(t, p) BY <1>1 DEF vars, Current
    <3>3. Drafts(t)' BY <1>1, <3>2 DEF vars, Inv, Drafts
    <3>4. ReadOK(t)' BY <1>1 DEF vars, Inv, ReadOK, Pair, Serializable, Current
    <3> QED BY <3>1, <3>3, <3>4
  <2> QED BY <2>1, <2>2 DEF Inv
<1>2. ASSUME NEW t \in Threads, Arrive(t) PROVE Inv'
  BY <1>2, SaleArrivesStep, TransferArrivesStep, OtherArrivalsStep, AnnulReadsStep, AnnulBeginsStep DEF Arrive
<1>3. ASSUME NEW t \in Threads, Advance(t) PROVE Inv'
  BY <1>3, LockCompanyStep, NextCodeStep, InsertHeaderStep, UpdateSaleStep, LockUpFrontStep,
     LockLineStep, ChangeLineStep, CommitStep DEF Advance
<1>4. ASSUME NEW t \in Threads, Victim(t) \/ Rollback(t) PROVE Inv'
  BY <1>4, AbortStep DEF Victim, Rollback
<1> QED BY <1>1, <1>2, <1>3, <1>4 DEF Next

\* The inductive invariant holds in every reachable state.
THEOREM Invariance == Spec => []Inv
<1>1. Inv /\ [Next]_vars => Inv' BY NextInv
<1> QED BY InitInv, <1>1, PTL DEF Spec

\* Every variable keeps its type; in particular no stock is ever negative.
THEOREM TypeCorrect == Spec => []TypeOK
<1>1. Inv => TypeOK BY DEF Inv
<1> QED BY <1>1, Invariance, PTL

\* No interleaving of sales, annulments, transfers, movements, purchases and
\* product forms loses an update of the stock: the kardex explains it.
THEOREM StockIsExplained == Spec => []KardexExplainsStock
<1>1. Inv => KardexExplainsStock BY DEF Inv
<1> QED BY <1>1, Invariance, PTL

\* Nobody but the transaction that holds a pair has movements pending in it, and
\* they continue the committed kardex.
THEOREM DraftsAreLocked == Spec => [](\A t \in Threads : Drafts(t))
<1>1. Inv => \A t \in Threads : Drafts(t) BY DEF Inv
<1> QED BY <1>1, Invariance, PTL

----------------------------------------
(* Deadlocks.  A request that locks in order waits for a pair after those  *)
(* it holds, so along a circle of waits the pairs would grow for ever.     *)

\* The order of lockInventoryPairs.
Before(p, q) == p[1] < q[1] \/ (p[1] = q[1] /\ p[2] < q[2])

\* The rows a transaction holds.
Held(t) == {r \in Rows : owner[r] = t}

\* The purchase has held only pairs of the lines up to its own, in order.
OrderedPurchase(x, H) ==
  /\ x.pc # "upfront"
  /\ \A i, j \in 1..Len(x.lines) : i < j => Before(x.lines[i].pair, x.lines[j].pair)
  /\ \A p \in H \cap Pairs :
       \E i \in 1..Len(x.lines) : x.lines[i].pair = p /\ (i < x.at \/ (i = x.at /\ x.pc = "change"))

\* What a transaction x that holds the rows H has locked, and in what order.
Ordered(x, H) ==
  /\ x.pc \in {"idle", "checked"} => H = {}
  /\ Empresa \in H => x.kind = "sale"
  /\ x.pc \in {"company", "code"} => x.kind = "sale"
  /\ x.pc = "header" => x.kind # "sale"
  /\ x.pc = "venta" => x.kind = "annul"
  /\ x.pc = "upfront" => /\ x.kind \in {"transfer", "movement"}
                         /\ \A p \in H \cap Pairs, q \in x.want : Before(p, q)
  /\ x.kind \in {"transfer", "movement"} =>
       \A i \in 1..Len(x.lines) : x.lines[i].pair \in x.seen =>
         x.lines[i].pair \in H \/ (x.pc = "upfront" /\ x.lines[i].pair \in x.want)
  /\ x.kind = "purchase" => OrderedPurchase(x, H)
  /\ x.pc = "change" /\ x.kind # "annul" /\ x.lines[x.at].pair \in x.seen => x.lines[x.at].pair \in H

LocksOK == \A t \in Threads : Ordered(tx[t], Held(t))

\* A pair is a pair of ids.
LEMMA PairsTyped ==
  ASSUME NEW p \in Pairs PROVE p = <<p[1], p[2]>> /\ p[1] \in Nat /\ p[2] \in Nat
<1>1. p \in Branches \X Variants BY DEF Pairs
<1>2. p = <<p[1], p[2]>> /\ p[1] \in Branches /\ p[2] \in Variants BY <1>1
<1> QED BY <1>2, ShopAssumption

\* Two pairs are ordered one way or the other, and never both.
LEMMA BeforeOrder ==
  ASSUME NEW p \in Pairs, NEW q \in Pairs, NEW r \in Pairs
  PROVE  /\ p # q => Before(p, q) \/ Before(q, p)
         /\ ~Before(p, p)
         /\ Before(p, q) /\ Before(q, r) => Before(p, r)
<1>1. /\ p = <<p[1], p[2]>> /\ p[1] \in Nat /\ p[2] \in Nat
      /\ q = <<q[1], q[2]>> /\ q[1] \in Nat /\ q[2] \in Nat
      /\ r = <<r[1], r[2]>> /\ r[1] \in Nat /\ r[2] \in Nat
  BY PairsTyped
<1> QED BY <1>1 DEF Before

\* The pairs are rows of their own.
LEMMA RowsApart ==
  /\ Pairs \subseteq Rows /\ Sales \subseteq Rows /\ Empresa \in Rows /\ Secuencia \in Rows
  /\ Empresa \notin Pairs /\ Secuencia \notin Pairs /\ Empresa # Secuencia
  /\ \A s \in Sales : s \notin Pairs /\ s # Empresa
BY ShopAssumption DEF Rows

\* A step that leaves a transaction and its rows alone leaves its locks in order.
LEMMA OrderedAlone ==
  ASSUME NEW x, NEW y, NEW H, Ordered(x, H),
         y.pc = x.pc, y.kind = x.kind, y.lines = x.lines, y.at = x.at, y.want = x.want, y.seen = x.seen
  PROVE  Ordered(y, H)
BY DEF Ordered, OrderedPurchase

\* A step of t that takes only free rows and gives back only its own.
LEMMA LocksStep ==
  ASSUME Inv, LocksOK, NEW t \in Threads, NEW x \in Tx,
         tx' = [tx EXCEPT ![t] = x],
         \A r \in Rows : owner[r] \notin {None, t} => owner'[r] = owner[r],
         \A r \in Rows : owner[r] \in {None, t} => owner'[r] \in {None, t},
         Ordered(x, Held(t)')
  PROVE  LocksOK'
<1>1. tx'[t] = x /\ \A u \in Threads \ {t} : tx'[u] = tx[u] BY DEF Inv, TypeOK
<1>2. ASSUME NEW u \in Threads, u # t PROVE Ordered(tx[u], Held(u))'
  <2>1. u # None BY ShopAssumption
  <2>2. \A r \in Rows : owner'[r] = u <=> owner[r] = u BY <1>2, <2>1
  <2>3. Held(u)' = Held(u) BY <2>2 DEF Held
  <2>4. Ordered(tx[u], Held(u)) BY DEF LocksOK
  <2>5. Ordered(tx'[u], Held(u)') BY <1>1, <1>2, <2>3, <2>4
  <2> QED BY <2>5
<1>3. Ordered(tx[t], Held(t))' BY <1>1
<1> QED BY <1>2, <1>3 DEF LocksOK

\* A thread between two requests holds nothing in any order.
LEMMA IdleOrdered == Ordered(Idle, {}) /\ \A H : Ordered(Idle, H) => H = {}
<1>1. Idle.pc = "idle" /\ Idle.kind = "sale" /\ Idle.lines = <<>> BY DEF Idle
<1> QED BY <1>1 DEF Ordered, OrderedPurchase

\* A rollback gives all back.
LEMMA AbortLocks == ASSUME Inv, LocksOK, NEW t \in Threads, Abort(t) PROVE LocksOK'
<1>1. tx' = [tx EXCEPT ![t] = Idle] /\ owner' = [r \in Rows |-> IF owner[r] = t THEN None ELSE owner[r]]
  BY DEF Abort, Release
<1>2. t # None BY ShopAssumption
<1>3. Held(t)' = {} BY <1>1, <1>2 DEF Held
<1>4. Ordered(Idle, Held(t)') BY <1>3, IdleOrdered
<1> QED BY <1>1, <1>4, IdleTyped, LocksStep

\* A request opens its transaction without a lock.
LEMMA BeginLocks ==
  ASSUME Inv, LocksOK, NEW t \in Threads, tx[t].pc \in {"idle", "checked"}, NEW kind \in Kinds,
         NEW first \in {"company", "header", "venta", "upfront", "lock"},
         NEW s \in Sales \cup {None}, NEW lines \in Seq(Line), NEW want \in SUBSET Pairs,
         Begin(t, kind, first, s, lines, want),
         first = "company" => kind = "sale", first = "header" => kind # "sale",
         first = "venta" => kind = "annul",
         first = "upfront" => kind \in {"transfer", "movement"},
         kind \in {"transfer", "movement"} =>
           first = "upfront" /\ \A i \in 1..Len(lines) : lines[i].pair \in want,
         kind = "purchase" =>
           first = "header" /\ \A i, j \in 1..Len(lines) : i < j => Before(lines[i].pair, lines[j].pair)
  PROVE  LocksOK'
<1> DEFINE x == [Idle EXCEPT !.pc = first, !.kind = kind, !.sale = s, !.lines = lines, !.want = want,
                             !.seen = rows, !.stale = tx[t].stale]
<1>1. x.pc = first /\ x.kind = kind /\ x.lines = lines /\ x.want = want /\ x.at = 1 /\ x.seen = rows
  BY DEF Idle
<1>2. x \in Tx
  <2>1. rows \in SUBSET Pairs /\ first \in PCs /\ tx[t].stale \in SUBSET Rows
    BY DEF Inv, TypeOK, PCs, Tx
  <2> QED BY <2>1, IdleTyped DEF Tx, Idle
<1>3. tx' = [tx EXCEPT ![t] = x] /\ owner' = owner BY DEF Begin
<1>4. Held(t) = {} BY DEF LocksOK, Ordered
<1>5. Held(t)' = {} BY <1>3, <1>4 DEF Held
<1> HIDE DEF x
<1>6. Ordered(x, {}) BY <1>1 DEF Ordered, OrderedPurchase
<1> QED BY <1>2, <1>3, <1>5, <1>6, LocksStep

\* The pairs of the lines of a cart.
LEMMA LinesPairs ==
  ASSUME NEW b \in Branches, NEW c \in Carts, NEW qty, NEW how
  PROVE  /\ \A i \in 1..Len(LinesOf(b, c, qty, how)) :
              /\ i \in 1..Len(c) /\ LinesOf(b, c, qty, how)[i].pair = <<b, c[i]>>
              /\ LinesOf(b, c, qty, how)[i].pair \in PairsOf(b, c)
         /\ Clean(c) => \A i, j \in 1..Len(LinesOf(b, c, qty, how)) :
              i < j => Before(LinesOf(b, c, qty, how)[i].pair, LinesOf(b, c, qty, how)[j].pair)
<1>1. c \in Seq(Variants) /\ Len(c) \in Nat BY ShopAssumption
<1>2. Len(LinesOf(b, c, qty, how)) = Len(c) BY <1>1 DEF LinesOf
<1>3. \A i \in 1..Len(c) : LinesOf(b, c, qty, how)[i].pair = <<b, c[i]>> BY DEF LinesOf
<1>4. \A i \in 1..Len(c) : <<b, c[i]>> \in PairsOf(b, c) BY DEF PairsOf
<1>5. Clean(c) => \A i, j \in 1..Len(c) : i < j => Before(<<b, c[i]>>, <<b, c[j]>>)
  BY DEF Clean, Before
<1> QED BY <1>2, <1>3, <1>4, <1>5

\* A request arrives.
LEMMA ArriveLocks == ASSUME Inv, LocksOK, NEW t \in Threads, Arrive(t) PROVE LocksOK'
<1>1. ASSUME NEW s \in Sales, NEW b \in Stores, NEW c \in Carts, SaleArrives(t, s, b, c) PROVE LocksOK'
  <2>1. b \in Branches /\ -1 \in Int /\ "by" \in {"by", "to"} BY ShopAssumption
  <2>2. LinesOf(b, c, -1, "by") \in Seq(Line) BY <2>1, LinesTyped
  <2>3. tx[t].pc = "idle" /\ Begin(t, "sale", "company", s, LinesOf(b, c, -1, "by"), {})
    BY <1>1 DEF SaleArrives
  <2> QED BY <2>2, <2>3, BeginLocks DEF Kinds
<1>2. ASSUME NEW a \in Branches, NEW b \in Branches, NEW c \in Carts, TransferArrives(t, a, b, c) PROVE LocksOK'
  <2> DEFINE exits == LinesOf(a, c, -1, "by")
             entries == LinesOf(b, c, 1, "by")
             lines == [i \in 1..2 * Len(c) |-> IF i % 2 = 1 THEN exits[(i + 1) \div 2] ELSE entries[i \div 2]]
             want == PairsOf(a, c) \cup PairsOf(b, c)
  <2>1. tx[t].pc = "idle" /\ Begin(t, "transfer", "upfront", None, lines, want)
    BY <1>2 DEF TransferArrives
  <2>2. -1 \in Int /\ 1 \in Int /\ "by" \in {"by", "to"} OBVIOUS
  <2>3. /\ exits \in Seq(Line) /\ Len(exits) = Len(c) /\ Len(c) \in Nat \ {0} /\ PairsOf(a, c) \subseteq Pairs
        /\ entries \in Seq(Line) /\ Len(entries) = Len(c) /\ PairsOf(b, c) \subseteq Pairs
    BY <2>2, LinesTyped
  <2>4. /\ \A i \in 1..Len(exits) : exits[i].pair \in want
        /\ \A i \in 1..Len(entries) : entries[i].pair \in want
    BY LinesPairs
  <2> HIDE DEF exits, entries, want
  <2>5. \A i \in 1..2 * Len(c) :
          (i % 2 = 1 => (i + 1) \div 2 \in 1..Len(c)) /\ (i % 2 # 1 => i \div 2 \in 1..Len(c))
    BY <2>3
  <2>6. \A i \in 1..Len(c) : exits[i] \in Line /\ entries[i] \in Line BY <2>3
  <2>7. ASSUME NEW i \in 1..2 * Len(c)
        PROVE  /\ (IF i % 2 = 1 THEN exits[(i + 1) \div 2] ELSE entries[i \div 2]) \in Line
               /\ (IF i % 2 = 1 THEN exits[(i + 1) \div 2] ELSE entries[i \div 2]).pair \in want
    <3>1. CASE i % 2 = 1 BY <2>3, <2>4, <2>5, <2>6, <3>1
    <3>2. CASE i % 2 # 1 BY <2>3, <2>4, <2>5, <2>6, <3>2
    <3> QED BY <3>1, <3>2
  <2>8. PICK k \in Nat \ {0} : k = 2 * Len(c) BY <2>3
  <2>9. lines \in [1..k -> Line] /\ \A i \in 1..k : lines[i].pair \in want BY <2>7, <2>8
  <2>10. want \in SUBSET Pairs BY <2>3 DEF want
  <2> HIDE DEF lines
  <2>11. lines \in Seq(Line) /\ Len(lines) = k BY <2>8, <2>9
  <2> QED BY <2>1, <2>9, <2>10, <2>11, BeginLocks DEF Kinds
<1>3. ASSUME NEW b \in Managed, NEW c \in Carts, NEW qty \in {-1, 1}, MovementArrives(t, b, c, qty) PROVE LocksOK'
  <2>1. b \in Branches /\ qty \in Int /\ "by" \in {"by", "to"} BY ShopAssumption
  <2>2. LinesOf(b, c, qty, "by") \in Seq(Line) /\ PairsOf(b, c) \in SUBSET Pairs BY <2>1, LinesTyped
  <2>3. tx[t].pc = "idle" /\ Begin(t, "movement", "upfront", None, LinesOf(b, c, qty, "by"), PairsOf(b, c))
    BY <1>3 DEF MovementArrives
  <2>4. \A i \in 1..Len(LinesOf(b, c, qty, "by")) : LinesOf(b, c, qty, "by")[i].pair \in PairsOf(b, c)
    BY <2>1, LinesPairs
  <2> QED BY <2>2, <2>3, <2>4, BeginLocks DEF Kinds
<1>4. ASSUME NEW b \in Managed, NEW c \in Carts, PurchaseArrives(t, b, c) PROVE LocksOK'
  <2>1. b \in Branches /\ 1 \in Int /\ "by" \in {"by", "to"} BY ShopAssumption
  <2>2. LinesOf(b, c, 1, "by") \in Seq(Line) BY <2>1, LinesTyped
  <2>3. tx[t].pc = "idle" /\ Clean(c) /\ Begin(t, "purchase", "header", None, LinesOf(b, c, 1, "by"), {})
    BY <1>4 DEF PurchaseArrives
  <2>4. \A i, j \in 1..Len(LinesOf(b, c, 1, "by")) :
          i < j => Before(LinesOf(b, c, 1, "by")[i].pair, LinesOf(b, c, 1, "by")[j].pair)
    BY <2>1, <2>3, LinesPairs
  <2> QED BY SMTT(20), <2>2, <2>3, <2>4, BeginLocks DEF Kinds
<1>5. ASSUME NEW b \in Managed, NEW c \in Carts, NEW n \in Counts, CountArrives(t, b, c, n) PROVE LocksOK'
  <2>1. b \in Branches /\ n \in Int /\ "to" \in {"by", "to"} BY ShopAssumption
  <2>2. LinesOf(b, c, n, "to") \in Seq(Line) BY <2>1, LinesTyped
  <2>3. tx[t].pc = "idle" /\ Begin(t, "count", "lock", None, LinesOf(b, c, n, "to"), {})
    BY <1>5 DEF CountArrives
  <2>4. "count" \in Kinds /\ None \in Sales \cup {None} /\ {} \in SUBSET Pairs BY DEF Kinds
  <2>5. PICK lines \in Seq(Line) : lines = LinesOf(b, c, n, "to") BY <2>2
  <2>6. Begin(t, "count", "lock", None, lines, {}) BY <2>3, <2>5
  <2> QED BY <2>3, <2>4, <2>6, BeginLocks
<1>6. ASSUME NEW s \in Sales, AnnulReads(t, s) PROVE LocksOK'
  <2> DEFINE x == [Idle EXCEPT !.pc = "checked", !.kind = "annul", !.sale = s]
  <2>1. tx[t].pc = "idle" /\ tx' = [tx EXCEPT ![t] = x] /\ owner' = owner BY <1>6 DEF AnnulReads
  <2>2. x \in Tx /\ x.pc = "checked" /\ x.kind = "annul" BY IdleTyped DEF Tx, Idle, PCs, Kinds
  <2>3. Held(t)' = {} BY <2>1 DEF LocksOK, Ordered, Held
  <2> HIDE DEF x
  <2>4. Ordered(x, {}) BY <2>2 DEF Ordered
  <2> QED BY <2>1, <2>2, <2>3, <2>4, LocksStep
<1>7. ASSUME NEW cash \in BOOLEAN, AnnulBegins(t, cash) PROVE LocksOK'
  <2> DEFINE s == tx[t].sale
             d == detalle[s]
             lines == [i \in 1..Len(d) |-> [d[i] EXCEPT !.qty = -d[i].qty]]
             first == IF cash THEN "header" ELSE "venta"
  <2>1. tx[t].pc = "checked" /\ Begin(t, "annul", first, s, lines, {}) BY <1>7 DEF AnnulBegins
  <2>2. s \in Sales BY <2>1 DEF Inv, Shape
  <2>3. d \in Seq(Line) BY <2>2 DEF Inv, TypeOK
  <2> HIDE DEF d
  <2>4. ASSUME NEW i \in 1..Len(d) PROVE [d[i] EXCEPT !.qty = -d[i].qty] \in Line
    <3>1. d[i] \in Line BY <2>3
    <3> QED BY <3>1 DEF Line
  <2>5. lines \in Seq(Line) BY <2>3, <2>4
  <2>6. first \in {"company", "header", "venta", "upfront", "lock"} /\ first \notin {"company", "upfront"}
    OBVIOUS
  <2> HIDE DEF lines, first, s
  <2> QED BY <2>1, <2>2, <2>5, <2>6, BeginLocks DEF Kinds
<1> QED BY <1>1, <1>2, <1>3, <1>4, <1>5, <1>6, <1>7 DEF Arrive

\* The statements that lock no pair.
LEMMA OtherLocks ==
  ASSUME Inv, LocksOK, NEW t \in Threads,
         LockCompany(t) \/ NextCode(t) \/ InsertHeader(t) \/ UpdateSale(t)
  PROVE  LocksOK'
<1>1. tx[t] \in Tx /\ Shape(tx[t]) /\ Ordered(tx[t], Held(t)) /\ owner \in [Rows -> Threads \cup {None}]
  BY DEF Inv, TypeOK, LocksOK
<1>2. CASE LockCompany(t)
  <2> DEFINE x == [tx[t] EXCEPT !.pc = "code"]
  <2>1. tx' = [tx EXCEPT ![t] = x] /\ tx[t].pc = "company" /\ owner' = [owner EXCEPT ![Empresa] = t]
    BY <1>2 DEF LockCompany, Goto, Grab
  <2>2. owner[Empresa] \in {None, t} BY <1>2, <2>1, NotBlocked DEF LockCompany
  <2>3. x \in Tx /\ x.pc = "code" /\ x.kind = tx[t].kind BY <1>1 DEF Tx, PCs
  <2> HIDE DEF x
  <2>4. x.kind = "sale" BY <1>1, <2>1, <2>3 DEF Ordered
  <2>5. Ordered(x, Held(t)') BY <2>3, <2>4 DEF Ordered
  <2> QED BY <1>1, <2>1, <2>2, <2>3, <2>5, RowsApart, LocksStep
<1>3. CASE NextCode(t)
  <2>1. CASE Abort(t) BY <2>1, AbortLocks
  <2>2. CASE ~Abort(t)
    <3> DEFINE x == [tx[t] EXCEPT !.pc = "lock", !.code = contador + 1]
    <3>1. tx' = [tx EXCEPT ![t] = x] /\ tx[t].pc = "code" /\ owner' = [owner EXCEPT ![Secuencia] = t]
      BY <1>3, <2>2 DEF NextCode, Grab
    <3>2. owner[Secuencia] \in {None, t} BY <1>3, <3>1, NotBlocked DEF NextCode
    <3>3. x \in Tx /\ x.pc = "lock" /\ x.kind = tx[t].kind
      <4>1. contador + 1 \in Nat BY DEF Inv, TypeOK
      <4> QED BY <1>1, <4>1 DEF Tx, PCs
    <3> HIDE DEF x
    <3>4. x.kind = "sale" BY <1>1, <3>1, <3>3 DEF Ordered
    <3>5. Ordered(x, Held(t)') BY <3>3, <3>4 DEF Ordered
    <3> QED BY <1>1, <3>1, <3>2, <3>3, <3>5, RowsApart, LocksStep
  <2> QED BY <2>1, <2>2
<1>4. CASE InsertHeader(t)
  <2> DEFINE pc == IF tx[t].kind = "annul" THEN "venta" ELSE "lock"
             x == [tx[t] EXCEPT !.pc = pc]
  <2>1. tx' = [tx EXCEPT ![t] = x] /\ tx[t].pc = "header" /\ owner' = owner
    BY <1>4 DEF InsertHeader, Goto
  <2>2. pc \in {"venta", "lock"} /\ (pc = "venta" => tx[t].kind = "annul") /\ pc \in PCs BY DEF PCs
  <2> HIDE DEF pc
  <2>3. x \in Tx /\ x.pc = pc /\ x.kind = tx[t].kind /\ x.lines = tx[t].lines /\ x.at = tx[t].at
        /\ x.want = tx[t].want /\ x.seen = tx[t].seen
    BY <1>1, <2>2 DEF Tx
  <2> HIDE DEF x
  <2>4. Held(t)' = Held(t) BY <2>1 DEF Held
  <2>5. Ordered(x, Held(t)) BY <1>1, <2>1, <2>2, <2>3 DEF Ordered, OrderedPurchase
  <2> QED BY <2>1, <2>3, <2>4, <2>5, LocksStep
<1>5. CASE UpdateSale(t)
  <2> DEFINE x == [tx[t] EXCEPT !.pc = "lock"]
             s == tx[t].sale
  <2>1. tx' = [tx EXCEPT ![t] = x] /\ tx[t].pc = "venta" /\ owner' = [owner EXCEPT ![s] = t]
    BY <1>5 DEF UpdateSale, Goto, Grab
  <2>2. owner[s] \in {None, t} BY <1>5, <2>1, NotBlocked DEF UpdateSale
  <2>3. x \in Tx /\ x.pc = "lock" /\ x.kind = tx[t].kind BY <1>1 DEF Tx, PCs
  <2> HIDE DEF x
  <2>4. x.kind = "annul" BY <1>1, <2>1, <2>3 DEF Ordered
  <2>5. s \in Sales BY <1>1, <2>1, <2>3, <2>4 DEF Shape
  <2> HIDE DEF s
  <2>6. Empresa \notin Held(t)' /\ s \in Rows
    <3>1. Empresa \notin Held(t) BY <1>1, <2>3, <2>4 DEF Ordered
    <3> QED BY <1>1, <2>1, <2>5, <3>1, RowsApart DEF Held
  <2>7. Ordered(x, Held(t)') BY <2>3, <2>4, <2>6 DEF Ordered
  <2> QED BY <1>1, <2>1, <2>2, <2>3, <2>6, <2>7, LocksStep
<1> QED BY <1>2, <1>3, <1>4, <1>5

\* The first pair wanted comes before all others wanted.
LEMMA FirstBefore ==
  ASSUME NEW S \in SUBSET Pairs, NEW p, IsFirst(p, S)
  PROVE  p \in S /\ \A q \in S : q # p => Before(p, q)
<1> SUFFICES ASSUME NEW q \in S, q # p PROVE Before(p, q) BY DEF IsFirst
<1>1. /\ p = <<p[1], p[2]>> /\ p[1] \in Nat /\ p[2] \in Nat
      /\ q = <<q[1], q[2]>> /\ q[1] \in Nat /\ q[2] \in Nat
  BY PairsTyped DEF IsFirst
<1>2. p[1] < q[1] \/ (p[1] = q[1] /\ p[2] <= q[2]) BY DEF IsFirst
<1> QED BY <1>1, <1>2 DEF Before

\* lockInventoryPairs up front: the next pair in order.
LEMMA UpFrontLocks ==
  ASSUME Inv, LocksOK, NEW t \in Threads, NEW p \in Pairs, LockUpFront(t, p) PROVE LocksOK'
<1>1. CASE Abort(t) BY <1>1, AbortLocks
<1>2. CASE ~Abort(t)
  <2> DEFINE pc == IF tx[t].want # {p} THEN "upfront" ELSE IF tx[t].kind = "transfer" THEN "header" ELSE "lock"
             x == [tx[t] EXCEPT !.want = @ \ {p}, !.pc = pc]
  <2>1. tx[t] \in Tx /\ Shape(tx[t]) /\ Ordered(tx[t], Held(t)) /\ owner \in [Rows -> Threads \cup {None}]
    BY DEF Inv, TypeOK, LocksOK
  <2>2. tx' = [tx EXCEPT ![t] = x] /\ tx[t].pc = "upfront" /\ IsFirst(p, tx[t].want)
        /\ owner' = IF Sees(t, p) THEN [owner EXCEPT ![p] = t] ELSE owner
    BY <1>2 DEF LockUpFront
  <2>3. Sees(t, p) => owner[p] \in {None, t} BY <1>2, <2>2, NotBlocked DEF LockUpFront
  <2>4. tx[t].kind \in {"transfer", "movement"} BY <2>1, <2>2 DEF Ordered
  <2>5. Sees(t, p) <=> p \in tx[t].seen BY <2>4 DEF Sees, Serializable
  <2>6. pc \in {"upfront", "header", "lock"} /\ (pc # "upfront" => tx[t].want = {p}) /\ pc \in PCs
    BY DEF PCs
  <2> HIDE DEF pc
  <2>7. x \in Tx /\ x.pc = pc /\ x.kind = tx[t].kind /\ x.lines = tx[t].lines /\ x.at = tx[t].at
        /\ x.want = tx[t].want \ {p} /\ x.seen = tx[t].seen /\ tx[t].want \in SUBSET Pairs
    BY <2>1, <2>6 DEF Tx
  <2> HIDE DEF x
  <2>8. p \in tx[t].want /\ \A q \in tx[t].want : q # p => Before(p, q) BY <2>2, <2>7, FirstBefore
  <2>9. p \in Rows /\ p # Empresa BY RowsApart
  <2>10. /\ Held(t)' \subseteq Held(t) \cup {p} /\ Held(t) \subseteq Held(t)'
         /\ p \in tx[t].seen => p \in Held(t)'
    BY <2>1, <2>2, <2>5, <2>9 DEF Held
  <2>11. Empresa \notin Held(t)' BY <2>1, <2>4, <2>9, <2>10 DEF Ordered
  <2>12. \A q \in Held(t)' \cap Pairs, r \in tx[t].want \ {p} : Before(q, r)
    BY <2>1, <2>2, <2>8, <2>10 DEF Ordered
  <2>13. \A i \in 1..Len(x.lines) : x.lines[i].pair \in x.seen =>
            x.lines[i].pair \in Held(t)' \/ (x.pc = "upfront" /\ x.lines[i].pair \in x.want)
    <3>1. \A i \in 1..Len(tx[t].lines) : tx[t].lines[i].pair \in tx[t].seen =>
            tx[t].lines[i].pair \in Held(t) \/ tx[t].lines[i].pair \in tx[t].want
      BY <2>1, <2>4 DEF Ordered
    <3> QED BY <2>6, <2>7, <2>10, <3>1
  <2> HIDE DEF Held
  <2>14. Ordered(x, Held(t)') BY <2>4, <2>6, <2>7, <2>11, <2>12, <2>13 DEF Ordered
  <2> QED BY <2>1, <2>2, <2>3, <2>7, <2>9, <2>14, LocksStep
<1> QED BY <1>1, <1>2

\* changeStock and setStock lock the pair of the line.
LEMMA LineLocks == ASSUME Inv, LocksOK, NEW t \in Threads, LockLine(t) PROVE LocksOK'
<1>1. CASE Abort(t) BY <1>1, AbortLocks
<1>2. CASE ~Abort(t)
  <2> DEFINE p == Pair(t)
             x == [tx[t] EXCEPT !.pc = "change", !.read = StockRead(t, p)]
  <2>1. tx[t] \in Tx /\ Shape(tx[t]) /\ Ordered(tx[t], Held(t)) /\ owner \in [Rows -> Threads \cup {None}]
        /\ tx[t].pc = "lock"
    BY DEF Inv, TypeOK, LocksOK, LockLine
  <2>2. tx[t].at \in 1..Len(tx[t].lines) /\ p \in Pairs /\ p = tx[t].lines[tx[t].at].pair
    BY <2>1, PairTyped DEF Pair
  <2>3. tx' = [tx EXCEPT ![t] = x] /\ owner' = IF Sees(t, p) THEN [owner EXCEPT ![p] = t] ELSE owner
    BY <1>2 DEF LockLine
  <2>4. Sees(t, p) => owner[p] \in {None, t} BY <1>2, <2>1, NotBlocked DEF LockLine
  <2>5. tx[t].kind # "annul" => (Sees(t, p) <=> p \in tx[t].seen) BY DEF Sees, Serializable
  <2>6. StockRead(t, p) \in Nat
    <3>1. Current(t, p) \in Nat BY <2>2, CurrentTyped DEF Inv
    <3> QED BY <3>1 DEF StockRead
  <2> HIDE DEF p
  <2>7. x \in Tx /\ x.pc = "change" /\ x.kind = tx[t].kind /\ x.lines = tx[t].lines /\ x.at = tx[t].at
        /\ x.want = tx[t].want /\ x.seen = tx[t].seen
    BY <2>1, <2>6 DEF Tx, PCs
  <2> HIDE DEF x
  <2>8. p \in Rows /\ p # Empresa BY <2>2, RowsApart
  <2>9. /\ Held(t)' \subseteq Held(t) \cup {p} /\ Held(t) \subseteq Held(t)'
        /\ tx[t].kind # "annul" /\ p \in tx[t].seen => p \in Held(t)'
    BY <2>1, <2>3, <2>5, <2>8 DEF Held
  <2> HIDE DEF Held
  <2>10. Empresa \in Held(t)' => x.kind = "sale" BY <2>1, <2>7, <2>8, <2>9 DEF Ordered
  <2>11. x.kind \in {"transfer", "movement"} =>
           \A i \in 1..Len(x.lines) : x.lines[i].pair \in x.seen => x.lines[i].pair \in Held(t)'
    BY <2>1, <2>7, <2>9 DEF Ordered
  <2>12. x.kind = "purchase" => OrderedPurchase(x, Held(t)')
    <3> SUFFICES ASSUME x.kind = "purchase" PROVE OrderedPurchase(x, Held(t)') OBVIOUS
    <3>1. OrderedPurchase(tx[t], Held(t)) BY <2>1, <2>7 DEF Ordered
    <3>2. ASSUME NEW q \in Held(t)' \cap Pairs
          PROVE  \E i \in 1..Len(x.lines) : x.lines[i].pair = q /\ (i < x.at \/ (i = x.at /\ x.pc = "change"))
      <4>1. CASE q = p BY <2>2, <2>7, <4>1
      <4>2. CASE q # p BY <2>1, <2>7, <2>9, <3>1, <3>2, <4>2 DEF OrderedPurchase
      <4> QED BY <4>1, <4>2
    <3> QED BY <2>7, <3>1, <3>2 DEF OrderedPurchase
  <2>13. x.kind # "annul" /\ x.lines[x.at].pair \in x.seen => x.lines[x.at].pair \in Held(t)'
    BY <2>2, <2>7, <2>9
  <2>14. Ordered(x, Held(t)') BY <2>7, <2>10, <2>11, <2>12, <2>13 DEF Ordered
  <2> QED BY <2>1, <2>3, <2>4, <2>7, <2>8, <2>14, LocksStep
<1> QED BY <1>1, <1>2

\* changeStock and setStock write the pair of the line.
LEMMA ChangeLocks == ASSUME Inv, LocksOK, NEW t \in Threads, ChangeLine(t) PROVE LocksOK'
<1>1. CASE Abort(t) BY <1>1, AbortLocks
<1>2. CASE ~Abort(t)
  <2> DEFINE p == Pair(t)
             move == [anterior |-> tx[t].read, posterior |-> Target(t), tipo |-> tx[t].kind, sale |-> tx[t].sale]
             pc == IF tx[t].at = Len(tx[t].lines) THEN "commit" ELSE "lock"
  <2>1. tx[t] \in Tx /\ Shape(tx[t]) /\ Ordered(tx[t], Held(t)) /\ owner \in [Rows -> Threads \cup {None}]
        /\ tx[t].pc = "change" /\ tx \in [Threads -> Tx]
    BY DEF Inv, TypeOK, LocksOK, ChangeLine
  <2>2. tx[t].at \in 1..Len(tx[t].lines) /\ p \in Pairs /\ p = tx[t].lines[tx[t].at].pair
        /\ tx[t].at \in Nat /\ Len(tx[t].lines) \in Nat
    <3>1. tx[t].lines \in Seq(Line) BY <2>1 DEF Tx
    <3>2. Len(tx[t].lines) \in Nat BY <3>1
    <3> QED BY <2>1, <3>2, PairTyped DEF Pair
  <2>3. ~(Target(t) < 0) /\ WriteLine(t) BY <1>2 DEF ChangeLine
  <2>4. Target(t) \in Int
    <3>1. tx[t].read \in Nat /\ tx[t].lines[tx[t].at].qty \in Int BY <2>1, PairTyped DEF Tx, Line
    <3> QED BY <3>1 DEF Target
  <2>5. owner[p] \in {None, t} /\ owner' = [owner EXCEPT ![p] = t]
    BY <1>2, <2>1, <2>3, <2>4, NotBlocked DEF ChangeLine, WriteLine, Grab
  <2>6. tx' = [tx EXCEPT ![t].pc = pc, ![t].at = @ + 1, ![t].read = 0, ![t].wrote = @ \cup {p},
                         ![t].moves[p] = IF Moves(t) THEN Append(@, move) ELSE @]
    BY <2>3 DEF WriteLine
  <2>7. pc \in {"commit", "lock"} OBVIOUS
  <2> HIDE DEF p, move, pc
  <2>8. PICK x : x = tx'[t] OBVIOUS
  <2>9. x.pc = pc /\ x.kind = tx[t].kind /\ x.lines = tx[t].lines /\ x.at = tx[t].at + 1
        /\ x.want = tx[t].want /\ x.seen = tx[t].seen
    BY <2>1, <2>6, <2>8 DEF Tx
  <2>10. tx' = [tx EXCEPT ![t] = x] /\ x \in Tx
    <3>1. Inv' BY ChangeLineStep
    <3>2. x \in Tx BY <2>8, <3>1 DEF Inv, TypeOK
    <3>3. \A u \in Threads \ {t} : tx'[u] = tx[u] BY <2>1, <2>6
    <3>4. tx' \in [Threads -> Tx] BY <3>1 DEF Inv, TypeOK
    <3> QED BY <2>1, <2>8, <3>2, <3>3, <3>4
  <2>11. p \in Rows /\ p # Empresa BY <2>2, RowsApart
  <2>12. Held(t)' = Held(t) \cup {p} BY <2>1, <2>5, <2>11 DEF Held
  <2>13. PICK H : H = Held(t) OBVIOUS
  <2>14. PICK G : G = Held(t)' OBVIOUS
  <2>15. G = H \cup {p} /\ Ordered(tx[t], H) BY <2>1, <2>12, <2>13, <2>14
  <2>16. x.kind = "purchase" => OrderedPurchase(x, G)
    <3> SUFFICES ASSUME x.kind = "purchase" PROVE OrderedPurchase(x, G) OBVIOUS
    <3>1. OrderedPurchase(tx[t], H) BY <2>9, <2>15 DEF Ordered
    <3>2. ASSUME NEW q \in G \cap Pairs
          PROVE  \E i \in 1..Len(x.lines) : x.lines[i].pair = q /\ (i < x.at \/ (i = x.at /\ x.pc = "change"))
      <4>1. CASE q = p BY <2>2, <2>9, <4>1
      <4>2. CASE q # p
        <5>1. PICK i \in 1..Len(tx[t].lines) :
                tx[t].lines[i].pair = q /\ (i < tx[t].at \/ (i = tx[t].at /\ tx[t].pc = "change"))
          BY <2>15, <3>1, <3>2, <4>2 DEF OrderedPurchase
        <5>2. i < x.at BY <2>2, <2>9, <5>1
        <5> QED BY <2>9, <5>1, <5>2
      <4> QED BY <4>1, <4>2
    <3> QED BY <2>7, <2>9, <3>1, <3>2 DEF OrderedPurchase
  <2>17. Empresa \in G => x.kind = "sale" BY <2>9, <2>11, <2>15 DEF Ordered
  <2>18. x.kind \in {"transfer", "movement"} =>
           \A i \in 1..Len(x.lines) : x.lines[i].pair \in x.seen => x.lines[i].pair \in G
    BY <2>1, <2>9, <2>15 DEF Ordered
  <2>19. Ordered(x, G) BY <2>7, <2>9, <2>16, <2>17, <2>18 DEF Ordered
  <2> QED BY <2>1, <2>5, <2>10, <2>11, <2>14, <2>19, LocksStep
<1> QED BY <1>1, <1>2

\* The commit gives all back, and the others keep theirs.
LEMMA CommitLocks == ASSUME Inv, LocksOK, NEW t \in Threads, Commit(t) PROVE LocksOK'
<1>1. owner' = [r \in Rows |-> IF owner[r] = t THEN None ELSE owner[r]] BY DEF Commit, Release
<1>2. t # None BY ShopAssumption
<1>3. ASSUME NEW u \in Threads, u # t PROVE Ordered(tx[u], Held(u))'
  <2> DEFINE news == Outdated(t, u)
  <2>1. tx'[u] = [tx[u] EXCEPT !.stale = @ \cup news] BY <1>3 DEF Commit
  <2>2. tx[u] \in Tx /\ Ordered(tx[u], Held(u)) /\ u # None
    BY ShopAssumption DEF Inv, TypeOK, LocksOK
  <2> HIDE DEF news
  <2>3. PICK y : y = tx'[u] OBVIOUS
  <2>4. y.pc = tx[u].pc /\ y.kind = tx[u].kind /\ y.lines = tx[u].lines /\ y.at = tx[u].at
        /\ y.want = tx[u].want /\ y.seen = tx[u].seen
    BY <2>1, <2>2, <2>3 DEF Tx
  <2>5. Held(u)' = Held(u) BY <1>1, <1>3, <2>2 DEF Held
  <2>6. Ordered(y, Held(u)') BY <2>2, <2>4, <2>5, OrderedAlone
  <2> QED BY <2>3, <2>6
<1>4. Ordered(tx[t], Held(t))'
  <2>1. tx'[t] = Idle BY DEF Commit
  <2>2. Held(t)' = {} BY <1>1, <1>2 DEF Held
  <2> QED BY <2>1, <2>2, IdleOrdered
<1> QED BY <1>3, <1>4 DEF LocksOK

\* Every step keeps the order of the locks.
LEMMA NextLocks == Inv /\ LocksOK /\ [Next]_vars => LocksOK'
<1> SUFFICES ASSUME Inv, LocksOK, [Next]_vars PROVE LocksOK' OBVIOUS
<1>1. CASE UNCHANGED vars BY <1>1 DEF vars, LocksOK, Held
<1>2. ASSUME NEW t \in Threads, Arrive(t) PROVE LocksOK' BY <1>2, ArriveLocks
<1>3. ASSUME NEW t \in Threads, Advance(t) PROVE LocksOK'
  BY <1>3, OtherLocks, UpFrontLocks, LineLocks, ChangeLocks, CommitLocks DEF Advance
<1>4. ASSUME NEW t \in Threads, Victim(t) \/ Rollback(t) PROVE LocksOK'
  BY <1>4, AbortLocks DEF Victim, Rollback
<1> QED BY <1>1, <1>2, <1>3, <1>4 DEF Next

\* The locks are in order at first.
LEMMA InitLocks == Init => LocksOK
<1> SUFFICES ASSUME Init, NEW t \in Threads PROVE Ordered(tx[t], Held(t)) BY DEF LocksOK
<1>1. tx[t] = Idle /\ Held(t) = {} BY ShopAssumption DEF Init, Held
<1> QED BY <1>1, IdleOrdered

\* A request always knows what it has locked, and in what order.
THEOREM LocksAreOrdered == Spec => []LocksOK
<1>1. Inv /\ LocksOK /\ [Next]_vars => (Inv /\ LocksOK)' BY NextInv, NextLocks
<1>2. Init => Inv /\ LocksOK BY InitInv, InitLocks
<1>3. Spec => [](Inv /\ LocksOK) BY <1>1, <1>2, PTL DEF Spec
<1> QED BY <1>3, PTL

----------------------------------------

\* The pair that a request in a circle waits for.
Wants(t, p) ==
  \/ tx[t].pc = "upfront" /\ p \in tx[t].want /\ \A q \in tx[t].want : q # p => Before(p, q)
  \/ tx[t].pc = "lock" /\ tx[t].kind = "purchase" /\ p = Pair(t)

\* In a finite set, a relation that is transitive and irreflexive has an end.
LEMMA SomeLast ==
  ASSUME NEW D, IsFiniteSet(D), D # {}, NEW n \in [D -> Pairs]
  PROVE  \E t \in D : \A u \in D : ~Before(n[t], n[u])
<1> DEFINE Up(t) == {u \in D : Before(n[t], n[u])}
           T == {Up(t) : t \in D}
           R == StrictSubsetOrdering(D)
           F == FiniteSubsetsOf(D)
<1>1. IsWellFoundedOn(R, F) BY FS_StrictSubsetOrderingWellFounded
<1>2. T \subseteq F /\ T # {}
  <2>1. ASSUME NEW t \in D PROVE Up(t) \in F
    <3>1. Up(t) \in SUBSET D OBVIOUS
    <3>2. IsFiniteSet(Up(t))
      <4> HIDE DEF Up
      <4> QED BY <3>1, FS_Subset
    <3> QED BY <3>1, <3>2 DEF FiniteSubsetsOf
  <2>2. PICK t \in D : TRUE OBVIOUS
  <2>3. Up(t) \in T OBVIOUS
  <2>4. T \subseteq F BY <2>1
  <2> QED BY <2>3, <2>4
<1>3. \E S \in T : \A Q \in T : <<Q, S>> \notin R
  <2> HIDE DEF R, F, T
  <2> QED BY <1>1, <1>2, WFMin
<1>4. PICK t \in D : \A u \in D : <<Up(u), Up(t)>> \notin R BY <1>3
<1>5. ASSUME NEW u \in D, Before(n[t], n[u]) PROVE FALSE
  <2>1. n[t] \in Pairs /\ n[u] \in Pairs OBVIOUS
  <2>2. Up(u) \subseteq Up(t)
    <3> SUFFICES ASSUME NEW v \in D, Before(n[u], n[v]) PROVE Before(n[t], n[v]) OBVIOUS
    <3>1. n[v] \in Pairs OBVIOUS
    <3> QED BY <1>5, <2>1, <3>1, BeforeOrder
  <2>3. u \in Up(t) /\ u \notin Up(u) BY <1>5, <2>1, BeforeOrder
  <2>4. <<Up(u), Up(t)>> \in R
    <3>1. Up(u) \subseteq D /\ Up(t) \subseteq D /\ Up(u) # Up(t) BY <2>3
    <3> HIDE DEF Up
    <3> QED BY <2>2, <3>1 DEF StrictSubsetOrdering
  <2> QED BY <1>4, <2>4
<1> QED BY <1>5

\* A request of a circle of sorted lockers waits for a pair in its order that
\* another one holds.
LEMMA WaitsInOrder ==
  ASSUME Inv, LocksOK, NEW t \in Threads, NEW u \in Threads, u \in Blockers(t),
         tx[t].kind \in {"transfer", "movement", "purchase"}, tx[u].kind # "sale",
         ~(tx[t].pc = "change" /\ ~Sees(t, Pair(t)))
  PROVE  \E p \in Pairs : Wants(t, p) /\ owner[p] = u
<1> DEFINE holders(S) == {owner[r] : r \in S} \ {t, None}
           locks(S)   == {p \in S : Sees(t, p) /\ ~Stale(t, p)}
<1>1. /\ tx[t] \in Tx /\ Shape(tx[t]) /\ Ordered(tx[t], Held(t)) /\ Ordered(tx[u], Held(u))
  BY DEF Inv, TypeOK, LocksOK
<1>2. \A p : Sees(t, p) <=> p \in tx[t].seen BY DEF Sees, Serializable
<1>3. tx[t].pc \notin {"company", "code", "venta"} BY <1>1 DEF Ordered
<1>4. owner[Empresa] # u BY <1>1, RowsApart DEF Ordered, Held
<1>5. ASSUME NEW S, u \in holders(S) PROVE u # t /\ \E r \in S : owner[r] = u BY <1>5
<1>6. CASE tx[t].pc = "header"
  <2>1. Blockers(t) = holders({Empresa}) BY <1>6 DEF Blockers
  <2> HIDE DEF holders
  <2> QED BY <1>4, <1>5, <2>1
<1>7. CASE tx[t].pc = "upfront"
  <2>1. Blockers(t) = holders(locks({p \in tx[t].want : IsFirst(p, tx[t].want)}))
    BY <1>7 DEF Blockers
  <2> HIDE DEF holders
  <2>2. PICK p \in locks({q \in tx[t].want : IsFirst(q, tx[t].want)}) : owner[p] = u BY <1>5, <2>1
  <2>3. p \in tx[t].want /\ IsFirst(p, tx[t].want) /\ tx[t].want \in SUBSET Pairs
    BY <1>1, <2>2 DEF Tx
  <2>4. Wants(t, p) BY <1>7, <2>3, FirstBefore DEF Wants
  <2> QED BY <2>2, <2>3, <2>4
<1>8. CASE tx[t].pc = "lock"
  <2>1. Blockers(t) = holders(locks({Pair(t)})) BY <1>8 DEF Blockers
  <2> HIDE DEF holders
  <2>2. u # t /\ \E r \in locks({Pair(t)}) : owner[r] = u BY <1>5, <2>1
  <2>3. Sees(t, Pair(t)) /\ owner[Pair(t)] = u BY <2>2
  <2>4. tx[t].at \in 1..Len(tx[t].lines) /\ Pair(t) \in Pairs /\ Pair(t) = tx[t].lines[tx[t].at].pair
    BY <1>1, <1>8, PairTyped DEF Pair
  <2>5. Pair(t) \notin Held(t) BY <2>2, <2>3 DEF Held
  <2>6. tx[t].kind \notin {"transfer", "movement"} BY <1>1, <1>2, <1>8, <2>3, <2>4, <2>5 DEF Ordered
  <2>7. Wants(t, Pair(t)) BY <1>8, <2>6 DEF Wants
  <2> QED BY <2>3, <2>4, <2>7
<1>9. CASE tx[t].pc = "change"
  <2> DEFINE S == {r \in {Pair(t)} : Target(t) >= 0} \cup {r \in {Empresa} : Inserts(t)}
  <2>1. Blockers(t) = holders(S) BY <1>9 DEF Blockers
  <2> HIDE DEF holders
  <2>2. u # t /\ \E r \in S : owner[r] = u BY <1>5, <2>1
  <2>3. owner[Pair(t)] = u BY <1>4, <2>2
  <2>4. Pair(t) \in tx[t].seen BY <1>2, <1>9
  <2>5. Pair(t) \in Held(t) BY <1>1, <1>9, <2>4 DEF Ordered, Pair
  <2> QED BY <2>2, <2>3, <2>5 DEF Held
<1>10. CASE tx[t].pc \notin {"company", "code", "header", "venta", "upfront", "lock", "change"}
  BY <1>10 DEF Blockers
<1> QED BY <1>3, <1>6, <1>7, <1>8, <1>9, <1>10

\* What a request holds comes before what it waits for.
LEMMA HeldComesFirst ==
  ASSUME Inv, LocksOK, NEW u \in Threads, NEW p \in Pairs, NEW q \in Pairs, owner[p] = u, Wants(u, q)
  PROVE  Before(p, q)
<1>1. tx[u] \in Tx /\ Shape(tx[u]) /\ Ordered(tx[u], Held(u)) /\ p \in Held(u) \cap Pairs
  BY RowsApart DEF Inv, TypeOK, LocksOK, Held
<1>2. CASE tx[u].pc = "upfront" /\ q \in tx[u].want BY <1>1, <1>2 DEF Ordered
<1>3. CASE tx[u].pc = "lock" /\ tx[u].kind = "purchase" /\ q = Pair(u)
  <2>1. tx[u].at \in 1..Len(tx[u].lines) /\ q = tx[u].lines[tx[u].at].pair
    BY <1>1, <1>3, PairTyped DEF Pair
  <2>2. OrderedPurchase(tx[u], Held(u)) BY <1>1, <1>3 DEF Ordered
  <2>3. PICK i \in 1..Len(tx[u].lines) : tx[u].lines[i].pair = p /\ i < tx[u].at
    BY <1>1, <1>3, <2>2 DEF OrderedPurchase
  <2> QED BY <2>1, <2>2, <2>3 DEF OrderedPurchase
<1> QED BY <1>2, <1>3 DEF Wants

\* The invariants leave no circle of sorted lockers.
LEMMA NoCircle == Inv /\ LocksOK => SortedLockersNeverDeadlock
<1> SUFFICES ASSUME Inv, LocksOK, NEW D \in SUBSET Threads, Deadlocked(D),
                    \A t \in D : /\ tx[t].kind \notin {"sale", "annul", "count"}
                                 /\ ~(tx[t].pc = "change" /\ ~Sees(t, Pair(t)))
             PROVE  FALSE
  BY DEF SortedLockersNeverDeadlock
<1> DEFINE W(t, p) == Wants(t, p) /\ owner[p] \in D
           n == [t \in D |-> CHOOSE p \in Pairs : W(t, p)]
<1>1. D # {} /\ IsFiniteSet(D) BY ShopAssumption, FS_Subset DEF Deadlocked
<1>2. ASSUME NEW t \in D PROVE \E p \in Pairs : W(t, p)
  <2>1. PICK u \in D : u \in Blockers(t) BY DEF Deadlocked
  <2>2. tx[t].kind \in {"transfer", "movement", "purchase"} /\ tx[u].kind # "sale"
    BY DEF Inv, TypeOK, Tx, Kinds
  <2>3. \E p \in Pairs : Wants(t, p) /\ owner[p] = u BY <2>1, <2>2, WaitsInOrder
  <2> QED BY <2>3
<1>3. \A t \in D : n[t] \in Pairs /\ W(t, n[t])
  <2> SUFFICES ASSUME NEW t \in D PROVE n[t] \in Pairs /\ W(t, n[t]) OBVIOUS
  <2>1. n[t] = CHOOSE p \in Pairs : W(t, p) OBVIOUS
  <2> HIDE DEF n, W
  <2> QED BY <1>2, <2>1
<1>4. n \in [D -> Pairs] BY <1>3
<1> HIDE DEF n
<1>5. PICK t \in D : \A u \in D : ~Before(n[t], n[u]) BY <1>1, <1>4, SomeLast
<1>6. PICK u \in D : u = owner[n[t]] BY <1>3
<1>7. Before(n[t], n[u]) BY <1>3, <1>6, HeldComesFirst
<1> QED BY <1>5, <1>7

\* Transfers, manual movements and purchases never wait for each other in a
\* circle over rows that exist: lockInventoryPairs and cleanItems sort them.
THEOREM SortedLockersProceed == Spec => []SortedLockersNeverDeadlock
<1>1. Inv /\ LocksOK /\ [Next]_vars => (Inv /\ LocksOK)' BY NextInv, NextLocks
<1>2. Init => Inv /\ LocksOK BY InitInv, InitLocks
<1>3. Spec => [](Inv /\ LocksOK) BY <1>1, <1>2, PTL DEF Spec
<1> QED BY <1>3, NoCircle, PTL

----------------------------------------
(* Codes.  From NextCode to its commit a sale holds the row of the         *)
(* sequence, so nobody takes the code it has taken, nor sells its          *)
(* requestId.                                                              *)

Sold_ == {s \in Sales : venta[s] # "none"}

\* A sale that has its code.
Coded(x) == x.kind = "sale" /\ x.pc \in {"lock", "change", "commit"}

CodesOK ==
  /\ IsFiniteSet(Sold_) /\ CodesConsecutive
  /\ \A t \in Threads : Coded(tx[t]) =>
       owner[Secuencia] = t /\ tx[t].code = contador + 1 /\ venta[tx[t].sale] = "none"

\* A step of t that commits nothing, keeps the row of the sequence if it had it,
\* and codes no sale but with the next code.
LEMMA CodesStep ==
  ASSUME Inv, CodesOK, NEW t \in Threads, UNCHANGED committed,
         owner[Secuencia] \notin {None, t} => owner'[Secuencia] = owner[Secuencia],
         \A u \in Threads \ {t} : tx'[u] = tx[u],
         Coded(tx'[t]) => owner'[Secuencia] = t /\ tx'[t].code = contador + 1 /\ venta[tx'[t].sale] = "none"
  PROVE  CodesOK'
<1>1. IsFiniteSet(Sold_)' /\ CodesConsecutive' BY DEF CodesOK, Sold_, CodesConsecutive, committed
<1>2. ASSUME NEW u \in Threads, Coded(tx'[u])
      PROVE  owner'[Secuencia] = u /\ tx'[u].code = contador' + 1 /\ venta'[tx'[u].sale] = "none"
  <2>1. u # None BY ShopAssumption
  <2>2. CASE u = t BY <1>2, <2>2 DEF committed
  <2>3. CASE u # t
    <3>1. tx'[u] = tx[u] BY <2>3
    <3> QED BY <1>2, <2>1, <2>3, <3>1 DEF CodesOK, committed
  <2> QED BY <2>2, <2>3
<1> QED BY <1>1, <1>2 DEF CodesOK, Coded

\* A rollback takes no code.
LEMMA AbortCodes == ASSUME Inv, CodesOK, NEW t \in Threads, Abort(t) PROVE CodesOK'
<1>1. tx'[t] = Idle /\ \A u \in Threads \ {t} : tx'[u] = tx[u] BY DEF Abort, Inv, TypeOK
<1>2. ~Coded(Idle) BY DEF Coded, Idle
<1>3. owner[Secuencia] # t => owner'[Secuencia] = owner[Secuencia] BY RowsApart DEF Abort, Release
<1> QED BY <1>1, <1>2, <1>3, CodesStep DEF Abort

\* Nor does a request that arrives.
LEMMA ArriveCodes == ASSUME Inv, CodesOK, NEW t \in Threads, Arrive(t) PROVE CodesOK'
<1>1. ASSUME NEW kind, NEW first, NEW s, NEW lines, NEW want, Begin(t, kind, first, s, lines, want),
             first = "lock" => kind # "sale", first \notin {"change", "commit"}
      PROVE  CodesOK'
  <2> DEFINE x == [Idle EXCEPT !.pc = first, !.kind = kind, !.sale = s, !.lines = lines, !.want = want,
                               !.seen = rows, !.stale = tx[t].stale]
  <2>1. x.pc = first /\ x.kind = kind BY DEF Idle
  <2>2. tx' = [tx EXCEPT ![t] = x] /\ UNCHANGED <<committed, owner>> BY <1>1 DEF Begin
  <2> HIDE DEF x
  <2>3. tx'[t] = x /\ \A u \in Threads \ {t} : tx'[u] = tx[u] BY <2>2 DEF Inv, TypeOK
  <2>4. ~Coded(x) BY <1>1, <2>1 DEF Coded
  <2> QED BY <2>2, <2>3, <2>4, CodesStep
<1>2. ASSUME NEW s \in Sales, AnnulReads(t, s) PROVE CodesOK'
  <2> DEFINE x == [Idle EXCEPT !.pc = "checked", !.kind = "annul", !.sale = s]
  <2>1. x.pc = "checked" BY DEF Idle
  <2>2. tx' = [tx EXCEPT ![t] = x] /\ UNCHANGED <<committed, owner>> BY <1>2 DEF AnnulReads
  <2> HIDE DEF x
  <2>3. tx'[t] = x /\ \A u \in Threads \ {t} : tx'[u] = tx[u] BY <2>2 DEF Inv, TypeOK
  <2>4. ~Coded(x) BY <2>1 DEF Coded
  <2> QED BY <2>2, <2>3, <2>4, CodesStep
<1>3. ASSUME NEW s \in Sales, NEW b \in Stores, NEW c \in Carts, SaleArrives(t, s, b, c) PROVE CodesOK'
  BY <1>1, <1>3 DEF SaleArrives
<1>4. ASSUME NEW a \in Branches, NEW b \in Branches, NEW c \in Carts, TransferArrives(t, a, b, c) PROVE CodesOK'
  BY <1>1, <1>4 DEF TransferArrives
<1>5. ASSUME NEW b \in Managed, NEW c \in Carts, NEW qty, MovementArrives(t, b, c, qty) PROVE CodesOK'
  BY <1>1, <1>5 DEF MovementArrives
<1>6. ASSUME NEW b \in Managed, NEW c \in Carts, PurchaseArrives(t, b, c) PROVE CodesOK'
  BY <1>1, <1>6 DEF PurchaseArrives
<1>7. ASSUME NEW b \in Managed, NEW c \in Carts, NEW n, CountArrives(t, b, c, n) PROVE CodesOK'
  BY <1>1, <1>7 DEF CountArrives
<1>8. ASSUME NEW cash \in BOOLEAN, AnnulBegins(t, cash) PROVE CodesOK'
  <2>1. (IF cash THEN "header" ELSE "venta") \notin {"lock", "change", "commit"} OBVIOUS
  <2> QED BY <1>1, <1>8, <2>1 DEF AnnulBegins
<1> QED BY <1>2, <1>3, <1>4, <1>5, <1>6, <1>7, <1>8 DEF Arrive

\* The statements: only generateInternalSaleCode codes a sale.
LEMMA StatementCodes ==
  ASSUME Inv, LocksOK, CodesOK, NEW t \in Threads,
         \/ LockCompany(t) \/ NextCode(t) \/ InsertHeader(t) \/ UpdateSale(t)
         \/ (\E p \in Pairs : LockUpFront(t, p)) \/ LockLine(t) \/ ChangeLine(t)
  PROVE  CodesOK'
<1>1. CASE Abort(t) BY <1>1, AbortCodes
<1>2. CASE ~Abort(t)
  <2>1. tx[t] \in Tx /\ Shape(tx[t]) /\ Ordered(tx[t], Held(t)) /\ tx \in [Threads -> Tx]
        /\ owner \in [Rows -> Threads \cup {None}]
    BY DEF Inv, TypeOK, LocksOK
  <2>2. Coded(tx[t]) =>
          owner[Secuencia] = t /\ tx[t].code = contador + 1 /\ venta[tx[t].sale] = "none"
    BY DEF CodesOK
  <2>3. CASE LockCompany(t)
    <3>1. /\ tx' = [tx EXCEPT ![t].pc = "code"] /\ UNCHANGED committed
          /\ owner'[Secuencia] = owner[Secuencia]
      BY <2>1, <2>3, RowsApart DEF LockCompany, Goto, Grab
    <3>2. tx'[t].pc = "code" BY <2>1, <3>1 DEF Tx
    <3> QED BY <2>1, <3>1, <3>2, CodesStep DEF Coded
  <2>4. CASE NextCode(t)
    <3>1. /\ tx[t].pc = "code" /\ venta[tx[t].sale] = "none" /\ UNCHANGED committed
          /\ tx' = [tx EXCEPT ![t].pc = "lock", ![t].code = contador + 1]
          /\ owner' = [owner EXCEPT ![Secuencia] = t]
      BY <1>2, <2>4 DEF NextCode, Grab
    <3>2. owner[Secuencia] \in {None, t} BY <2>4, <3>1, NotBlocked DEF NextCode
    <3>3. tx'[t].code = contador + 1 /\ tx'[t].sale = tx[t].sale /\ owner'[Secuencia] = t
      BY <2>1, <3>1, RowsApart DEF Tx
    <3> QED BY <2>1, <3>1, <3>2, <3>3, CodesStep
  <2>5. CASE InsertHeader(t)
    <3>1. /\ tx[t].pc = "header" /\ UNCHANGED <<committed, owner>>
          /\ tx' = [tx EXCEPT ![t].pc = IF tx[t].kind = "annul" THEN "venta" ELSE "lock"]
      BY <2>5 DEF InsertHeader, Goto
    <3>2. tx[t].kind # "sale" BY <2>1, <3>1 DEF Ordered
    <3>3. tx'[t].kind = tx[t].kind BY <2>1, <3>1 DEF Tx
    <3> QED BY <2>1, <3>1, <3>2, <3>3, CodesStep DEF Coded
  <2>6. CASE UpdateSale(t)
    <3>1. /\ tx[t].pc = "venta" /\ UNCHANGED committed
          /\ tx' = [tx EXCEPT ![t].pc = "lock"] /\ owner' = [owner EXCEPT ![tx[t].sale] = t]
      BY <2>6 DEF UpdateSale, Goto, Grab
    <3>2. tx[t].kind = "annul" /\ tx'[t].kind = tx[t].kind BY <2>1, <3>1 DEF Ordered, Tx
    <3>3. tx[t].sale \in Sales /\ tx[t].sale # Secuencia
      BY <2>1, <3>1, <3>2, ShopAssumption DEF Shape
    <3>4. owner'[Secuencia] = owner[Secuencia] BY <2>1, <3>1, <3>3, RowsApart
    <3> QED BY <2>1, <3>1, <3>2, <3>4, CodesStep DEF Coded
  <2>7. ASSUME NEW p \in Pairs, LockUpFront(t, p) PROVE CodesOK'
    <3>1. /\ tx[t].pc = "upfront" /\ UNCHANGED committed
          /\ owner' = IF Sees(t, p) THEN [owner EXCEPT ![p] = t] ELSE owner
          /\ tx' = [tx EXCEPT ![t].want = @ \ {p},
                              ![t].pc = IF tx[t].want # {p} THEN "upfront"
                                        ELSE IF tx[t].kind = "transfer" THEN "header" ELSE "lock"]
      BY <1>2, <2>7 DEF LockUpFront
    <3>2. tx[t].kind # "sale" /\ tx'[t].kind = tx[t].kind BY <2>1, <3>1 DEF Ordered, Tx
    <3>3. owner'[Secuencia] = owner[Secuencia] BY <2>1, <3>1, RowsApart
    <3> QED BY <2>1, <3>1, <3>2, <3>3, CodesStep DEF Coded
  <2>8. CASE LockLine(t)
    <3>1. /\ tx[t].pc = "lock" /\ UNCHANGED committed
          /\ owner' = IF Sees(t, Pair(t)) THEN [owner EXCEPT ![Pair(t)] = t] ELSE owner
          /\ tx' = [tx EXCEPT ![t].pc = "change", ![t].read = StockRead(t, Pair(t))]
      BY <1>2, <2>8 DEF LockLine
    <3>2. Pair(t) \in Pairs BY <2>1, <3>1, PairTyped DEF Pair
    <3>3. owner'[Secuencia] = owner[Secuencia] BY <2>1, <3>1, <3>2, RowsApart
    <3>4. tx'[t].kind = tx[t].kind /\ tx'[t].code = tx[t].code /\ tx'[t].sale = tx[t].sale
      BY <2>1, <3>1 DEF Tx
    <3> QED BY <2>1, <2>2, <3>1, <3>3, <3>4, CodesStep DEF Coded
  <2>9. CASE ChangeLine(t)
    <3>1. tx[t].pc = "change" /\ WriteLine(t) BY <1>2, <2>9 DEF ChangeLine
    <3>2. Pair(t) \in Pairs BY <2>1, <3>1, PairTyped DEF Pair
    <3>3. /\ UNCHANGED committed /\ owner' = [owner EXCEPT ![Pair(t)] = t]
          /\ \A u \in Threads \ {t} : tx'[u] = tx[u]
          /\ tx'[t].kind = tx[t].kind /\ tx'[t].code = tx[t].code /\ tx'[t].sale = tx[t].sale
      BY <2>1, <3>1 DEF WriteLine, Grab, Tx
    <3>4. owner'[Secuencia] = owner[Secuencia] BY <2>1, <3>2, <3>3, RowsApart
    <3> QED BY <2>2, <3>1, <3>3, <3>4, CodesStep DEF Coded
  <2> QED BY <2>3, <2>4, <2>5, <2>6, <2>7, <2>8, <2>9
<1> QED BY <1>1, <1>2

\* The commit of a sale takes the next code; the others none.
LEMMA CommitCodes == ASSUME Inv, CodesOK, NEW t \in Threads, Commit(t) PROVE CodesOK'
<1> DEFINE x == tx[t]
           s == x.sale
<1>1. x \in Tx /\ Shape(x) /\ x.pc = "commit" /\ venta \in [Sales -> {"none", "completada", "anulada"}]
      /\ codigo \in [Sales -> Nat] /\ contador \in Nat /\ owner \in [Rows -> Threads \cup {None}]
  BY DEF Inv, TypeOK, Commit
<1>2. owner' = [r \in Rows |-> IF owner[r] = t THEN None ELSE owner[r]] BY DEF Commit, Release
<1>3. ASSUME NEW u \in Threads, u # t
      PROVE  tx'[u].kind = tx[u].kind /\ tx'[u].pc = tx[u].pc /\ tx'[u].code = tx[u].code
             /\ tx'[u].sale = tx[u].sale
  <2> DEFINE news == Outdated(t, u)
  <2>1. tx'[u] = [tx[u] EXCEPT !.stale = @ \cup news] BY <1>3 DEF Commit
  <2>2. tx[u] \in Tx BY DEF Inv, TypeOK
  <2> HIDE DEF news
  <2> QED BY <2>1, <2>2 DEF Tx
<1>4. tx'[t] = Idle /\ ~Coded(Idle) BY DEF Commit, Coded, Idle
<1>5. CASE x.kind = "sale"
  <2>1. /\ venta' = [venta EXCEPT ![s] = "completada"] /\ codigo' = [codigo EXCEPT ![s] = x.code]
        /\ contador' = x.code
    BY <1>5 DEF Commit
  <2>2. owner[Secuencia] = t /\ x.code = contador + 1 /\ venta[s] = "none" /\ s \in Sales
    BY <1>1, <1>5 DEF CodesOK, Coded, Shape
  <2>3. Sold_' = Sold_ \cup {s} /\ s \notin Sold_ /\ Sold_ \subseteq Sales
    BY <1>1, <2>1, <2>2 DEF Sold_
  <2>4. IsFiniteSet(Sold_) /\ Cardinality(Sold_) = contador /\ {codigo[r] : r \in Sold_} = 1..contador
    BY DEF CodesOK, CodesConsecutive, Sold_
  <2>5. IsFiniteSet(Sold_') /\ Cardinality(Sold_') = contador + 1
    <3>1. PICK S : S = Sold_ OBVIOUS
    <3>2. IsFiniteSet(S \cup {s}) /\ Cardinality(S \cup {s}) = Cardinality(S) + 1
      BY <2>3, <2>4, <3>1, FS_AddElement
    <3> QED BY <2>3, <2>4, <3>1, <3>2
  <2>6. {codigo'[r] : r \in Sold_'} = 1..(contador + 1)
    <3>1. codigo'[s] = contador + 1 /\ \A r \in Sold_ : codigo'[r] = codigo[r]
      BY <1>1, <2>1, <2>2, <2>3
    <3>2. {codigo'[r] : r \in Sold_'} = {codigo[r] : r \in Sold_} \cup {contador + 1} BY <2>3, <3>1
    <3>3. 1..(contador + 1) = (1..contador) \cup {contador + 1} BY <1>1
    <3> QED BY <2>4, <3>2, <3>3
  <2>7. CodesConsecutive' BY <2>1, <2>2, <2>5, <2>6 DEF CodesConsecutive, Sold_
  <2>8. ASSUME NEW u \in Threads PROVE ~Coded(tx'[u])
    <3>1. CASE u = t BY <1>4, <3>1
    <3>2. CASE u # t
      <4>1. ~Coded(tx[u]) BY <2>2, <3>2 DEF CodesOK
      <4> QED BY <1>3, <3>2, <4>1 DEF Coded
    <3> QED BY <3>1, <3>2
  <2> QED BY <2>5, <2>7, <2>8 DEF CodesOK, Coded
<1>6. CASE x.kind # "sale"
  <2>1. contador' = contador /\ codigo' = codigo
        /\ (venta' = venta \/ (s \in Sales /\ venta[s] # "none" /\ venta' = [venta EXCEPT ![s] = "anulada"]))
    <3>1. CASE x.kind = "annul" BY <1>1, <3>1 DEF Commit, Shape
    <3>2. CASE x.kind # "annul" BY <1>6, <3>2 DEF Commit
    <3> QED BY <3>1, <3>2
  <2>2. Sold_' = Sold_ /\ \A r : (r \in Sales /\ venta[r] = "none") => venta'[r] = "none"
    BY <1>1, <2>1 DEF Sold_
  <2>3. IsFiniteSet(Sold_') /\ CodesConsecutive' BY <2>1, <2>2 DEF CodesOK, CodesConsecutive, Sold_
  <2>4. ASSUME NEW u \in Threads, Coded(tx'[u])
        PROVE  owner'[Secuencia] = u /\ tx'[u].code = contador' + 1 /\ venta'[tx'[u].sale] = "none"
    <3>1. u # t BY <1>4, <2>4
    <3>2. Coded(tx[u]) BY <1>3, <2>4, <3>1 DEF Coded
    <3>3. owner[Secuencia] = u /\ tx[u].code = contador + 1 /\ venta[tx[u].sale] = "none"
      BY <3>2 DEF CodesOK
    <3>4. tx[u].sale \in Sales BY <3>2 DEF Inv, Shape, Coded
    <3> QED BY <1>2, <1>3, <2>1, <2>2, <3>1, <3>3, <3>4, RowsApart
  <2> QED BY <2>3, <2>4 DEF CodesOK, Coded
<1> QED BY <1>5, <1>6

\* Every step keeps the codes.
LEMMA NextCodes == Inv /\ LocksOK /\ CodesOK /\ [Next]_vars => CodesOK'
<1> SUFFICES ASSUME Inv, LocksOK, CodesOK, [Next]_vars PROVE CodesOK' OBVIOUS
<1>1. CASE UNCHANGED vars BY <1>1 DEF vars, CodesOK, Coded, Sold_, CodesConsecutive
<1>2. ASSUME NEW t \in Threads, Arrive(t) PROVE CodesOK' BY <1>2, ArriveCodes
<1>3. ASSUME NEW t \in Threads, Advance(t) PROVE CodesOK'
  BY <1>3, StatementCodes, CommitCodes DEF Advance
<1>4. ASSUME NEW t \in Threads, Victim(t) \/ Rollback(t) PROVE CodesOK'
  BY <1>4, AbortCodes DEF Victim, Rollback
<1> QED BY <1>1, <1>2, <1>3, <1>4 DEF Next

\* No code at first.
LEMMA InitCodes == Init => CodesOK
<1> SUFFICES ASSUME Init PROVE CodesOK OBVIOUS
<1>1. Sold_ = {} /\ contador = 0 BY DEF Init, Sold_
<1>2. IsFiniteSet(Sold_) /\ Cardinality(Sold_) = 0 BY <1>1, FS_EmptySet
<1>3. CodesConsecutive
  <2>1. {codigo[s] : s \in Sold_} = {} /\ 1..0 = {} BY <1>1
  <2> QED BY <1>1, <1>2, <2>1 DEF CodesConsecutive, Sold_
<1>4. \A t \in Threads : ~Coded(tx[t]) BY DEF Init, Coded, Idle
<1> QED BY <1>2, <1>3, <1>4 DEF CodesOK

\* No internal code of a sale is repeated or lost, whatever is rolled back: the
\* part of TradesBalance that needs no sum.
THEOREM CodesHaveNoGaps == Spec => []CodesConsecutive
<1>1. Inv /\ LocksOK /\ CodesOK /\ [Next]_vars => (Inv /\ LocksOK /\ CodesOK)'
  BY NextInv, NextLocks, NextCodes
<1>2. Init => Inv /\ LocksOK /\ CodesOK BY InitInv, InitLocks, InitCodes
<1>3. Spec => [](Inv /\ LocksOK /\ CodesOK) BY <1>1, <1>2, PTL DEF Spec
<1>4. CodesOK => CodesConsecutive BY DEF CodesOK
<1> QED BY <1>3, <1>4, PTL

----------------------------------------
(* The counter: the requests.                                              *)

SerieKinds == {"crearSerie", "cambiarSerie"}
DeskKinds  == SerieKinds \cup QuoteKinds \cup {"venta", "cotizar"}
SaleKinds  == {"entregar", "estadoEnvio", "incidencia", "resolver", "enlace", "datosEnvio",
               "convertirVenta", "anular", "notaCredito", "notaDebito"}
Pasos      == {"idle", "escribir", "vender", "enlazar", "numerar"}

\* A request, whatever it remembers of what it read.
Peticion(D) ==
  [pc : Pasos, kind : DeskKinds \cup SaleKinds, obj : Int \cup {Ninguno},
   req : Requests \cup {Ninguno}, dato : D, vieja : BOOLEAN]
ThreadsOK == \E D : hilo \in [Atenciones -> Peticion(D)]

\* In a step the request of a thread stays, is made old, ends, or is another one.
Stays(u)     == hilo'[u] = hilo[u]
Ages(u)      == /\ hilo'[u].pc = hilo[u].pc /\ hilo'[u].kind = hilo[u].kind /\ hilo'[u].obj = hilo[u].obj
                /\ hilo'[u].req = hilo[u].req /\ hilo'[u].dato = hilo[u].dato /\ hilo'[u].vieja
Aged(t, obj) == \A u \in Atenciones \ {t} :
                  IF obj # Ninguno /\ hilo[u].obj = obj THEN Ages(u) ELSE Stays(u)
Alone(t)     == \A u \in Atenciones \ {t} : Stays(u)

\* A request that reads moves its thread only.
LEMMA ReadsStep ==
  ASSUME ThreadsOK, NEW t \in Atenciones, NEW kind \in DeskKinds \cup SaleKinds, NEW pc \in Pasos,
         NEW obj \in Int \cup {Ninguno}, NEW req \in Requests \cup {Ninguno}, NEW dato,
         Reads(t, kind, pc, obj, req, dato)
  PROVE  /\ ThreadsOK' /\ Alone(t) /\ viejas' = viejas
         /\ hilo'[t] = [pc |-> pc, kind |-> kind, obj |-> obj, req |-> req, dato |-> dato, vieja |-> FALSE]
<1>1. PICK D : hilo \in [Atenciones -> Peticion(D)] BY DEF ThreadsOK
<1>2. PICK x : x = [pc |-> pc, kind |-> kind, obj |-> obj, req |-> req, dato |-> dato, vieja |-> FALSE]
  OBVIOUS
<1>3. x \in Peticion(D \cup {dato}) BY <1>2 DEF Peticion
<1>4. hilo' = [hilo EXCEPT ![t] = x] /\ viejas' = viejas BY <1>2 DEF Reads
<1>5. Peticion(D) \subseteq Peticion(D \cup {dato}) BY DEF Peticion
<1>6. hilo' \in [Atenciones -> Peticion(D \cup {dato})] BY <1>1, <1>3, <1>4, <1>5
<1>7. hilo'[t] = x /\ Alone(t) BY <1>1, <1>4 DEF Alone, Stays
<1> QED BY <1>2, <1>4, <1>6, <1>7 DEF ThreadsOK

\* One that writes an object makes the others on it old.
LEMMA StaleStep ==
  ASSUME ThreadsOK, NEW t \in Atenciones, NEW obj \in Int \cup {Ninguno}, NEW next,
         NEW D, next \in Peticion(D), hilo' = [AsStale(t, obj) EXCEPT ![t] = next]
  PROVE  ThreadsOK' /\ Aged(t, obj) /\ hilo'[t] = next
<1>1. PICK E : hilo \in [Atenciones -> Peticion(E)] BY DEF ThreadsOK
<1>2. Peticion(D) \subseteq Peticion(D \cup E) /\ Peticion(E) \subseteq Peticion(D \cup E)
  BY DEF Peticion
<1>3. \A u \in Atenciones : [hilo[u] EXCEPT !.vieja = TRUE] \in Peticion(E) BY <1>1 DEF Peticion
<1>4. AsStale(t, obj) \in [Atenciones -> Peticion(E)] BY <1>1, <1>3 DEF AsStale
<1>5. \A u \in Atenciones \ {t} :
        hilo'[u] = IF obj # Ninguno /\ hilo[u].obj = obj THEN [hilo[u] EXCEPT !.vieja = TRUE] ELSE hilo[u]
  BY <1>4 DEF AsStale
<1>6. hilo' \in [Atenciones -> Peticion(D \cup E)] /\ hilo'[t] = next BY <1>2, <1>4
<1>7. ASSUME NEW u \in Atenciones \ {t}
      PROVE  IF obj # Ninguno /\ hilo[u].obj = obj THEN Ages(u) ELSE Stays(u)
  <2>1. hilo[u] \in Peticion(E) BY <1>1
  <2>2. CASE obj # Ninguno /\ hilo[u].obj = obj
    <3>1. PICK h \in Peticion(E) : h = hilo[u] BY <2>1
    <3>2. hilo'[u] = [h EXCEPT !.vieja = TRUE] BY <1>5, <2>2, <3>1
    <3> QED BY <2>2, <3>1, <3>2 DEF Ages, Peticion
  <2>3. CASE ~(obj # Ninguno /\ hilo[u].obj = obj) BY <1>5, <2>3 DEF Stays
  <2> QED BY <2>2, <2>3
<1> QED BY <1>6, <1>7 DEF ThreadsOK, Aged

\* An idle thread has the type of a request.
LEMMA OciosoTyped == Ocioso \in Peticion({Ninguno})
  BY DEF Ocioso, Peticion, Pasos, DeskKinds

\* A request that writes ends, makes old who read the same, and is remembered if it was old.
LEMMA WritesStep ==
  ASSUME ThreadsOK, NEW t \in Atenciones, NEW obj \in Int \cup {Ninguno}, Writes(t, obj, Ocioso)
  PROVE  /\ ThreadsOK' /\ Aged(t, obj) /\ hilo'[t] = Ocioso
         /\ viejas' = IF hilo[t].vieja THEN viejas \cup {hilo[t].kind} ELSE viejas
  BY StaleStep, OciosoTyped DEF Writes

\* One that is refused leaves the others alone.
LEMMA RefusedStep ==
  ASSUME ThreadsOK, NEW t \in Atenciones, Refused(t)
  PROVE  ThreadsOK' /\ Alone(t) /\ hilo'[t] = Ocioso /\ viejas' = viejas
<1>1. PICK D : hilo \in [Atenciones -> Peticion(D)] BY DEF ThreadsOK
<1>2. hilo' = [hilo EXCEPT ![t] = Ocioso] BY DEF Refused
<1>3. Peticion({Ninguno}) \subseteq Peticion(D \cup {Ninguno}) /\ Peticion(D) \subseteq Peticion(D \cup {Ninguno})
  BY DEF Peticion
<1>4. hilo' \in [Atenciones -> Peticion(D \cup {Ninguno})] BY <1>1, <1>2, <1>3, OciosoTyped
<1> QED BY <1>1, <1>2, <1>4 DEF ThreadsOK, Refused, Alone, Stays

\* The one of a thread that was idle until it wrote at once.
LEMMA AtOnceStep ==
  ASSUME ThreadsOK, NEW t \in Atenciones, NEW kind, AtOnce(t, kind)
  PROVE  ThreadsOK' /\ Aged(t, Venta) /\ Stays(t) /\ viejas' = viejas
<1>1. PICK D : hilo \in [Atenciones -> Peticion(D)] BY DEF ThreadsOK
<1>2. hilo' = AsStale(t, Venta) /\ viejas' = viejas BY DEF AtOnce
<1>3. hilo'[t] = hilo[t] /\ hilo[t] \in Peticion(D) BY <1>1, <1>2 DEF AsStale
<1>4. AsStale(t, Venta) = [AsStale(t, Venta) EXCEPT ![t] = hilo[t]] BY <1>1 DEF AsStale
<1>5. hilo' = [AsStale(t, Venta) EXCEPT ![t] = hilo[t]] BY <1>2, <1>4
<1>6. ThreadsOK' /\ Aged(t, Venta) BY <1>3, <1>5, StaleStep DEF Venta
<1> QED BY <1>2, <1>3, <1>6 DEF Stays
----------------------------------------
(* The counter: what a request remembers.                                  *)

SerieDatos ==
  [serie : Series, activo : BOOLEAN, principal : BOOLEAN \cup {Ninguno}, todas : BOOLEAN,
   sucursales : SUBSET Locales]
CotDatos   == [estado : {"aceptada", "rechazada", "anulada", "vencida"}]
VentasRows == [req : Requests \cup {Ninguno}, serie : Series, numero : Int, cot : Nat]

\* What a request remembers, and the object it is on, when there are n quotations.
DatoOK(h, n) ==
  /\ h.pc = "idle" => h.obj = Ninguno
  /\ h.pc = "vender" => /\ h.kind \in {"venta", "convertirCotizacion"}
                        /\ h.dato \in [serie : Series, sucursal : Locales]
  /\ h.pc = "enlazar" => h.kind = "convertirCotizacion" /\ h.dato \in [venta : Nat]
  /\ h.pc = "numerar" => h.kind = "cotizar" /\ h.obj = Lista
  /\ h.pc # "idle" =>
       /\ h.kind = "venta" => h.obj = Ninguno
       /\ h.kind \in SerieKinds => h.pc = "escribir" /\ h.obj = Catalogo /\ h.dato \in SerieDatos
       /\ h.kind \in QuoteKinds => h.obj \in 1..n
       /\ h.kind \in SaleKinds => h.pc = "escribir" /\ h.obj = Venta
       /\ h.kind = "cotizar" => h.pc = "numerar"
       /\ h.kind \in QuoteKinds /\ h.pc = "escribir" => h.dato \in CotDatos

CounterOK ==
  /\ ThreadsOK /\ DeskTypeOK
  /\ ventas \in Seq(VentasRows)
  /\ \A i \in 1..Len(ventas) : ventas[i].cot <= Len(cotizacion)
  /\ \A t \in Atenciones : DatoOK(hilo[t], Len(cotizacion))

\* A request that stays or is made old remembers the same.
LEMMA DatoStays ==
  ASSUME ThreadsOK, NEW u \in Atenciones, NEW n \in Nat, NEW m \in Nat, n <= m,
         DatoOK(hilo[u], n), Stays(u) \/ Ages(u)
  PROVE  DatoOK(hilo[u], m)'
<1>1. hilo'[u].pc = hilo[u].pc /\ hilo'[u].kind = hilo[u].kind /\ hilo'[u].obj = hilo[u].obj /\ hilo'[u].dato = hilo[u].dato
  BY DEF Stays, Ages
<1>2. 1..n \subseteq 1..m OBVIOUS
<1> QED BY <1>1, <1>2 DEF DatoOK

\* An idle thread has nothing to remember.
LEMMA OciosoRemembers == ASSUME NEW n PROVE DatoOK(Ocioso, n)
  BY DEF Ocioso, DatoOK

\* The rest of CounterOK is of the tables.
LEMMA CounterStep ==
  ASSUME CounterOK, ThreadsOK', NEW t \in Atenciones, Alone(t) \/ \E obj : Aged(t, obj),
         DatoOK(hilo[t], Len(cotizacion))', DeskTypeOK', ventas' \in Seq(VentasRows),
         Len(cotizacion) <= Len(cotizacion'), \A i \in 1..Len(ventas') : ventas'[i].cot <= Len(cotizacion')
  PROVE  CounterOK'
<1>1. Len(cotizacion) \in Nat /\ Len(cotizacion') \in Nat BY DEF CounterOK, DeskTypeOK
<1>2. \A u \in Atenciones \ {t} : Stays(u) \/ Ages(u) BY DEF Alone, Aged
<1>3. ASSUME NEW u \in Atenciones \ {t} PROVE DatoOK(hilo[u], Len(cotizacion))'
  BY <1>1, <1>2, <1>3, DatoStays DEF CounterOK
<1> QED BY <1>3 DEF CounterOK

\* A request that reads.
LEMMA CounterReads ==
  ASSUME CounterOK, NEW t \in Atenciones, NEW kind \in DeskKinds \cup SaleKinds, NEW pc \in Pasos,
         NEW obj \in Int \cup {Ninguno}, NEW req \in Requests \cup {Ninguno}, NEW dato,
         Reads(t, kind, pc, obj, req, dato), UNCHANGED deskRows, calls' \in Nat,
         DatoOK([pc |-> pc, kind |-> kind, obj |-> obj, req |-> req, dato |-> dato, vieja |-> FALSE], Len(cotizacion))
  PROVE  CounterOK'
<1>1. /\ ThreadsOK' /\ Alone(t)
      /\ hilo'[t] = [pc |-> pc, kind |-> kind, obj |-> obj, req |-> req, dato |-> dato, vieja |-> FALSE]
  BY ReadsStep DEF CounterOK
<1>2. serie' = serie /\ cotizacion' = cotizacion /\ ventas' = ventas /\ caja' = caja BY DEF deskRows
<1>3. DatoOK(hilo[t], Len(cotizacion))' BY <1>1, <1>2
<1>4. DeskTypeOK' /\ Len(cotizacion) <= Len(cotizacion') /\ ventas' \in Seq(VentasRows)
  BY <1>2 DEF CounterOK, DeskTypeOK
<1>5. \A i \in 1..Len(ventas') : ventas'[i].cot <= Len(cotizacion') BY <1>2 DEF CounterOK
<1> QED BY <1>1, <1>3, <1>4, <1>5, CounterStep

\* The rows of the series, as the requests leave them.
LEMMA NumberedSeries ==
  ASSUME serie \in [Series -> SerieRows], NEW s, serie' = Numbered(s)
  PROVE  /\ serie' \in [Series -> SerieRows]
         /\ \A o \in Series : /\ serie'[o].activo = serie[o].activo /\ serie'[o].todas = serie[o].todas
                              /\ serie'[o].sucursales = serie[o].sucursales
<1>1. ASSUME NEW o \in Series
      PROVE  /\ serie'[o] \in SerieRows
             /\ serie'[o].activo = serie[o].activo /\ serie'[o].todas = serie[o].todas
             /\ serie'[o].sucursales = serie[o].sucursales
  <2>1. PICK d \in SerieRows : d = serie[o] OBVIOUS
  <2>2. \/ serie'[o] = d \/ serie'[o] = [d EXCEPT !.provisional = @ + 1] \/ serie'[o] = [d EXCEPT !.numero = @ + 1]
    BY <2>1 DEF Numbered
  <2> QED BY <2>1, <2>2 DEF SerieRows
<1>2. serie' = [o \in Series |-> serie'[o]] BY DEF Numbered
<1> QED BY <1>1, <1>2

\* The series after one is saved: their scopes are those asked for, and nothing else moves.
LEMMA SavedSeries ==
  ASSUME serie \in [Series -> SerieRows], NEW d \in SerieDatos, NEW ok \in BOOLEAN, serie' = SavedSerie(d, ok)
  PROVE  /\ serie' \in [Series -> SerieRows]
         /\ \A o \in Series \ {d.serie} :
              /\ serie'[o].activo = serie[o].activo /\ serie'[o].todas = serie[o].todas
              /\ serie'[o].sucursales = serie[o].sucursales
         /\ /\ serie'[d.serie].activo = d.activo /\ serie'[d.serie].todas = d.todas
            /\ serie'[d.serie].sucursales = d.sucursales
<1>1. PICK others : others = [o \in Series |->
                   IF d.principal = TRUE THEN [serie[o] EXCEPT !.principal = FALSE] ELSE serie[o]]
  OBVIOUS
<1>2. ASSUME NEW o \in Series
      PROVE  /\ others[o] \in SerieRows
             /\ others[o].activo = serie[o].activo /\ others[o].todas = serie[o].todas
             /\ others[o].sucursales = serie[o].sucursales
  <2>1. PICK r \in SerieRows : r = serie[o] OBVIOUS
  <2>2. others[o] = [r EXCEPT !.principal = FALSE] \/ others[o] = r BY <1>1, <2>1
  <2> QED BY <2>1, <2>2 DEF SerieRows
<1>3. others \in [Series -> SerieRows] BY <1>1, <1>2
<1>4. PICK row : row = [others[d.serie] EXCEPT !.existe = TRUE, !.activo = d.activo,
                  !.principal = IF d.principal = Ninguno THEN @ ELSE d.principal,
                  !.todas = d.todas, !.sucursales = d.sucursales]
  OBVIOUS
<1>5. row \in SerieRows /\ row.activo = d.activo /\ row.todas = d.todas /\ row.sucursales = d.sucursales
  <2>1. d.serie \in Series /\ d.activo \in BOOLEAN /\ d.todas \in BOOLEAN /\ d.sucursales \in SUBSET Locales
        /\ d.principal \in BOOLEAN \cup {Ninguno}
    BY DEF SerieDatos
  <2>2. PICK r \in SerieRows : r = others[d.serie] BY <1>3, <2>1
  <2>3. PICK p : p = IF d.principal = Ninguno THEN r.principal ELSE d.principal OBVIOUS
  <2>4. p \in BOOLEAN BY <2>1, <2>2, <2>3 DEF SerieRows
  <2>5. row = [r EXCEPT !.existe = TRUE, !.activo = d.activo, !.principal = p, !.todas = d.todas,
                        !.sucursales = d.sucursales]
    BY <1>4, <2>2, <2>3
  <2> QED BY <2>1, <2>2, <2>4, <2>5 DEF SerieRows
<1>6. PICK all : all = [others EXCEPT ![d.serie] = row] OBVIOUS
<1>7. d.serie \in Series /\ all \in [Series -> SerieRows] BY <1>3, <1>5, <1>6 DEF SerieDatos
<1>8. serie' = Synced(all, ok) BY <1>1, <1>4, <1>6 DEF SavedSerie
<1>9. ASSUME NEW o \in Series
      PROVE  /\ serie'[o] \in SerieRows
             /\ serie'[o].activo = all[o].activo /\ serie'[o].todas = all[o].todas
             /\ serie'[o].sucursales = all[o].sucursales
  <2>1. PICK r \in SerieRows : r = all[o] BY <1>7
  <2>2. PICK b : b = (r.billing \/ (ok /\ r.existe)) OBVIOUS
  <2>3. b \in BOOLEAN BY <2>2
  <2>4. serie'[o] = [r EXCEPT !.billing = b] BY <1>8, <2>1, <2>2 DEF Synced
  <2> QED BY <2>1, <2>3, <2>4 DEF SerieRows
<1>10. serie' = [o \in Series |-> serie'[o]] BY <1>8 DEF Synced
<1>11. serie' \in [Series -> SerieRows] BY <1>9, <1>10
<1>12. \A o \in Series \ {d.serie} : all[o] = others[o] BY <1>3, <1>6
<1>13. all[d.serie] = row BY <1>3, <1>6, <1>7
<1> QED BY <1>2, <1>5, <1>7, <1>9, <1>11, <1>12, <1>13

\* The row of a quotation that is written.
LEMMA QuotationWritten ==
  ASSUME cotizacion \in Seq(CotizacionRows), NEW c \in Cots, NEW r \in CotizacionRows,
         cotizacion' = [cotizacion EXCEPT ![c] = r]
  PROVE  /\ cotizacion' \in Seq(CotizacionRows) /\ Len(cotizacion') = Len(cotizacion)
         /\ cotizacion'[c] = r /\ \A d \in Cots \ {c} : cotizacion'[d] = cotizacion[d]
  BY DEF Cots

\* The quotations are numbered from one.
LEMMA CotsAre == ASSUME cotizacion \in Seq(CotizacionRows) PROVE Cots = 1..Len(cotizacion) /\ Len(cotizacion) \in Nat
  BY DEF Cots

\* A quotation that is linked to its sale is converted, and the others stay.
LEMMA LinkRow ==
  ASSUME cotizacion \in Seq(CotizacionRows), NEW c \in Cots, NEW v \in Nat,
         cotizacion' = [cotizacion EXCEPT ![c].estado = "convertida", ![c].venta = v]
  PROVE  /\ cotizacion' \in Seq(CotizacionRows) /\ Len(cotizacion') = Len(cotizacion)
         /\ cotizacion'[c].estado = "convertida" /\ \A d \in Cots \ {c} : cotizacion'[d] = cotizacion[d]
<1>1. PICK r \in CotizacionRows : r = cotizacion[c] BY CotsAre
<1>2. PICK w : w = [r EXCEPT !.estado = "convertida", !.venta = v] OBVIOUS
<1>3. w \in CotizacionRows /\ w.estado = "convertida" BY <1>2 DEF CotizacionRows
<1>4. cotizacion' = [cotizacion EXCEPT ![c] = w] BY <1>1, <1>2, CotsAre
<1> QED BY <1>3, <1>4, QuotationWritten

\* A quotation whose state is written has it, and the others stay.
LEMMA StateRow ==
  ASSUME cotizacion \in Seq(CotizacionRows), NEW c \in Cots, NEW e, NEW p \in BOOLEAN,
         e \in {"borrador", "aceptada", "rechazada", "vencida", "convertida", "anulada"},
         cotizacion' = [cotizacion EXCEPT ![c].estado = e, ![c].pasada = p]
  PROVE  /\ cotizacion' \in Seq(CotizacionRows) /\ Len(cotizacion') = Len(cotizacion)
         /\ cotizacion'[c].estado = e /\ \A d \in Cots \ {c} : cotizacion'[d] = cotizacion[d]
<1>1. PICK r \in CotizacionRows : r = cotizacion[c] BY CotsAre
<1>2. PICK w : w = [r EXCEPT !.estado = e, !.pasada = p] OBVIOUS
<1>3. w \in CotizacionRows /\ w.estado = e BY <1>2 DEF CotizacionRows
<1>4. cotizacion' = [cotizacion EXCEPT ![c] = w] BY <1>1, <1>2, CotsAre
<1> QED BY <1>3, <1>4, QuotationWritten

\* A quotation that lapses keeps its state.
LEMMA LapsedRow ==
  ASSUME cotizacion \in Seq(CotizacionRows), NEW c \in Cots, Lapses(c)
  PROVE  /\ cotizacion' \in Seq(CotizacionRows) /\ Len(cotizacion') = Len(cotizacion)
         /\ \A d \in Cots : cotizacion'[d].estado = cotizacion[d].estado
<1>1. PICK r \in CotizacionRows : r = cotizacion[c] BY CotsAre
<1>2. PICK w : w = [r EXCEPT !.pasada = TRUE] OBVIOUS
<1>3. w \in CotizacionRows /\ w.estado = r.estado BY <1>2 DEF CotizacionRows
<1>4. cotizacion' = [cotizacion EXCEPT ![c] = w] BY <1>1, <1>2 DEF Lapses
<1>5. cotizacion'[c] = w /\ \A d \in Cots \ {c} : cotizacion'[d] = cotizacion[d]
  BY <1>3, <1>4, QuotationWritten
<1> QED BY <1>1, <1>3, <1>4, <1>5, QuotationWritten

\* A quotation that is added.
LEMMA QuotationAdded ==
  ASSUME cotizacion \in Seq(CotizacionRows), NEW r \in CotizacionRows, cotizacion' = Append(cotizacion, r)
  PROVE  /\ cotizacion' \in Seq(CotizacionRows) /\ Len(cotizacion') = Len(cotizacion) + 1
         /\ cotizacion'[Len(cotizacion) + 1] = r /\ \A d \in Cots : cotizacion'[d] = cotizacion[d]
  BY DEF Cots

\* A sale that is added.
LEMMA SaleAdded ==
  ASSUME ventas \in Seq(VentasRows), NEW r \in VentasRows, ventas' = Append(ventas, r)
  PROVE  /\ ventas' \in Seq(VentasRows) /\ Len(ventas') = Len(ventas) + 1 /\ Len(ventas) \in Nat
         /\ ventas'[Len(ventas) + 1] = r /\ \A i \in 1..Len(ventas) : ventas'[i] = ventas[i]
  OBVIOUS

\* Requests of the sale write none of the tables of the counter.
SaleReads   == \E t \in Atenciones, kind \in SaleKinds : \E dato : hilo[t].pc = "idle" /\ ReadsSale(t, kind, dato)
SaleWrites  == \E t \in Atenciones : hilo[t].kind \in SaleKinds /\ hilo[t].pc = "escribir"
                                     /\ (WritesSale(t) \/ (Refused(t) /\ UNCHANGED <<dia, deskRows>>))
SaleAtOnce  == \E t \in Atenciones : \E kind : AtOnce(t, kind)
SaleAnswers == UNCHANGED deskVars

\* A step of the sale reads it, writes it, does both at once, or is an answer.
LEMMA SaleShapes ==
  ASSUME SaleNext
  PROVE  SaleReads \/ SaleWrites \/ SaleAtOnce \/ SaleAnswers
<1>0. ASSUME NEW t \in Atenciones, NEW n \in 1..Vendidas, Dispatch(t, n)
      PROVE  SaleAtOnce
  <2>1. AtOnce(t, "entregar") \/ AtOnce(t, "despachar") BY <1>0 DEF Dispatch
  <2> QED BY <2>1 DEF SaleAtOnce, SaleKinds
<1>1. ASSUME NEW t \in Atenciones, NEW n \in 1..Vendidas, Deliver(t, n)
      PROVE  SaleReads
  BY <1>1 DEF Deliver, ReadsSale, Arrives, SaleReads, SaleKinds
<1>2. ASSUME NEW t \in Atenciones,
             \/ \E e \in {"EN_TRANSITO", "ENTREGADO"} : ShippingStatus(t, e)
             \/ Incident(t) \/ SubmitShipping(t) \/ ConvertSale(t) \/ CreateDebitNote(t)
             \/ \E i \in DOMAIN incidencias : Resolve(t, i)
             \/ \E again \in BOOLEAN : GenerateLink(t, again)
      PROVE  SaleReads
  BY <1>2 DEF ShippingStatus, Incident, SubmitShipping, ConvertSale, CreateDebitNote, Resolve, GenerateLink,
     ReadsSale, Arrives, SaleReads, SaleKinds
<1>3. ASSUME NEW t \in Atenciones, NEW m, CreateCreditNote(t, m)
      PROVE  SaleReads
  <2>1. PICK dato : ReadsSale(t, "notaCredito", dato) BY <1>3 DEF CreateCreditNote
  <2> QED BY <2>1 DEF ReadsSale, Arrives, SaleReads, SaleKinds
<1>4. ASSUME NEW t \in Atenciones, Annul(t)
      PROVE  SaleReads \/ SaleAtOnce
  BY <1>4 DEF Annul, AnnulIf, ReadsSale, Arrives, SaleReads, SaleAtOnce, SaleKinds
<1>5. ASSUME NEW t \in Atenciones,
             \/ WriteDelivery(t) \/ WriteShippingStatus(t) \/ WriteIncident(t) \/ WriteResolution(t)
             \/ WriteConversion(t) \/ WriteAnnulment(t) \/ WriteCreditNote(t) \/ WriteDebitNote(t)
      PROVE  SaleWrites
  BY <1>5 DEF WriteDelivery, WriteShippingStatus, WriteIncident, WriteResolution, WriteConversion, WriteAnnulment,
     WriteCreditNote, WriteDebitNote, Writing, SaleWrites, SaleKinds
<1>6. ASSUME NEW t \in Atenciones, WriteLink(t) \/ WriteShipping(t)
      PROVE  SaleWrites
  BY <1>6 DEF WriteLink, WriteShipping, Writing, SaleWrites, SaleKinds
<1>7. ASSUME \/ SaleAccepted \/ VoidAnswered
             \/ \E i \in DOMAIN notas : \/ \E e \in {"aceptado", "rechazado", "error_definitivo"} : NoteAnswered(i, e)
                                        \/ NoteRetried(i)
      PROVE  SaleAnswers
  BY <1>7 DEF SaleAccepted, VoidAnswered, NoteAnswered, NoteRetried, Answers, SaleAnswers
<1> QED BY <1>0, <1>1, <1>2, <1>3, <1>4, <1>5, <1>6, <1>7 DEF SaleNext

\* What a step of the sale does to the requests of everybody.
LEMMA SaleFrame ==
  ASSUME CounterOK, SaleNext
  PROVE  /\ UNCHANGED <<dia, deskRows>> /\ viejas \subseteq viejas' /\ CounterOK'
         /\ \A u \in Atenciones :
              \/ Stays(u) \/ Ages(u)
              \/ /\ hilo[u].pc = "idle" \/ (hilo[u].kind \in SaleKinds /\ hilo[u].pc = "escribir")
                 /\ hilo'[u].pc = "idle" \/ (hilo'[u].kind \in SaleKinds /\ hilo'[u].pc = "escribir")
<1> DEFINE Goal == /\ UNCHANGED <<dia, deskRows>> /\ viejas \subseteq viejas' /\ CounterOK'
         /\ \A u \in Atenciones :
              \/ Stays(u) \/ Ages(u)
              \/ /\ hilo[u].pc = "idle" \/ (hilo[u].kind \in SaleKinds /\ hilo[u].pc = "escribir")
                 /\ hilo'[u].pc = "idle" \/ (hilo'[u].kind \in SaleKinds /\ hilo'[u].pc = "escribir")
<1>a. ThreadsOK /\ DeskTypeOK /\ calls \in Nat BY DEF CounterOK, DeskTypeOK
<1>b. \A kind \in SaleKinds : kind \notin DeskKinds
  BY DEF SaleKinds, DeskKinds, SerieKinds, QuoteKinds
<1>c. Venta \in Int \cup {Ninguno} /\ Ninguno \in Requests \cup {Ninguno} /\ "escribir" \in Pasos
  BY DEF Venta, Pasos
<1>1. CASE SaleReads
  <2>1. PICK t \in Atenciones, kind \in SaleKinds : \E dato : hilo[t].pc = "idle" /\ ReadsSale(t, kind, dato)
    BY <1>1 DEF SaleReads
  <2>2. PICK dato : ReadsSale(t, kind, dato) BY <2>1
  <2>3. Reads(t, kind, "escribir", Venta, Ninguno, dato) /\ calls' = calls + 1 /\ UNCHANGED <<dia, deskRows>>
    BY <2>2 DEF ReadsSale, Arrives
  <2>4. /\ ThreadsOK' /\ Alone(t) /\ viejas' = viejas
        /\ hilo'[t] = [pc |-> "escribir", kind |-> kind, obj |-> Venta, req |-> Ninguno, dato |-> dato, vieja |-> FALSE]
    BY <1>a, <1>c, <2>3, ReadsStep
  <2>5. DatoOK([pc |-> "escribir", kind |-> kind, obj |-> Venta, req |-> Ninguno, dato |-> dato, vieja |-> FALSE],
               Len(cotizacion))
    BY <1>b DEF DatoOK, DeskKinds, SerieKinds, QuoteKinds
  <2>6. CounterOK' BY <1>a, <1>c, <2>3, <2>5, CounterReads
  <2> QED BY <2>1, <2>3, <2>4, <2>6 DEF Alone
<1>2. ASSUME NEW t \in Atenciones, ThreadsOK', UNCHANGED <<dia, deskRows>>, viejas \subseteq viejas', calls' \in Nat,
             Alone(t) \/ Aged(t, Venta),
             Stays(t) \/ (hilo'[t] = Ocioso /\ hilo[t].kind \in SaleKinds /\ hilo[t].pc = "escribir")
      PROVE  Goal
  <2>1. Len(cotizacion) \in Nat BY <1>a DEF DeskTypeOK
  <2>2. /\ DeskTypeOK' /\ Len(cotizacion') = Len(cotizacion) /\ ventas' \in Seq(VentasRows)
        /\ \A i \in 1..Len(ventas') : ventas'[i].cot <= Len(cotizacion')
    BY <1>2 DEF CounterOK, DeskTypeOK, deskRows
  <2>3. DatoOK(hilo[t], Len(cotizacion))'
    BY <1>2, <2>1, <2>2, DatoStays, OciosoRemembers DEF CounterOK
  <2>4. CounterOK' BY <1>2, <2>1, <2>2, <2>3, CounterStep
  <2> QED BY <1>2, <2>4 DEF Alone, Aged, Ocioso
<1>3. CASE SaleWrites
  <2>1. PICK t \in Atenciones : /\ hilo[t].kind \in SaleKinds /\ hilo[t].pc = "escribir"
                                /\ WritesSale(t) \/ (Refused(t) /\ UNCHANGED <<dia, deskRows>>)
    BY <1>3 DEF SaleWrites
  <2>2. CASE WritesSale(t)
    <3>1. Writes(t, Venta, Ocioso) /\ UNCHANGED <<dia, deskRows>> BY <2>2 DEF WritesSale
    <3>2. ThreadsOK' /\ Aged(t, Venta) /\ hilo'[t] = Ocioso /\ viejas \subseteq viejas'
      BY <1>a, <1>c, <3>1, WritesStep
    <3>3. calls' \in Nat BY <1>a, <3>1 DEF Writes
    <3> QED BY <1>2, <2>1, <3>1, <3>2, <3>3
  <2>3. CASE Refused(t) /\ UNCHANGED <<dia, deskRows>>
    <3>1. ThreadsOK' /\ Alone(t) /\ hilo'[t] = Ocioso /\ viejas \subseteq viejas'
      BY <1>a, <2>3, RefusedStep
    <3>2. calls' \in Nat BY <1>a, <2>3 DEF Refused
    <3> QED BY <1>2, <2>1, <2>3, <3>1, <3>2
  <2> QED BY <2>1, <2>2, <2>3
<1>4. CASE SaleAtOnce
  <2>1. PICK t \in Atenciones : \E kind : AtOnce(t, kind) BY <1>4 DEF SaleAtOnce
  <2>a. PICK kind : AtOnce(t, kind) BY <2>1
  <2>2. ThreadsOK' /\ Aged(t, Venta) /\ Stays(t) /\ viejas' = viejas BY <1>a, <2>a, AtOnceStep
  <2>3. UNCHANGED <<dia, deskRows>> /\ calls' \in Nat BY <1>a, <2>a DEF AtOnce, Arrives
  <2> QED BY <1>2, <2>2, <2>3
<1>5. CASE SaleAnswers
  <2>1. UNCHANGED <<dia, deskRows, hilo, viejas, calls>> BY <1>5 DEF SaleAnswers, deskVars, threads
  <2>2. CounterOK' BY <2>1 DEF CounterOK, ThreadsOK, DeskTypeOK, deskRows
  <2> QED BY <2>1, <2>2 DEF Stays
<1> QED BY <1>1, <1>3, <1>4, <1>5, SaleShapes

----------------------------------------
(* The counter: what a step does, by what it moves.                        *)

\* A change of the series is read, with branches it found free.
SerieRead ==
  \E t \in Atenciones, kind \in SerieKinds, d \in SerieDatos :
    /\ hilo[t].pc = "idle"
    /\ d.activo => ScopeAvailable(d.serie, d.todas, d.sucursales)
    /\ Reads(t, kind, "escribir", Catalogo, Ninguno, d)
    /\ calls' = calls + 1 /\ UNCHANGED <<dia, deskRows>>
\* Another request is read; a quotation it is on is not a converted one.
DeskRead ==
  \E t \in Atenciones, kind \in DeskKinds \ SerieKinds, pc \in Pasos \ {"idle"} :
    \E obj \in Int \cup {Ninguno}, req \in Requests \cup {Ninguno} : \E dato :
      /\ hilo[t].pc = "idle"
      /\ kind \in QuoteKinds => cotizacion[obj].estado # "convertida"
      /\ DatoOK([pc |-> pc, kind |-> kind, obj |-> obj, req |-> req, dato |-> dato, vieja |-> FALSE], Len(cotizacion))
      /\ Reads(t, kind, pc, obj, req, dato)
      /\ calls' = calls + 1 /\ UNCHANGED <<dia, deskRows>>
\* The requests stay where they are.
DeskStill ==
  /\ UNCHANGED <<dia, serie, ventas, cortadas, hilo, viejas>>
  /\ calls' \in Nat /\ caja' \subseteq Locales
  /\ cotizacion' = cotizacion \/ \E c \in Cots : Lapses(c)
\* One ends without writing.
DeskLeaves ==
  \E t \in Atenciones :
    /\ Refused(t) /\ UNCHANGED <<dia, serie, cotizacion, ventas, caja>>
    /\ cortadas \subseteq cortadas'
    /\ hilo[t].pc = "enlazar" => hilo[t].obj \in cortadas'
SerieWrite == \E t \in Atenciones : hilo[t].kind \in SerieKinds /\ hilo[t].pc = "escribir" /\ SavesSerie(t)
\* The sale of the request was made before, or is made.
SaleFound ==
  \E t \in Atenciones, v \in DOMAIN ventas :
    /\ hilo[t].pc = "vender" /\ hilo' = [hilo EXCEPT ![t] = AfterSale(t, v)]
    /\ UNCHANGED <<dia, deskRows, viejas, calls>>
SaleMade ==
  \E t \in Atenciones :
    /\ hilo[t].pc = "vender" /\ serie' = Numbered(hilo[t].dato.serie)
    /\ ventas' = Append(ventas, SaleRow(hilo[t]))
    /\ Writes(t, hilo[t].obj, AfterSale(t, Len(ventas) + 1))
    /\ UNCHANGED <<dia, cotizacion, caja, cortadas>>
QuoteMade ==
  \E t \in Atenciones :
    /\ hilo[t].pc = "numerar"
    /\ cotizacion' = Append(cotizacion, [req |-> hilo[t].req, estado |-> "borrador", venta |-> 0, pasada |-> FALSE])
    /\ Writes(t, Lista, Ocioso) /\ UNCHANGED <<dia, serie, ventas, caja, cortadas>>
LinkMade ==
  \E t \in Atenciones :
    /\ hilo[t].pc = "enlazar"
    /\ cotizacion' = [cotizacion EXCEPT ![hilo[t].obj].estado = "convertida", ![hilo[t].obj].venta = hilo[t].dato.venta]
    /\ Writes(t, hilo[t].obj, Ocioso) /\ UNCHANGED <<dia, serie, ventas, caja, cortadas>>
QuoteWrite == \E t \in Atenciones : WriteQuote(t)

\* A sale is checked as a request of its kind.
LEMMA SaleIsRead ==
  ASSUME CounterOK, NEW t \in Atenciones, hilo[t].pc = "idle",
         NEW kind, NEW obj, NEW r \in Requests \cup {Ninguno},
         \/ kind = "venta" /\ obj = Ninguno
         \/ kind = "convertirCotizacion" /\ obj \in Cots /\ cotizacion[obj].estado # "convertida",
         SaleChecks(t, kind, obj, r), calls' = calls + 1, UNCHANGED <<dia, deskRows>>
  PROVE  DeskRead
<1>1. PICK b \in Locales, s \in Series : Reads(t, kind, "vender", obj, r, [serie |-> s, sucursal |-> b])
  BY DEF SaleChecks, Candidates, Activas
<1>2. Cots = 1..Len(cotizacion) /\ Len(cotizacion) \in Nat BY CotsAre DEF CounterOK, DeskTypeOK
<1>3. DatoOK([pc |-> "vender", kind |-> kind, obj |-> obj, req |-> r, dato |-> [serie |-> s, sucursal |-> b],
              vieja |-> FALSE], Len(cotizacion))
  BY <1>2 DEF DatoOK, SerieKinds, SaleKinds, QuoteKinds
<1>4. kind \in DeskKinds \ SerieKinds /\ obj \in Int \cup {Ninguno} /\ "vender" \in Pasos \ {"idle"}
  BY <1>2 DEF DeskKinds, SerieKinds, QuoteKinds, Pasos
<1>5. kind \in QuoteKinds => cotizacion[obj].estado # "convertida" BY DEF QuoteKinds
<1> QED BY <1>1, <1>3, <1>4, <1>5 DEF DeskRead

\* A quotation is written or linked later, as it was read.
LEMMA QuoteIsRead ==
  ASSUME CounterOK, NEW t \in Atenciones, hilo[t].pc = "idle",
         NEW kind \in QuoteKinds, NEW c \in Cots, cotizacion[c].estado # "convertida",
         NEW pc, NEW r \in Requests \cup {Ninguno}, NEW dato,
         \/ pc = "escribir" /\ dato \in CotDatos
         \/ pc = "enlazar" /\ kind = "convertirCotizacion" /\ dato \in [venta : Nat],
         Reads(t, kind, pc, c, r, dato), calls' = calls + 1, UNCHANGED <<dia, deskRows>>
  PROVE  DeskRead
<1>1. Cots = 1..Len(cotizacion) /\ Len(cotizacion) \in Nat BY CotsAre DEF CounterOK, DeskTypeOK
<1>2. DatoOK([pc |-> pc, kind |-> kind, obj |-> c, req |-> r, dato |-> dato, vieja |-> FALSE], Len(cotizacion))
  BY <1>1 DEF DatoOK, SerieKinds, SaleKinds, QuoteKinds
<1>3. kind \in DeskKinds \ SerieKinds /\ c \in Int \cup {Ninguno} /\ pc \in Pasos \ {"idle"}
  BY <1>1 DEF DeskKinds, SerieKinds, QuoteKinds, Pasos
<1> QED BY <1>2, <1>3 DEF DeskRead

\* A scope has the type of what a series remembers.
LEMMA ScopesTyped == ASSUME NEW scope \in Scopes PROVE scope.todas \in BOOLEAN /\ scope.sucursales \in SUBSET Locales
<1>1. CASE scope \in {[todas |-> TRUE, sucursales |-> {}]}
  <2>1. scope = [todas |-> TRUE, sucursales |-> {}] BY <1>1
  <2>2. scope.todas = TRUE /\ scope.sucursales = {} BY <2>1, Zenon
  <2> QED BY <2>2
<1>2. CASE scope \in {[todas |-> FALSE, sucursales |-> S] : S \in (SUBSET Locales) \ {{}}}
  <2>1. PICK S \in SUBSET Locales : scope = [todas |-> FALSE, sucursales |-> S] BY <1>2
  <2>2. scope.todas = FALSE /\ scope.sucursales = S BY <2>1, Zenon
  <2> QED BY <2>2
<1> QED BY <1>1, <1>2 DEF Scopes

\* A step of the counter has one of these shapes.
LEMMA DeskShapes ==
  ASSUME CounterOK, DeskNext
  PROVE  \/ SerieRead \/ DeskRead \/ DeskStill \/ DeskLeaves \/ SerieWrite \/ SaleFound \/ SaleMade
         \/ QuoteMade \/ LinkMade \/ QuoteWrite
<1>a. DeskTypeOK /\ calls \in Nat /\ caja \subseteq Locales BY DEF CounterOK, DeskTypeOK
<1>b. Ninguno \notin Series BY DeskAssumption
<1>1. ASSUME NEW t \in Atenciones, NEW s \in Series, NEW scope \in Scopes, NEW p \in BOOLEAN, CreateSerie(t, s, scope, p)
      PROVE  SerieRead
  <2>1. PICK d : d = [serie |-> s, activo |-> TRUE, principal |-> p, todas |-> scope.todas, sucursales |-> scope.sucursales]
    OBVIOUS
  <2>2. d \in SerieDatos
    <3>1. scope.todas \in BOOLEAN /\ scope.sucursales \in SUBSET Locales BY ScopesTyped
    <3> QED BY <2>1, <3>1 DEF SerieDatos
  <2>3. ScopeAvailable(d.serie, d.todas, d.sucursales)
    <3>1. ScopeAvailable(Ninguno, d.todas, d.sucursales) BY <1>1, <2>1 DEF CreateSerie
    <3>2. Activas(Series \ {d.serie}) \subseteq Activas(Series \ {Ninguno}) BY <1>b DEF Activas
    <3> QED BY <3>1, <3>2 DEF ScopeAvailable
  <2>4. hilo[t].pc = "idle" /\ calls' = calls + 1 /\ UNCHANGED <<dia, deskRows>>
        /\ Reads(t, "crearSerie", "escribir", Catalogo, Ninguno, d)
    BY <1>1, <2>1 DEF CreateSerie, Arrives
  <2> QED BY <2>2, <2>3, <2>4 DEF SerieRead, SerieKinds
<1>2. ASSUME NEW t \in Atenciones, NEW s \in Series, NEW scope \in Scopes, NEW p \in BOOLEAN \cup {Ninguno},
             NEW a \in BOOLEAN, UpdateSerie(t, s, scope, p, a)
      PROVE  SerieRead
  <2>1. PICK d : d = [serie |-> s, activo |-> a, principal |-> p, todas |-> scope.todas, sucursales |-> scope.sucursales]
    OBVIOUS
  <2>2. d \in SerieDatos
    <3>1. scope.todas \in BOOLEAN /\ scope.sucursales \in SUBSET Locales BY ScopesTyped
    <3> QED BY <2>1, <3>1 DEF SerieDatos
  <2>3. d.activo => ScopeAvailable(d.serie, d.todas, d.sucursales) BY <1>2, <2>1 DEF UpdateSerie
  <2>4. hilo[t].pc = "idle" /\ calls' = calls + 1 /\ UNCHANGED <<dia, deskRows>>
        /\ Reads(t, "cambiarSerie", "escribir", Catalogo, Ninguno, d)
    BY <1>2, <2>1 DEF UpdateSerie, Arrives
  <2> QED BY <2>2, <2>3, <2>4 DEF SerieRead, SerieKinds
<1>3. ASSUME NEW t \in Atenciones, NEW r \in Requests \cup {Ninguno}, Sell(t, r)
      PROVE  DeskRead \/ DeskStill
  <2>1. hilo[t].pc = "idle" /\ calls' = calls + 1 /\ UNCHANGED <<dia, deskRows>>
    BY <1>3 DEF Sell, Arrives
  <2>2. CASE SaleOf(r) # {}
    <3>1. UNCHANGED <<hilo, viejas>> BY <1>3, <2>2 DEF Sell
    <3> QED BY <1>a, <2>1, <3>1 DEF DeskStill, deskRows
  <2>3. CASE ~(SaleOf(r) # {})
    <3>1. SaleChecks(t, "venta", Ninguno, r) BY <1>3, <2>3 DEF Sell
    <3> QED BY <2>1, <3>1, SaleIsRead
  <2> QED BY <2>2, <2>3
<1>4. ASSUME NEW t \in Atenciones, NEW r \in Requests \cup {Ninguno}, Quote(t, r)
      PROVE  DeskRead \/ DeskStill
  <2>1. hilo[t].pc = "idle" /\ calls' = calls + 1 /\ UNCHANGED <<dia, deskRows>>
    BY <1>4 DEF Quote, Arrives
  <2>2. CASE UNCHANGED <<hilo, viejas>> BY <1>a, <2>1, <2>2 DEF DeskStill, deskRows
  <2>3. CASE Reads(t, "cotizar", "numerar", Lista, r, [ultimo |-> Len(cotizacion)])
    <3>1. DatoOK([pc |-> "numerar", kind |-> "cotizar", obj |-> Lista, req |-> r,
                  dato |-> [ultimo |-> Len(cotizacion)], vieja |-> FALSE], Len(cotizacion))
      BY DEF DatoOK, SerieKinds, SaleKinds, QuoteKinds
    <3>2. "cotizar" \in DeskKinds \ SerieKinds /\ Lista \in Int \cup {Ninguno} /\ "numerar" \in Pasos \ {"idle"}
          /\ "cotizar" \notin QuoteKinds
      BY DEF DeskKinds, SerieKinds, QuoteKinds, Pasos, Lista
    <3> QED BY <2>1, <2>3, <3>1, <3>2 DEF DeskRead
  <2> QED BY <1>4, <2>2, <2>3 DEF Quote
<1>5. ASSUME NEW t \in Atenciones, NEW b \in Locales, TurnCaja(t, b)
      PROVE  DeskStill
  BY <1>5, <1>a DEF TurnCaja, Arrives, DeskStill
<1>6. ASSUME NEW t \in Atenciones, NEW c \in Cots, NEW e \in Editable, EditQuote(t, c, e)
      PROVE  DeskRead
  <2>1. hilo[t].pc = "idle" /\ calls' = calls + 1 /\ UNCHANGED <<dia, deskRows>> /\ cotizacion[c].estado # "convertida"
        /\ Reads(t, "editarCotizacion", "escribir", c, Ninguno, [estado |-> e])
    BY <1>6 DEF EditQuote, Arrives
  <2>2. [estado |-> e] \in CotDatos /\ "editarCotizacion" \in QuoteKinds
    BY DEF CotDatos, Editable, QuoteKinds
  <2> QED BY <2>1, <2>2, QuoteIsRead
<1>7. ASSUME NEW t \in Atenciones, NEW c \in Cots, AnnulQuote(t, c)
      PROVE  DeskRead
  <2>1. hilo[t].pc = "idle" /\ calls' = calls + 1 /\ UNCHANGED <<dia, deskRows>> /\ cotizacion[c].estado # "convertida"
        /\ Reads(t, "anularCotizacion", "escribir", c, Ninguno, [estado |-> "anulada"])
    BY <1>7 DEF AnnulQuote, Arrives
  <2>2. [estado |-> "anulada"] \in CotDatos /\ "anularCotizacion" \in QuoteKinds
    BY DEF CotDatos, QuoteKinds
  <2> QED BY <2>1, <2>2, QuoteIsRead
<1>8. ASSUME NEW t \in Atenciones, NEW c \in Cots, NEW r \in Requests \cup {Ninguno}, ConvertQuote(t, c, r)
      PROVE  DeskRead
  <2>1. hilo[t].pc = "idle" /\ calls' = calls + 1 /\ UNCHANGED <<dia, deskRows>> /\ cotizacion[c].estado # "convertida"
    BY <1>8 DEF ConvertQuote, ConvertQuoteIf, Arrives
  <2>2. "convertirCotizacion" \in QuoteKinds BY DEF QuoteKinds
  <2>3. \/ Reads(t, "convertirCotizacion", "escribir", c, r, [estado |-> "vencida"])
        \/ \E v \in SaleOf(r) : Reads(t, "convertirCotizacion", "enlazar", c, r, [venta |-> v])
        \/ SaleChecks(t, "convertirCotizacion", c, r)
    BY <1>8 DEF ConvertQuote, ConvertQuoteIf
  <2>4. CASE Reads(t, "convertirCotizacion", "escribir", c, r, [estado |-> "vencida"])
    <3>1. [estado |-> "vencida"] \in CotDatos BY DEF CotDatos
    <3> QED BY <2>1, <2>2, <2>4, <3>1, QuoteIsRead
  <2>5. CASE \E v \in SaleOf(r) : Reads(t, "convertirCotizacion", "enlazar", c, r, [venta |-> v])
    <3>1. PICK v \in SaleOf(r) : Reads(t, "convertirCotizacion", "enlazar", c, r, [venta |-> v])
      BY <2>5
    <3>2. v \in Nat BY <3>1 DEF SaleOf, CounterOK
    <3>3. [venta |-> v] \in [venta : Nat] BY <3>2
    <3> QED BY <2>1, <2>2, <3>1, <3>3, QuoteIsRead
  <2>6. CASE SaleChecks(t, "convertirCotizacion", c, r) BY <2>1, <2>6, SaleIsRead
  <2> QED BY <2>3, <2>4, <2>5, <2>6
<1>9. ASSUME NEW t \in Atenciones, WriteNewSerie(t) \/ WriteSerie(t)
      PROVE  DeskLeaves \/ SerieWrite
  BY <1>9 DEF WriteNewSerie, WriteSerie, DeskLeaves, SerieWrite, SerieKinds, deskRows
<1>10. ASSUME NEW t \in Atenciones, CommitSale(t)
       PROVE  DeskLeaves \/ SaleFound \/ SaleMade
  <2>1. hilo[t].pc = "vender" /\ UNCHANGED <<dia, cotizacion, caja, cortadas>>
    BY <1>10 DEF CommitSale
  <2>2. CASE NoCaja(hilo[t])
    <3>1. Refused(t) /\ UNCHANGED <<serie, ventas>> BY <1>10, <2>2 DEF CommitSale
    <3> QED BY <2>1, <3>1 DEF DeskLeaves
  <2>3. CASE ~NoCaja(hilo[t]) /\ SaleOf(hilo[t].req) # {}
    <3>1. \E v \in SaleOf(hilo[t].req) : hilo' = [hilo EXCEPT ![t] = AfterSale(t, v)] /\ UNCHANGED <<serie, ventas, viejas, calls>>
      BY <1>10, <2>3 DEF CommitSale
    <3>2. SaleOf(hilo[t].req) \subseteq DOMAIN ventas BY DEF SaleOf
    <3> QED BY <2>1, <3>1, <3>2 DEF SaleFound, deskRows
  <2>4. CASE ~NoCaja(hilo[t]) /\ ~(SaleOf(hilo[t].req) # {})
    <3>1. /\ serie' = Numbered(hilo[t].dato.serie)
          /\ ventas' = Append(ventas, SaleRow(hilo[t]))
          /\ Writes(t, hilo[t].obj, AfterSale(t, Len(ventas) + 1))
      BY <1>10, <2>4 DEF CommitSale
    <3> QED BY <2>1, <3>1 DEF SaleMade
  <2> QED BY <2>2, <2>3, <2>4
<1>11. ASSUME NEW t \in Atenciones, CommitQuote(t)
       PROVE  DeskLeaves \/ QuoteMade
  BY <1>11 DEF CommitQuote, DeskLeaves, QuoteMade
<1>12. ASSUME NEW t \in Atenciones, LinkQuote(t)
       PROVE  DeskLeaves \/ LinkMade
  BY <1>12 DEF LinkQuote, DeskLeaves, LinkMade
<1>13. ASSUME NEW t \in Atenciones, Dies(t)
       PROVE  DeskLeaves
  BY <1>13 DEF Dies, DeskLeaves
<1>14. ASSUME NEW c \in Cots, Lapses(c)
       PROVE  DeskStill
  BY <1>14, <1>a DEF Lapses, DeskStill, threads
<1>15. QED
  BY <1>1, <1>2, <1>3, <1>4, <1>5, <1>6, <1>7, <1>8, <1>9, <1>10, <1>11, <1>12, <1>13, <1>14 DEF DeskNext, QuoteWrite

\* What a request does once it has its sale: a conversion links it, another one ends.
LEMMA AfterSaleIs ==
  ASSUME CounterOK, NEW t \in Atenciones, hilo[t].pc = "vender", NEW v \in Nat
  PROVE  /\ \E D : AfterSale(t, v) \in Peticion(D)
         /\ AfterSale(t, v).vieja => hilo[t].vieja
         /\ DatoOK(AfterSale(t, v), Len(cotizacion))
         /\ \/ AfterSale(t, v) = Ocioso /\ hilo[t].kind = "venta" /\ hilo[t].obj = Ninguno
            \/ /\ hilo[t].kind = "convertirCotizacion" /\ hilo[t].obj \in 1..Len(cotizacion)
               /\ AfterSale(t, v).pc = "enlazar" /\ AfterSale(t, v).dato = [venta |-> v]
               /\ AfterSale(t, v).kind = hilo[t].kind /\ AfterSale(t, v).obj = hilo[t].obj
               /\ AfterSale(t, v).vieja = hilo[t].vieja
<1>1. PICK D : hilo \in [Atenciones -> Peticion(D)] BY DEF CounterOK, ThreadsOK
<1>2. DatoOK(hilo[t], Len(cotizacion)) BY DEF CounterOK
<1>3. hilo[t].kind \in {"venta", "convertirCotizacion"} BY <1>2 DEF DatoOK
<1>4. CASE hilo[t].kind = "venta"
  <2>1. AfterSale(t, v) = Ocioso /\ hilo[t].obj = Ninguno BY <1>2, <1>4 DEF AfterSale, DatoOK
  <2>2. Ocioso.vieja = FALSE BY DEF Ocioso
  <2> QED BY <1>4, <2>1, <2>2, OciosoTyped, OciosoRemembers
<1>5. CASE hilo[t].kind = "convertirCotizacion"
  <2>1. PICK h \in Peticion(D) : h = hilo[t] BY <1>1
  <2>2. PICK x : x = [h EXCEPT !.pc = "enlazar", !.dato = [venta |-> v]] OBVIOUS
  <2>3. AfterSale(t, v) = x BY <1>5, <2>1, <2>2 DEF AfterSale
  <2>4. PICK e : e = [venta |-> v] OBVIOUS
  <2>5. /\ x.pc = "enlazar" /\ x.dato = e /\ x.kind = h.kind /\ x.obj = h.obj /\ x.vieja = h.vieja
        /\ x \in Peticion(D \cup {e})
    BY <2>2, <2>4 DEF Peticion, Pasos
  <2>6. e \in [venta : Nat] BY <2>4
  <2>7. hilo[t].obj \in 1..Len(cotizacion) BY <1>2, <1>5 DEF DatoOK, QuoteKinds
  <2>8. DatoOK(x, Len(cotizacion))
    BY <1>5, <2>1, <2>5, <2>6, <2>7 DEF DatoOK, SerieKinds, SaleKinds, QuoteKinds
  <2> QED BY <1>5, <2>1, <2>3, <2>4, <2>5, <2>7, <2>8
<1> QED BY <1>3, <1>4, <1>5

\* A sale that is found moves its thread only; one that is made makes the others old.
LEMMA SaleFoundStep ==
  ASSUME CounterOK, NEW t \in Atenciones, NEW v \in DOMAIN ventas, hilo[t].pc = "vender",
         hilo' = [hilo EXCEPT ![t] = AfterSale(t, v)]
  PROVE  ThreadsOK' /\ Alone(t) /\ hilo'[t] = AfterSale(t, v) /\ v \in Nat
<1>1. v \in Nat BY DEF CounterOK
<1>2. PICK D : hilo \in [Atenciones -> Peticion(D)] BY DEF CounterOK, ThreadsOK
<1>3. PICK E : AfterSale(t, v) \in Peticion(E) BY <1>1, AfterSaleIs
<1>4. Peticion(D) \subseteq Peticion(D \cup E) /\ Peticion(E) \subseteq Peticion(D \cup E)
  BY DEF Peticion
<1>5. PICK x : x = AfterSale(t, v) OBVIOUS
<1>6. hilo' = [hilo EXCEPT ![t] = x] /\ x \in Peticion(D \cup E) BY <1>3, <1>4, <1>5
<1>7. hilo' \in [Atenciones -> Peticion(D \cup E)] /\ hilo'[t] = x /\ Alone(t)
  BY <1>2, <1>4, <1>6 DEF Alone, Stays
<1> QED BY <1>1, <1>5, <1>7 DEF ThreadsOK

\* What a sale that is made does to the requests.
LEMMA SaleMadeStep ==
  ASSUME CounterOK, NEW t \in Atenciones, hilo[t].pc = "vender",
         Writes(t, hilo[t].obj, AfterSale(t, Len(ventas) + 1))
  PROVE  /\ ThreadsOK' /\ Aged(t, hilo[t].obj) /\ hilo'[t] = AfterSale(t, Len(ventas) + 1)
         /\ Len(ventas) + 1 \in Nat
         /\ viejas' = IF hilo[t].vieja THEN viejas \cup {hilo[t].kind} ELSE viejas
<1>1. Len(ventas) + 1 \in Nat BY DEF CounterOK
<1>2. PICK D : AfterSale(t, Len(ventas) + 1) \in Peticion(D) BY <1>1, AfterSaleIs
<1>3. PICK E : hilo \in [Atenciones -> Peticion(E)] BY DEF CounterOK, ThreadsOK
<1>4. hilo[t].obj \in Int \cup {Ninguno} BY <1>3 DEF Peticion
<1>5. PICK x, o : x = AfterSale(t, Len(ventas) + 1) /\ o = hilo[t].obj OBVIOUS
<1>6. /\ hilo' = [AsStale(t, o) EXCEPT ![t] = x]
      /\ viejas' = IF hilo[t].vieja THEN viejas \cup {hilo[t].kind} ELSE viejas
  BY <1>5 DEF Writes
<1>7. ThreadsOK' /\ Aged(t, o) /\ hilo'[t] = x
  <2>1. ThreadsOK /\ o \in Int \cup {Ninguno} /\ x \in Peticion(D) BY <1>2, <1>4, <1>5 DEF CounterOK
  <2>2. hilo' = [AsStale(t, o) EXCEPT ![t] = x] BY <1>6
  <2> QED BY <2>1, <2>2, StaleStep, Zenon
<1> QED BY <1>1, <1>5, <1>6, <1>7

\* The row of a sale has its type, and its quotation exists.
LEMMA SaleRowTyped ==
  ASSUME CounterOK, NEW t \in Atenciones, hilo[t].pc = "vender"
  PROVE  /\ SaleRow(hilo[t]) \in VentasRows /\ SaleRow(hilo[t]).cot <= Len(cotizacion)
         /\ SaleRow(hilo[t]).cot = IF hilo[t].kind = "venta" THEN 0 ELSE hilo[t].obj
         /\ hilo[t].dato.serie \in Series
<1>1. PICK D : hilo \in [Atenciones -> Peticion(D)] BY DEF CounterOK, ThreadsOK
<1>2. DatoOK(hilo[t], Len(cotizacion)) /\ Len(cotizacion) \in Nat /\ serie \in [Series -> SerieRows]
  BY DEF CounterOK, DeskTypeOK
<1>3. hilo[t].dato \in [serie : Series, sucursal : Locales] /\ hilo[t].kind \in {"venta", "convertirCotizacion"}
  BY <1>2 DEF DatoOK
<1>4. hilo[t].dato.serie \in Series BY <1>3
<1>5. PICK r \in SerieRows : r = serie[hilo[t].dato.serie] BY <1>2, <1>4
<1>6. PICK n : n = NumberOf(hilo[t].dato.serie) OBVIOUS
<1>7. n \in Int BY <1>5, <1>6 DEF NumberOf, SerieRows
<1>8. PICK c : c = IF hilo[t].kind = "venta" THEN 0 ELSE hilo[t].obj OBVIOUS
<1>9. c \in Nat /\ c <= Len(cotizacion) BY <1>2, <1>3, <1>8 DEF DatoOK, QuoteKinds
<1>10. hilo[t].req \in Requests \cup {Ninguno} BY <1>1 DEF Peticion
<1>11. SaleRow(hilo[t]) = [req |-> hilo[t].req, serie |-> hilo[t].dato.serie, numero |-> n, cot |-> c]
  BY <1>6, <1>8 DEF SaleRow
<1> QED BY <1>4, <1>7, <1>8, <1>9, <1>10, <1>11 DEF VentasRows

\* A quotation is written by one whose object it is.
LEMMA QuoteWriteStep ==
  ASSUME CounterOK, NEW t \in Atenciones, WriteQuote(t)
  PROVE  /\ hilo[t].kind \in QuoteKinds /\ hilo[t].obj \in Cots
         /\ cotizacion' \in Seq(CotizacionRows) /\ Len(cotizacion') = Len(cotizacion)
         /\ cotizacion'[hilo[t].obj].estado # "convertida"
         /\ \A d \in Cots \ {hilo[t].obj} : cotizacion'[d] = cotizacion[d]
         /\ Writes(t, hilo[t].obj, Ocioso) /\ UNCHANGED <<dia, serie, ventas, caja, cortadas>>
<1>1. /\ hilo[t].pc = "escribir" /\ hilo[t].kind \in QuoteKinds
      /\ Writes(t, hilo[t].obj, Ocioso) /\ UNCHANGED <<dia, serie, ventas, caja, cortadas>>
  BY DEF WriteQuote
<1>2. cotizacion \in Seq(CotizacionRows) /\ DatoOK(hilo[t], Len(cotizacion))
  BY DEF CounterOK, DeskTypeOK
<1>3. hilo[t].obj \in Cots /\ hilo[t].dato \in CotDatos BY <1>1, <1>2, CotsAre DEF DatoOK
<1>4. PICK c \in Cots : c = hilo[t].obj BY <1>3
<1>5. PICK e \in {"aceptada", "rechazada", "anulada", "vencida"} : e = hilo[t].dato.estado
  BY <1>3 DEF CotDatos
<1>6. cotizacion[c].pasada \in BOOLEAN
  <2>1. PICK r \in CotizacionRows : r = cotizacion[c] BY <1>2, CotsAre
  <2> QED BY <2>1 DEF CotizacionRows
<1>7. PICK p \in BOOLEAN : cotizacion' = [cotizacion EXCEPT ![c].estado = e, ![c].pasada = p]
  BY <1>4, <1>5, <1>6 DEF WriteQuote
<1>8. /\ cotizacion' \in Seq(CotizacionRows) /\ Len(cotizacion') = Len(cotizacion)
      /\ cotizacion'[c].estado = e /\ \A d \in Cots \ {c} : cotizacion'[d] = cotizacion[d]
  BY <1>2, <1>7, StateRow
<1> QED BY <1>1, <1>3, <1>4, <1>8

\* What a link does to the quotations.
LEMMA LinkStep ==
  ASSUME CounterOK, NEW t \in Atenciones, hilo[t].pc = "enlazar",
         cotizacion' = [cotizacion EXCEPT ![hilo[t].obj].estado = "convertida", ![hilo[t].obj].venta = hilo[t].dato.venta]
  PROVE  /\ hilo[t].kind \in QuoteKinds /\ hilo[t].obj \in Cots /\ hilo[t].dato.venta \in Nat
         /\ cotizacion' \in Seq(CotizacionRows) /\ Len(cotizacion') = Len(cotizacion)
         /\ cotizacion'[hilo[t].obj].estado = "convertida"
         /\ \A d \in Cots \ {hilo[t].obj} : cotizacion'[d] = cotizacion[d]
<1>1. cotizacion \in Seq(CotizacionRows) /\ DatoOK(hilo[t], Len(cotizacion))
  BY DEF CounterOK, DeskTypeOK
<1>2. hilo[t].kind \in QuoteKinds /\ hilo[t].obj \in Cots /\ hilo[t].dato \in [venta : Nat]
  BY <1>1, CotsAre DEF DatoOK, QuoteKinds
<1>3. hilo[t].dato.venta \in Nat BY <1>2
<1>4. PICK c \in Cots, v \in Nat : c = hilo[t].obj /\ v = hilo[t].dato.venta BY <1>2, <1>3
<1>5. cotizacion' = [cotizacion EXCEPT ![c].estado = "convertida", ![c].venta = v] BY <1>4
<1> QED BY <1>1, <1>2, <1>3, <1>4, <1>5, LinkRow

----------------------------------------
(* The counter: its invariant.                                             *)

\* The invariant of the counter holds at the start.
LEMMA CounterInit == ASSUME DeskInit PROVE CounterOK
<1>1. hilo \in [Atenciones -> Peticion({Ninguno})] BY OciosoTyped DEF DeskInit
<1>2. NoSerie \in SerieRows BY DEF NoSerie, SerieRows
<1>3. PICK first : first = [NoSerie EXCEPT !.existe = TRUE, !.activo = TRUE, !.principal = TRUE, !.todas = TRUE, !.billing = TRUE]
  OBVIOUS
<1>4. first \in SerieRows BY <1>3 DEF NoSerie, SerieRows
<1>5. serie \in [Series -> SerieRows] BY <1>2, <1>3, <1>4 DEF DeskInit
<1>6. cotizacion = <<>> /\ ventas = <<>> /\ caja = Locales /\ calls = 0 BY DEF DeskInit
<1>7. ASSUME NEW t \in Atenciones PROVE DatoOK(hilo[t], Len(cotizacion))
  BY OciosoRemembers DEF DeskInit
<1> QED BY <1>1, <1>5, <1>6, <1>7 DEF CounterOK, ThreadsOK, DeskTypeOK

\* Every step of the counter keeps its invariant.
LEMMA DeskCounter == ASSUME CounterOK, DeskNext PROVE CounterOK'
<1>a. /\ ThreadsOK /\ DeskTypeOK /\ calls \in Nat /\ serie \in [Series -> SerieRows] /\ caja \subseteq Locales
      /\ cotizacion \in Seq(CotizacionRows) /\ Len(cotizacion) \in Nat
      /\ ventas \in Seq(VentasRows) /\ \A i \in 1..Len(ventas) : ventas[i].cot <= Len(cotizacion)
  BY DEF CounterOK, DeskTypeOK
<1>b. ASSUME NEW t \in Atenciones PROVE hilo[t].obj \in Int \cup {Ninguno}
  BY <1>a DEF ThreadsOK, Peticion
<1>1. CASE SerieRead
  <2>1. PICK t \in Atenciones, kind \in SerieKinds, d \in SerieDatos :
          /\ Reads(t, kind, "escribir", Catalogo, Ninguno, d)
          /\ calls' = calls + 1 /\ UNCHANGED <<dia, deskRows>>
    BY <1>1 DEF SerieRead
  <2>2. DatoOK([pc |-> "escribir", kind |-> kind, obj |-> Catalogo, req |-> Ninguno, dato |-> d, vieja |-> FALSE],
               Len(cotizacion))
    BY DEF DatoOK, SerieKinds, SaleKinds, QuoteKinds
  <2>3. kind \in DeskKinds \cup SaleKinds /\ "escribir" \in Pasos /\ Catalogo \in Int \cup {Ninguno}
    BY DEF DeskKinds, Pasos, Catalogo
  <2>4. Ninguno \in Requests \cup {Ninguno} /\ UNCHANGED deskRows /\ calls' \in Nat BY <1>a, <2>1
  <2>5. Reads(t, kind, "escribir", Catalogo, Ninguno, d) BY <2>1
  <2> QED BY <2>2, <2>3, <2>4, <2>5, CounterReads, Zenon
<1>2. CASE DeskRead
  <2>1. PICK t \in Atenciones, kind \in DeskKinds \ SerieKinds, pc \in Pasos \ {"idle"} :
        \E obj \in Int \cup {Ninguno}, req \in Requests \cup {Ninguno} : \E dato :
          /\ DatoOK([pc |-> pc, kind |-> kind, obj |-> obj, req |-> req, dato |-> dato, vieja |-> FALSE], Len(cotizacion))
          /\ Reads(t, kind, pc, obj, req, dato)
          /\ calls' = calls + 1 /\ UNCHANGED <<dia, deskRows>>
    BY ZenonT(40), <1>2 DEF DeskRead
  <2>2. PICK obj \in Int \cup {Ninguno}, req \in Requests \cup {Ninguno} : \E dato :
          /\ DatoOK([pc |-> pc, kind |-> kind, obj |-> obj, req |-> req, dato |-> dato, vieja |-> FALSE], Len(cotizacion))
          /\ Reads(t, kind, pc, obj, req, dato)
          /\ calls' = calls + 1 /\ UNCHANGED <<dia, deskRows>>
    BY <2>1
  <2>3. PICK dato :
          /\ DatoOK([pc |-> pc, kind |-> kind, obj |-> obj, req |-> req, dato |-> dato, vieja |-> FALSE], Len(cotizacion))
          /\ Reads(t, kind, pc, obj, req, dato)
          /\ calls' = calls + 1 /\ UNCHANGED <<dia, deskRows>>
    BY <2>2
  <2>4. UNCHANGED deskRows /\ calls' \in Nat /\ kind \in DeskKinds \cup SaleKinds BY <1>a, <2>3
  <2> QED BY <2>3, <2>4, CounterReads, Zenon
<1>3. CASE DeskStill
  <2>1. UNCHANGED <<serie, ventas, hilo>> /\ calls' \in Nat /\ caja' \subseteq Locales
    BY <1>3 DEF DeskStill
  <2>2. cotizacion' \in Seq(CotizacionRows) /\ Len(cotizacion') = Len(cotizacion)
    BY <1>3, <1>a, LapsedRow DEF DeskStill
  <2> QED BY <1>a, <2>1, <2>2 DEF CounterOK, ThreadsOK, DeskTypeOK
<1>4. CASE DeskLeaves
  <2>1. PICK t \in Atenciones : Refused(t) /\ UNCHANGED <<serie, cotizacion, ventas, caja>>
    BY <1>4 DEF DeskLeaves
  <2>2. ThreadsOK' /\ Alone(t) /\ hilo'[t] = Ocioso BY <1>a, <2>1, RefusedStep
  <2>3. DeskTypeOK' BY <1>a, <2>1 DEF DeskTypeOK, Refused
  <2>4. DatoOK(hilo[t], Len(cotizacion))' BY <2>2, OciosoRemembers
  <2> QED BY <1>a, <2>1, <2>2, <2>3, <2>4, CounterStep
<1>5. CASE SerieWrite
  <2>1. PICK t \in Atenciones : hilo[t].kind \in SerieKinds /\ hilo[t].pc = "escribir" /\ SavesSerie(t)
    BY <1>5 DEF SerieWrite
  <2>2. hilo[t].dato \in SerieDatos BY <2>1 DEF CounterOK, DatoOK
  <2>3. PICK ok \in BOOLEAN : serie' = SavedSerie(hilo[t].dato, ok) BY <2>1 DEF SavesSerie
  <2>4. serie' \in [Series -> SerieRows] BY <1>a, <2>2, <2>3, SavedSeries
  <2>5. Writes(t, Catalogo, Ocioso) /\ UNCHANGED <<cotizacion, ventas, caja>> BY <2>1 DEF SavesSerie
  <2>6. ThreadsOK' /\ Aged(t, Catalogo) /\ hilo'[t] = Ocioso BY <1>a, <2>5, WritesStep DEF Catalogo
  <2>7. DeskTypeOK' BY <1>a, <2>4, <2>5 DEF DeskTypeOK, Writes
  <2>8. DatoOK(hilo[t], Len(cotizacion))' BY <2>6, OciosoRemembers
  <2> QED BY <1>a, <2>5, <2>6, <2>7, <2>8, CounterStep
<1>6. CASE SaleFound
  <2>1. PICK t \in Atenciones, v \in DOMAIN ventas :
          hilo[t].pc = "vender" /\ hilo' = [hilo EXCEPT ![t] = AfterSale(t, v)] /\ UNCHANGED <<deskRows, calls>>
    BY <1>6 DEF SaleFound
  <2>2. ThreadsOK' /\ Alone(t) /\ hilo'[t] = AfterSale(t, v) /\ v \in Nat BY <2>1, SaleFoundStep
  <2>3. DeskTypeOK' /\ UNCHANGED <<cotizacion, ventas>> BY <1>a, <2>1 DEF DeskTypeOK, deskRows
  <2>4. DatoOK(AfterSale(t, v), Len(cotizacion)) BY <2>1, <2>2, AfterSaleIs
  <2>5. DatoOK(hilo[t], Len(cotizacion))' BY <2>2, <2>3, <2>4
  <2> QED BY <1>a, <2>2, <2>3, <2>5, CounterStep
<1>7. CASE SaleMade
  <2>1. PICK t \in Atenciones :
          /\ hilo[t].pc = "vender" /\ serie' = Numbered(hilo[t].dato.serie)
          /\ ventas' = Append(ventas, SaleRow(hilo[t]))
          /\ Writes(t, hilo[t].obj, AfterSale(t, Len(ventas) + 1))
          /\ UNCHANGED <<cotizacion, caja>>
    BY <1>7 DEF SaleMade
  <2>2. ThreadsOK' /\ Aged(t, hilo[t].obj) /\ hilo'[t] = AfterSale(t, Len(ventas) + 1) /\ Len(ventas) + 1 \in Nat
    BY <2>1, SaleMadeStep
  <2>3. SaleRow(hilo[t]) \in VentasRows /\ SaleRow(hilo[t]).cot <= Len(cotizacion)
    BY <2>1, SaleRowTyped
  <2>4. /\ ventas' \in Seq(VentasRows) /\ Len(ventas') = Len(ventas) + 1
        /\ ventas'[Len(ventas) + 1] = SaleRow(hilo[t]) /\ \A i \in 1..Len(ventas) : ventas'[i] = ventas[i]
    BY <1>a, <2>1, <2>3, SaleAdded
  <2>5. \A i \in 1..Len(ventas') : ventas'[i].cot <= Len(cotizacion') BY <1>a, <2>1, <2>3, <2>4
  <2>6. serie' \in [Series -> SerieRows] BY <1>a, <2>1, NumberedSeries
  <2>7. DeskTypeOK' BY <1>a, <2>1, <2>6 DEF DeskTypeOK, Writes
  <2>8. DatoOK(AfterSale(t, Len(ventas) + 1), Len(cotizacion)) BY <2>1, <2>2, AfterSaleIs
  <2>9. DatoOK(hilo[t], Len(cotizacion))' BY <2>1, <2>2, <2>8
  <2> QED BY <1>a, <2>1, <2>2, <2>4, <2>5, <2>7, <2>9, CounterStep
<1>8. CASE QuoteMade
  <2>1. PICK t \in Atenciones :
          /\ cotizacion' = Append(cotizacion, [req |-> hilo[t].req, estado |-> "borrador", venta |-> 0, pasada |-> FALSE])
          /\ Writes(t, Lista, Ocioso) /\ UNCHANGED <<serie, ventas, caja>>
    BY <1>8 DEF QuoteMade
  <2>2. hilo[t].req \in Requests \cup {Ninguno} BY <1>a DEF ThreadsOK, Peticion
  <2>3. [req |-> hilo[t].req, estado |-> "borrador", venta |-> 0, pasada |-> FALSE] \in CotizacionRows
    BY <2>2 DEF CotizacionRows
  <2>4. cotizacion' \in Seq(CotizacionRows) /\ Len(cotizacion') = Len(cotizacion) + 1
    BY <1>a, <2>1, <2>3, QuotationAdded
  <2>5. ThreadsOK' /\ Aged(t, Lista) /\ hilo'[t] = Ocioso BY <1>a, <2>1, WritesStep DEF Lista
  <2>6. DeskTypeOK' BY <1>a, <2>1, <2>4 DEF DeskTypeOK, Writes
  <2>7. DatoOK(hilo[t], Len(cotizacion))' BY <2>5, OciosoRemembers
  <2>8. \A i \in 1..Len(ventas') : ventas'[i] \in VentasRows /\ ventas'[i].cot <= Len(cotizacion)
    BY <1>a, <2>1
  <2>9. \A i \in 1..Len(ventas') : ventas'[i].cot <= Len(cotizacion')
    BY <1>a, <2>4, <2>8 DEF VentasRows
  <2> QED BY <1>a, <2>1, <2>4, <2>5, <2>6, <2>7, <2>9, CounterStep
<1>9. ASSUME NEW t \in Atenciones, cotizacion' \in Seq(CotizacionRows), Len(cotizacion') = Len(cotizacion),
             Writes(t, hilo[t].obj, Ocioso), UNCHANGED <<serie, ventas, caja>>
      PROVE  CounterOK'
  <2>1. ThreadsOK' /\ Aged(t, hilo[t].obj) /\ hilo'[t] = Ocioso BY <1>a, <1>b, <1>9, WritesStep
  <2>2. DeskTypeOK' BY <1>a, <1>9 DEF DeskTypeOK, Writes
  <2>3. DatoOK(hilo[t], Len(cotizacion))' BY <2>1, OciosoRemembers
  <2> QED BY <1>a, <1>9, <2>1, <2>2, <2>3, CounterStep
<1>10. CASE LinkMade BY <1>9, <1>10, LinkStep DEF LinkMade
<1>11. CASE QuoteWrite BY <1>9, <1>11, QuoteWriteStep DEF QuoteWrite
<1> QED BY <1>1, <1>2, <1>3, <1>4, <1>5, <1>6, <1>7, <1>8, <1>10, <1>11, DeskShapes

\* The inductive invariant of the counter.
LEMMA CounterStays == ASSUME CounterOK, [FulfilNext]_fulfilVars PROVE CounterOK'
<1>1. CASE SaleNext BY <1>1, SaleFrame
<1>2. CASE DeskNext BY <1>2, DeskCounter
<1>3. CASE UNCHANGED fulfilVars
  <2>1. UNCHANGED <<serie, cotizacion, ventas, caja, hilo, calls>>
    BY <1>3 DEF fulfilVars, deskVars, deskRows, threads
  <2> QED BY <2>1 DEF CounterOK, ThreadsOK, DeskTypeOK
<1> QED BY <1>1, <1>2, <1>3 DEF FulfilNext

\* The rows of the series and of the quotations always have their type, and so has
\* what a request remembers of them.
THEOREM CounterTypes == FulfilSpec => []CounterOK
<1>1. FulfilInit => CounterOK BY CounterInit DEF FulfilInit
<1>2. CounterOK /\ [FulfilNext]_fulfilVars => CounterOK' BY CounterStays
<1> QED BY <1>1, <1>2, PTL DEF FulfilSpec

----------------------------------------
(* One active series in every branch.                                      *)

\* Two active series have no branch in common, and a change that read the series as
\* they are still finds its branches free.
Apartadas(s, o) ==
  (s # o /\ serie[s].activo /\ serie[o].activo) =>
    ~serie[s].todas /\ ~serie[o].todas /\ serie[s].sucursales \cap serie[o].sucursales = {}
SabeSerie(h) ==
  (h.kind \in SerieKinds /\ h.pc = "escribir" /\ ~h.vieja /\ h.dato.activo) =>
    ScopeAvailable(h.dato.serie, h.dato.todas, h.dato.sucursales)
SeriesOK ==
  viejas \cap SerieKinds = {} =>
    /\ \A s, o \in Series : Apartadas(s, o)
    /\ \A t \in Atenciones : SabeSerie(hilo[t])

\* Whether branches are free depends on what the series are active in.
SameScopes ==
  \A s \in Series : /\ serie'[s].activo = serie[s].activo /\ serie'[s].todas = serie[s].todas
                    /\ serie'[s].sucursales = serie[s].sucursales
\* With the scopes as they were, a branch that was free is free.
LEMMA ScopesStay ==
  ASSUME SameScopes, NEW s, NEW todas, NEW sucursales
  PROVE  ScopeAvailable(s, todas, sucursales)' <=> ScopeAvailable(s, todas, sucursales)
  BY DEF SameScopes, ScopeAvailable, Activas

\* The invariant of the series stays where no scope changes.
LEMMA SeriesStay ==
  ASSUME SeriesOK, viejas \subseteq viejas', SameScopes,
         \A u \in Atenciones : \/ Stays(u) \/ Ages(u) \/ hilo'[u].pc # "escribir" \/ hilo'[u].kind \notin SerieKinds
                               \/ /\ hilo'[u].dato.activo =>
                                       ScopeAvailable(hilo'[u].dato.serie, hilo'[u].dato.todas, hilo'[u].dato.sucursales)
  PROVE  SeriesOK'
<1> SUFFICES ASSUME (viejas \cap SerieKinds = {})'
             PROVE  (\A s, o \in Series : Apartadas(s, o))' /\ (\A t \in Atenciones : SabeSerie(hilo[t]))'
  BY DEF SeriesOK
<1>1. /\ \A s, o \in Series : Apartadas(s, o)
      /\ \A t \in Atenciones : SabeSerie(hilo[t])
  BY DEF SeriesOK
<1>2. (\A s, o \in Series : Apartadas(s, o))' BY <1>1 DEF Apartadas, SameScopes
<1>3. ASSUME NEW u \in Atenciones PROVE SabeSerie(hilo[u])'
  <2>1. PICK d : d = hilo'[u].dato OBVIOUS
  <2>2. ScopeAvailable(d.serie, d.todas, d.sucursales)' <=> ScopeAvailable(d.serie, d.todas, d.sucursales)
    BY ScopesStay
  <2>3. SabeSerie(hilo[u]) /\ (Stays(u) \/ Ages(u)) /\ hilo'[u].kind \in SerieKinds /\ hilo'[u].pc = "escribir"
          /\ ~hilo'[u].vieja /\ d.activo
          => ScopeAvailable(d.serie, d.todas, d.sucursales)
    BY <2>1 DEF SabeSerie, Stays, Ages
  <2>4. hilo'[u].kind \in SerieKinds /\ hilo'[u].pc = "escribir" /\ ~hilo'[u].vieja /\ d.activo
          => ScopeAvailable(d.serie, d.todas, d.sucursales)
    BY <1>1, <2>1, <2>3
  <2> QED BY <2>1, <2>2, <2>4 DEF SabeSerie
<1> QED BY <1>2, <1>3

\* A series that is written had its branches free.
LEMMA SeriesWritten ==
  ASSUME CounterOK, SeriesOK, SerieWrite
  PROVE  SeriesOK'
<1> SUFFICES ASSUME (viejas \cap SerieKinds = {})'
             PROVE  (\A s, o \in Series : Apartadas(s, o))' /\ (\A t \in Atenciones : SabeSerie(hilo[t]))'
  BY DEF SeriesOK
<1>1. PICK t \in Atenciones : hilo[t].kind \in SerieKinds /\ hilo[t].pc = "escribir" /\ SavesSerie(t)
  BY DEF SerieWrite
<1>2. PICK d \in SerieDatos : d = hilo[t].dato BY <1>1 DEF CounterOK, DatoOK
<1>3. PICK ok \in BOOLEAN : serie' = SavedSerie(d, ok) BY <1>1, <1>2 DEF SavesSerie
<1>4. /\ \A o \in Series \ {d.serie} :
           /\ serie'[o].activo = serie[o].activo /\ serie'[o].todas = serie[o].todas
           /\ serie'[o].sucursales = serie[o].sucursales
      /\ serie'[d.serie].activo = d.activo /\ serie'[d.serie].todas = d.todas
      /\ serie'[d.serie].sucursales = d.sucursales
  BY <1>3, SavedSeries DEF CounterOK, DeskTypeOK
<1>5. /\ Aged(t, Catalogo) /\ hilo'[t] = Ocioso
      /\ viejas' = IF hilo[t].vieja THEN viejas \cup {hilo[t].kind} ELSE viejas
  BY <1>1, WritesStep DEF SavesSerie, CounterOK, Catalogo
<1>6. ~hilo[t].vieja /\ viejas \cap SerieKinds = {} BY <1>1, <1>5
<1>7. /\ \A s, o \in Series : Apartadas(s, o)
      /\ d.activo => ScopeAvailable(d.serie, d.todas, d.sucursales)
  BY <1>1, <1>2, <1>6 DEF SeriesOK, SabeSerie
<1>8. ASSUME NEW o \in Series \ {d.serie}, d.activo, serie[o].activo
      PROVE  ~d.todas /\ ~serie[o].todas /\ serie[o].sucursales \cap d.sucursales = {}
  <2>1. o \in Activas(Series \ {d.serie}) BY <1>8 DEF Activas
  <2> QED BY <1>7, <1>8, <2>1 DEF ScopeAvailable
<1>9. ASSUME NEW s \in Series, NEW o \in Series PROVE Apartadas(s, o)'
  <2>1. CASE s # d.serie /\ o # d.serie BY <1>4, <1>7, <2>1 DEF Apartadas
  <2>2. CASE s = d.serie /\ o # d.serie BY <1>4, <1>8, <2>2 DEF Apartadas
  <2>3. CASE s # d.serie /\ o = d.serie BY <1>4, <1>8, <2>3 DEF Apartadas
  <2> QED BY <2>1, <2>2, <2>3 DEF Apartadas
<1>10. ASSUME NEW u \in Atenciones PROVE SabeSerie(hilo[u])'
  <2>1. CASE u = t BY <1>5, <2>1 DEF SabeSerie, Ocioso
  <2>2. CASE u # t /\ hilo[u].kind \in SerieKinds /\ hilo[u].pc = "escribir"
    <3>1. hilo[u].obj = Catalogo BY <2>2 DEF CounterOK, DatoOK
    <3>2. Catalogo # Ninguno BY DeskAssumption DEF Catalogo
    <3>3. Ages(u) BY <1>5, <2>2, <3>1, <3>2 DEF Aged
    <3> QED BY <3>3 DEF Ages, SabeSerie
  <2>3. CASE u # t /\ ~(hilo[u].kind \in SerieKinds /\ hilo[u].pc = "escribir")
    <3>1. hilo'[u].kind = hilo[u].kind /\ hilo'[u].pc = hilo[u].pc
      BY <1>5, <2>3 DEF Aged, Ages, Stays
    <3> QED BY <2>3, <3>1 DEF SabeSerie
  <2> QED BY <2>1, <2>2, <2>3
<1> QED BY <1>9, <1>10

\* Every step keeps the invariant of the series.
LEMMA SeriesInvariant == ASSUME CounterOK, SeriesOK, [FulfilNext]_fulfilVars PROVE SeriesOK'
<1> DEFINE Quiet(u) == \/ Stays(u) \/ Ages(u) \/ hilo'[u].pc # "escribir" \/ hilo'[u].kind \notin SerieKinds
<1>a. serie \in [Series -> SerieRows] /\ ThreadsOK BY DEF CounterOK, DeskTypeOK
<1>b. \A kind \in SaleKinds : kind \notin SerieKinds BY DEF SaleKinds, SerieKinds
<1>c. ASSUME NEW t \in Atenciones PROVE hilo[t].obj \in Int \cup {Ninguno}
  BY <1>a DEF ThreadsOK, Peticion
<1>d. ASSUME viejas \subseteq viejas', SameScopes, \A u \in Atenciones : Quiet(u) PROVE SeriesOK'
  BY <1>d, SeriesStay
<1>1. CASE SaleNext
  <2>1. UNCHANGED deskRows /\ viejas \subseteq viejas'
        /\ \A u \in Atenciones :
             Stays(u) \/ Ages(u) \/ hilo'[u].pc = "idle" \/ (hilo'[u].kind \in SaleKinds /\ hilo'[u].pc = "escribir")
    BY <1>1, SaleFrame
  <2>2. \A u \in Atenciones : Quiet(u) BY <1>b, <2>1
  <2>3. SameScopes BY <2>1 DEF SameScopes, deskRows
  <2> QED BY <1>d, <2>1, <2>2, <2>3
<1>2. CASE UNCHANGED fulfilVars
  <2>1. UNCHANGED <<serie, hilo, viejas>> BY <1>2 DEF fulfilVars, deskVars, deskRows, threads
  <2> QED BY <1>d, <2>1 DEF SameScopes, Stays
<1>3. CASE SerieRead
  <2>1. PICK t \in Atenciones, kind \in SerieKinds, d \in SerieDatos :
          /\ d.activo => ScopeAvailable(d.serie, d.todas, d.sucursales)
          /\ Reads(t, kind, "escribir", Catalogo, Ninguno, d) /\ UNCHANGED deskRows
    BY <1>3 DEF SerieRead
  <2>2. kind \in DeskKinds \cup SaleKinds /\ "escribir" \in Pasos /\ Catalogo \in Int \cup {Ninguno}
        /\ Ninguno \in Requests \cup {Ninguno}
    BY DEF DeskKinds, Pasos, Catalogo
  <2>3. Alone(t) /\ viejas' = viejas
        /\ hilo'[t] = [pc |-> "escribir", kind |-> kind, obj |-> Catalogo, req |-> Ninguno, dato |-> d, vieja |-> FALSE]
    BY <1>a, <2>1, <2>2, ReadsStep
  <2>4. SameScopes BY <2>1 DEF SameScopes, deskRows
  <2>5. hilo'[t].dato = d BY <2>3
  <2>6. hilo'[t].dato.activo => ScopeAvailable(hilo'[t].dato.serie, hilo'[t].dato.todas, hilo'[t].dato.sucursales)
    BY <2>1, <2>5
  <2> QED BY <2>3, <2>4, <2>6, SeriesStay DEF Alone
<1>4. CASE DeskRead
  <2>1. PICK t \in Atenciones, kind \in DeskKinds \ SerieKinds, pc \in Pasos \ {"idle"},
             obj \in Int \cup {Ninguno}, req \in Requests \cup {Ninguno} : \E dato :
          Reads(t, kind, pc, obj, req, dato) /\ UNCHANGED deskRows
    BY <1>4 DEF DeskRead
  <2>2. PICK dato : Reads(t, kind, pc, obj, req, dato) /\ UNCHANGED deskRows BY <2>1
  <2>3. kind \in DeskKinds \cup SaleKinds /\ pc \in Pasos OBVIOUS
  <2>4. Alone(t) /\ viejas' = viejas
        /\ hilo'[t] = [pc |-> pc, kind |-> kind, obj |-> obj, req |-> req, dato |-> dato, vieja |-> FALSE]
    BY <1>a, <2>2, <2>3, ReadsStep
  <2>5. SameScopes BY <2>2 DEF SameScopes, deskRows
  <2>6. \A u \in Atenciones : Quiet(u) BY <2>4 DEF Alone
  <2> QED BY <1>d, <2>4, <2>5, <2>6
<1>5. CASE DeskStill BY <1>d, <1>5 DEF DeskStill, SameScopes, Stays
<1>6. CASE DeskLeaves
  <2>1. PICK t \in Atenciones : Refused(t) /\ serie' = serie BY <1>6 DEF DeskLeaves
  <2>2. Alone(t) /\ hilo'[t] = Ocioso /\ viejas' = viejas BY <1>a, <2>1, RefusedStep
  <2>3. \A u \in Atenciones : Quiet(u) BY <2>2 DEF Alone, Ocioso
  <2> QED BY <1>d, <2>1, <2>2, <2>3 DEF SameScopes
<1>7. CASE SerieWrite BY <1>7, SeriesWritten
<1>8. CASE SaleFound
  <2>1. PICK t \in Atenciones, v \in DOMAIN ventas :
          hilo[t].pc = "vender" /\ hilo' = [hilo EXCEPT ![t] = AfterSale(t, v)] /\ UNCHANGED <<deskRows, viejas>>
    BY <1>8 DEF SaleFound
  <2>2. Alone(t) /\ hilo'[t] = AfterSale(t, v) /\ v \in Nat BY <2>1, SaleFoundStep
  <2>3. hilo'[t].pc # "escribir"
    <3>1. AfterSale(t, v) = Ocioso \/ AfterSale(t, v).pc = "enlazar"
      BY <2>1, <2>2, AfterSaleIs, Zenon
    <3> QED BY <2>2, <3>1 DEF Ocioso
  <2> QED BY <1>d, <2>1, <2>2, <2>3 DEF SameScopes, deskRows, Alone
<1>9. CASE SaleMade
  <2>1. PICK t \in Atenciones :
          hilo[t].pc = "vender" /\ serie' = Numbered(hilo[t].dato.serie)
          /\ Writes(t, hilo[t].obj, AfterSale(t, Len(ventas) + 1))
    BY <1>9 DEF SaleMade
  <2>2. /\ Aged(t, hilo[t].obj) /\ hilo'[t] = AfterSale(t, Len(ventas) + 1) /\ Len(ventas) + 1 \in Nat
        /\ viejas \subseteq viejas'
    BY <2>1, SaleMadeStep
  <2>3. hilo'[t].pc # "escribir"
    <3>1. AfterSale(t, Len(ventas) + 1) = Ocioso \/ AfterSale(t, Len(ventas) + 1).pc = "enlazar"
      BY <2>1, <2>2, AfterSaleIs, Zenon
    <3> QED BY <2>2, <3>1 DEF Ocioso
  <2>4. SameScopes BY <1>a, <2>1, NumberedSeries DEF SameScopes
  <2>5. \A u \in Atenciones : Quiet(u) BY <2>2, <2>3 DEF Aged
  <2> QED BY <1>d, <2>2, <2>4, <2>5
<1>10. ASSUME NEW t \in Atenciones, NEW obj \in Int \cup {Ninguno}, Writes(t, obj, Ocioso), serie' = serie PROVE SeriesOK'
  <2>1. Aged(t, obj) /\ hilo'[t] = Ocioso /\ viejas \subseteq viejas' BY <1>a, <1>10, WritesStep
  <2>2. \A u \in Atenciones : Quiet(u) BY <2>1 DEF Aged, Ocioso
  <2> QED BY <1>d, <1>10, <2>1, <2>2 DEF SameScopes
<1>11. CASE QuoteMade BY <1>10, <1>11 DEF QuoteMade, Lista
<1>12. CASE LinkMade BY <1>10, <1>12, <1>c DEF LinkMade
<1>13. CASE QuoteWrite BY <1>10, <1>13, <1>c DEF QuoteWrite, WriteQuote
<1>14. QED
  BY <1>1, <1>2, <1>3, <1>4, <1>5, <1>6, <1>7, <1>8, <1>9, <1>11, <1>12, <1>13, DeskShapes DEF FulfilNext

\* A set whose elements are all the same has one at most.
LEMMA AtMostOne == ASSUME NEW S, \A a, b \in S : a = b PROVE Cardinality(S) <= 1
<1>1. CASE S = {} BY <1>1, FS_EmptySet
<1>2. CASE S # {}
  <2>1. PICK a \in S : TRUE BY <1>2
  <2>2. S = {a} BY <2>1
  <2>3. Cardinality(S) = 1 BY <2>2, FS_Singleton
  <2> QED BY <2>3
<1> QED BY <1>1, <1>2

\* At any number of branches, series and requests: a branch numbers its receipts with
\* one active series at most, unless two changes of the series overlapped
\* (ensureSerieScopeAvailable, outside the transaction that writes).
THEOREM BranchesHaveOneSerie == FulfilSpec => []OneActiveSerie
<1>1. FulfilInit => CounterOK /\ SeriesOK
  <2>1. ASSUME FulfilInit PROVE SeriesOK
    <3>1. \A s \in Series : serie[s].activo => s = CHOOSE x \in Series : TRUE
      BY <2>1 DEF FulfilInit, DeskInit, NoSerie
    <3>2. \A s, o \in Series : Apartadas(s, o) BY <3>1 DEF Apartadas
    <3>3. \A t \in Atenciones : SabeSerie(hilo[t])
      BY <2>1 DEF FulfilInit, DeskInit, SabeSerie, Ocioso
    <3> QED BY <3>2, <3>3 DEF SeriesOK
  <2> QED BY <2>1, CounterInit DEF FulfilInit
<1>2. CounterOK /\ SeriesOK /\ [FulfilNext]_fulfilVars => (CounterOK /\ SeriesOK)'
  BY CounterStays, SeriesInvariant
<1>3. CounterOK /\ SeriesOK => OneActiveSerie
  <2> SUFFICES ASSUME CounterOK, SeriesOK, viejas \cap {"crearSerie", "cambiarSerie"} = {}, NEW b \in Locales
               PROVE  Cardinality({s \in Activas(Series) : serie[s].todas \/ b \in serie[s].sucursales}) <= 1
    BY DEF OneActiveSerie
  <2>1. PICK S : S = {s \in Activas(Series) : serie[s].todas \/ b \in serie[s].sucursales} OBVIOUS
  <2>2. \A s, o \in S : s = o BY <2>1 DEF SeriesOK, SerieKinds, Apartadas, Activas
  <2>3. Cardinality(S) <= 1 BY <2>2, AtMostOne
  <2> QED BY <2>1, <2>3
<1> QED BY <1>1, <1>2, <1>3, PTL DEF FulfilSpec

----------------------------------------
(* One sale of a quotation.                                                *)

\* The requests that are between the sale of a quotation and the quotation.
Enlazan(c) == {t \in Atenciones : hilo[t].pc = "enlazar" /\ hilo[t].obj = c}
SaleMadeOf(i, c) == i \in 1..Len(ventas) /\ ventas[i].cot = c

\* Of a quotation nobody cut short, while no request on one overlapped another: once
\* it is converted whoever is on it is old, and unless one of them is about to link
\* it has one sale; before, each of its sales is about to be linked to it.
QuotationOK(c) ==
  (viejas \cap QuoteKinds = {} /\ c \notin cortadas) =>
    /\ cotizacion[c].estado = "convertida" =>
         /\ \A t \in Atenciones : hilo[t].obj = c => hilo[t].vieja
         /\ Enlazan(c) = {} => \A i, j : SaleMadeOf(i, c) /\ SaleMadeOf(j, c) => i = j
    /\ cotizacion[c].estado # "convertida" =>
         \A i : SaleMadeOf(i, c) => \E t \in Enlazan(c) : hilo[t].dato.venta = i
QuotationsOK == \A c \in 1..Len(cotizacion) : QuotationOK(c)

\* A request that changed otherwise was not about to link c, and is on c only as an
\* old one or because c was not converted.
Llega(u, c) ==
  /\ ~(hilo[u].pc = "enlazar" /\ hilo[u].obj = c)
  /\ hilo'[u].obj = c => cotizacion[c].estado # "convertida" \/ hilo'[u].vieja
\* The invariant of a quotation stays where neither its state nor its sales change.
LEMMA QuotationStays ==
  ASSUME NEW c, QuotationOK(c), viejas \subseteq viejas', cortadas \subseteq cortadas',
         cotizacion'[c].estado = cotizacion[c].estado,
         \A i : SaleMadeOf(i, c)' => SaleMadeOf(i, c),
         \A u \in Atenciones : Stays(u) \/ Ages(u) \/ Llega(u, c)
  PROVE  QuotationOK(c)'
<1> SUFFICES ASSUME (viejas \cap QuoteKinds = {} /\ c \notin cortadas)' PROVE
      (/\ cotizacion[c].estado = "convertida" =>
            /\ \A t \in Atenciones : hilo[t].obj = c => hilo[t].vieja
            /\ Enlazan(c) = {} => \A i, j : SaleMadeOf(i, c) /\ SaleMadeOf(j, c) => i = j
       /\ cotizacion[c].estado # "convertida" =>
            \A i : SaleMadeOf(i, c) => \E t \in Enlazan(c) : hilo[t].dato.venta = i)'
  BY DEF QuotationOK
<1>1. /\ cotizacion[c].estado = "convertida" =>
            /\ \A t \in Atenciones : hilo[t].obj = c => hilo[t].vieja
            /\ Enlazan(c) = {} => \A i, j : SaleMadeOf(i, c) /\ SaleMadeOf(j, c) => i = j
      /\ cotizacion[c].estado # "convertida" =>
            \A i : SaleMadeOf(i, c) => \E t \in Enlazan(c) : hilo[t].dato.venta = i
  BY DEF QuotationOK
<1>2. ASSUME NEW t \in Enlazan(c) PROVE t \in Enlazan(c)' /\ hilo'[t].dato = hilo[t].dato
  BY <1>2 DEF Enlazan, Stays, Ages, Llega
<1>3. CASE cotizacion[c].estado = "convertida"
  <2>1. ASSUME NEW t \in Atenciones, hilo'[t].obj = c PROVE hilo'[t].vieja
    BY <1>1, <1>3, <2>1 DEF Stays, Ages, Llega
  <2>2. Enlazan(c)' = {} => Enlazan(c) = {} BY <1>2
  <2> QED BY <1>1, <1>3, <2>1, <2>2
<1>4. CASE cotizacion[c].estado # "convertida"
  <2>1. ASSUME NEW i, SaleMadeOf(i, c)' PROVE \E t \in Enlazan(c)' : hilo'[t].dato.venta = i
    <3>1. PICK t \in Enlazan(c) : hilo[t].dato.venta = i BY <1>1, <1>4, <2>1
    <3> QED BY <1>2, <3>1
  <2> QED BY <1>4, <2>1
<1> QED BY <1>3, <1>4

\* The object of a request is a quotation only of those that work on one.
LEMMA ObjectsAre ==
  ASSUME CounterOK, NEW t \in Atenciones, NEW c \in 1..Len(cotizacion), hilo[t].obj = c
  PROVE  hilo[t].pc # "idle" /\ hilo[t].kind \in QuoteKinds /\ hilo[t].pc \in {"escribir", "vender", "enlazar"}
<1>1. PICK D : hilo \in [Atenciones -> Peticion(D)] BY DEF CounterOK, ThreadsOK
<1>2. hilo[t].kind \in DeskKinds \cup SaleKinds /\ hilo[t].pc \in Pasos BY <1>1 DEF Peticion
<1>3. c \in Int /\ c > 0 /\ c # Ninguno BY DeskAssumption
<1>4. DatoOK(hilo[t], Len(cotizacion)) BY DEF CounterOK
<1>5. hilo[t].pc # "idle" BY <1>3, <1>4 DEF DatoOK
<1>6. hilo[t].pc # "numerar" BY <1>3, <1>4 DEF DatoOK, Lista
<1>7. hilo[t].kind # "venta" /\ hilo[t].kind \notin SerieKinds /\ hilo[t].kind \notin SaleKinds
  BY <1>3, <1>4, <1>5 DEF DatoOK, Catalogo, Venta
<1>8. hilo[t].kind # "cotizar" BY <1>4, <1>5, <1>6 DEF DatoOK
<1> QED BY <1>2, <1>5, <1>6, <1>7, <1>8 DEF DeskKinds, Pasos

\* A request that writes its quotation is not an old one, or its kind is remembered:
\* then the quotation was not converted.
LEMMA WriterIsFresh ==
  ASSUME CounterOK, NEW c \in 1..Len(cotizacion), QuotationOK(c), NEW t \in Atenciones, hilo[t].obj = c,
         viejas' = IF hilo[t].vieja THEN viejas \cup {hilo[t].kind} ELSE viejas,
         viejas' \cap QuoteKinds = {}, c \notin cortadas
  PROVE  /\ ~hilo[t].vieja /\ cotizacion[c].estado # "convertida"
         /\ \A i : SaleMadeOf(i, c) => \E u \in Enlazan(c) : hilo[u].dato.venta = i
<1>1. hilo[t].kind \in QuoteKinds BY ObjectsAre
<1>2. ~hilo[t].vieja /\ viejas \cap QuoteKinds = {} BY <1>1
<1> QED BY <1>2 DEF QuotationOK

\* Every step keeps the invariant of every quotation.
LEMMA QuotationsInvariant == ASSUME CounterOK, QuotationsOK, [FulfilNext]_fulfilVars PROVE QuotationsOK'
<1>a. ThreadsOK /\ ventas \in Seq(VentasRows) /\ cotizacion \in Seq(CotizacionRows) /\ Len(cotizacion) \in Nat
      /\ Cots = 1..Len(cotizacion) /\ Len(ventas) \in Nat
  BY CotsAre DEF CounterOK, DeskTypeOK
<1>b. ASSUME NEW t \in Atenciones PROVE hilo[t].obj \in Int \cup {Ninguno}
  BY <1>a DEF ThreadsOK, Peticion
<1>c. \A c \in 1..Len(cotizacion) : c \in Int /\ c > 0 /\ c # Ninguno BY DeskAssumption
<1>d. Ocioso.obj = Ninguno BY DEF Ocioso
\* What most steps leave as it was: the states of the quotations and their sales.
<1>e. ASSUME viejas \subseteq viejas', cortadas \subseteq cortadas', ventas' = ventas,
             Len(cotizacion') = Len(cotizacion),
             \A c \in 1..Len(cotizacion) : cotizacion'[c].estado = cotizacion[c].estado,
             \A c \in 1..Len(cotizacion) : \A u \in Atenciones : Stays(u) \/ Ages(u) \/ Llega(u, c)
      PROVE  QuotationsOK'
  <2>1. ASSUME NEW c \in 1..Len(cotizacion) PROVE QuotationOK(c)'
    <3>1. QuotationOK(c) BY DEF QuotationsOK
    <3>2. \A i : SaleMadeOf(i, c)' => SaleMadeOf(i, c) BY <1>e DEF SaleMadeOf
    <3> QED BY <1>e, <3>1, <3>2, QuotationStays
  <2> QED BY <1>e, <2>1 DEF QuotationsOK
\* One on another object that ends, or starts.
<1>f. ASSUME NEW t \in Atenciones, hilo[t].pc # "enlazar", hilo'[t].obj \notin 1..Len(cotizacion)
      PROVE  \A c \in 1..Len(cotizacion) : Llega(t, c)
  BY <1>f DEF Llega
<1>g. Ninguno \notin 1..Len(cotizacion) /\ Catalogo \notin 1..Len(cotizacion) /\ Venta \notin 1..Len(cotizacion)
      /\ Lista \notin 1..Len(cotizacion)
  BY <1>c DEF Catalogo, Venta, Lista
<1>1. CASE SaleNext
  <2>1. UNCHANGED deskRows /\ viejas \subseteq viejas' /\ CounterOK' BY <1>1, SaleFrame
  <2>2. UNCHANGED <<cotizacion, ventas, cortadas>> BY <2>1 DEF deskRows
  <2>3. ASSUME NEW c \in 1..Len(cotizacion), NEW u \in Atenciones
        PROVE  Stays(u) \/ Ages(u) \/ Llega(u, c)
    <3>1. \/ Stays(u) \/ Ages(u)
          \/ /\ hilo[u].pc = "idle" \/ (hilo[u].kind \in SaleKinds /\ hilo[u].pc = "escribir")
             /\ hilo'[u].pc = "idle" \/ (hilo'[u].kind \in SaleKinds /\ hilo'[u].pc = "escribir")
      BY <1>1, SaleFrame
    <3>2. DatoOK(hilo[u], Len(cotizacion))' BY <2>1 DEF CounterOK
    <3>3. hilo'[u].pc = "idle" \/ (hilo'[u].kind \in SaleKinds /\ hilo'[u].pc = "escribir") => hilo'[u].obj \in {Ninguno, Venta}
      BY <3>2 DEF DatoOK
    <3> QED BY <1>g, <3>1, <3>3 DEF Llega
  <2> QED BY <1>e, <2>1, <2>2, <2>3
<1>2. CASE UNCHANGED fulfilVars
  <2>1. UNCHANGED <<cotizacion, ventas, cortadas, hilo, viejas>>
    BY <1>2 DEF fulfilVars, deskVars, deskRows, threads
  <2> QED BY <1>e, <2>1 DEF Stays
<1>3. CASE SerieRead
  <2>1. PICK t \in Atenciones, kind \in SerieKinds, d \in SerieDatos :
          /\ hilo[t].pc = "idle" /\ Reads(t, kind, "escribir", Catalogo, Ninguno, d) /\ UNCHANGED deskRows
    BY <1>3 DEF SerieRead
  <2>2. kind \in DeskKinds \cup SaleKinds /\ "escribir" \in Pasos /\ Catalogo \in Int \cup {Ninguno}
        /\ Ninguno \in Requests \cup {Ninguno}
    BY DEF DeskKinds, Pasos, Catalogo
  <2>3. Alone(t) /\ viejas' = viejas
        /\ hilo'[t] = [pc |-> "escribir", kind |-> kind, obj |-> Catalogo, req |-> Ninguno, dato |-> d, vieja |-> FALSE]
    BY ZenonT(40), <1>a, <2>1, <2>2, ReadsStep
  <2>4. \A c \in 1..Len(cotizacion) : Llega(t, c) BY <1>f, <1>g, <2>1, <2>3
  <2> QED BY <1>e, <2>1, <2>3, <2>4 DEF Alone, deskRows
<1>4. CASE DeskRead
  <2>1. PICK t \in Atenciones, kind \in DeskKinds \ SerieKinds, pc \in Pasos \ {"idle"},
             obj \in Int \cup {Ninguno}, req \in Requests \cup {Ninguno} : \E dato :
          /\ hilo[t].pc = "idle"
          /\ kind \in QuoteKinds => cotizacion[obj].estado # "convertida"
          /\ DatoOK([pc |-> pc, kind |-> kind, obj |-> obj, req |-> req, dato |-> dato, vieja |-> FALSE], Len(cotizacion))
          /\ Reads(t, kind, pc, obj, req, dato) /\ UNCHANGED deskRows
    BY ZenonT(40), <1>4 DEF DeskRead
  <2>2. PICK dato :
          /\ hilo[t].pc = "idle"
          /\ kind \in QuoteKinds => cotizacion[obj].estado # "convertida"
          /\ DatoOK([pc |-> pc, kind |-> kind, obj |-> obj, req |-> req, dato |-> dato, vieja |-> FALSE], Len(cotizacion))
          /\ Reads(t, kind, pc, obj, req, dato) /\ UNCHANGED deskRows
    BY <2>1
  <2>3. kind \in DeskKinds \cup SaleKinds /\ pc \in Pasos OBVIOUS
  <2>4. Alone(t) /\ viejas' = viejas
        /\ hilo'[t] = [pc |-> pc, kind |-> kind, obj |-> obj, req |-> req, dato |-> dato, vieja |-> FALSE]
    <3>1. Reads(t, kind, pc, obj, req, dato) BY <2>2
    <3>2. QED
      <4>1. ThreadsOK /\ obj \in Int \cup {Ninguno} /\ req \in Requests \cup {Ninguno} BY <1>a
      <4>2. PICK k, p : k = kind /\ p = pc OBVIOUS
      <4>3. k \in DeskKinds \cup SaleKinds /\ p \in Pasos /\ Reads(t, k, p, obj, req, dato)
        BY <2>3, <3>1, <4>2
      <4>4. Alone(t) /\ viejas' = viejas
            /\ hilo'[t] = [pc |-> p, kind |-> k, obj |-> obj, req |-> req, dato |-> dato, vieja |-> FALSE]
        BY <4>1, <4>3, ReadsStep
      <4> QED BY <4>2, <4>4
  <2>5. obj \in {Ninguno, Lista} \/ kind \in QuoteKinds BY <2>2 DEF DatoOK, DeskKinds
  <2>6. \A c \in 1..Len(cotizacion) : Llega(t, c) BY <1>g, <2>2, <2>4, <2>5 DEF Llega
  <2> QED BY <1>e, <2>2, <2>4, <2>6 DEF Alone, deskRows
<1>5. CASE DeskStill
  <2>1. \A c \in Cots : cotizacion'[c].estado = cotizacion[c].estado
    BY <1>5, <1>a, LapsedRow DEF DeskStill
  <2>2. Len(cotizacion') = Len(cotizacion) BY <1>5, <1>a, LapsedRow DEF DeskStill
  <2> QED BY <1>a, <1>e, <1>5, <2>1, <2>2 DEF DeskStill, Stays
<1>6. CASE DeskLeaves
  <2>1. PICK t \in Atenciones : /\ Refused(t) /\ UNCHANGED <<cotizacion, ventas>> /\ cortadas \subseteq cortadas'
                                /\ hilo[t].pc = "enlazar" => hilo[t].obj \in cortadas'
    BY <1>6 DEF DeskLeaves
  <2>2. Alone(t) /\ hilo'[t] = Ocioso /\ viejas' = viejas BY <1>a, <2>1, RefusedStep
  <2>3. ASSUME NEW c \in 1..Len(cotizacion) PROVE QuotationOK(c)'
    <3>1. CASE hilo[t].pc = "enlazar" /\ hilo[t].obj = c BY <2>1, <3>1 DEF QuotationOK
    <3>2. CASE ~(hilo[t].pc = "enlazar" /\ hilo[t].obj = c)
      <4>1. Llega(t, c) BY <1>d, <1>g, <2>2, <3>2 DEF Llega
      <4>2. \A i : SaleMadeOf(i, c)' => SaleMadeOf(i, c) BY <2>1 DEF SaleMadeOf
      <4>3. QuotationOK(c) BY DEF QuotationsOK
      <4> QED BY <2>1, <2>2, <4>1, <4>2, <4>3, QuotationStays DEF Alone
    <3> QED BY <3>1, <3>2
  <2> QED BY <2>1, <2>3 DEF QuotationsOK
<1>7. CASE SerieWrite
  <2>1. PICK t \in Atenciones : hilo[t].kind \in SerieKinds /\ hilo[t].pc = "escribir" /\ SavesSerie(t)
    BY <1>7 DEF SerieWrite
  <2>2. Writes(t, Catalogo, Ocioso) /\ UNCHANGED <<cotizacion, ventas, cortadas>>
    BY <2>1 DEF SavesSerie
  <2>3. Aged(t, Catalogo) /\ hilo'[t] = Ocioso /\ viejas \subseteq viejas'
    BY <1>a, <2>2, WritesStep DEF Catalogo
  <2>4. \A c \in 1..Len(cotizacion) : Llega(t, c) BY <1>d, <1>f, <1>g, <2>1, <2>3
  <2> QED BY <1>e, <2>2, <2>3, <2>4 DEF Aged
<1>8. CASE SaleFound
  <2>1. PICK t \in Atenciones, v \in DOMAIN ventas :
          hilo[t].pc = "vender" /\ hilo' = [hilo EXCEPT ![t] = AfterSale(t, v)] /\ UNCHANGED <<deskRows, viejas>>
    BY <1>8 DEF SaleFound
  <2>2. Alone(t) /\ hilo'[t] = AfterSale(t, v) /\ v \in Nat BY <2>1, SaleFoundStep
  <2>3. UNCHANGED <<cotizacion, ventas, cortadas>> BY <2>1 DEF deskRows
  <2>4. ASSUME NEW c \in 1..Len(cotizacion) PROVE QuotationOK(c)'
    <3>1. QuotationOK(c) BY DEF QuotationsOK
    <3>2. \A i : SaleMadeOf(i, c)' => SaleMadeOf(i, c) BY <2>3 DEF SaleMadeOf
    <3>3. \/ hilo'[t] = Ocioso
          \/ hilo'[t].obj = hilo[t].obj /\ hilo'[t].vieja = hilo[t].vieja
      <4>1. \/ AfterSale(t, v) = Ocioso
            \/ AfterSale(t, v).obj = hilo[t].obj /\ AfterSale(t, v).vieja = hilo[t].vieja
        BY <2>1, <2>2, AfterSaleIs, Zenon
      <4> QED BY <2>2, <4>1
    <3>4. CASE (viejas \cap QuoteKinds = {} /\ c \notin cortadas)
      <4>1. cotizacion[c].estado = "convertida" /\ hilo[t].obj = c => hilo[t].vieja
        BY <3>1, <3>4 DEF QuotationOK
      <4>2. Llega(t, c) BY <1>d, <1>g, <2>1, <3>3, <4>1 DEF Llega
      <4> QED BY <2>1, <2>2, <2>3, <3>1, <3>2, <4>2, QuotationStays DEF Alone
    <3>5. CASE ~(viejas \cap QuoteKinds = {} /\ c \notin cortadas)
      BY <2>1, <2>3, <3>5 DEF QuotationOK
    <3> QED BY <3>4, <3>5
  <2> QED BY <2>3, <2>4 DEF QuotationsOK
<1>9. CASE SaleMade
  <2>1. PICK t \in Atenciones :
          /\ hilo[t].pc = "vender" /\ ventas' = Append(ventas, SaleRow(hilo[t]))
          /\ Writes(t, hilo[t].obj, AfterSale(t, Len(ventas) + 1)) /\ UNCHANGED <<cotizacion, cortadas>>
    BY <1>9 DEF SaleMade
  <2>2. PICK k \in Nat : k = Len(ventas) + 1 BY <1>a
  <2>3. /\ Aged(t, hilo[t].obj) /\ hilo'[t] = AfterSale(t, k)
        /\ viejas' = IF hilo[t].vieja THEN viejas \cup {hilo[t].kind} ELSE viejas
    BY <2>1, <2>2, SaleMadeStep
  <2>4. SaleRow(hilo[t]) \in VentasRows /\ SaleRow(hilo[t]).cot = IF hilo[t].kind = "venta" THEN 0 ELSE hilo[t].obj
    BY <2>1, SaleRowTyped
  <2>5. /\ Len(ventas') = k /\ ventas'[k] = SaleRow(hilo[t])
        /\ \A i \in 1..Len(ventas) : ventas'[i] = ventas[i]
    BY <1>a, <2>1, <2>2, <2>4, SaleAdded
  <2>6. \/ hilo'[t] = Ocioso /\ hilo[t].kind = "venta" /\ hilo[t].obj = Ninguno
        \/ /\ hilo[t].kind = "convertirCotizacion" /\ hilo[t].obj \in 1..Len(cotizacion)
           /\ hilo'[t].pc = "enlazar" /\ hilo'[t].dato = [venta |-> k] /\ hilo'[t].obj = hilo[t].obj
    <3>1. \/ AfterSale(t, k) = Ocioso /\ hilo[t].kind = "venta" /\ hilo[t].obj = Ninguno
          \/ /\ hilo[t].kind = "convertirCotizacion" /\ hilo[t].obj \in 1..Len(cotizacion)
             /\ AfterSale(t, k).pc = "enlazar" /\ AfterSale(t, k).dato = [venta |-> k]
             /\ AfterSale(t, k).obj = hilo[t].obj
      BY <2>1, <2>2, AfterSaleIs, Zenon
    <3> QED BY <2>3, <3>1
  <2>7. ASSUME NEW c \in 1..Len(cotizacion) PROVE QuotationOK(c)'
    <3>1. QuotationOK(c) BY DEF QuotationsOK
    <3>2. CASE hilo[t].obj # c
      <4>1. \A i : SaleMadeOf(i, c)' => SaleMadeOf(i, c)
        BY <1>a, <1>c, <2>2, <2>4, <2>5, <2>6, <3>2 DEF SaleMadeOf
      <4>2. Llega(t, c) BY <1>d, <1>g, <2>6, <3>2 DEF Llega
      <4> QED BY <2>1, <2>3, <3>1, <4>1, <4>2, QuotationStays DEF Aged
    <3>3. CASE hilo[t].obj = c
      <4> SUFFICES ASSUME (viejas \cap QuoteKinds = {} /\ c \notin cortadas)'
                   PROVE  /\ cotizacion[c].estado # "convertida"
                          /\ \A i : SaleMadeOf(i, c)' => \E u \in Enlazan(c)' : hilo'[u].dato.venta = i
        BY <2>1 DEF QuotationOK
      <4>1. /\ cotizacion[c].estado # "convertida"
            /\ \A i : SaleMadeOf(i, c) => \E u \in Enlazan(c) : hilo[u].dato.venta = i
        BY <2>1, <2>3, <3>1, <3>3, WriterIsFresh
      <4>2. t \in Enlazan(c)' /\ hilo'[t].dato.venta = k BY <1>g, <2>6, <3>3 DEF Enlazan
      <4>3. ASSUME NEW u \in Enlazan(c) PROVE u \in Enlazan(c)' /\ hilo'[u].dato = hilo[u].dato
        BY <2>1, <2>3, <4>3 DEF Enlazan, Aged, Ages, Stays
      <4>4. ASSUME NEW i, SaleMadeOf(i, c)' PROVE i = k \/ SaleMadeOf(i, c)
        BY <1>a, <2>2, <2>5, <4>4 DEF SaleMadeOf
      <4>5. ASSUME NEW i, SaleMadeOf(i, c) PROVE \E u \in Enlazan(c)' : hilo'[u].dato.venta = i
        BY <4>1, <4>3, <4>5
      <4> QED BY <4>1, <4>2, <4>4, <4>5
    <3> QED BY <3>2, <3>3
  <2> QED BY <2>1, <2>7 DEF QuotationsOK
<1>10. CASE QuoteMade
  <2>1. PICK t \in Atenciones :
          /\ hilo[t].pc = "numerar"
          /\ cotizacion' = Append(cotizacion, [req |-> hilo[t].req, estado |-> "borrador", venta |-> 0, pasada |-> FALSE])
          /\ Writes(t, Lista, Ocioso) /\ UNCHANGED <<ventas, cortadas>>
    BY <1>10 DEF QuoteMade
  <2>2. hilo[t].req \in Requests \cup {Ninguno} BY <1>a DEF ThreadsOK, Peticion
  <2>3. PICK r : r = [req |-> hilo[t].req, estado |-> "borrador", venta |-> 0, pasada |-> FALSE]
    OBVIOUS
  <2>4. r \in CotizacionRows /\ r.estado = "borrador" BY <2>2, <2>3 DEF CotizacionRows
  <2>5. /\ Len(cotizacion') = Len(cotizacion) + 1
        /\ cotizacion'[Len(cotizacion) + 1] = r /\ \A d \in Cots : cotizacion'[d] = cotizacion[d]
    BY <1>a, <2>1, <2>3, <2>4, QuotationAdded
  <2>6. Aged(t, Lista) /\ hilo'[t] = Ocioso /\ viejas \subseteq viejas'
    BY <1>a, <2>1, WritesStep DEF Lista
  <2>7. ASSUME NEW c \in 1..Len(cotizacion) PROVE QuotationOK(c)'
    <3>1. QuotationOK(c) BY DEF QuotationsOK
    <3>2. \A i : SaleMadeOf(i, c)' => SaleMadeOf(i, c) BY <2>1 DEF SaleMadeOf
    <3>3. Llega(t, c) BY <1>d, <1>f, <1>g, <2>1, <2>6
    <3>4. cotizacion'[c].estado = cotizacion[c].estado BY <1>a, <2>5
    <3> QED BY <2>1, <2>6, <3>1, <3>2, <3>3, <3>4, QuotationStays DEF Aged
  <2>8. ASSUME NEW k, k = Len(cotizacion) + 1 PROVE QuotationOK(k)'
    <3>1. k = Len(cotizacion) + 1 BY <2>8
    <3>2. cotizacion'[k].estado # "convertida" BY <2>4, <2>5, <3>1
    <3>3. \A i \in 1..Len(ventas) : ventas[i].cot # k BY <1>a, <3>1 DEF CounterOK, VentasRows
    <3>4. ~ \E i : SaleMadeOf(i, k)' BY <2>1, <3>3 DEF SaleMadeOf
    <3>5. QuotationOK(k)' BY <3>2, <3>4 DEF QuotationOK
    <3> QED BY <3>5
  <2>9. ASSUME NEW c \in 1..Len(cotizacion') PROVE QuotationOK(c)'
    <3>1. c \in 1..Len(cotizacion) \/ c = Len(cotizacion) + 1 BY <1>a, <2>5
    <3> QED BY <3>1, <2>7, <2>8
  <2> QED BY <2>9 DEF QuotationsOK
\* The request writes its quotation.
<1>11. ASSUME NEW t \in Atenciones, hilo[t].pc \in {"enlazar", "escribir"}, hilo[t].obj \in Cots,
              cotizacion' \in Seq(CotizacionRows), Len(cotizacion') = Len(cotizacion),
              \A d \in Cots \ {hilo[t].obj} : cotizacion'[d] = cotizacion[d],
              Writes(t, hilo[t].obj, Ocioso), UNCHANGED <<ventas, cortadas>>,
              \/ hilo[t].pc = "enlazar" /\ cotizacion'[hilo[t].obj].estado = "convertida"
              \/ hilo[t].pc = "escribir" /\ cotizacion'[hilo[t].obj].estado # "convertida"
       PROVE  QuotationsOK'
  <2>1. /\ Aged(t, hilo[t].obj) /\ hilo'[t] = Ocioso
        /\ viejas' = IF hilo[t].vieja THEN viejas \cup {hilo[t].kind} ELSE viejas
    BY <1>a, <1>b, <1>11, WritesStep
  <2>2. ASSUME NEW c \in 1..Len(cotizacion) PROVE QuotationOK(c)'
    <3>1. QuotationOK(c) BY DEF QuotationsOK
    <3>2. \A i : SaleMadeOf(i, c)' <=> SaleMadeOf(i, c) BY <1>11 DEF SaleMadeOf
    <3>3. CASE hilo[t].obj # c
      <4>1. Llega(t, c) BY <1>d, <1>g, <2>1, <3>3 DEF Llega
      <4>2. cotizacion'[c].estado = cotizacion[c].estado BY <1>a, <1>11, <3>3
      <4> QED BY <1>11, <2>1, <3>1, <3>2, <4>1, <4>2, QuotationStays DEF Aged
    <3>4. CASE hilo[t].obj = c
      <4> SUFFICES ASSUME (viejas \cap QuoteKinds = {} /\ c \notin cortadas)'
                   PROVE  QuotationOK(c)'
        BY DEF QuotationOK
      <4>1. /\ ~hilo[t].vieja
            /\ \A i : SaleMadeOf(i, c) => \E u \in Enlazan(c) : hilo[u].dato.venta = i
        BY <1>11, <2>1, <3>1, <3>4, WriterIsFresh
      <4>2. ASSUME NEW u \in Atenciones \ {t}, hilo[u].obj = c PROVE Ages(u)
        BY <1>c, <2>1, <3>4, <4>2 DEF Aged
      <4>3. ASSUME NEW u \in Atenciones, hilo'[u].obj = c PROVE hilo'[u].vieja
        BY <1>d, <1>g, <2>1, <4>2, <4>3 DEF Aged, Ages, Stays
      <4>4. ASSUME NEW u \in Enlazan(c), u # t PROVE u \in Enlazan(c)' /\ hilo'[u].dato = hilo[u].dato
        BY <4>2, <4>4 DEF Enlazan, Ages
      <4>5. CASE hilo[t].pc = "enlazar"
        <5>1. cotizacion'[c].estado = "convertida" BY <1>11, <3>4, <4>5
        <5>2. ASSUME Enlazan(c)' = {}, NEW i, NEW j, SaleMadeOf(i, c)', SaleMadeOf(j, c)' PROVE i = j
          BY <3>2, <4>1, <4>4, <5>2
        <5> QED BY <4>3, <5>1, <5>2 DEF QuotationOK
      <4>6. CASE hilo[t].pc = "escribir"
        <5>1. cotizacion'[c].estado # "convertida" BY <1>11, <3>4, <4>6
        <5>2. t \notin Enlazan(c) BY <4>6 DEF Enlazan
        <5>3. ASSUME NEW i, SaleMadeOf(i, c)' PROVE \E u \in Enlazan(c)' : hilo'[u].dato.venta = i
          <6>1. PICK u \in Enlazan(c) : hilo[u].dato.venta = i BY <3>2, <4>1, <5>3
          <6> QED BY <4>4, <5>2, <6>1
        <5> QED BY <5>1, <5>3 DEF QuotationOK
      <4> QED BY <1>11, <4>5, <4>6
    <3> QED BY <3>3, <3>4
  <2> QED BY <1>11, <2>2 DEF QuotationsOK
<1>12. CASE LinkMade
  <2>1. PICK t \in Atenciones :
          /\ hilo[t].pc = "enlazar"
          /\ cotizacion' = [cotizacion EXCEPT ![hilo[t].obj].estado = "convertida", ![hilo[t].obj].venta = hilo[t].dato.venta]
          /\ Writes(t, hilo[t].obj, Ocioso) /\ UNCHANGED <<ventas, cortadas>>
    BY <1>12 DEF LinkMade
  <2>2. /\ hilo[t].obj \in Cots
        /\ cotizacion' \in Seq(CotizacionRows) /\ Len(cotizacion') = Len(cotizacion)
        /\ cotizacion'[hilo[t].obj].estado = "convertida"
        /\ \A d \in Cots \ {hilo[t].obj} : cotizacion'[d] = cotizacion[d]
    BY <2>1, LinkStep
  <2> QED BY <1>11, <2>1, <2>2
<1>13. CASE QuoteWrite
  <2>1. PICK t \in Atenciones : WriteQuote(t) BY <1>13 DEF QuoteWrite
  <2>2. hilo[t].pc = "escribir" BY <2>1 DEF WriteQuote
  <2> QED BY <1>11, <2>1, <2>2, QuoteWriteStep
<1>14. QED
  BY <1>1, <1>2, <1>3, <1>4, <1>5, <1>6, <1>7, <1>8, <1>9, <1>10, <1>12, <1>13, DeskShapes DEF FulfilNext

\* Of any number of quotations and requests at a time: a quotation gives one sale at
\* most and is converted once it has one, but for the conversions that overlapped
\* another request on it or ended between their sale and the quotation.
THEOREM QuotationsSellOnce == FulfilSpec => []OneSalePerQuotation
<1>1. FulfilInit => CounterOK /\ QuotationsOK
  <2>1. ASSUME FulfilInit PROVE QuotationsOK
    <3>1. Len(cotizacion) = 0 BY <2>1 DEF FulfilInit, DeskInit
    <3> QED BY <3>1 DEF QuotationsOK
  <2> QED BY <2>1, CounterInit DEF FulfilInit
<1>2. CounterOK /\ QuotationsOK /\ [FulfilNext]_fulfilVars => (CounterOK /\ QuotationsOK)'
  BY CounterStays, QuotationsInvariant
<1>3. CounterOK /\ QuotationsOK => OneSalePerQuotation
  <2> SUFFICES ASSUME CounterOK, QuotationsOK, NEW c \in Cots, c \notin cortadas, viejas \cap QuoteKinds = {},
                      ~ \E t \in Atenciones : hilo[t].obj = c /\ hilo[t].pc = "enlazar"
               PROVE  /\ Cardinality({i \in DOMAIN ventas : ventas[i].cot = c}) <= 1
                      /\ {i \in DOMAIN ventas : ventas[i].cot = c} # {} => cotizacion[c].estado = "convertida"
    BY DEF OneSalePerQuotation
  <2>1. PICK S : S = {i \in DOMAIN ventas : ventas[i].cot = c} OBVIOUS
  <2>2. \A i \in S : SaleMadeOf(i, c) BY <2>1 DEF SaleMadeOf, CounterOK
  <2>3. Enlazan(c) = {} BY DEF Enlazan
  <2>4. QuotationOK(c) BY CotsAre DEF QuotationsOK, CounterOK, DeskTypeOK
  <2>5. S # {} => cotizacion[c].estado = "convertida" BY <2>2, <2>3, <2>4 DEF QuotationOK
  <2>6. \A i, j \in S : i = j BY <2>2, <2>3, <2>4, <2>5 DEF QuotationOK
  <2>7. Cardinality(S) <= 1 BY <2>6, AtMostOne
  <2> QED BY <2>1, <2>5, <2>7
<1> QED BY <1>1, <1>2, <1>3, PTL DEF FulfilSpec

----------------------------------------
(* The sale: its requests and what they remember.                          *)

\* Who is about to write the sale was about to, and remembers the same: in the first
\* case as an old request.
Pending(h) == h.kind \in SaleKinds /\ h.pc = "escribir"
AllOld ==
  \A u \in Atenciones : Pending(hilo'[u]) =>
    Pending(hilo[u]) /\ hilo'[u].kind = hilo[u].kind /\ hilo'[u].dato = hilo[u].dato /\ hilo'[u].vieja
NoneNew ==
  \A u \in Atenciones : Pending(hilo'[u]) =>
    /\ Pending(hilo[u]) /\ hilo'[u].kind = hilo[u].kind /\ hilo'[u].dato = hilo[u].dato
    /\ hilo[u].vieja => hilo'[u].vieja

\* A request about to write the sale has the sale as its object.
LEMMA PendingIsOnSale ==
  ASSUME CounterOK, NEW u \in Atenciones, Pending(hilo[u]) PROVE hilo[u].obj = Venta
  BY DEF CounterOK, DatoOK, Pending

\* Who writes the sale makes old whoever is about to write it.
LEMMA OldAre ==
  ASSUME CounterOK, NEW t \in Atenciones, Aged(t, Venta), ~Pending(hilo'[t])
  PROVE  AllOld
<1>1. Venta # Ninguno BY DeskAssumption DEF Venta
<1>2. ASSUME NEW u \in Atenciones, Pending(hilo'[u])
      PROVE  Pending(hilo[u]) /\ hilo'[u].kind = hilo[u].kind /\ hilo'[u].dato = hilo[u].dato /\ hilo'[u].vieja
  <2>1. u # t BY <1>2
  <2>2. Stays(u) \/ Ages(u) BY <2>1 DEF Aged
  <2>3. Pending(hilo[u]) BY <1>2, <2>2 DEF Stays, Ages, Pending
  <2>4. Ages(u) BY <1>1, <2>1, <2>3, PendingIsOnSale DEF Aged
  <2> QED BY <2>3, <2>4 DEF Ages
<1> QED BY <1>2 DEF AllOld

\* So does a write after a read,
LEMMA SaleWritesFrame ==
  ASSUME CounterOK, NEW t \in Atenciones, WritesSale(t)
  PROVE  AllOld /\ viejas' = IF hilo[t].vieja THEN viejas \cup {hilo[t].kind} ELSE viejas
<1>1. Writes(t, Venta, Ocioso) /\ ThreadsOK /\ Venta \in Int \cup {Ninguno}
  BY DEF WritesSale, CounterOK, Venta
<1>2. /\ Aged(t, Venta) /\ hilo'[t] = Ocioso
      /\ viejas' = IF hilo[t].vieja THEN viejas \cup {hilo[t].kind} ELSE viejas
  BY <1>1, WritesStep
<1>3. ~Pending(hilo'[t]) BY <1>2 DEF Pending, Ocioso
<1> QED BY <1>2, <1>3, OldAre

\* and a read and a write in one transaction.
LEMMA AtOnceFrame ==
  ASSUME CounterOK, NEW t \in Atenciones, NEW kind, AtOnce(t, kind)
  PROVE  AllOld /\ viejas' = viejas
<1>1. ThreadsOK /\ hilo[t].pc = "idle" BY DEF CounterOK, AtOnce, Arrives
<1>2. Aged(t, Venta) /\ Stays(t) /\ viejas' = viejas BY <1>1, AtOnceStep
<1>3. ~Pending(hilo'[t]) BY <1>1, <1>2 DEF Pending, Stays
<1> QED BY <1>2, <1>3, OldAre

\* A read moves its thread only.
LEMMA SaleReadsFrame ==
  ASSUME CounterOK, NEW t \in Atenciones, NEW kind \in SaleKinds, NEW dato, ReadsSale(t, kind, dato)
  PROVE  /\ Alone(t) /\ viejas' = viejas /\ UNCHANGED saleVars
         /\ hilo'[t].kind = kind /\ hilo'[t].dato = dato
<1>1. /\ ThreadsOK /\ "escribir" \in Pasos /\ Venta \in Int \cup {Ninguno} /\ Ninguno \in Requests \cup {Ninguno}
      /\ kind \in DeskKinds \cup SaleKinds
  BY DEF CounterOK, Pasos, Venta
<1>2. Reads(t, kind, "escribir", Venta, Ninguno, dato) /\ UNCHANGED saleVars BY DEF ReadsSale
<1>3. /\ Alone(t) /\ viejas' = viejas
      /\ hilo'[t] = [pc |-> "escribir", kind |-> kind, obj |-> Venta, req |-> Ninguno, dato |-> dato, vieja |-> FALSE]
  BY <1>1, <1>2, ReadsStep
<1> QED BY <1>2, <1>3

\* A request that is refused leaves the others as they were.
LEMMA RefusedFrame ==
  ASSUME CounterOK, NEW t \in Atenciones, Refused(t)
  PROVE  NoneNew /\ viejas' = viejas
<1>1. Alone(t) /\ hilo'[t] = Ocioso /\ viejas' = viejas BY RefusedStep DEF CounterOK
<1> QED BY <1>1 DEF NoneNew, Alone, Stays, Pending, Ocioso, SaleKinds

\* The requests of the counter are none on the sale.
LEMMA DeskFrame ==
  ASSUME CounterOK, DeskNext
  PROVE  NoneNew /\ viejas \subseteq viejas'
<1> DEFINE Fuera(u) == Stays(u) \/ Ages(u) \/ ~Pending(hilo'[u])
<1>a. ThreadsOK BY DEF CounterOK
<1>b. ASSUME NEW t \in Atenciones PROVE hilo[t].obj \in Int \cup {Ninguno}
  BY <1>a DEF ThreadsOK, Peticion
<1>c. ASSUME \A u \in Atenciones : Fuera(u) PROVE NoneNew BY <1>c DEF NoneNew, Stays, Ages, Pending
<1>d. ~Pending(Ocioso) BY DEF Ocioso, Pending
<1>e. \A kind \in DeskKinds : kind \notin SaleKinds
  BY DEF DeskKinds, SaleKinds, SerieKinds, QuoteKinds
<1>1. CASE SerieRead \/ DeskRead
  <2>1. PICK t \in Atenciones, kind \in DeskKinds, pc \in Pasos, obj \in Int \cup {Ninguno},
             req \in Requests \cup {Ninguno} : \E dato : Reads(t, kind, pc, obj, req, dato)
    <3>1. CASE SerieRead
      <4>1. PICK t \in Atenciones, kind \in SerieKinds, d \in SerieDatos :
              Reads(t, kind, "escribir", Catalogo, Ninguno, d)
        BY <3>1 DEF SerieRead
      <4>2. kind \in DeskKinds /\ "escribir" \in Pasos /\ Catalogo \in Int \cup {Ninguno}
            /\ Ninguno \in Requests \cup {Ninguno}
        BY DEF DeskKinds, Pasos, Catalogo
      <4> QED BY <4>1, <4>2
    <3>2. CASE DeskRead BY <3>2 DEF DeskRead
    <3> QED BY <1>1, <3>1, <3>2
  <2>2. PICK dato : Reads(t, kind, pc, obj, req, dato) BY <2>1
  <2>3. kind \in DeskKinds \cup SaleKinds OBVIOUS
  <2>4. Alone(t) /\ viejas' = viejas
        /\ hilo'[t] = [pc |-> pc, kind |-> kind, obj |-> obj, req |-> req, dato |-> dato, vieja |-> FALSE]
    BY <1>a, <2>2, <2>3, ReadsStep
  <2>5. hilo'[t].kind = kind BY <2>4
  <2>6. \A u \in Atenciones : Fuera(u) BY <1>e, <2>4, <2>5 DEF Alone, Pending
  <2> QED BY <1>c, <2>4, <2>6
<1>2. CASE DeskStill BY <1>c, <1>2 DEF DeskStill, Stays
<1>3. CASE DeskLeaves BY <1>3, RefusedFrame DEF DeskLeaves
<1>4. CASE SaleFound
  <2>1. PICK t \in Atenciones, v \in DOMAIN ventas :
          hilo[t].pc = "vender" /\ hilo' = [hilo EXCEPT ![t] = AfterSale(t, v)] /\ UNCHANGED viejas
    BY <1>4 DEF SaleFound
  <2>2. Alone(t) /\ hilo'[t] = AfterSale(t, v) /\ v \in Nat BY <2>1, SaleFoundStep
  <2>3. AfterSale(t, v) = Ocioso \/ AfterSale(t, v).pc = "enlazar" BY <2>1, <2>2, AfterSaleIs, Zenon
  <2>4. \A u \in Atenciones : Fuera(u) BY <1>d, <2>2, <2>3 DEF Alone, Pending
  <2> QED BY <1>c, <2>1, <2>4
<1>5. CASE SaleMade
  <2>1. PICK t \in Atenciones :
          hilo[t].pc = "vender" /\ Writes(t, hilo[t].obj, AfterSale(t, Len(ventas) + 1))
    BY <1>5 DEF SaleMade
  <2>2. /\ Aged(t, hilo[t].obj) /\ hilo'[t] = AfterSale(t, Len(ventas) + 1) /\ Len(ventas) + 1 \in Nat
        /\ viejas \subseteq viejas'
    BY <2>1, SaleMadeStep
  <2>3. AfterSale(t, Len(ventas) + 1) = Ocioso \/ AfterSale(t, Len(ventas) + 1).pc = "enlazar"
    BY <2>1, <2>2, AfterSaleIs, Zenon
  <2>4. \A u \in Atenciones : Fuera(u) BY <1>d, <2>2, <2>3 DEF Aged, Pending
  <2> QED BY <1>c, <2>2, <2>4
<1>6. ASSUME NEW t \in Atenciones, NEW obj \in Int \cup {Ninguno}, Writes(t, obj, Ocioso)
      PROVE  NoneNew /\ viejas \subseteq viejas'
  <2>1. Aged(t, obj) /\ hilo'[t] = Ocioso /\ viejas \subseteq viejas' BY <1>a, <1>6, WritesStep
  <2>2. \A u \in Atenciones : Fuera(u) BY <1>d, <2>1 DEF Aged
  <2> QED BY <1>c, <2>1, <2>2
<1>7. CASE SerieWrite BY <1>6, <1>7 DEF SerieWrite, SavesSerie, Catalogo
<1>8. CASE QuoteMade BY <1>6, <1>8 DEF QuoteMade, Lista
<1>9. CASE LinkMade BY <1>6, <1>9, <1>b DEF LinkMade
<1>10. CASE QuoteWrite BY <1>6, <1>10, <1>b DEF QuoteWrite, WriteQuote
<1> QED BY <1>1, <1>2, <1>3, <1>4, <1>5, <1>7, <1>8, <1>9, <1>10, DeskShapes

----------------------------------------
(* The sale: its invariant.                                                *)

\* What a request on the sale remembers, by its kind.
SaleDato(h) ==
  /\ h.kind = "entregar"    => h.dato \in [unidades : Nat]
  /\ h.kind = "estadoEnvio" => h.dato \in [estado : {"EN_TRANSITO", "ENTREGADO"}]
  /\ h.kind = "incidencia"  => h.dato \in [anterior : IncidenciaRows]
  /\ h.kind = "resolver"    => h.dato \in [indice : Nat, anterior : IncidenciaRows]
  /\ h.kind = "enlace"      => h.dato \in [nuevo : BOOLEAN, sin : BOOLEAN]
SaleTyped ==
  /\ vendida \in VentaRows /\ entregas \in EntregaRows /\ envio \in EnvioRows
  /\ incidencias \in Seq(IncidenciaRows)
  /\ \A t \in Atenciones : Pending(hilo[t]) => SaleDato(hilo[t])

\* The papers: a nota de venta has no number and no void, and whoever is about to
\* convert or annul it read it as one and was not overtaken.
PaperKnows(kind) ==
  /\ kind = "convertirVenta" => vendida.tipo = "nota_venta" /\ vendida.estado = "completada"
  /\ kind = "anular" => vendida.tipo = "nota_venta"
PaperFacts ==
  /\ vendida.numeros <= 1
  /\ vendida.tipo = "nota_venta" => vendida.numeros = 0 /\ vendida.baja = "ninguna"
  /\ (vendida.tipo = "boleta" /\ vendida.estado = "anulada") => vendida.baja = "aceptada"
PapersOK ==
  Old({"convertirVenta", "anular"}) \/
    /\ PaperFacts
    /\ \A t \in Atenciones : (Pending(hilo[t]) /\ ~hilo[t].vieja) => PaperKnows(hilo[t].kind)

\* The goods: what was handed over is what the deliveries say, once they count, and
\* whoever is about to move them read them as they are.
GoodsKinds == {"entregar", "enlace", "estadoEnvio", "incidencia", "resolver"}
Entregadas == entregas.cliente + entregas.courier
GoodsFacts ==
  /\ Entregadas <= Vendidas
  /\ (vendida.recojo \/ envio.existe) => vendida.entregado = Entregadas
  /\ (~vendida.recojo /\ ~envio.existe) => Entregadas = 0
  /\ ~envio.existe => envio.logistico = "ninguno" /\ envio.estado = "ninguno"
  /\ envio.logistico = "ENTREGADO" => vendida.entregado >= Vendidas
  /\ envio.logistico = "INCIDENCIA" => incidencias # <<>>
GoodsKnows(kind, d) ==
  /\ kind = "entregar" => vendida.recojo /\ ~envio.existe /\ vendida.entregado + d.unidades <= Vendidas
  /\ kind = "estadoEnvio" => envio.existe /\ (d.estado = "ENTREGADO" => vendida.entregado >= Vendidas)
  /\ kind \in {"incidencia", "resolver"} => envio.existe
  /\ kind = "enlace" => (d.nuevo <=> ~envio.existe) /\ (d.sin <=> Entregadas = 0)
GoodsOK ==
  Old(GoodsKinds) \/
    /\ GoodsFacts
    /\ \A t \in Atenciones : (Pending(hilo[t]) /\ ~hilo[t].vieja) => GoodsKnows(hilo[t].kind, hilo[t].dato)

SaleOK == CounterOK /\ SaleTyped /\ PapersOK /\ GoodsOK

PaperSame == /\ vendida'.tipo = vendida.tipo /\ vendida'.estado = vendida.estado
             /\ vendida'.baja = vendida.baja /\ vendida'.numeros = vendida.numeros
GoodsSame == /\ vendida'.recojo = vendida.recojo /\ vendida'.entregado = vendida.entregado
             /\ UNCHANGED <<entregas, envio, incidencias>>

\* What the requests remember stays typed when none of them is new.
LEMMA DatosStay ==
  ASSUME SaleTyped, AllOld \/ NoneNew
  PROVE  \A t \in Atenciones : Pending(hilo'[t]) => SaleDato(hilo'[t])
  BY DEF SaleTyped, AllOld, NoneNew, SaleDato

\* The invariant of the papers stays where they do not change and no request is new.
LEMMA PapersStay ==
  ASSUME PapersOK, PaperSame, viejas \subseteq viejas', AllOld \/ NoneNew
  PROVE  PapersOK'
<1> SUFFICES ASSUME ~Old({"convertirVenta", "anular"})'
             PROVE  /\ PaperFacts'
                    /\ \A t \in Atenciones : (Pending(hilo'[t]) /\ ~hilo'[t].vieja) => PaperKnows(hilo[t].kind)'
  BY DEF PapersOK, Pending
<1>1. /\ PaperFacts
      /\ \A t \in Atenciones : (Pending(hilo[t]) /\ ~hilo[t].vieja) => PaperKnows(hilo[t].kind)
  BY DEF PapersOK, Old
<1>2. PaperFacts' BY <1>1 DEF PaperFacts, PaperSame
<1>3. ASSUME NEW t \in Atenciones, Pending(hilo'[t]), ~hilo'[t].vieja PROVE PaperKnows(hilo[t].kind)'
  <2>1. Pending(hilo[t]) /\ hilo'[t].kind = hilo[t].kind /\ ~hilo[t].vieja
    BY <1>3 DEF AllOld, NoneNew
  <2>2. PaperKnows(hilo[t].kind) BY <1>1, <2>1
  <2> QED BY <2>1, <2>2 DEF PaperKnows, PaperSame
<1> QED BY <1>2, <1>3

\* The invariant of the goods stays where they do not change and no request is new.
LEMMA GoodsStay ==
  ASSUME GoodsOK, GoodsSame, viejas \subseteq viejas', AllOld \/ NoneNew
  PROVE  GoodsOK'
<1> SUFFICES ASSUME ~Old(GoodsKinds)'
             PROVE  /\ GoodsFacts'
                    /\ \A t \in Atenciones : (Pending(hilo'[t]) /\ ~hilo'[t].vieja) => GoodsKnows(hilo[t].kind, hilo[t].dato)'
  BY DEF GoodsOK, Pending
<1>1. /\ GoodsFacts
      /\ \A t \in Atenciones : (Pending(hilo[t]) /\ ~hilo[t].vieja) => GoodsKnows(hilo[t].kind, hilo[t].dato)
  BY DEF GoodsOK, Old
<1>2. GoodsFacts' BY <1>1 DEF GoodsFacts, GoodsSame, Entregadas
<1>3. ASSUME NEW t \in Atenciones, Pending(hilo'[t]), ~hilo'[t].vieja PROVE GoodsKnows(hilo[t].kind, hilo[t].dato)'
  <2>1. Pending(hilo[t]) /\ hilo'[t].kind = hilo[t].kind /\ hilo'[t].dato = hilo[t].dato /\ ~hilo[t].vieja
    BY <1>3 DEF AllOld, NoneNew
  <2>2. GoodsKnows(hilo[t].kind, hilo[t].dato) BY <1>1, <2>1
  <2> QED BY <2>1, <2>2 DEF GoodsKnows, GoodsSame, Entregadas
<1> QED BY <1>2, <1>3

\* A request that reads the sale as it is.
LEMMA SaleIsReadOK ==
  ASSUME SaleOK, CounterOK', NEW t \in Atenciones, NEW kind \in SaleKinds, NEW dato, ReadsSale(t, kind, dato),
         SaleDato([kind |-> kind, dato |-> dato]), PaperKnows(kind), ~Old(GoodsKinds) => GoodsKnows(kind, dato)
  PROVE  SaleOK'
<1>1. /\ Alone(t) /\ viejas' = viejas /\ UNCHANGED saleVars
      /\ hilo'[t].kind = kind /\ hilo'[t].dato = dato
  BY SaleReadsFrame DEF SaleOK
<1>2. UNCHANGED <<vendida, entregas, envio, incidencias>> BY <1>1 DEF saleVars
<1>3. SaleTyped'
  <2>1. ASSUME NEW u \in Atenciones, Pending(hilo'[u]) PROVE SaleDato(hilo'[u])
    <3>1. CASE u = t BY <1>1, <3>1 DEF SaleDato
    <3>2. CASE u # t BY <1>1, <2>1, <3>2 DEF SaleOK, SaleTyped, Alone, Stays
    <3> QED BY <3>1, <3>2
  <2> QED BY <1>2, <2>1 DEF SaleOK, SaleTyped
<1>4. PapersOK'
  <2>1. CASE Old({"convertirVenta", "anular"}) BY <1>1, <2>1 DEF PapersOK, Old
  <2>2. CASE ~Old({"convertirVenta", "anular"})
    <3>1. PaperFacts' BY <1>2, <2>2 DEF SaleOK, PapersOK, PaperFacts
    <3>2. ASSUME NEW u \in Atenciones, Pending(hilo'[u]), ~hilo'[u].vieja PROVE PaperKnows(hilo[u].kind)'
      <4>1. CASE u = t BY <1>1, <1>2, <4>1 DEF PaperKnows
      <4>2. CASE u # t
        BY <1>1, <1>2, <2>2, <3>2, <4>2 DEF SaleOK, PapersOK, Alone, Stays, PaperKnows
      <4> QED BY <4>1, <4>2
    <3> QED BY <3>1, <3>2 DEF PapersOK, Pending
  <2> QED BY <2>1, <2>2
<1>5. GoodsOK'
  <2>1. CASE Old(GoodsKinds) BY <1>1, <2>1 DEF GoodsOK, Old
  <2>2. CASE ~Old(GoodsKinds)
    <3>1. GoodsFacts' BY <1>2, <2>2 DEF SaleOK, GoodsOK, GoodsFacts, Entregadas
    <3>2. ASSUME NEW u \in Atenciones, Pending(hilo'[u]), ~hilo'[u].vieja PROVE GoodsKnows(hilo[u].kind, hilo[u].dato)'
      <4>1. CASE u = t BY <1>1, <1>2, <2>2, <4>1 DEF GoodsKnows, Entregadas
      <4>2. CASE u # t
        BY <1>1, <1>2, <2>2, <3>2, <4>2 DEF SaleOK, GoodsOK, Alone, Stays, GoodsKnows, Entregadas
      <4> QED BY <4>1, <4>2
    <3> QED BY <3>1, <3>2 DEF GoodsOK, Pending
  <2> QED BY <2>1, <2>2
<1> QED BY <1>3, <1>4, <1>5 DEF SaleOK

\* One that writes it makes the others old: only the rows are to be seen.
LEMMA PapersWritten ==
  ASSUME AllOld, Old({"convertirVenta", "anular"})' \/ PaperFacts'
  PROVE  PapersOK'
  BY DEF PapersOK, AllOld, Pending
\* The same of the goods.
LEMMA GoodsWritten ==
  ASSUME AllOld, Old(GoodsKinds)' \/ GoodsFacts'
  PROVE  GoodsOK'
  BY DEF GoodsOK, AllOld, Pending

\* It knew what it writes over, or is remembered.
LEMMA WriterKnew ==
  ASSUME SaleOK, NEW t \in Atenciones, Pending(hilo[t]),
         viejas' = IF hilo[t].vieja THEN viejas \cup {hilo[t].kind} ELSE viejas
  PROVE  /\ ~Old({"convertirVenta", "anular"})' =>
              PaperFacts /\ (hilo[t].kind \in {"convertirVenta", "anular"} => PaperKnows(hilo[t].kind))
         /\ ~Old(GoodsKinds)' =>
              GoodsFacts /\ (hilo[t].kind \in GoodsKinds => GoodsKnows(hilo[t].kind, hilo[t].dato))
         /\ SaleDato(hilo[t]) /\ viejas \subseteq viejas'
<1>1. SaleDato(hilo[t]) /\ viejas \subseteq viejas' BY DEF SaleOK, SaleTyped
<1>2. ASSUME ~Old({"convertirVenta", "anular"})'
      PROVE  PaperFacts /\ (hilo[t].kind \in {"convertirVenta", "anular"} => PaperKnows(hilo[t].kind))
  <2>1. ~Old({"convertirVenta", "anular"}) BY <1>1, <1>2 DEF Old
  <2>2. hilo[t].kind \in {"convertirVenta", "anular"} => ~hilo[t].vieja BY <1>2 DEF Old
  <2> QED BY <2>1, <2>2 DEF SaleOK, PapersOK
<1>3. ASSUME ~Old(GoodsKinds)'
      PROVE  GoodsFacts /\ (hilo[t].kind \in GoodsKinds => GoodsKnows(hilo[t].kind, hilo[t].dato))
  <2>1. ~Old(GoodsKinds) BY <1>1, <1>3 DEF Old
  <2>2. hilo[t].kind \in GoodsKinds => ~hilo[t].vieja BY <1>3 DEF Old
  <2> QED BY <2>1, <2>2 DEF SaleOK, GoodsOK
<1> QED BY <1>1, <1>2, <1>3

\* The units of the sale and of its deliveries are numbers.
LEMMA NatRows ==
  ASSUME SaleTyped
  PROVE  /\ vendida.entregado \in Nat /\ vendida.numeros \in Nat /\ entregas.cliente \in Nat /\ entregas.courier \in Nat
         /\ Vendidas \in Nat \ {0} /\ envio.existe \in BOOLEAN /\ vendida.recojo \in BOOLEAN
  BY FulfilmentAssumption DEF SaleTyped, VentaRows, EntregaRows, EnvioRows

\* The row of a sale with its units written.
LEMMA VentaWritten ==
  ASSUME SaleTyped, NEW n \in Nat, NEW e \in {"pendiente", "parcial", "entregada"},
         vendida' = [vendida EXCEPT !.entregado = n, !.entrega = e]
  PROVE  vendida' \in VentaRows /\ vendida'.entregado = n /\ vendida'.recojo = vendida.recojo /\ PaperSame
<1>1. PICK r \in VentaRows : r = vendida BY DEF SaleTyped
<1>2. PICK v : v = [r EXCEPT !.entregado = n, !.entrega = e] OBVIOUS
<1>3. v \in VentaRows /\ v.entregado = n /\ v.tipo = r.tipo /\ v.estado = r.estado
      /\ v.baja = r.baja /\ v.numeros = r.numeros /\ v.recojo = r.recojo
  BY <1>2 DEF VentaRows
<1>4. vendida' = v BY <1>1, <1>2
<1> QED BY <1>1, <1>3, <1>4 DEF PaperSame

\* The state of the delivery, from the units handed over.
LEMMA EntregaIs == ASSUME NEW n PROVE Entrega(n) \in {"pendiente", "parcial", "entregada"}
  BY DEF Entrega

\* A delivery at the counter.
LEMMA DeliveryOK == ASSUME SaleOK, CounterOK', NEW t \in Atenciones, WriteDelivery(t) PROVE SaleOK'
<1>1. /\ Pending(hilo[t]) /\ hilo[t].kind = "entregar" /\ UNCHANGED <<envio, incidencias, papers>> /\ WritesSale(t)
      /\ entregas' = [entregas EXCEPT !.cliente = @ + hilo[t].dato.unidades]
  BY DEF WriteDelivery, Writing, Pending, SaleKinds
<1>2. AllOld /\ viejas' = IF hilo[t].vieja THEN viejas \cup {hilo[t].kind} ELSE viejas
  BY <1>1, SaleWritesFrame DEF SaleOK
<1>3. /\ ~Old({"convertirVenta", "anular"})' => PaperFacts
      /\ ~Old(GoodsKinds)' => GoodsFacts /\ (hilo[t].kind \in GoodsKinds => GoodsKnows(hilo[t].kind, hilo[t].dato))
      /\ SaleDato(hilo[t])
  BY <1>1, <1>2, WriterKnew
<1>4. PICK k \in Nat : k = hilo[t].dato.unidades BY <1>1, <1>3 DEF SaleDato
<1>5. PICK n \in Nat : n = vendida.entregado + k BY NatRows DEF SaleOK
<1>6. vendida' = [vendida EXCEPT !.entregado = n, !.entrega = Entrega(n)]
  BY <1>4, <1>5 DEF WriteDelivery
<1>7. /\ vendida' \in VentaRows /\ vendida'.entregado = n /\ vendida'.recojo = vendida.recojo /\ PaperSame
  <2>1. SaleTyped /\ Entrega(n) \in {"pendiente", "parcial", "entregada"} BY EntregaIs DEF SaleOK
  <2> QED BY <1>6, <2>1, VentaWritten
<1>8. PICK e \in EntregaRows : e = entregas BY DEF SaleOK, SaleTyped
<1>9. entregas' = [e EXCEPT !.cliente = e.cliente + k] BY <1>1, <1>4, <1>8
<1>10. entregas' \in EntregaRows /\ entregas'.cliente = entregas.cliente + k /\ entregas'.courier = entregas.courier
  BY <1>8, <1>9 DEF EntregaRows
<1>11. SaleTyped' BY <1>1, <1>2, <1>7, <1>10, DatosStay DEF SaleOK, SaleTyped
<1>12. PapersOK' BY <1>2, <1>7, PapersStay DEF SaleOK
<1>13. ASSUME ~Old(GoodsKinds)' PROVE GoodsFacts'
  <2>1. GoodsFacts /\ vendida.recojo /\ ~envio.existe /\ vendida.entregado + k <= Vendidas
    BY <1>1, <1>3, <1>4, <1>13 DEF GoodsKinds, GoodsKnows
  <2>2. vendida.entregado = entregas.cliente + entregas.courier BY <2>1 DEF GoodsFacts, Entregadas
  <2>3. envio.logistico = "ninguno" BY <2>1 DEF GoodsFacts
  <2>4. Entregadas' = n /\ n <= Vendidas BY <1>5, <1>10, <2>1, <2>2, NatRows DEF Entregadas, SaleOK
  <2> QED BY <1>1, <1>7, <2>1, <2>3, <2>4 DEF GoodsFacts
<1>14. GoodsOK' BY <1>2, <1>13, GoodsWritten
<1> QED BY <1>11, <1>12, <1>14 DEF SaleOK

\* A dispatch to the courier, at once.
LEMMA DispatchOK ==
  ASSUME SaleOK, CounterOK', NEW t \in Atenciones, NEW k \in 1..Vendidas, Dispatch(t, k) PROVE SaleOK'
<1>1. /\ envio.estado = "recibido" /\ k <= Pendiente /\ k \in Nat /\ Vendidas \in Nat
      /\ entregas' = [entregas EXCEPT !.courier = @ + k] /\ envio' = [envio EXCEPT !.logistico = "EN_TRANSITO"]
      /\ AtOnce(t, "despachar") /\ UNCHANGED <<incidencias, papers>>
  BY FulfilmentAssumption DEF Dispatch
<1>2. AllOld /\ viejas' = viejas BY <1>1, AtOnceFrame DEF SaleOK
<1>3. PICK n \in Nat : n = vendida.entregado + k BY <1>1, NatRows DEF SaleOK
<1>4. vendida' = [vendida EXCEPT !.entregado = n, !.entrega = Entrega(n)]
  <2>1. PICK r \in VentaRows : r = vendida BY DEF SaleOK, SaleTyped
  <2>2. vendida' = [r EXCEPT !.entregado = r.entregado + k, !.entrega = Entrega(n)]
    BY <1>3, <2>1 DEF Dispatch
  <2> QED BY <1>3, <2>1, <2>2
<1>5. /\ vendida' \in VentaRows /\ vendida'.entregado = n /\ vendida'.recojo = vendida.recojo /\ PaperSame
  <2>1. SaleTyped /\ Entrega(n) \in {"pendiente", "parcial", "entregada"} BY EntregaIs DEF SaleOK
  <2> QED BY <1>4, <2>1, VentaWritten
<1>6. PICK e \in EntregaRows : e = entregas BY DEF SaleOK, SaleTyped
<1>7. entregas' = [e EXCEPT !.courier = e.courier + k] BY <1>1, <1>6
<1>8. entregas' \in EntregaRows /\ entregas'.courier = entregas.courier + k /\ entregas'.cliente = entregas.cliente
  BY <1>1, <1>6, <1>7 DEF EntregaRows
<1>9. PICK x \in EnvioRows : x = envio BY DEF SaleOK, SaleTyped
<1>10. envio' \in EnvioRows /\ envio'.existe = envio.existe /\ envio'.logistico = "EN_TRANSITO"
  BY <1>1, <1>9 DEF EnvioRows
<1>11. SaleTyped' BY <1>1, <1>2, <1>5, <1>8, <1>10, DatosStay DEF SaleOK, SaleTyped
<1>12. PapersOK' BY <1>2, <1>5, PapersStay DEF SaleOK
<1>13. ASSUME ~Old(GoodsKinds)' PROVE GoodsFacts'
  <2>1. GoodsFacts BY <1>2, <1>13 DEF SaleOK, GoodsOK, Old
  <2>2. envio.existe BY <1>1, <2>1 DEF GoodsFacts
  <2>3. vendida.entregado = entregas.cliente + entregas.courier
    BY <2>1, <2>2 DEF GoodsFacts, Entregadas
  <2>4. Entregadas' = n BY <1>3, <1>1, <1>8, <2>3, NatRows DEF Entregadas, SaleOK
  <2>5. n <= Vendidas BY <1>1, <1>3, NatRows DEF Pendiente, SaleOK
  <2> QED BY <1>5, <1>10, <2>2, <2>4, <2>5 DEF GoodsFacts
<1>14. GoodsOK' BY <1>2, <1>13, GoodsWritten
<1> QED BY <1>11, <1>12, <1>14 DEF SaleOK

\* What is written of the shipment and of its incidents, with the units as they were.
LEMMA ShipmentOK ==
  ASSUME SaleOK, CounterOK', NEW t \in Atenciones, Pending(hilo[t]), WritesSale(t), UNCHANGED <<vendida, entregas>>,
         envio' \in EnvioRows, incidencias' \in Seq(IncidenciaRows), envio'.existe = envio.existe,
         hilo[t].kind \notin {"convertirVenta", "anular"},
         (GoodsFacts /\ (hilo[t].kind \in GoodsKinds => GoodsKnows(hilo[t].kind, hilo[t].dato))) =>
           /\ ~envio'.existe => envio'.logistico = "ninguno" /\ envio'.estado = "ninguno"
           /\ envio'.logistico = "ENTREGADO" => vendida.entregado >= Vendidas
           /\ envio'.logistico = "INCIDENCIA" => incidencias' # <<>>
  PROVE  SaleOK'
<1>1. AllOld /\ viejas' = IF hilo[t].vieja THEN viejas \cup {hilo[t].kind} ELSE viejas
  BY SaleWritesFrame DEF SaleOK
<1>2. /\ ~Old(GoodsKinds)' => GoodsFacts /\ (hilo[t].kind \in GoodsKinds => GoodsKnows(hilo[t].kind, hilo[t].dato))
      /\ viejas \subseteq viejas'
  BY <1>1, WriterKnew
<1>3. SaleTyped' BY <1>1, DatosStay DEF SaleOK, SaleTyped
<1>4. PapersOK' BY <1>1, <1>2, PapersStay DEF SaleOK, PaperSame
<1>5. ASSUME ~Old(GoodsKinds)' PROVE GoodsFacts' BY <1>2, <1>5 DEF GoodsFacts, Entregadas
<1> QED BY <1>1, <1>3, <1>4, <1>5, GoodsWritten DEF SaleOK

\* The shipment with its state written.
LEMMA EnvioWritten ==
  ASSUME SaleTyped, NEW l \in {"ninguno", "POR_PREPARAR", "POR_DESPACHAR", "EN_TRANSITO", "ENTREGADO", "INCIDENCIA"}
  PROVE  LET x == [envio EXCEPT !.logistico = l]
         IN x \in EnvioRows /\ x.existe = envio.existe /\ x.estado = envio.estado /\ x.logistico = l
<1>1. PICK r \in EnvioRows : r = envio BY DEF SaleTyped
<1>2. PICK x : x = [r EXCEPT !.logistico = l] OBVIOUS
<1>3. x \in EnvioRows /\ x.existe = r.existe /\ x.estado = r.estado /\ x.logistico = l
  BY <1>2 DEF EnvioRows
<1> QED BY <1>1, <1>2, <1>3

\* The state of a shipment that is changed.
LEMMA StatusOK == ASSUME SaleOK, CounterOK', NEW t \in Atenciones, WriteShippingStatus(t) PROVE SaleOK'
<1>1. /\ Pending(hilo[t]) /\ hilo[t].kind = "estadoEnvio" /\ WritesSale(t) /\ UNCHANGED <<vendida, entregas, incidencias>>
      /\ envio' = [envio EXCEPT !.logistico = hilo[t].dato.estado]
  BY DEF WriteShippingStatus, Writing, Pending, SaleKinds
<1>2. SaleTyped BY DEF SaleOK
<1>3. hilo[t].dato \in [estado : {"EN_TRANSITO", "ENTREGADO"}] BY <1>1, <1>2 DEF SaleTyped, SaleDato
<1>4. PICK l \in {"EN_TRANSITO", "ENTREGADO"} : l = hilo[t].dato.estado BY <1>3
<1>5. envio' \in EnvioRows /\ envio'.existe = envio.existe /\ envio'.logistico = l
  BY <1>1, <1>2, <1>4, EnvioWritten
<1>6. incidencias' \in Seq(IncidenciaRows) /\ hilo[t].kind \notin {"convertirVenta", "anular"}
  BY <1>1, <1>2 DEF SaleTyped
<1>7. (GoodsFacts /\ (hilo[t].kind \in GoodsKinds => GoodsKnows(hilo[t].kind, hilo[t].dato))) =>
           /\ ~envio'.existe => envio'.logistico = "ninguno" /\ envio'.estado = "ninguno"
           /\ envio'.logistico = "ENTREGADO" => vendida.entregado >= Vendidas
           /\ envio'.logistico = "INCIDENCIA" => incidencias' # <<>>
  BY <1>1, <1>4, <1>5 DEF GoodsKinds, GoodsKnows
<1> QED BY <1>1, <1>5, <1>6, <1>7, ShipmentOK

\* An incident, which keeps what the shipment was.
LEMMA IncidentOK == ASSUME SaleOK, CounterOK', NEW t \in Atenciones, WriteIncident(t) PROVE SaleOK'
<1>1. /\ Pending(hilo[t]) /\ hilo[t].kind = "incidencia" /\ WritesSale(t) /\ UNCHANGED <<vendida, entregas>>
      /\ incidencias' = Append(incidencias, hilo[t].dato.anterior)
      /\ envio' = [envio EXCEPT !.logistico = "INCIDENCIA"]
  BY DEF WriteIncident, Writing, Pending, SaleKinds
<1>2. SaleTyped BY DEF SaleOK
<1>3. hilo[t].dato \in [anterior : IncidenciaRows] BY <1>1, <1>2 DEF SaleTyped, SaleDato
<1>4. PICK a \in IncidenciaRows : a = hilo[t].dato.anterior BY <1>3
<1>5. incidencias' \in Seq(IncidenciaRows) /\ incidencias' # <<>> BY <1>1, <1>2, <1>4 DEF SaleTyped
<1>6. envio' \in EnvioRows /\ envio'.existe = envio.existe /\ envio'.logistico = "INCIDENCIA"
  BY <1>1, <1>2, EnvioWritten
<1>7. hilo[t].kind \notin {"convertirVenta", "anular"} BY <1>1
<1>8. (GoodsFacts /\ (hilo[t].kind \in GoodsKinds => GoodsKnows(hilo[t].kind, hilo[t].dato))) =>
           /\ ~envio'.existe => envio'.logistico = "ninguno" /\ envio'.estado = "ninguno"
           /\ envio'.logistico = "ENTREGADO" => vendida.entregado >= Vendidas
           /\ envio'.logistico = "INCIDENCIA" => incidencias' # <<>>
  BY <1>1, <1>5, <1>6 DEF GoodsKinds, GoodsKnows
<1> QED BY <1>1, <1>5, <1>6, <1>7, <1>8, ShipmentOK

\* An incident that is resolved: the shipment is again what the incident kept.
LEMMA ResolutionOK == ASSUME SaleOK, CounterOK', NEW t \in Atenciones, WriteResolution(t) PROVE SaleOK'
<1>1. /\ Pending(hilo[t]) /\ hilo[t].kind = "resolver" /\ WritesSale(t) /\ UNCHANGED <<vendida, entregas>>
      /\ envio' = [envio EXCEPT !.logistico = hilo[t].dato.anterior]
  BY DEF WriteResolution, Writing, Pending, SaleKinds
<1>2. SaleTyped BY DEF SaleOK
<1>3. hilo[t].dato \in [indice : Nat, anterior : IncidenciaRows]
  BY <1>1, <1>2 DEF SaleTyped, SaleDato
<1>4. PICK a \in IncidenciaRows, i \in Nat : a = hilo[t].dato.anterior /\ i = hilo[t].dato.indice
  BY <1>3
<1>5. \/ incidencias' = incidencias
      \/ incidencias' = RemoveAt(incidencias, i) /\ i <= Len(incidencias)
  BY <1>4 DEF WriteResolution
<1>6. incidencias' \in Seq(IncidenciaRows)
  <2>1. CASE incidencias' = incidencias BY <1>2, <2>1 DEF SaleTyped
  <2>2. CASE incidencias' = RemoveAt(incidencias, i) /\ i <= Len(incidencias)
    <3>1. incidencias \in Seq(IncidenciaRows) BY <1>2 DEF SaleTyped
    <3>2. SubSeq(incidencias, 1, i - 1) \in Seq(IncidenciaRows) BY <2>2, <3>1
    <3>3. SubSeq(incidencias, i + 1, Len(incidencias)) \in Seq(IncidenciaRows) BY <2>2, <3>1
    <3> QED BY <2>2, <3>2, <3>3 DEF RemoveAt
  <2> QED BY <1>5, <2>1, <2>2
<1>7. envio' \in EnvioRows /\ envio'.existe = envio.existe /\ envio'.logistico = a
  BY <1>1, <1>2, <1>4, EnvioWritten DEF IncidenciaRows
<1>8. hilo[t].kind \notin {"convertirVenta", "anular"} BY <1>1
<1>9. (GoodsFacts /\ (hilo[t].kind \in GoodsKinds => GoodsKnows(hilo[t].kind, hilo[t].dato))) =>
           /\ ~envio'.existe => envio'.logistico = "ninguno" /\ envio'.estado = "ninguno"
           /\ envio'.logistico = "ENTREGADO" => vendida.entregado >= Vendidas
           /\ envio'.logistico = "INCIDENCIA" => incidencias' # <<>>
  BY <1>1, <1>7 DEF GoodsKinds, GoodsKnows, IncidenciaRows
<1> QED BY <1>1, <1>6, <1>7, <1>8, <1>9, ShipmentOK

\* A link of the shipment: the one it knew there was not, or a new one.
LEMMA LinkOK == ASSUME SaleOK, CounterOK', NEW t \in Atenciones, WriteLink(t) PROVE SaleOK'
<1>1. Pending(hilo[t]) /\ hilo[t].kind = "enlace" /\ UNCHANGED <<entregas, incidencias, papers>>
  BY DEF WriteLink, Writing, Pending, SaleKinds
<1>2. SaleTyped /\ CounterOK /\ PapersOK /\ GoodsOK BY DEF SaleOK
<1>3. CASE Refused(t) /\ UNCHANGED <<vendida, envio>>
  <2>1. NoneNew /\ viejas' = viejas BY <1>2, <1>3, RefusedFrame
  <2>2. SaleTyped' BY <1>1, <1>2, <1>3, <2>1, DatosStay DEF SaleTyped
  <2>3. PapersOK' /\ GoodsOK'
    BY <1>1, <1>2, <1>3, <2>1, PapersStay, GoodsStay DEF PaperSame, GoodsSame
  <2> QED BY <2>2, <2>3 DEF SaleOK
<1>4. CASE /\ envio' = [existe |-> TRUE, estado |-> "pendiente", logistico |-> "POR_PREPARAR"]
           /\ vendida' = IF hilo[t].dato.nuevo /\ hilo[t].dato.sin
                         THEN [vendida EXCEPT !.entregado = 0, !.entrega = "pendiente"] ELSE vendida
           /\ WritesSale(t)
  <2>1. AllOld /\ viejas' = IF hilo[t].vieja THEN viejas \cup {hilo[t].kind} ELSE viejas
    BY <1>2, <1>4, SaleWritesFrame
  <2>2. /\ ~Old({"convertirVenta", "anular"})' => PaperFacts
        /\ ~Old(GoodsKinds)' => GoodsFacts /\ (hilo[t].kind \in GoodsKinds => GoodsKnows(hilo[t].kind, hilo[t].dato))
        /\ viejas \subseteq viejas'
    BY <1>1, <2>1, WriterKnew
  <2>3. /\ envio' \in EnvioRows /\ envio'.existe = TRUE /\ envio'.logistico = "POR_PREPARAR"
    BY <1>4 DEF EnvioRows
  <2>4. \/ /\ vendida' \in VentaRows /\ vendida'.entregado = 0 /\ vendida'.recojo = vendida.recojo /\ PaperSame
           /\ hilo[t].dato.nuevo /\ hilo[t].dato.sin
        \/ vendida' = vendida /\ ~(hilo[t].dato.nuevo /\ hilo[t].dato.sin)
    <3>1. CASE hilo[t].dato.nuevo /\ hilo[t].dato.sin
      <4>1. vendida' = [vendida EXCEPT !.entregado = 0, !.entrega = "pendiente"] BY <1>4, <3>1
      <4>2. vendida' \in VentaRows /\ vendida'.entregado = 0 /\ vendida'.recojo = vendida.recojo /\ PaperSame
        BY <1>2, <4>1, VentaWritten
      <4> QED BY <3>1, <4>2
    <3>2. CASE ~(hilo[t].dato.nuevo /\ hilo[t].dato.sin) BY <1>4, <3>2
    <3> QED BY <3>1, <3>2
  <2>5. SaleTyped' BY <1>1, <1>2, <2>1, <2>3, <2>4, DatosStay DEF SaleTyped
  <2>6. PapersOK' BY <1>2, <2>1, <2>2, <2>4, PapersStay DEF PaperSame
  <2>7. ASSUME ~Old(GoodsKinds)' PROVE GoodsFacts'
    <3>1. /\ GoodsFacts /\ (hilo[t].dato.nuevo <=> ~envio.existe) /\ (hilo[t].dato.sin <=> Entregadas = 0)
      BY <1>1, <2>2, <2>7 DEF GoodsKinds, GoodsKnows
    <3>2. Entregadas' = Entregadas /\ Entregadas <= Vendidas
      BY <1>1, <3>1 DEF Entregadas, GoodsFacts
    <3>3. vendida'.entregado = Entregadas BY <2>4, <3>1 DEF GoodsFacts
    <3> QED BY <2>3, <3>2, <3>3 DEF GoodsFacts
  <2>8. GoodsOK' BY <2>1, <2>7, GoodsWritten
  <2> QED BY <2>5, <2>6, <2>8 DEF SaleOK
<1> QED BY <1>3, <1>4 DEF WriteLink

\* The data of the client: they find the link waiting, or are refused.
LEMMA ShippingOK == ASSUME SaleOK, CounterOK', NEW t \in Atenciones, WriteShipping(t) PROVE SaleOK'
<1>1. /\ Pending(hilo[t]) /\ hilo[t].kind = "datosEnvio" /\ UNCHANGED <<vendida, entregas, incidencias>>
  BY DEF WriteShipping, Writing, Pending, SaleKinds
<1>2. SaleTyped /\ CounterOK /\ PapersOK /\ GoodsOK BY DEF SaleOK
<1>3. CASE Refused(t) /\ UNCHANGED envio
  <2>1. NoneNew /\ viejas' = viejas BY <1>2, <1>3, RefusedFrame
  <2>2. SaleTyped' BY <1>1, <1>2, <1>3, <2>1, DatosStay DEF SaleTyped
  <2>3. PapersOK' /\ GoodsOK'
    BY <1>1, <1>2, <1>3, <2>1, PapersStay, GoodsStay DEF PaperSame, GoodsSame
  <2> QED BY <2>2, <2>3 DEF SaleOK
<1>4. CASE /\ envio.estado = "pendiente" /\ WritesSale(t)
           /\ envio' = [envio EXCEPT !.estado = "recibido", !.logistico = "POR_DESPACHAR"]
  <2>1. PICK r \in EnvioRows : r = envio BY <1>2 DEF SaleTyped
  <2>2. envio' \in EnvioRows /\ envio'.existe = envio.existe /\ envio'.logistico = "POR_DESPACHAR"
    BY <1>4, <2>1 DEF EnvioRows
  <2>3. incidencias' \in Seq(IncidenciaRows) /\ hilo[t].kind \notin {"convertirVenta", "anular"}
    BY <1>1, <1>2 DEF SaleTyped
  <2>4. (GoodsFacts /\ (hilo[t].kind \in GoodsKinds => GoodsKnows(hilo[t].kind, hilo[t].dato))) =>
           /\ ~envio'.existe => envio'.logistico = "ninguno" /\ envio'.estado = "ninguno"
           /\ envio'.logistico = "ENTREGADO" => vendida.entregado >= Vendidas
           /\ envio'.logistico = "INCIDENCIA" => incidencias' # <<>>
    BY <1>4, <2>2 DEF GoodsFacts
  <2>5. WritesSale(t) /\ UNCHANGED <<vendida, entregas>> BY <1>1, <1>4
  <2> QED BY <1>1, <2>2, <2>3, <2>4, <2>5, ShipmentOK
<1> QED BY <1>3, <1>4 DEF WriteShipping

\* Papers that are written leave the goods alone.
LEMMA PaperOK ==
  ASSUME SaleOK, CounterOK', AllOld, viejas \subseteq viejas', vendida' \in VentaRows, GoodsSame,
         ~Old({"convertirVenta", "anular"})' => PaperFacts'
  PROVE  SaleOK'
<1>1. SaleTyped' BY DatosStay DEF SaleOK, SaleTyped, GoodsSame
<1>2. GoodsOK' BY GoodsStay DEF SaleOK
<1>3. PapersOK' BY PapersWritten
<1> QED BY <1>1, <1>2, <1>3 DEF SaleOK

\* A nota de venta that becomes a boleta takes its only number.
LEMMA ConversionOK == ASSUME SaleOK, CounterOK', NEW t \in Atenciones, WriteConversion(t) PROVE SaleOK'
<1>1. /\ Pending(hilo[t]) /\ hilo[t].kind = "convertirVenta" /\ UNCHANGED goods /\ WritesSale(t)
      /\ vendida' = [vendida EXCEPT !.tipo = "boleta", !.aceptada = FALSE, !.numeros = @ + 1]
  BY DEF WriteConversion, Writing, Pending, SaleKinds
<1>2. AllOld /\ viejas' = IF hilo[t].vieja THEN viejas \cup {hilo[t].kind} ELSE viejas
  BY <1>1, SaleWritesFrame DEF SaleOK
<1>3. /\ ~Old({"convertirVenta", "anular"})' =>
           PaperFacts /\ (hilo[t].kind \in {"convertirVenta", "anular"} => PaperKnows(hilo[t].kind))
      /\ viejas \subseteq viejas'
  BY <1>1, <1>2, WriterKnew
<1>4. PICK r \in VentaRows : r = vendida BY DEF SaleOK, SaleTyped
<1>5. PICK k \in Nat : k = r.numeros + 1
  <2>1. r.numeros \in Nat BY <1>4 DEF VentaRows
  <2> QED BY <2>1
<1>6. /\ vendida' \in VentaRows /\ vendida'.tipo = "boleta" /\ vendida'.numeros = k
      /\ vendida'.estado = r.estado /\ vendida'.recojo = r.recojo /\ vendida'.entregado = r.entregado
  <2>1. PICK v : v = [r EXCEPT !.tipo = "boleta", !.aceptada = FALSE, !.numeros = k] OBVIOUS
  <2>2. v \in VentaRows BY <2>1 DEF VentaRows
  <2>3. /\ v.tipo = "boleta" /\ v.numeros = k
        /\ v.estado = r.estado /\ v.recojo = r.recojo /\ v.entregado = r.entregado
    BY <2>1 DEF VentaRows
  <2>4. vendida' = v BY <1>1, <1>4, <1>5, <2>1
  <2> QED BY <2>2, <2>3, <2>4
<1>7. GoodsSame BY <1>1, <1>4, <1>6 DEF GoodsSame, goods
<1>8. ASSUME ~Old({"convertirVenta", "anular"})' PROVE PaperFacts'
  <2>1. r.numeros = 0 /\ r.estado = "completada"
    BY <1>1, <1>3, <1>4, <1>8 DEF PaperFacts, PaperKnows
  <2> QED BY <1>5, <1>6, <2>1 DEF PaperFacts
<1> QED BY <1>2, <1>3, <1>6, <1>7, <1>8, PaperOK

\* A sale that is annulled at once is a nota de venta.
LEMMA AnnulmentOK == ASSUME SaleOK, CounterOK', NEW t \in Atenciones, WriteAnnulment(t) PROVE SaleOK'
<1>1. /\ Pending(hilo[t]) /\ hilo[t].kind = "anular" /\ UNCHANGED goods /\ WritesSale(t)
      /\ vendida' = [vendida EXCEPT !.estado = "anulada"]
  BY DEF WriteAnnulment, Writing, Pending, SaleKinds
<1>2. AllOld /\ viejas' = IF hilo[t].vieja THEN viejas \cup {hilo[t].kind} ELSE viejas
  BY <1>1, SaleWritesFrame DEF SaleOK
<1>3. /\ ~Old({"convertirVenta", "anular"})' =>
           PaperFacts /\ (hilo[t].kind \in {"convertirVenta", "anular"} => PaperKnows(hilo[t].kind))
      /\ viejas \subseteq viejas'
  BY <1>1, <1>2, WriterKnew
<1>4. PICK r \in VentaRows : r = vendida BY DEF SaleOK, SaleTyped
<1>5. vendida' = [r EXCEPT !.estado = "anulada"] BY <1>1, <1>4
<1>6. /\ vendida' \in VentaRows /\ vendida'.tipo = r.tipo /\ vendida'.numeros = r.numeros
      /\ vendida'.baja = r.baja /\ vendida'.recojo = r.recojo /\ vendida'.entregado = r.entregado
  BY <1>4, <1>5 DEF VentaRows
<1>7. GoodsSame BY <1>1, <1>4, <1>6 DEF GoodsSame, goods
<1>8. ASSUME ~Old({"convertirVenta", "anular"})' PROVE PaperFacts'
  <2>1. PaperFacts /\ r.tipo = "nota_venta" BY <1>1, <1>3, <1>4, <1>8 DEF PaperKnows
  <2> QED BY <1>4, <1>6, <2>1 DEF PaperFacts
<1> QED BY <1>2, <1>3, <1>6, <1>7, <1>8, PaperOK

\* A void that is opened: the sale is a boleta, and is not annulled yet.
LEMMA OpenedOK ==
  ASSUME SaleOK, CounterOK', NEW t \in Atenciones, NEW kind, vendida.estado # "anulada", vendida.tipo # "nota_venta",
         vendida' = [vendida EXCEPT !.baja = "abierta"], AtOnce(t, kind), UNCHANGED goods
  PROVE  SaleOK'
<1>2. AllOld /\ viejas' = viejas BY AtOnceFrame DEF SaleOK
<1>4. PICK r \in VentaRows : r = vendida BY DEF SaleOK, SaleTyped
<1>5. vendida' = [r EXCEPT !.baja = "abierta"] BY <1>4
<1>6. /\ vendida' \in VentaRows /\ vendida'.tipo = r.tipo /\ vendida'.numeros = r.numeros
      /\ vendida'.estado = r.estado /\ vendida'.recojo = r.recojo /\ vendida'.entregado = r.entregado
  BY <1>4, <1>5 DEF VentaRows
<1>7. GoodsSame BY <1>4, <1>6 DEF GoodsSame, goods
<1>8. ASSUME ~Old({"convertirVenta", "anular"})' PROVE PaperFacts'
  <2>1. PaperFacts BY <1>2, <1>8 DEF SaleOK, PapersOK, Old
  <2> QED BY <1>4, <1>6, <2>1 DEF PaperFacts
<1> QED BY <1>2, <1>6, <1>7, <1>8, PaperOK

\* A note that is written: neither the sale nor its goods change.
LEMMA NotesOK ==
  ASSUME SaleOK, CounterOK', NEW t \in Atenciones, WriteCreditNote(t) \/ WriteDebitNote(t) PROVE SaleOK'
<1>1. WritesSale(t) /\ UNCHANGED <<vendida, entregas, envio, incidencias>>
  BY DEF WriteCreditNote, WriteDebitNote, goods
<1>2. AllOld /\ viejas \subseteq viejas'
  <2>1. AllOld /\ viejas' = IF hilo[t].vieja THEN viejas \cup {hilo[t].kind} ELSE viejas
    BY <1>1, SaleWritesFrame DEF SaleOK
  <2> QED BY <2>1
<1>3. SaleTyped' BY <1>1, <1>2, DatosStay DEF SaleOK, SaleTyped
<1>4. PapersOK' /\ GoodsOK' BY <1>1, <1>2, PapersStay, GoodsStay DEF SaleOK, PaperSame, GoodsSame
<1> QED BY <1>3, <1>4 DEF SaleOK

----------------------------------------
(* The sale: what the other modules answer, and what reads it.             *)

\* A sale that SUNAT accepted: neither its papers nor its goods change.
LEMMA AcceptedOK == ASSUME SaleOK, CounterOK', SaleAccepted PROVE SaleOK'
<1>1. /\ vendida' = [vendida EXCEPT !.aceptada = TRUE] /\ hilo' = hilo /\ viejas' = viejas
      /\ UNCHANGED <<entregas, envio, incidencias>>
  BY DEF SaleAccepted, Answers, deskVars, threads, goods
<1>2. PICK r \in VentaRows : r = vendida BY DEF SaleOK, SaleTyped
<1>3. vendida' = [r EXCEPT !.aceptada = TRUE] BY <1>1, <1>2
<1>4. vendida' \in VentaRows /\ PaperSame /\ GoodsSame
  BY <1>1, <1>2, <1>3 DEF VentaRows, PaperSame, GoodsSame
<1>5. NoneNew BY <1>1 DEF NoneNew
<1>6. SaleTyped' BY <1>1, <1>4, <1>5, DatosStay DEF SaleOK, SaleTyped
<1>7. PapersOK' /\ GoodsOK' BY <1>1, <1>4, <1>5, PapersStay, GoodsStay DEF SaleOK
<1> QED BY <1>6, <1>7 DEF SaleOK

\* A void that SUNAT answers is of a boleta: nobody is about to annul or convert it.
LEMMA AnsweredOK == ASSUME SaleOK, CounterOK', VoidAnswered PROVE SaleOK'
<1>1. /\ vendida.baja = "abierta" /\ hilo' = hilo /\ viejas' = viejas
      /\ UNCHANGED <<entregas, envio, incidencias>>
      /\ \/ vendida' = [vendida EXCEPT !.baja = "aceptada", !.estado = "anulada"]
         \/ vendida' = [vendida EXCEPT !.baja = "rechazada"]
  BY DEF VoidAnswered, Answers, deskVars, threads, goods
<1>2. PICK r \in VentaRows : r = vendida BY DEF SaleOK, SaleTyped
<1>3. /\ vendida' \in VentaRows /\ vendida'.tipo = r.tipo /\ vendida'.numeros = r.numeros
      /\ vendida'.recojo = r.recojo /\ vendida'.entregado = r.entregado
      /\ \/ vendida'.baja = "aceptada"
         \/ vendida'.baja = "rechazada" /\ vendida'.estado = r.estado
  <2>1. CASE vendida' = [vendida EXCEPT !.baja = "aceptada", !.estado = "anulada"]
    <3>1. vendida' = [r EXCEPT !.baja = "aceptada", !.estado = "anulada"] BY <1>2, <2>1
    <3> QED BY <1>2, <3>1 DEF VentaRows
  <2>2. CASE vendida' = [vendida EXCEPT !.baja = "rechazada"]
    <3>1. vendida' = [r EXCEPT !.baja = "rechazada"] BY <1>2, <2>2
    <3> QED BY <1>2, <3>1 DEF VentaRows
  <2> QED BY <1>1, <2>1, <2>2
<1>4. GoodsSame BY <1>1, <1>2, <1>3 DEF GoodsSame
<1>5. NoneNew BY <1>1 DEF NoneNew
<1>6. SaleTyped' BY <1>1, <1>3, <1>5, DatosStay DEF SaleOK, SaleTyped
<1>7. GoodsOK' BY <1>1, <1>4, <1>5, GoodsStay DEF SaleOK
<1>8. PapersOK'
  <2> SUFFICES ASSUME ~Old({"convertirVenta", "anular"})' PROVE PapersOK' BY DEF PapersOK
  <2>1. /\ PaperFacts
        /\ \A t \in Atenciones : (Pending(hilo[t]) /\ ~hilo[t].vieja) => PaperKnows(hilo[t].kind)
    BY <1>1 DEF SaleOK, PapersOK, Old
  <2>2. vendida.tipo # "nota_venta" /\ vendida.estado # "anulada"
    <3>1. vendida.tipo \in {"nota_venta", "boleta"} BY <1>2 DEF VentaRows
    <3> QED BY <1>1, <2>1, <3>1 DEF PaperFacts
  <2>3. PaperFacts' BY <1>2, <1>3, <2>1, <2>2 DEF PaperFacts
  <2>4. ASSUME NEW t \in Atenciones, Pending(hilo'[t]), ~hilo'[t].vieja PROVE PaperKnows(hilo[t].kind)'
    <3>1. PaperKnows(hilo[t].kind) BY <1>1, <2>1, <2>4
    <3>2. hilo'[t].kind # "convertirVenta" /\ hilo'[t].kind # "anular"
      BY <1>1, <2>2, <3>1 DEF PaperKnows
    <3> QED BY <3>2 DEF PaperKnows
  <2> QED BY <2>3, <2>4 DEF PapersOK, Pending
<1> QED BY <1>6, <1>7, <1>8 DEF SaleOK

\* What leaves the sale alone, and nobody new on it.
LEMMA ElsewhereOK ==
  ASSUME SaleOK, CounterOK', NoneNew, viejas \subseteq viejas', UNCHANGED <<vendida, entregas, envio, incidencias>>
  PROVE  SaleOK'
<1>1. SaleTyped' BY DatosStay DEF SaleOK, SaleTyped
<1>2. PapersOK' /\ GoodsOK' BY PapersStay, GoodsStay DEF SaleOK, PaperSame, GoodsSame
<1> QED BY <1>1, <1>2 DEF SaleOK

\* The reads: what each one remembers, and what it knows of the sale.
LEMMA ReadsOK ==
  ASSUME SaleOK, CounterOK', NEW t \in Atenciones,
         \/ \E n \in 1..Vendidas : Deliver(t, n)
         \/ \E e \in {"EN_TRANSITO", "ENTREGADO"} : ShippingStatus(t, e)
         \/ Incident(t) \/ SubmitShipping(t) \/ ConvertSale(t) \/ CreateDebitNote(t)
         \/ \E i \in DOMAIN incidencias : Resolve(t, i)
         \/ \E again \in BOOLEAN : GenerateLink(t, again)
         \/ \E m \in {"02", "03", "06", "07"} : CreateCreditNote(t, m)
         \/ vendida.tipo = "nota_venta" /\ ReadsSale(t, "anular", Ninguno)
  PROVE  SaleOK'
<1> DEFINE Lee(kind, dato) ==
             /\ kind \in SaleKinds /\ ReadsSale(t, kind, dato) /\ SaleDato([kind |-> kind, dato |-> dato])
             /\ PaperKnows(kind) /\ (~Old(GoodsKinds) => GoodsKnows(kind, dato))
<1>1. SaleTyped /\ GoodsOK /\ Vendidas \in Nat /\ vendida.entregado \in Nat BY NatRows DEF SaleOK
<1>2. ASSUME \E kind, dato : Lee(kind, dato) PROVE SaleOK'
  <2>1. PICK kind, dato : Lee(kind, dato) BY <1>2
  <2> QED BY <2>1, SaleIsReadOK
<1>3. ASSUME NEW n \in 1..Vendidas, Deliver(t, n) PROVE \E kind, dato : Lee(kind, dato)
  <2>1. PICK d : d = [unidades |-> n] OBVIOUS
  <2>2. ReadsSale(t, "entregar", d) /\ vendida.recojo /\ ~envio.existe /\ n <= Pendiente /\ n \in Nat
    BY <1>1, <1>3, <2>1 DEF Deliver
  <2>3. d \in [unidades : Nat] /\ d.unidades = n BY <2>1, <2>2
  <2>4. vendida.entregado + d.unidades <= Vendidas BY <1>1, <1>3, <2>2, <2>3 DEF Pendiente
  <2>5. GoodsKnows("entregar", d) BY <2>2, <2>4 DEF GoodsKnows
  <2>6. SaleDato([kind |-> "entregar", dato |-> d]) BY <2>3 DEF SaleDato
  <2>7. "entregar" \in SaleKinds /\ PaperKnows("entregar") BY DEF SaleKinds, PaperKnows
  <2> QED BY <2>2, <2>5, <2>6, <2>7
<1>4. ASSUME NEW e \in {"EN_TRANSITO", "ENTREGADO"}, ShippingStatus(t, e) PROVE \E kind, dato : Lee(kind, dato)
  <2>1. PICK d : d = [estado |-> e] OBVIOUS
  <2>2. ReadsSale(t, "estadoEnvio", d) /\ envio.existe /\ (e = "ENTREGADO" => Pendiente = 0)
    BY <1>4, <2>1 DEF ShippingStatus
  <2>3. d \in [estado : {"EN_TRANSITO", "ENTREGADO"}] /\ d.estado = e BY <2>1
  <2>4. Pendiente = 0 => vendida.entregado >= Vendidas BY <1>1 DEF Pendiente
  <2>5. GoodsKnows("estadoEnvio", d) BY <2>2, <2>3, <2>4 DEF GoodsKnows
  <2>6. SaleDato([kind |-> "estadoEnvio", dato |-> d]) BY <2>3 DEF SaleDato
  <2>7. "estadoEnvio" \in SaleKinds /\ PaperKnows("estadoEnvio") BY DEF SaleKinds, PaperKnows
  <2> QED BY <2>2, <2>5, <2>6, <2>7
<1>5. ASSUME Incident(t) PROVE \E kind, dato : Lee(kind, dato)
  <2>1. PICK d : d = [anterior |-> envio.logistico] OBVIOUS
  <2>2. ReadsSale(t, "incidencia", d) /\ envio.existe /\ envio.logistico \in IncidenciaRows
    BY <1>5, <2>1 DEF Incident, IncidenciaRows
  <2>3. d \in [anterior : IncidenciaRows] BY <2>1, <2>2
  <2>5. GoodsKnows("incidencia", d) BY <2>2 DEF GoodsKnows
  <2>6. SaleDato([kind |-> "incidencia", dato |-> d]) BY <2>3 DEF SaleDato
  <2>7. "incidencia" \in SaleKinds /\ PaperKnows("incidencia") BY DEF SaleKinds, PaperKnows
  <2> QED BY <2>2, <2>5, <2>6, <2>7
<1>6. ASSUME NEW i \in DOMAIN incidencias, Resolve(t, i) PROVE \E kind, dato : Lee(kind, dato)
  <2>1. PICK d : d = [indice |-> i, anterior |-> incidencias[i]] OBVIOUS
  <2>2. ReadsSale(t, "resolver", d) /\ envio.existe BY <1>6, <2>1 DEF Resolve
  <2>3. i \in Nat /\ incidencias[i] \in IncidenciaRows BY <1>1 DEF SaleTyped
  <2>4. d \in [indice : Nat, anterior : IncidenciaRows] BY <2>1, <2>3
  <2>5. GoodsKnows("resolver", d) BY <2>2 DEF GoodsKnows
  <2>6. SaleDato([kind |-> "resolver", dato |-> d]) BY <2>4 DEF SaleDato
  <2>7. "resolver" \in SaleKinds /\ PaperKnows("resolver") BY DEF SaleKinds, PaperKnows
  <2> QED BY <2>2, <2>5, <2>6, <2>7
<1>7. ASSUME NEW again \in BOOLEAN, GenerateLink(t, again) PROVE \E kind, dato : Lee(kind, dato)
  <2>1. PICK n \in BOOLEAN, s \in BOOLEAN : n = (~envio.existe) /\ s = (Entregadas = 0) OBVIOUS
  <2>2. PICK d : d = [nuevo |-> n, sin |-> s] OBVIOUS
  <2>3. ReadsSale(t, "enlace", d) BY <1>7, <2>1, <2>2 DEF GenerateLink, Entregadas
  <2>4. d \in [nuevo : BOOLEAN, sin : BOOLEAN] /\ d.nuevo = n /\ d.sin = s BY <2>2
  <2>5. GoodsKnows("enlace", d) BY <2>1, <2>4 DEF GoodsKnows
  <2>6. SaleDato([kind |-> "enlace", dato |-> d]) BY <2>4 DEF SaleDato
  <2>7. "enlace" \in SaleKinds /\ PaperKnows("enlace") BY DEF SaleKinds, PaperKnows
  <2> QED BY <2>3, <2>5, <2>6, <2>7
<1>8. ASSUME NEW kind \in {"datosEnvio", "convertirVenta", "anular", "notaCredito", "notaDebito"}, NEW d,
             ReadsSale(t, kind, d), PaperKnows(kind)
      PROVE  \E k, dato : Lee(k, dato)
  <2>1. kind \in SaleKinds /\ SaleDato([kind |-> kind, dato |-> d]) /\ GoodsKnows(kind, d)
    BY DEF SaleKinds, SaleDato, GoodsKnows
  <2> QED BY <1>8, <2>1
<1>9. ASSUME SubmitShipping(t) \/ CreateDebitNote(t) PROVE \E kind, dato : Lee(kind, dato)
  <2>1. ReadsSale(t, "datosEnvio", Ninguno) \/ ReadsSale(t, "notaDebito", Ninguno)
    BY <1>9 DEF SubmitShipping, CreateDebitNote
  <2>2. PaperKnows("datosEnvio") /\ PaperKnows("notaDebito") BY DEF PaperKnows
  <2> QED BY <1>8, <2>1, <2>2
<1>10. ASSUME ConvertSale(t) PROVE \E kind, dato : Lee(kind, dato)
  <2>1. ReadsSale(t, "convertirVenta", Ninguno) /\ PaperKnows("convertirVenta")
    BY <1>10 DEF ConvertSale, PaperKnows
  <2> QED BY <1>8, <2>1
<1>11. ASSUME NEW m, CreateCreditNote(t, m) PROVE \E kind, dato : Lee(kind, dato)
  <2>1. PICK d : ReadsSale(t, "notaCredito", d) BY <1>11 DEF CreateCreditNote
  <2>2. PaperKnows("notaCredito") BY DEF PaperKnows
  <2> QED BY <1>8, <2>1, <2>2
<1>12. ASSUME vendida.tipo = "nota_venta", ReadsSale(t, "anular", Ninguno) PROVE \E kind, dato : Lee(kind, dato)
  <2>1. PaperKnows("anular") BY <1>12 DEF PaperKnows
  <2> QED BY <1>8, <1>12, <2>1
<1> HIDE DEF Lee
<1> QED BY <1>2, <1>3, <1>4, <1>5, <1>6, <1>7, <1>9, <1>10, <1>11, <1>12

\* The inductive invariant of the sale.
LEMMA SaleStays == ASSUME SaleOK, [FulfilNext]_fulfilVars PROVE SaleOK'
<1>0. CounterOK /\ CounterOK' BY CounterStays DEF SaleOK
<1>1. CASE SaleNext
  <2>1. ASSUME NEW t \in Atenciones,
               \/ WriteDelivery(t) \/ WriteShippingStatus(t) \/ WriteIncident(t) \/ WriteResolution(t)
               \/ WriteLink(t) \/ WriteShipping(t) \/ WriteConversion(t) \/ WriteAnnulment(t)
               \/ WriteCreditNote(t) \/ WriteDebitNote(t)
        PROVE  SaleOK'
    BY <1>0, <2>1, DeliveryOK, StatusOK, IncidentOK, ResolutionOK, LinkOK, ShippingOK, ConversionOK, AnnulmentOK, NotesOK
  <2>2. ASSUME NEW t \in Atenciones, NEW n \in 1..Vendidas, Dispatch(t, n) PROVE SaleOK'
    BY <1>0, <2>2, DispatchOK
  <2>3. ASSUME NEW t \in Atenciones, Annul(t) PROVE SaleOK'
    <3>1. \/ vendida.tipo = "nota_venta" /\ ReadsSale(t, "anular", Ninguno)
          \/ /\ vendida.estado # "anulada" /\ vendida.tipo # "nota_venta"
             /\ vendida' = [vendida EXCEPT !.baja = "abierta"] /\ AtOnce(t, "anular") /\ UNCHANGED goods
      BY <2>3 DEF Annul, AnnulIf
    <3> QED BY <1>0, <3>1, ReadsOK, OpenedOK
  <2>4. CASE SaleAccepted BY <1>0, <2>4, AcceptedOK
  <2>5. CASE VoidAnswered BY <1>0, <2>5, AnsweredOK
  <2>6. ASSUME NEW i \in DOMAIN notas,
               \/ \E e \in {"aceptado", "rechazado", "error_definitivo"} : NoteAnswered(i, e)
               \/ NoteRetried(i)
        PROVE  SaleOK'
    <3>1. UNCHANGED <<vendida, entregas, envio, incidencias>> /\ hilo' = hilo /\ viejas' = viejas
      BY <2>6 DEF NoteAnswered, NoteRetried, Answers, deskVars, threads, goods
    <3>2. NoneNew BY <3>1 DEF NoneNew
    <3> QED BY <1>0, <3>1, <3>2, ElsewhereOK
  <2> QED BY <1>0, <1>1, <2>1, <2>2, <2>3, <2>4, <2>5, <2>6, ReadsOK DEF SaleNext
<1>2. CASE DeskNext /\ UNCHANGED saleVars
  <2>1. NoneNew /\ viejas \subseteq viejas' BY <1>0, <1>2, DeskFrame
  <2> QED BY <1>0, <1>2, <2>1, ElsewhereOK DEF saleVars
<1>3. CASE UNCHANGED fulfilVars
  <2>1. UNCHANGED <<vendida, entregas, envio, incidencias>> /\ hilo' = hilo /\ viejas' = viejas
    BY <1>3 DEF fulfilVars, saleVars, deskVars, threads
  <2>2. NoneNew BY <2>1 DEF NoneNew
  <2> QED BY <1>0, <2>1, <2>2, ElsewhereOK
<1> QED BY <1>1, <1>2, <1>3 DEF FulfilNext

\* A sale that was just made satisfies the invariant.
LEMMA SaleStarts == ASSUME FulfilInit PROVE SaleOK
<1>1. dia.recojo \in BOOLEAN /\ Vendidas \in Nat
  <2>1. dia \in Dias BY DEF FulfilInit, DeskInit
  <2>2. {dia.billing, dia.recojo} \subseteq BOOLEAN BY <2>1, DeskAssumption
  <2> QED BY <2>2, FulfilmentAssumption
<1>2. PICK e \in {"pendiente", "entregada"}, n \in Nat :
        /\ e = IF dia.recojo THEN "pendiente" ELSE "entregada"
        /\ n = IF dia.recojo THEN 0 ELSE Vendidas
  BY <1>1
<1>3. vendida = [tipo |-> "nota_venta", estado |-> "completada", aceptada |-> FALSE, baja |-> "ninguna",
                 numeros |-> 0, recojo |-> dia.recojo, entrega |-> e, entregado |-> n]
  BY <1>2 DEF FulfilInit
<1>4. vendida \in VentaRows BY <1>1, <1>3 DEF VentaRows
<1>5. /\ vendida.tipo = "nota_venta" /\ vendida.estado = "completada" /\ vendida.baja = "ninguna"
      /\ vendida.numeros = 0 /\ (vendida.recojo <=> dia.recojo) /\ vendida.entregado = n
  BY <1>3
<1>6. entregas \in EntregaRows /\ entregas.cliente = 0 /\ entregas.courier = 0
  BY DEF FulfilInit, EntregaRows
<1>7. envio \in EnvioRows /\ envio.existe = FALSE /\ envio.estado = "ninguno" /\ envio.logistico = "ninguno"
  BY DEF FulfilInit, EnvioRows
<1>8. \A t \in Atenciones : ~Pending(hilo[t]) BY DEF FulfilInit, DeskInit, Pending, Ocioso
<1>9. SaleTyped BY <1>4, <1>6, <1>7, <1>8 DEF SaleTyped, FulfilInit
<1>10. PapersOK BY <1>5, <1>8 DEF PapersOK, PaperFacts
<1>11. GoodsFacts BY <1>1, <1>2, <1>5, <1>6, <1>7 DEF GoodsFacts, Entregadas
<1>12. GoodsOK BY <1>8, <1>11 DEF GoodsOK
<1> QED BY <1>9, <1>10, <1>12, CounterInit DEF SaleOK, FulfilInit

\* The sale, its deliveries and its shipment always have their type, and so has what
\* every request on it remembers.
THEOREM SaleTypes == FulfilSpec => []SaleTyped
<1>1. FulfilInit => SaleOK BY SaleStarts
<1>2. SaleOK /\ [FulfilNext]_fulfilVars => SaleOK' BY SaleStays
<1>3. SaleOK => SaleTyped BY DEF SaleOK
<1> QED BY <1>1, <1>2, <1>3, PTL DEF FulfilSpec

\* With any number of requests: a boleta took one number, and is annulled by the void
\* that SUNAT accepted, unless its conversion or its annulment was written over a sale
\* that had changed since it was read.
THEOREM BoletasEndByTheirVoid == FulfilSpec => []BoletaEndsByItsVoid
<1>1. FulfilInit => SaleOK BY SaleStarts
<1>2. SaleOK /\ [FulfilNext]_fulfilVars => SaleOK' BY SaleStays
<1>3. SaleOK => BoletaEndsByItsVoid BY DEF SaleOK, PapersOK, PaperFacts, BoletaEndsByItsVoid
<1> QED BY <1>1, <1>2, <1>3, PTL DEF FulfilSpec

----------------------------------------
(* Sums: what the fold over a finite set returns, by induction on subsets. *)

\* The member that a sum takes next, and the function that adds up f over every subset.
One(s) == CHOOSE x \in s : TRUE
Adds(g, f, S) == g = [s \in SUBSET S |-> IF s = {} THEN 0 ELSE f[One(s)] + g[s \ {One(s)}]]

\* A total is the value at S of the function that adds the members of every subset one by one.
LEMMA TotalIs ==
  ASSUME NEW f, NEW S
  PROVE  Suma(f, S) = (CHOOSE g : Adds(g, f, S))[S]
BY DEF Suma, MapThenSumSet, MapThenFoldSet, Adds, One

\* A set of subsets of a finite set has a smallest one: induction over what a total adds.
LEMMA SmallestSet ==
  ASSUME NEW S, IsFiniteSet(S), NEW Bad, Bad \subseteq SUBSET S, Bad # {}
  PROVE  \E T \in Bad : \A U \in Bad : ~(U \subseteq T /\ U # T)
<1>1. IsWellFoundedOn(StrictSubsetOrdering(S), SUBSET S)
  BY FS_StrictSubsetOrderingWellFounded, FS_FiniteSubsetsOfFinite
<1>2. PICK T \in Bad : \A U \in Bad : ~(<<U, T>> \in StrictSubsetOrdering(S)) BY <1>1, WFMin
<1>3. ASSUME NEW U \in Bad, U \subseteq T, U # T PROVE FALSE BY <1>2, <1>3 DEF StrictSubsetOrdering
<1> QED BY <1>2, <1>3

\* Two such functions agree on the subsets they share.
LEMMA AddsOnce ==
  ASSUME NEW f, NEW S, NEW T, IsFiniteSet(S), S \subseteq T, NEW g, NEW h, Adds(g, f, S), Adds(h, f, T)
  PROVE  g[S] = h[S]
<1> DEFINE Bad == {U \in SUBSET S : g[U] # h[U]}
<1> SUFFICES ASSUME Bad # {} PROVE FALSE OBVIOUS
<1>1. PICK U \in Bad : \A W \in Bad : ~(W \subseteq U /\ W # U)
  <2>1. Bad \in SUBSET (SUBSET S) OBVIOUS
  <2> HIDE DEF Bad
  <2> QED BY <2>1, SmallestSet
<1>2. /\ g[U] = IF U = {} THEN 0 ELSE f[One(U)] + g[U \ {One(U)}]
      /\ h[U] = IF U = {} THEN 0 ELSE f[One(U)] + h[U \ {One(U)}]
  BY DEF Adds
<1>3. U # {} => One(U) \in U BY DEF One
<1>4. U # {} => g[U \ {One(U)}] = h[U \ {One(U)}] BY <1>1, <1>3
<1> QED BY <1>2, <1>4

\* And there is one for every finite set.
LEMMA AddsExists ==
  ASSUME NEW f, NEW S, IsFiniteSet(S)
  PROVE  \E g : Adds(g, f, S)
<1> DEFINE Bad == {U \in SUBSET S : ~ \E g : Adds(g, f, U)}
<1> SUFFICES ASSUME Bad # {} PROVE FALSE OBVIOUS
<1>1. PICK T \in Bad : \A W \in Bad : ~(W \subseteq T /\ W # T)
  <2>1. Bad \in SUBSET (SUBSET S) OBVIOUS
  <2> HIDE DEF Bad
  <2> QED BY <2>1, SmallestSet
<1> DEFINE R(s) == s \ {One(s)}
           G(U) == CHOOSE g : Adds(g, f, U)
           g == [s \in SUBSET T |-> IF s = {} THEN 0 ELSE f[One(s)] + G(R(s))[R(s)]]
<1>2. ASSUME NEW U \in SUBSET T, U # T PROVE Adds(G(U), f, U) BY <1>1, <1>2
<1>3. ASSUME NEW U \in SUBSET T, U # {} PROVE R(U) \in SUBSET T /\ R(U) # T /\ R(U) \subseteq U /\ R(U) # U
  BY <1>3 DEF One
<1>4. ASSUME NEW U \in SUBSET T, U # T PROVE g[U] = G(U)[U]
  <2>1. Adds(G(U), f, U) BY <1>2, <1>4
  <2>2. G(U)[U] = IF U = {} THEN 0 ELSE f[One(U)] + G(U)[R(U)] BY <2>1 DEF Adds
  <2>3. CASE U # {}
    <3>1. Adds(G(R(U)), f, R(U)) /\ R(U) \subseteq U /\ IsFiniteSet(R(U))
      BY <1>2, <1>3, <2>3, FS_Subset
    <3>2. G(R(U))[R(U)] = G(U)[R(U)] BY <3>1, <2>1, AddsOnce
    <3> QED BY <3>2, <2>2, <2>3
  <2> QED BY <2>2, <2>3
<1>5. g = [s \in SUBSET T |-> IF s = {} THEN 0 ELSE f[One(s)] + g[R(s)]]
  <2>1. ASSUME NEW s \in SUBSET T, s # {} PROVE g[R(s)] = G(R(s))[R(s)]
    <3>1. PICK W : W = R(s) OBVIOUS
    <3>2. W \in SUBSET T /\ W # T BY <1>3, <2>1, <3>1
    <3>3. g[W] = G(W)[W] BY <1>4, <3>2
    <3> QED BY <3>1, <3>3
  <2> HIDE DEF G, R
  <2> QED BY <2>1
<1>6. Adds(g, f, T) BY <1>5 DEF Adds
<1> QED BY <1>1, <1>6

\* So a total is that of the rest and the member picked first.
LEMMA TotalAdds ==
  ASSUME NEW f, NEW S, IsFiniteSet(S)
  PROVE  Suma(f, S) = IF S = {} THEN 0 ELSE f[One(S)] + Suma(f, S \ {One(S)})
<1> DEFINE T == S \ {One(S)}
           G(U) == CHOOSE g : Adds(g, f, U)
<1>1. IsFiniteSet(T) /\ T \subseteq S BY FS_Subset
<1>2. Adds(G(S), f, S) /\ Adds(G(T), f, T) BY <1>1, AddsExists
<1>3. G(S)[S] = IF S = {} THEN 0 ELSE f[One(S)] + G(S)[T] BY <1>2 DEF Adds
<1>4. G(T)[T] = G(S)[T] BY <1>1, <1>2, AddsOnce
<1>5. Suma(f, S) = G(S)[S] /\ Suma(f, T) = G(T)[T] BY TotalIs
<1> QED BY <1>3, <1>4, <1>5

\* A total of integers is an integer.
LEMMA TotalIsInt ==
  ASSUME NEW f, NEW S, IsFiniteSet(S), \A x \in S : f[x] \in Int
  PROVE  Suma(f, S) \in Int
<1> DEFINE Bad == {U \in SUBSET S : Suma(f, U) \notin Int}
<1> SUFFICES ASSUME Bad # {} PROVE FALSE OBVIOUS
<1>1. PICK U \in Bad : \A W \in Bad : ~(W \subseteq U /\ W # U)
  <2>1. Bad \in SUBSET (SUBSET S) OBVIOUS
  <2> HIDE DEF Bad
  <2> QED BY <2>1, SmallestSet
<1>2. Suma(f, U) = IF U = {} THEN 0 ELSE f[One(U)] + Suma(f, U \ {One(U)}) BY TotalAdds, FS_Subset
<1>3. U # {} => One(U) \in U BY DEF One
<1>4. U # {} => Suma(f, U \ {One(U)}) \in Int BY <1>1, <1>3
<1> QED BY <1>2, <1>3, <1>4

\* And it does not depend on which member is picked first.
LEMMA TotalWithout ==
  ASSUME NEW f, NEW S, IsFiniteSet(S), \A x \in S : f[x] \in Int, NEW x \in S
  PROVE  Suma(f, S) = f[x] + Suma(f, S \ {x})
<1> DEFINE Bad == {U \in SUBSET S : \E y \in U : Suma(f, U) # f[y] + Suma(f, U \ {y})}
<1> SUFFICES ASSUME Bad # {} PROVE FALSE OBVIOUS
<1>1. PICK U \in Bad : \A W \in Bad : ~(W \subseteq U /\ W # U)
  <2>1. Bad \in SUBSET (SUBSET S) OBVIOUS
  <2> HIDE DEF Bad
  <2> QED BY <2>1, SmallestSet
<1>2. PICK c, y : c = One(U) /\ y \in U /\ Suma(f, U) # f[y] + Suma(f, U \ {y}) OBVIOUS
<1>3. c \in U BY <1>2 DEF One
<1>4. Suma(f, U) = f[c] + Suma(f, U \ {c}) BY <1>2, TotalAdds, FS_Subset
<1>5. c # y BY <1>2, <1>4
<1>6. ASSUME NEW W \in SUBSET U, W # U, NEW z \in W PROVE Suma(f, W) = f[z] + Suma(f, W \ {z})
  BY <1>1, <1>6
<1>7. /\ Suma(f, U \ {c}) = f[y] + Suma(f, (U \ {c}) \ {y})
      /\ Suma(f, U \ {y}) = f[c] + Suma(f, (U \ {y}) \ {c})
  BY <1>2, <1>3, <1>5, <1>6
<1>8. (U \ {c}) \ {y} = (U \ {y}) \ {c} OBVIOUS
<1>9. PICK W : W = (U \ {c}) \ {y} OBVIOUS
<1>10. Suma(f, W) \in Int BY <1>9, TotalIsInt, FS_Subset
<1>11. f[c] \in Int /\ f[y] \in Int BY <1>2, <1>3
<1> DEFINE a == Suma(f, U)  b == Suma(f, U \ {c})  d == Suma(f, U \ {y})  e == Suma(f, W)
<1>12. a = f[c] + b /\ b = f[y] + e /\ d = f[c] + e /\ e \in Int /\ a # f[y] + d
  BY <1>2, <1>4, <1>7, <1>8, <1>9, <1>10
<1> HIDE DEF a, b, d, e
<1> QED BY <1>11, <1>12

\* A total depends on the values at its members only.
LEMMA TotalSame ==
  ASSUME NEW f, NEW g, NEW S, \A x \in S : f[x] = g[x]
  PROVE  Suma(f, S) = Suma(g, S)
<1>1. ASSUME NEW h PROVE Adds(h, f, S) <=> Adds(h, g, S)
  <2>1. \A s \in SUBSET S : s # {} => f[One(s)] = g[One(s)] BY DEF One
  <2>2. [s \in SUBSET S |-> IF s = {} THEN 0 ELSE f[One(s)] + h[s \ {One(s)}]]
          = [s \in SUBSET S |-> IF s = {} THEN 0 ELSE g[One(s)] + h[s \ {One(s)}]]
    BY <2>1
  <2> QED BY <2>2 DEF Adds
<1>2. (CHOOSE h : Adds(h, f, S)) = (CHOOSE h : Adds(h, g, S)) BY <1>1
<1> QED BY <1>2, TotalIs

\* Nothing adds up to zero.
LEMMA TotalNone == ASSUME NEW f PROVE Suma(f, {}) = 0
BY TotalAdds, FS_EmptySet

\* A member more adds its value.
LEMMA TotalWith ==
  ASSUME NEW f, NEW S, IsFiniteSet(S), NEW x, x \notin S, \A y \in S \cup {x} : f[y] \in Int
  PROVE  Suma(f, S \cup {x}) = f[x] + Suma(f, S)
<1>1. PICK T : T = S \cup {x} OBVIOUS
<1>2. IsFiniteSet(T) /\ x \in T /\ T \ {x} = S /\ \A y \in T : f[y] \in Int BY <1>1, FS_AddElement
<1>3. Suma(f, T) = f[x] + Suma(f, T \ {x}) BY <1>2, TotalWithout
<1> QED BY <1>1, <1>2, <1>3

\* A total of naturals is no less than that of any part.
LEMMA TotalGrows ==
  ASSUME NEW f, NEW S, IsFiniteSet(S), \A x \in S : f[x] \in Nat, NEW T \in SUBSET S
  PROVE  Suma(f, T) <= Suma(f, S) /\ Suma(f, T) \in Nat /\ Suma(f, S) \in Nat
<1> DEFINE Bad == {U \in SUBSET S : ~(Suma(f, U) \in Nat /\ \A V \in SUBSET U : Suma(f, V) <= Suma(f, U))}
<1>1. ASSUME Bad # {} PROVE FALSE
  <2>1. PICK U \in Bad : \A W \in Bad : ~(W \subseteq U /\ W # U)
    <3>1. Bad \in SUBSET (SUBSET S) OBVIOUS
    <3> HIDE DEF Bad
    <3> QED BY <1>1, <3>1, SmallestSet
  <2>2. IsFiniteSet(U) /\ \A x \in U : f[x] \in Int BY FS_Subset
  <2>3. ASSUME NEW W \in SUBSET U, W # U
        PROVE  Suma(f, W) \in Nat /\ \A V \in SUBSET W : Suma(f, V) <= Suma(f, W)
    BY <2>1, <2>3
  <2>4. ASSUME NEW x \in U PROVE Suma(f, U) = f[x] + Suma(f, U \ {x}) /\ Suma(f, U \ {x}) \in Nat /\ f[x] \in Nat
    <3>1. U \ {x} \in SUBSET U /\ U \ {x} # U OBVIOUS
    <3> QED BY <2>2, <2>3, <3>1, TotalWithout
  <2>5. Suma(f, U) \in Nat
    <3>1. CASE U = {} BY <3>1, TotalNone
    <3>2. CASE U # {}
      <4>1. PICK x \in U : TRUE BY <3>2
      <4>2. PICK a, b, c : a = Suma(f, U) /\ b = f[x] /\ c = Suma(f, U \ {x}) OBVIOUS
      <4>3. a = b + c /\ b \in Nat /\ c \in Nat BY <2>4, <4>2
      <4> QED BY <4>2, <4>3
    <3> QED BY <3>1, <3>2
  <2>6. PICK V \in SUBSET U : ~(Suma(f, V) <= Suma(f, U)) BY <2>1, <2>5
  <2>7. V # U BY <2>5, <2>6
  <2>8. PICK x \in U : x \notin V BY <2>7
  <2>9. Suma(f, V) <= Suma(f, U \ {x}) /\ Suma(f, V) \in Nat
    <3>1. V \in SUBSET (U \ {x}) /\ U \ {x} \in SUBSET U /\ U \ {x} # U BY <2>8
    <3> QED BY <2>3, <3>1, <2>7
  <2> QED BY <2>4, <2>6, <2>8, <2>9
<1>2. S \notin Bad /\ T \notin Bad BY <1>1
<1> QED BY <1>2

----------------------------------------
(* The credit notes of the sale: the units that go back.                   *)

\* A request that is about to write a credit note.
NotaPend(h) == Pending(h) /\ h.kind = "notaCredito"
\* The notes that return goods and stand: sent, accepted, or still on their way.
Firmes == {i \in DOMAIN notas : Standing(notas[i]) /\ ~notas[i].repetida /\ notas[i].motivo \in {"06", "07"}}
\* What a request is about to return fits what the firm notes leave of the sale.
Cabe(t) ==
  ~hilo[t].dato.repetida /\ hilo[t].dato.motivo \in {"06", "07"} =>
    hilo[t].dato.unidades + Unidades(Firmes) <= Vendidas
\* Unless a request for a note overlapped another: the firm notes return no more than was
\* sold, and so with any one request more that nobody has overtaken.
NotasOK ==
  /\ notas \in Seq(NotaCreditoRows)
  /\ \A t \in Atenciones : NotaPend(hilo[t]) => hilo[t].dato \in NotaCreditoRows
  /\ ~Old({"notaCredito"}) =>
       /\ Unidades(Firmes) <= Vendidas
       /\ \A t \in Atenciones : (NotaPend(hilo[t]) /\ ~hilo[t].vieja) => Cabe(t)
\* The notes as numbers, and those of a longer list.
LEMMA NotasAre ==
  ASSUME notas \in Seq(NotaCreditoRows), NEW S \in SUBSET DOMAIN notas, NEW T \in SUBSET S
  PROVE  /\ IsFiniteSet(S) /\ Unidades(S) \in Nat /\ Unidades(T) <= Unidades(S) /\ Unidades(T) \in Nat
         /\ DOMAIN notas = 1..Len(notas)
<1>1. DOMAIN notas = 1..Len(notas) /\ Len(notas) \in Nat OBVIOUS
<1>2. IsFiniteSet(S)
  <2>1. IsFiniteSet(1..Len(notas)) BY <1>1, FS_Interval
  <2> QED BY <1>1, <2>1, FS_Subset
<1>3. PICK f : f = [i \in DOMAIN notas |-> notas[i].unidades] OBVIOUS
<1>4. \A i \in S : f[i] \in Nat /\ f[i] = notas[i].unidades
  <2>1. ASSUME NEW i \in S PROVE notas[i] \in NotaCreditoRows BY <1>1
  <2>2. ASSUME NEW i \in S PROVE notas[i].unidades \in Nat BY <2>1 DEF NotaCreditoRows
  <2> QED BY <1>3, <2>2
<1>5. Suma(f, T) <= Suma(f, S) /\ Suma(f, T) \in Nat /\ Suma(f, S) \in Nat BY <1>2, <1>4, TotalGrows
<1>6. Unidades(S) = Suma(f, S) /\ Unidades(T) = Suma(f, T) BY <1>4, TotalSame DEF Unidades
<1> QED BY <1>1, <1>2, <1>5, <1>6

\* What the notes of a set add up to depends on their units only.
LEMMA NotasKeep ==
  ASSUME notas \in Seq(NotaCreditoRows), notas' \in Seq(NotaCreditoRows), NEW S \in SUBSET DOMAIN notas,
         S \subseteq DOMAIN notas', \A i \in S : notas'[i].unidades = notas[i].unidades
  PROVE  Unidades(S)' = Unidades(S)
<1>1. PICK n : n = notas' OBVIOUS
<1>2. [i \in S |-> n[i].unidades] = [i \in S |-> notas[i].unidades] BY <1>1
<1>3. Unidades(S)' = Suma([i \in S |-> n[i].unidades], S) BY <1>1 DEF Unidades
<1> QED BY <1>2, <1>3 DEF Unidades

\* No request to write a note is new.
NotasQuietas ==
  \A u \in Atenciones : NotaPend(hilo'[u]) =>
    /\ NotaPend(hilo[u]) /\ hilo'[u].dato = hilo[u].dato
    /\ hilo[u].vieja => hilo'[u].vieja

\* Whoever writes the sale makes all the others old, and reads nothing.
LEMMA FramesQuiet == ASSUME AllOld \/ NoneNew PROVE NotasQuietas
BY DEF AllOld, NoneNew, NotasQuietas, NotaPend

\* The firm notes shrink, or stay.
LEMMA NotasShrink ==
  ASSUME NotasOK, notas' \in Seq(NotaCreditoRows), NotasQuietas, viejas \subseteq viejas',
         DOMAIN notas' = DOMAIN notas, \A i \in DOMAIN notas : notas'[i].unidades = notas[i].unidades,
         Firmes' \subseteq Firmes
  PROVE  NotasOK'
<1>1. PICK F : F = Firmes' OBVIOUS
<1>2. F \in SUBSET Firmes /\ Firmes \in SUBSET DOMAIN notas BY <1>1 DEF Firmes
<1>3. Unidades(F)' = Unidades(F) BY <1>2, NotasKeep DEF NotasOK
<1>4. Unidades(F) <= Unidades(Firmes) /\ Unidades(F) \in Nat /\ Unidades(Firmes) \in Nat /\ Vendidas \in Nat
  BY <1>2, NotasAre, FulfilmentAssumption DEF NotasOK
<1>5. (Unidades(Firmes))' = Unidades(F)
  <2>1. (Unidades(Firmes))' = (Unidades(F))' BY <1>1 DEF Unidades
  <2> QED BY <2>1, <1>3
<1>6. ASSUME NEW t \in Atenciones, NotaPend(hilo'[t]) PROVE hilo'[t].dato \in NotaCreditoRows
  BY <1>6 DEF NotasOK, NotasQuietas
<1>7. ASSUME ~Old({"notaCredito"})', NEW t \in Atenciones, NotaPend(hilo'[t]), ~hilo'[t].vieja
      PROVE  Cabe(t)'
  <2>1. NotaPend(hilo[t]) /\ hilo'[t].dato = hilo[t].dato /\ ~hilo[t].vieja /\ ~Old({"notaCredito"})
    BY <1>7 DEF NotasQuietas, Old
  <2>2. PICK n \in NotaCreditoRows : n = hilo[t].dato BY <2>1 DEF NotasOK
  <2>3. ~n.repetida /\ n.motivo \in {"06", "07"} => n.unidades + Unidades(Firmes) <= Vendidas
    BY <2>1, <2>2 DEF NotasOK, Cabe
  <2>4. n.unidades \in Nat BY DEF NotaCreditoRows
  <2>5. ~n.repetida /\ n.motivo \in {"06", "07"} => n.unidades + (Unidades(Firmes))' <= Vendidas
    BY <2>3, <2>4, <1>4, <1>5
  <2> QED BY <2>1, <2>2, <2>5 DEF Cabe
<1>8. ~Old({"notaCredito"})' => (Unidades(Firmes))' <= Vendidas BY <1>4, <1>5 DEF NotasOK, Old
<1> QED BY <1>6, <1>7, <1>8 DEF NotasOK, NotaPend

\* A step that leaves the notes alone and asks for none.
LEMMA NotasStill ==
  ASSUME NotasOK, notas' = notas, NotasQuietas, viejas \subseteq viejas'
  PROVE  NotasOK'
<1>1. Firmes' = Firmes BY DEF Firmes, Standing
<1> QED BY <1>1, NotasShrink DEF NotasOK

\* What a note may still take is what the firm ones leave.
LEMMA LeftOver ==
  ASSUME NotasOK, NEW n \in 1..Available
  PROVE  n \in Nat /\ n + Unidades(Firmes) <= Vendidas
<1> DEFINE Usadas == {i \in DOMAIN notas : notas[i].estado \in {"pendiente", "aceptado"} /\ notas[i].motivo \in {"02", "06", "07"}}
<1>1. Firmes \in SUBSET Usadas /\ Usadas \in SUBSET DOMAIN notas BY DEF Firmes, Standing
<1>2. Available = IF Unidades(Usadas) < Vendidas THEN Vendidas - Unidades(Usadas) ELSE 0
  BY DEF Available, AvailableIf
<1> HIDE DEF Usadas
<1>3. Unidades(Firmes) <= Unidades(Usadas) /\ Unidades(Firmes) \in Nat /\ Unidades(Usadas) \in Nat /\ Vendidas \in Nat
  BY <1>1, NotasAre, FulfilmentAssumption DEF NotasOK
<1> QED BY <1>2, <1>3

\* A note that is asked for.
LEMMA NotasRead ==
  ASSUME CounterOK, NotasOK, NEW t \in Atenciones, NEW m \in {"02", "03", "06", "07"}, CreateCreditNote(t, m)
  PROVE  NotasOK'
<1>0. PICK l \in CreditLines(m) :
        ReadsSale(t, "notaCredito", [motivo |-> m, unidades |-> l.unidades, repetida |-> l.repetida, estado |-> "pendiente"])
  BY DEF CreateCreditNote
<1>1. PICK d : /\ d = [motivo |-> m, unidades |-> l.unidades, repetida |-> l.repetida, estado |-> "pendiente"]
               /\ ReadsSale(t, "notaCredito", d)
  BY <1>0
<1>2. /\ Alone(t) /\ viejas' = viejas /\ UNCHANGED saleVars
      /\ hilo'[t].kind = "notaCredito" /\ hilo'[t].dato = d
  BY <1>1, SaleReadsFrame DEF SaleKinds
<1>3. Available \in Nat /\ Vendidas \in Nat
  <2> DEFINE Usadas == {i \in DOMAIN notas : notas[i].estado \in {"pendiente", "aceptado"} /\ notas[i].motivo \in {"02", "06", "07"}}
  <2>1. Usadas \in SUBSET DOMAIN notas OBVIOUS
  <2>2. Available = IF Unidades(Usadas) < Vendidas THEN Vendidas - Unidades(Usadas) ELSE 0
    BY DEF Available, AvailableIf
  <2> HIDE DEF Usadas
  <2>3. Unidades(Usadas) \in Nat /\ Vendidas \in Nat
    BY <2>1, NotasAre, FulfilmentAssumption DEF NotasOK
  <2> QED BY <2>2, <2>3
<1>4. /\ l.unidades \in Nat /\ l.repetida \in BOOLEAN
      /\ ~l.repetida /\ m \in {"06", "07"} => l.unidades \in 1..Available
  <2>1. CASE m \in {"02", "03"}
    <3>1. l = [unidades |-> Vendidas, repetida |-> FALSE] BY <2>1, <1>1 DEF CreditLines
    <3> QED BY <3>1, <2>1, <1>3
  <2>2. CASE m = "06"
    <3>1. PICK n \in {Available} \ {0} : l = [unidades |-> n, repetida |-> FALSE]
      BY <2>2, <1>1 DEF CreditLines
    <3> QED BY <3>1, <1>3
  <2>3. CASE m = "07"
    <3>1. \/ \E n \in 1..Available : l = [unidades |-> n, repetida |-> FALSE]
          \/ \E n \in {Available} \ {0} : l = [unidades |-> 2 * Available, repetida |-> TRUE]
      BY <2>3, <1>1 DEF CreditLines
    <3>2. CASE \E n \in 1..Available : l = [unidades |-> n, repetida |-> FALSE] BY <3>2, <1>3
    <3>3. CASE l = [unidades |-> 2 * Available, repetida |-> TRUE]
      <4>1. l.unidades = 2 * Available /\ l.repetida = TRUE BY <3>3
      <4>2. 2 * Available \in Nat BY <1>3
      <4> QED BY <4>1, <4>2
    <3> QED BY <3>1, <3>2, <3>3
  <2> QED BY <2>1, <2>2, <2>3
<1>5. d \in NotaCreditoRows /\ d.unidades = l.unidades /\ d.repetida = l.repetida /\ d.motivo = m
  BY <1>1, <1>4 DEF NotaCreditoRows
<1>6. ~d.repetida /\ d.motivo \in {"06", "07"} => d.unidades + Unidades(Firmes) <= Vendidas
  BY <1>4, <1>5, LeftOver
<1>7. notas' = notas BY <1>2 DEF saleVars
<1>8. Firmes' = Firmes /\ (Unidades(Firmes))' = Unidades(Firmes)
  BY <1>7 DEF Firmes, Standing, Unidades
<1>9. ASSUME NEW u \in Atenciones, NotaPend(hilo'[u])
      PROVE  /\ hilo'[u].dato \in NotaCreditoRows
             /\ ~Old({"notaCredito"}) /\ ~hilo'[u].vieja => Cabe(u)'
  <2>1. CASE u = t BY <1>2, <1>5, <1>6, <1>8, <2>1 DEF Cabe
  <2>2. CASE u # t
    <3>1. hilo'[u] = hilo[u] BY <1>2, <2>2 DEF Alone, Stays
    <3>2. hilo[u].dato \in NotaCreditoRows /\ (~Old({"notaCredito"}) /\ ~hilo[u].vieja => Cabe(u))
      BY <1>9, <3>1 DEF NotasOK
    <3> QED BY <3>1, <3>2, <1>8 DEF Cabe
  <2> QED BY <2>1, <2>2
<1>10. Old({"notaCredito"})' <=> Old({"notaCredito"}) BY <1>2 DEF Old
<1> QED BY <1>7, <1>8, <1>9, <1>10 DEF NotasOK, NotaPend

\* A note that is written: unless its request was old, it fits.
LEMMA NotasWritten ==
  ASSUME CounterOK, NotasOK, NEW t \in Atenciones, WriteCreditNote(t)
  PROVE  NotasOK'
<1>1. PICK n \in NotaCreditoRows, k \in Nat :
        n = hilo[t].dato /\ k = Len(notas) /\ notas' = Append(notas, n) /\ NotaPend(hilo[t])
  BY DEF NotasOK, WriteCreditNote, Writing, NotaPend, Pending, SaleKinds
<1>2. /\ notas' \in Seq(NotaCreditoRows) /\ DOMAIN notas = 1..k /\ DOMAIN notas' = 1..(k + 1)
      /\ notas'[k + 1] = n /\ \A i \in 1..k : notas'[i] = notas[i]
  <2>1. notas \in Seq(NotaCreditoRows) BY DEF NotasOK
  <2> QED BY <1>1, <2>1
<1>3. /\ AllOld
      /\ viejas' = IF hilo[t].vieja THEN viejas \cup {"notaCredito"} ELSE viejas
  BY SaleWritesFrame DEF WriteCreditNote, Writing
<1>4. NotasQuietas BY <1>3, FramesQuiet
<1>5. \A u \in Atenciones : NotaPend(hilo'[u]) => hilo'[u].dato \in NotaCreditoRows /\ hilo'[u].vieja
  BY <1>3, <1>4 DEF NotasOK, NotasQuietas, AllOld, NotaPend
<1>6. ASSUME ~Old({"notaCredito"})' PROVE (Unidades(Firmes))' <= Vendidas
  <2>1. ~hilo[t].vieja /\ ~Old({"notaCredito"}) BY <1>3, <1>6 DEF Old
  <2>2. Unidades(Firmes) <= Vendidas /\ Cabe(t) BY <1>1, <2>1 DEF NotasOK
  <2>3. PICK F : F = Firmes OBVIOUS
  <2>4. F \in SUBSET DOMAIN notas /\ Firmes \in SUBSET DOMAIN notas BY <2>3 DEF Firmes
  <2>5. Unidades(F)' = Unidades(F) BY <1>2, <2>4, NotasKeep DEF NotasOK
  <2>6. IsFiniteSet(F) /\ Unidades(F) \in Nat /\ Vendidas \in Nat
    BY <2>4, NotasAre, FulfilmentAssumption DEF NotasOK
  <2>7. PICK m : m = notas' OBVIOUS
  <2>8. \A S : Unidades(S)' = Suma([i \in S |-> m[i].unidades], S) BY <2>7 DEF Unidades
  <2>9. CASE Standing(n) /\ ~n.repetida /\ n.motivo \in {"06", "07"}
    <3>1. Firmes' = F \cup {k + 1} /\ k + 1 \notin F BY <1>2, <2>3, <2>4, <2>9 DEF Firmes, Standing
    <3>2. PICK f : f = [i \in F \cup {k + 1} |-> m[i].unidades] OBVIOUS
    <3>3. \A i \in F \cup {k + 1} : f[i] \in Int
      <4>1. ASSUME NEW i \in F \cup {k + 1} PROVE m[i] \in NotaCreditoRows BY <1>2, <2>4, <2>7, <1>1
      <4>2. ASSUME NEW i \in F \cup {k + 1} PROVE m[i].unidades \in Nat BY <4>1 DEF NotaCreditoRows
      <4> QED BY <3>2, <4>2
    <3>4. Suma(f, F \cup {k + 1}) = f[k + 1] + Suma(f, F) BY <2>6, <3>1, <3>3, TotalWith
    <3>5. f[k + 1] = n.unidades BY <1>2, <2>7, <3>2
    <3>6. Suma(f, F) = Suma([i \in F |-> m[i].unidades], F) BY <3>2, TotalSame
    <3>7. (Unidades(Firmes))' = Suma(f, F \cup {k + 1}) BY <2>7, <3>1, <3>2 DEF Unidades
    <3>8. (Unidades(Firmes))' = n.unidades + Unidades(F) BY <2>5, <2>8, <3>4, <3>5, <3>6, <3>7
    <3> QED BY <1>1, <2>2, <2>3, <2>9, <3>8 DEF Cabe
  <2>10. CASE ~(Standing(n) /\ ~n.repetida /\ n.motivo \in {"06", "07"})
    <3>1. Firmes' = F BY <1>2, <2>3, <2>4, <2>10 DEF Firmes, Standing
    <3>2. (Unidades(Firmes))' = Unidades(F)' BY <3>1 DEF Unidades
    <3> QED BY <2>2, <2>3, <2>5, <3>2
  <2> QED BY <2>9, <2>10
<1> QED BY <1>2, <1>5, <1>6 DEF NotasOK, NotaPend

\* A note that is answered or sent again.
LEMMA NotasMoved ==
  ASSUME NotasOK, NEW i \in DOMAIN notas,
         \/ \E e \in {"aceptado", "rechazado", "error_definitivo"} : NoteAnswered(i, e)
         \/ NoteRetried(i)
  PROVE  NotasOK'
<1>1. hilo' = hilo /\ viejas' = viejas BY DEF NoteAnswered, NoteRetried, Answers, deskVars, threads
<1>2. NotasQuietas BY <1>1 DEF NotasQuietas
<1>3. PICK T : T = NotaCreditoRows OBVIOUS
<1>4. notas \in Seq(T) BY <1>3 DEF NotasOK
<1>5. PICK r : r = notas[i] OBVIOUS
<1>6. r \in NotaCreditoRows BY <1>3, <1>4, <1>5
<1>7. PICK v : notas' = [notas EXCEPT ![i] = v]
               /\ \/ \E e \in {"aceptado", "rechazado", "error_definitivo"} :
                       r.estado = "pendiente" /\ v = [r EXCEPT !.estado = e]
                  \/ v = [r EXCEPT !.estado = "pendiente", !.repetida = TRUE]
  <2>1. ASSUME NEW e \in {"aceptado", "rechazado", "error_definitivo"}, NoteAnswered(i, e)
        PROVE  notas' = [notas EXCEPT ![i] = [r EXCEPT !.estado = e]] /\ r.estado = "pendiente"
    BY <1>5, <2>1 DEF NoteAnswered
  <2>2. ASSUME NoteRetried(i)
        PROVE  notas' = [notas EXCEPT ![i] = [r EXCEPT !.estado = "pendiente", !.repetida = TRUE]]
    BY <1>5, <2>2 DEF NoteRetried
  <2> QED BY <2>1, <2>2
<1>8. v \in NotaCreditoRows
  <2>1. CASE \E e \in {"aceptado", "rechazado", "error_definitivo"} : v = [r EXCEPT !.estado = e]
    BY <1>6, <2>1 DEF NotaCreditoRows
  <2>2. CASE v = [r EXCEPT !.estado = "pendiente", !.repetida = TRUE]
    BY <1>6, <2>2 DEF NotaCreditoRows
  <2> QED BY <1>7, <2>1, <2>2
<1>9. /\ v.unidades = r.unidades /\ v.motivo = r.motivo
      /\ Standing(v) /\ ~v.repetida => Standing(r) /\ ~r.repetida
  BY <1>6, <1>7 DEF NotaCreditoRows, Standing
<1>10. /\ notas' \in Seq(NotaCreditoRows) /\ DOMAIN notas' = DOMAIN notas
       /\ notas'[i] = v /\ \A j \in DOMAIN notas : j # i => notas'[j] = notas[j]
  BY <1>3, <1>4, <1>7, <1>8
<1>11. \A j \in DOMAIN notas : notas'[j].unidades = notas[j].unidades BY <1>5, <1>9, <1>10
<1>12. Firmes' \subseteq Firmes
  <2>1. ASSUME NEW j \in DOMAIN notas, Standing(notas'[j]) /\ ~notas'[j].repetida /\ notas'[j].motivo \in {"06", "07"}
        PROVE  j \in Firmes
    <3>1. CASE j = i BY <1>5, <1>9, <1>10, <2>1, <3>1 DEF Firmes
    <3>2. CASE j # i BY <1>10, <2>1, <3>2 DEF Firmes
    <3> QED BY <3>1, <3>2
  <2> QED BY <1>10, <2>1 DEF Firmes, Standing
<1> QED BY <1>1, <1>2, <1>10, <1>11, <1>12, NotasShrink

\* A request on the sale that is none to write a note.
LEMMA OtherReads ==
  ASSUME CounterOK, NotasOK, NEW t \in Atenciones, NEW kind \in SaleKinds, kind # "notaCredito", NEW d, ReadsSale(t, kind, d)
  PROVE  NotasOK'
<1>1. /\ Alone(t) /\ viejas' = viejas /\ notas' = notas /\ hilo'[t].kind = kind
  BY SaleReadsFrame DEF saleVars
<1>2. NotasQuietas BY <1>1 DEF NotasQuietas, Alone, Stays, NotaPend
<1> QED BY <1>1, <1>2, NotasStill

\* Every step keeps what is known of the notes.
LEMMA NotasStay == ASSUME CounterOK, NotasOK, [FulfilNext]_fulfilVars PROVE NotasOK'
<1>1. ASSUME NEW t \in Atenciones, WritesSale(t), notas' = notas PROVE NotasOK'
  BY <1>1, SaleWritesFrame, FramesQuiet, NotasStill
<1>2. ASSUME NEW t \in Atenciones, Refused(t), notas' = notas PROVE NotasOK'
  BY <1>2, RefusedFrame, FramesQuiet, NotasStill
<1>3. ASSUME NEW t \in Atenciones, NEW kind, AtOnce(t, kind), notas' = notas PROVE NotasOK'
  BY <1>3, AtOnceFrame, FramesQuiet, NotasStill
<1>4. ASSUME hilo' = hilo, viejas' = viejas, notas' = notas PROVE NotasOK'
  <2>1. NotasQuietas BY <1>4 DEF NotasQuietas
  <2> QED BY <1>4, <2>1, NotasStill
<1>5. CASE SaleNext
  <2>1. ASSUME NEW t \in Atenciones,
               \/ WriteDelivery(t) \/ WriteShippingStatus(t) \/ WriteIncident(t) \/ WriteResolution(t)
               \/ WriteLink(t) \/ WriteShipping(t) \/ WriteConversion(t) \/ WriteAnnulment(t)
               \/ WriteDebitNote(t)
        PROVE  NotasOK'
    <3>1. notas' = notas /\ (WritesSale(t) \/ Refused(t))
      BY <2>1 DEF WriteDelivery, WriteShippingStatus, WriteIncident, WriteResolution, WriteLink, WriteShipping,
                  WriteConversion, WriteAnnulment, WriteDebitNote, papers
    <3> QED BY <1>1, <1>2, <3>1
  <2>2. ASSUME NEW t \in Atenciones, WriteCreditNote(t) PROVE NotasOK' BY <2>2, NotasWritten
  <2>3. ASSUME NEW t \in Atenciones, NEW n \in 1..Vendidas, Dispatch(t, n) PROVE NotasOK'
    <3>1. AtOnce(t, "despachar") /\ notas' = notas BY <2>3 DEF Dispatch, papers
    <3> QED BY <1>3, <3>1
  <2>4. ASSUME NEW t \in Atenciones, Annul(t) PROVE NotasOK'
    <3>1. \/ ReadsSale(t, "anular", Ninguno)
          \/ AtOnce(t, "anular") /\ notas' = notas
      BY <2>4 DEF Annul, AnnulIf, papers
    <3>2. "anular" \in SaleKinds BY DEF SaleKinds
    <3> QED BY <1>3, <3>1, <3>2, OtherReads
  <2>5. ASSUME NEW t \in Atenciones, NEW m \in {"02", "03", "06", "07"}, CreateCreditNote(t, m) PROVE NotasOK'
    BY <2>5, NotasRead
  <2>6. ASSUME NEW t \in Atenciones,
               \/ \E n \in 1..Vendidas : Deliver(t, n)
               \/ \E e \in {"EN_TRANSITO", "ENTREGADO"} : ShippingStatus(t, e)
               \/ Incident(t) \/ SubmitShipping(t) \/ ConvertSale(t) \/ CreateDebitNote(t)
               \/ \E i \in DOMAIN incidencias : Resolve(t, i)
               \/ \E again \in BOOLEAN : GenerateLink(t, again)
        PROVE  NotasOK'
    <3>1. PICK kind, d : kind \in SaleKinds /\ kind # "notaCredito" /\ ReadsSale(t, kind, d)
      BY <2>6 DEF Deliver, ShippingStatus, Incident, SubmitShipping, ConvertSale, CreateDebitNote, Resolve,
                  GenerateLink, SaleKinds
    <3> QED BY <3>1, OtherReads
  <2>7. CASE SaleAccepted \/ VoidAnswered
    BY <1>4, <2>7 DEF SaleAccepted, VoidAnswered, Answers, deskVars, threads
  <2>8. ASSUME NEW i \in DOMAIN notas,
               \/ \E e \in {"aceptado", "rechazado", "error_definitivo"} : NoteAnswered(i, e)
               \/ NoteRetried(i)
        PROVE  NotasOK'
    BY <2>8, NotasMoved
  <2> QED BY <1>5, <2>1, <2>2, <2>3, <2>4, <2>5, <2>6, <2>7, <2>8 DEF SaleNext
<1>6. CASE DeskNext /\ UNCHANGED saleVars
  <2>1. NoneNew /\ viejas \subseteq viejas' /\ notas' = notas BY <1>6, DeskFrame DEF saleVars
  <2> QED BY <2>1, FramesQuiet, NotasStill
<1>7. CASE UNCHANGED fulfilVars BY <1>4, <1>7 DEF fulfilVars, saleVars, deskVars, threads
<1> QED BY <1>5, <1>6, <1>7 DEF FulfilNext

\* With any number of requests, of notes and of units sold: the goods handed over at the
\* counter and by the courier are no more than was sold, a shipment that arrived left
\* nothing pending, and the credit notes that stand return no more units than the sale had
\* (credit-notes.service.ts: create, availableQuantities), unless two writes of the same
\* goods overlapped, or a note named a line twice or was sent again after it had failed.
THEOREM GoodsStayWithinSold == FulfilSpec => []GoodsWithinSold
<1>1. FulfilInit => SaleOK /\ NotasOK
  <2> SUFFICES ASSUME FulfilInit PROVE NotasOK BY SaleStarts
  <2>1. notas = <<>> /\ \A t \in Atenciones : ~Pending(hilo[t])
    BY DEF FulfilInit, DeskInit, Pending, Ocioso
  <2>2. Firmes = {} BY <2>1 DEF Firmes
  <2>3. Unidades(Firmes) = 0 BY <2>2, TotalNone DEF Unidades
  <2> QED BY <2>1, <2>3, FulfilmentAssumption DEF NotasOK, NotaPend
<1>2. (SaleOK /\ NotasOK) /\ [FulfilNext]_fulfilVars => (SaleOK /\ NotasOK)'
  BY SaleStays, NotasStay DEF SaleOK
<1>3. SaleOK => DeliveredWithinSold
  <2> SUFFICES ASSUME SaleOK, ~Old(GoodsKinds) PROVE DeliveredWithinSold
    BY DEF DeliveredWithinSold, GoodsKinds
  <2>1. GoodsFacts /\ SaleTyped BY DEF SaleOK, GoodsOK
  <2>2. vendida.entregado >= Vendidas => Pendiente = 0 BY <2>1, NatRows DEF Pendiente
  <2> QED BY <2>1, <2>2 DEF GoodsFacts, Entregadas, DeliveredWithinSold
<1>4. NotasOK => CreditedWithinSold
  <2> SUFFICES ASSUME NotasOK, ~Old({"notaCredito"}) PROVE CreditedWithinSold
    BY DEF CreditedWithinSold
  <2> DEFINE back == {i \in DOMAIN notas : Standing(notas[i]) /\ notas[i].motivo \in {"06", "07"}}
  <2> SUFFICES ASSUME ~ \E i \in back : notas[i].repetida PROVE ~(Unidades(back) > Vendidas)
    BY DEF CreditedWithinSold
  <2>1. back = Firmes BY DEF Firmes
  <2> HIDE DEF back
  <2>2. Unidades(Firmes) <= Vendidas /\ Unidades(Firmes) \in Nat /\ Vendidas \in Nat
    <3>1. Firmes \in SUBSET DOMAIN notas BY DEF Firmes
    <3> QED BY <3>1, NotasAre, FulfilmentAssumption DEF NotasOK
  <2> QED BY <2>1, <2>2
<1>5. SaleOK /\ NotasOK => GoodsWithinSold BY <1>3, <1>4 DEF GoodsWithinSold
<1> QED BY <1>1, <1>2, <1>5, PTL DEF FulfilSpec

----------------------------------------
(* Sums of movements.                                                      *)

\* A total over two sets that share nothing.
LEMMA TotalUnion ==
  ASSUME NEW f, NEW S, NEW T, IsFiniteSet(S), IsFiniteSet(T), S \cap T = {}, \A x \in S \cup T : f[x] \in Int
  PROVE  Suma(f, S \cup T) = Suma(f, S) + Suma(f, T)
<1> DEFINE Bad == {U \in SUBSET T : Suma(f, S \cup U) # Suma(f, S) + Suma(f, U)}
<1> SUFFICES ASSUME Bad # {} PROVE FALSE OBVIOUS
<1>1. PICK U \in Bad : \A W \in Bad : ~(W \subseteq U /\ W # U)
  <2>1. Bad \in SUBSET (SUBSET T) OBVIOUS
  <2> HIDE DEF Bad
  <2> QED BY <2>1, SmallestSet
<1>2. U \subseteq T /\ IsFiniteSet(U) /\ Suma(f, S) \in Int /\ Suma(f, S \cup U) # Suma(f, S) + Suma(f, U)
  BY FS_Subset, TotalIsInt
<1>3. CASE U = {} BY <1>2, <1>3, TotalNone
<1>4. CASE U # {}
  <2>1. PICK x, V, B : x \in U /\ V = U \ {x} /\ B = S \cup V BY <1>4
  <2>2. V \notin Bad /\ V \in SUBSET T BY <1>1, <2>1
  <2>3. Suma(f, B) = Suma(f, S) + Suma(f, V) BY <2>1, <2>2
  <2>4. x \notin B /\ x \notin V /\ IsFiniteSet(B) /\ IsFiniteSet(V) /\ S \cup U = B \cup {x} /\ U = V \cup {x}
    <3>1. x \notin B /\ x \notin V /\ S \cup U = B \cup {x} /\ U = V \cup {x} BY <1>2, <2>1
    <3>2. IsFiniteSet(V) BY <1>2, <2>1, FS_Subset
    <3>3. IsFiniteSet(B) BY <2>1, <3>2, FS_Union
    <3> QED BY <3>1, <3>2, <3>3
  <2>5. (\A y \in B \cup {x} : f[y] \in Int) /\ (\A y \in V \cup {x} : f[y] \in Int) BY <1>2, <2>1
  <2>6. Suma(f, B \cup {x}) = f[x] + Suma(f, B) /\ Suma(f, V \cup {x}) = f[x] + Suma(f, V)
    BY <2>4, <2>5, TotalWith
  <2>7. Suma(f, V) \in Int /\ f[x] \in Int BY <2>4, <2>5, TotalIsInt
  <2>8. Suma(f, S \cup U) = f[x] + Suma(f, B) /\ Suma(f, U) = f[x] + Suma(f, V) BY <2>4, <2>6
  <2> QED BY <1>2, <2>3, <2>7, <2>8
<1> QED BY <1>3, <1>4

\* A total of sums is the sum of the totals.
LEMMA TotalSum ==
  ASSUME NEW f, NEW g, NEW h, NEW S, IsFiniteSet(S),
         \A x \in S : f[x] \in Int /\ g[x] \in Int /\ h[x] = f[x] + g[x]
  PROVE  Suma(h, S) = Suma(f, S) + Suma(g, S)
<1> DEFINE Bad == {U \in SUBSET S : Suma(h, U) # Suma(f, U) + Suma(g, U)}
<1> SUFFICES ASSUME Bad # {} PROVE FALSE OBVIOUS
<1>1. PICK U \in Bad : \A W \in Bad : ~(W \subseteq U /\ W # U)
  <2>1. Bad \in SUBSET (SUBSET S) OBVIOUS
  <2> HIDE DEF Bad
  <2> QED BY <2>1, SmallestSet
<1>2. U \subseteq S /\ IsFiniteSet(U) /\ Suma(h, U) # Suma(f, U) + Suma(g, U) BY FS_Subset
<1>3. CASE U = {} BY <1>2, <1>3, TotalNone
<1>4. CASE U # {}
  <2>1. PICK x, V : x \in U /\ V = U \ {x} BY <1>4
  <2>2. V \notin Bad /\ V \in SUBSET S BY <1>1, <2>1
  <2>3. Suma(h, V) = Suma(f, V) + Suma(g, V) BY <2>2
  <2>4. x \notin V /\ IsFiniteSet(V) /\ U = V \cup {x} /\ (\A y \in V \cup {x} : f[y] \in Int) /\ (\A y \in V \cup {x} : g[y] \in Int)
        /\ (\A y \in V \cup {x} : h[y] \in Int)
    BY <1>2, <2>1, FS_Subset
  <2>5. Suma(h, V \cup {x}) = h[x] + Suma(h, V) /\ Suma(f, V \cup {x}) = f[x] + Suma(f, V)
        /\ Suma(g, V \cup {x}) = g[x] + Suma(g, V)
    BY <2>4, TotalWith
  <2>6. Suma(f, V) \in Int /\ Suma(g, V) \in Int /\ f[x] \in Int /\ g[x] \in Int /\ h[x] = f[x] + g[x]
    BY <1>2, <2>1, <2>4, TotalIsInt
  <2> QED BY <1>2, <2>3, <2>4, <2>5, <2>6
<1> QED BY <1>3, <1>4

\* A total of which one value changes.
LEMMA TotalMoves ==
  ASSUME NEW f, NEW g, NEW S, IsFiniteSet(S), NEW x \in S, \A y \in S : f[y] \in Int /\ g[y] \in Int,
         \A y \in S \ {x} : g[y] = f[y]
  PROVE  Suma(g, S) = Suma(f, S) + g[x] - f[x]
<1>1. PICK T : T = S \ {x} OBVIOUS
<1>2. Suma(f, S) = f[x] + Suma(f, T) /\ Suma(g, S) = g[x] + Suma(g, T) BY <1>1, TotalWithout
<1>3. Suma(g, T) = Suma(f, T) BY <1>1, TotalSame
<1>4. Suma(f, T) \in Int /\ f[x] \in Int /\ g[x] \in Int BY <1>1, FS_Subset, TotalIsInt
<1> QED BY <1>2, <1>3, <1>4

\* A finite set of integers has a greatest member.
LEMMA Greatest ==
  ASSUME NEW S, IsFiniteSet(S), S \subseteq Int, S # {}
  PROVE  Max(S) \in S
<1> DEFINE Bad == {U \in SUBSET S : U # {} /\ ~ \E x \in U : \A y \in U : x >= y}
<1> SUFFICES ASSUME Bad # {} PROVE FALSE
  <2>1. \E x \in S : \A y \in S : x >= y OBVIOUS
  <2> QED BY <2>1 DEF Max
<1>1. PICK U \in Bad : \A W \in Bad : ~(W \subseteq U /\ W # U)
  <2>1. PICK D : D = S OBVIOUS
  <2>2. Bad \subseteq SUBSET D /\ IsFiniteSet(D) BY <2>1
  <2>3. Bad # {} OBVIOUS
  <2> HIDE DEF Bad
  <2> QED BY <2>2, <2>3, SmallestSet
<1>2. PICK y \in U : TRUE OBVIOUS
<1>3. U \ {y} \notin Bad BY <1>1, <1>2
<1>4. U # {y} BY <1>2
<1>5. PICK z \in U \ {y} : \A w \in U \ {y} : z >= w BY <1>2, <1>3, <1>4
<1>6. \A a, b, w \in Int : (a >= b /\ b >= w => a >= w) /\ (a >= b \/ b >= a) /\ a >= a OBVIOUS
<1>7. y \in Int /\ z \in Int /\ U \subseteq Int BY <1>2, <1>5
<1>8. CASE y >= z BY <1>2, <1>5, <1>6, <1>7, <1>8
<1>9. CASE z >= y BY <1>2, <1>5, <1>6, <1>7, <1>9
<1> QED BY <1>6, <1>7, <1>8, <1>9

----------------------------------------
\* What the movements of m that K names changed: as one sum.
Val(m, K) == [i \in DOMAIN m |-> IF <<m[i].tipo, m[i].sale>> \in K THEN m[i].posterior - m[i].anterior ELSE 0]
Net(m, K) == Suma(Val(m, K), DOMAIN m)

\* The movements of a pair are finitely many and change it by integers.
LEMMA ValTyped ==
  ASSUME NEW m \in Seq(Move), NEW K
  PROVE  /\ DOMAIN m = 1..Len(m) /\ Len(m) \in Nat /\ IsFiniteSet(DOMAIN m)
         /\ \A i \in DOMAIN m : Val(m, K)[i] \in Int /\ m[i] \in Move
         /\ Net(m, K) \in Int
<1>1. DOMAIN m = 1..Len(m) /\ Len(m) \in Nat OBVIOUS
<1>2. IsFiniteSet(DOMAIN m) BY <1>1, FS_Interval
<1>3. \A i \in DOMAIN m : m[i] \in Move BY <1>1
<1>4. \A i \in DOMAIN m : m[i].posterior \in Nat /\ m[i].anterior \in Nat BY <1>3 DEF Move
<1>5. \A i \in DOMAIN m : Val(m, K)[i] \in Int BY <1>4 DEF Val
<1> QED BY <1>1, <1>2, <1>3, <1>5, TotalIsInt DEF Net

\* No movement changes nothing.
LEMMA NetNone == ASSUME NEW K PROVE Net(<<>>, K) = 0
<1>1. DOMAIN <<>> = {} OBVIOUS
<1> QED BY <1>1, TotalNone DEF Net

\* One movement more changes what it changes.
LEMMA NetAppend ==
  ASSUME NEW m \in Seq(Move), NEW v \in Move, NEW K
  PROVE  Net(Append(m, v), K) = Net(m, K) + (IF <<v.tipo, v.sale>> \in K THEN v.posterior - v.anterior ELSE 0)
<1>1. PICK n : n = Append(m, v) OBVIOUS
<1>2. n \in Seq(Move) /\ DOMAIN n = DOMAIN m \cup {Len(m) + 1} /\ Len(m) + 1 \notin DOMAIN m
      /\ n[Len(m) + 1] = v /\ \A i \in DOMAIN m : n[i] = m[i]
  BY <1>1
<1>3. PICK k, D : k = Len(m) + 1 /\ D = DOMAIN m OBVIOUS
<1>4. IsFiniteSet(D) /\ \A i \in D \cup {k} : Val(n, K)[i] \in Int BY <1>2, <1>3, ValTyped
<1>5. Suma(Val(n, K), D \cup {k}) = Val(n, K)[k] + Suma(Val(n, K), D) BY <1>2, <1>3, <1>4, TotalWith
<1>6. \A i \in D : Val(n, K)[i] = Val(m, K)[i] BY <1>2, <1>3 DEF Val
<1>7. Suma(Val(n, K), D) = Suma(Val(m, K), D) BY <1>6, TotalSame
<1>8. Val(n, K)[k] = IF <<v.tipo, v.sale>> \in K THEN v.posterior - v.anterior ELSE 0
  BY <1>2, <1>3 DEF Val
<1>9. Net(m, K) \in Int /\ Val(n, K)[k] \in Int BY <1>4, ValTyped
<1>10. Net(n, K) = Val(n, K)[k] + Net(m, K) BY <1>2, <1>3, <1>5, <1>7 DEF Net
<1> QED BY <1>1, <1>8, <1>9, <1>10

\* The movements of a transaction add to those of the pair: by a smallest set of
\* positions that would contradict it.
LEMMA NetConcat ==
  ASSUME NEW m \in Seq(Move), NEW k \in Seq(Move), NEW K
  PROVE  Net(m \o k, K) = Net(m, K) + Net(k, K)
<1>1. PICK n : n = m \o k OBVIOUS
<1>2. /\ n \in Seq(Move) /\ DOMAIN n = 1..(Len(m) + Len(k)) /\ Len(m) \in Nat /\ Len(k) \in Nat
      /\ \A i \in 1..Len(m) : n[i] = m[i]
      /\ \A i \in 1..Len(k) : n[Len(m) + i] = k[i]
  BY <1>1
<1> DEFINE Moved(U) == {Len(m) + i : i \in U}
           f == Val(n, K)
           Bad == {U \in SUBSET DOMAIN k : Suma(f, Moved(U)) # Suma(Val(k, K), U)}
<1>3. \A i \in DOMAIN n : f[i] \in Int BY <1>2, ValTyped
<1>4. ASSUME Bad # {} PROVE FALSE
  <2>1. PICK U \in Bad : \A W \in Bad : ~(W \subseteq U /\ W # U)
    <3>1. Bad \in SUBSET (SUBSET DOMAIN k) /\ IsFiniteSet(DOMAIN k) BY ValTyped
    <3> HIDE DEF Bad
    <3> QED BY <1>4, <3>1, SmallestSet
  <2>2. U \subseteq DOMAIN k /\ DOMAIN k = 1..Len(k) /\ Suma(f, Moved(U)) # Suma(Val(k, K), U)
    OBVIOUS
  <2>3. CASE U = {}
    <3>1. Moved(U) = {} BY <2>3
    <3> QED BY <2>2, <2>3, <3>1, TotalNone
  <2>4. CASE U # {}
    <3>1. PICK x, V : x \in U /\ V = U \ {x} BY <2>4
    <3>2. Suma(f, Moved(V)) = Suma(Val(k, K), V) BY <2>1, <3>1
    <3>3. PICK M : M = Moved(V) OBVIOUS
    <3>4. Moved(U) = M \cup {Len(m) + x} /\ Len(m) + x \notin M /\ U = V \cup {x} /\ x \notin V
      BY <1>2, <2>2, <3>1, <3>3
    <3>5. IsFiniteSet(V) /\ IsFiniteSet(M)
      <4>1. IsFiniteSet(DOMAIN k) /\ IsFiniteSet(DOMAIN n) BY <1>2, ValTyped
      <4>2. M \subseteq DOMAIN n BY <1>2, <2>2, <3>1, <3>3
      <4> QED BY <2>2, <3>1, <4>1, <4>2, FS_Subset
    <3>6. (\A y \in M \cup {Len(m) + x} : f[y] \in Int) /\ (\A y \in V \cup {x} : Val(k, K)[y] \in Int)
      <4>1. M \cup {Len(m) + x} \subseteq DOMAIN n BY <1>2, <2>2, <3>1, <3>3
      <4> QED BY <1>3, <2>2, <3>1, <4>1, ValTyped
    <3> HIDE DEF f
    <3>7. PICK w : w = Len(m) + x OBVIOUS
    <3>8. Suma(f, M \cup {w}) = f[w] + Suma(f, M) BY <3>4, <3>5, <3>6, <3>7, TotalWith
    <3>9. Suma(Val(k, K), V \cup {x}) = Val(k, K)[x] + Suma(Val(k, K), V)
      BY <3>4, <3>5, <3>6, TotalWith
    <3>10. f[w] = Val(k, K)[x]
      <4>1. n[w] = k[x] /\ x \in DOMAIN k /\ w \in DOMAIN n BY <1>2, <2>2, <3>1, <3>7
      <4> QED BY <4>1 DEF f, Val
    <3> QED BY <2>2, <3>2, <3>3, <3>4, <3>7, <3>8, <3>9, <3>10
  <2> QED BY <2>3, <2>4
<1>5. Suma(f, Moved(DOMAIN k)) = Net(k, K) BY <1>4 DEF Net
<1>6. PICK M, D : M = Moved(DOMAIN k) /\ D = DOMAIN m OBVIOUS
<1>7. DOMAIN n = D \cup M /\ D \cap M = {} /\ IsFiniteSet(D) /\ IsFiniteSet(M)
  <2>1. DOMAIN k = 1..Len(k) /\ DOMAIN m = 1..Len(m) OBVIOUS
  <2>2. \A i \in (Len(m) + 1)..(Len(m) + Len(k)) : i - Len(m) \in 1..Len(k) /\ i = Len(m) + (i - Len(m))
    BY <1>2
  <2>3. DOMAIN n = D \cup M /\ D \cap M = {}
    <3>1. M = (Len(m) + 1)..(Len(m) + Len(k))
      <4>1. \A i \in 1..Len(k) : Len(m) + i \in (Len(m) + 1)..(Len(m) + Len(k)) BY <1>2
      <4> QED BY <1>6, <2>1, <2>2, <4>1
    <3> HIDE DEF Moved
    <3> QED BY <1>2, <1>6, <2>1, <3>1
  <2>4. IsFiniteSet(DOMAIN n) BY <1>2, ValTyped
  <2> QED BY <2>3, <2>4, FS_Subset
<1> HIDE DEF f
<1>8. Suma(f, D \cup M) = Suma(f, D) + Suma(f, M) BY <1>3, <1>7, TotalUnion
<1>9. \A i \in D : f[i] = Val(m, K)[i]
  <2>1. \A i \in D : n[i] = m[i] /\ i \in DOMAIN n /\ i \in DOMAIN m BY <1>2, <1>6, <1>7
  <2> QED BY <2>1 DEF f, Val
<1>10. Suma(f, D) = Suma(Val(m, K), D) BY <1>9, TotalSame
<1> QED BY <1>1, <1>5, <1>6, <1>7, <1>8, <1>10 DEF Net, f

\* What the fold over a kardex adds up, last movement first: those in C.
Cuenta(g, m, C) ==
  g = [s \in SUBSET DOMAIN m |->
         IF s = {} THEN 0
         ELSE IF Max(s) \in C THEN g[s \ {Max(s)}] + m[Max(s)].posterior - m[Max(s)].anterior
              ELSE g[s \ {Max(s)}]]

\* That fold is the sum, whatever C and K name the same movements.
LEMMA CountIsNet ==
  ASSUME NEW m \in Seq(Move), NEW K, NEW C, \A i \in DOMAIN m : i \in C <=> <<m[i].tipo, m[i].sale>> \in K
  PROVE  (CHOOSE g : Cuenta(g, m, C))[DOMAIN m] = Net(m, K)
<1> DEFINE f == Val(m, K)
           w == [s \in SUBSET DOMAIN m |-> Suma(f, s)]
<1>1. IsFiniteSet(DOMAIN m) /\ DOMAIN m \subseteq Int /\ \A i \in DOMAIN m : f[i] \in Int /\ m[i] \in Move
  BY ValTyped
<1>2. ASSUME NEW s \in SUBSET DOMAIN m, s # {}
      PROVE  /\ Max(s) \in s /\ s \ {Max(s)} \in SUBSET DOMAIN m
             /\ Suma(f, s) = IF Max(s) \in C THEN Suma(f, s \ {Max(s)}) + m[Max(s)].posterior - m[Max(s)].anterior
                             ELSE Suma(f, s \ {Max(s)})
  <2>1. PICK x, r : x = Max(s) /\ r = s \ {x} OBVIOUS
  <2>2. IsFiniteSet(s) /\ s \subseteq Int BY <1>1, FS_Subset
  <2>3. x \in s BY <1>2, <2>1, <2>2, Greatest
  <2>4. Suma(f, s) = f[x] + Suma(f, r) BY <1>1, <2>1, <2>2, <2>3, TotalWithout
  <2>5. Suma(f, r) \in Int BY <1>1, <2>1, <2>2, FS_Subset, TotalIsInt
  <2>6. m[x].posterior \in Nat /\ m[x].anterior \in Nat BY <1>1, <2>3 DEF Move
  <2>7. f[x] = IF x \in C THEN m[x].posterior - m[x].anterior ELSE 0 BY <2>3 DEF Val
  <2> HIDE DEF f
  <2> QED BY <2>1, <2>3, <2>4, <2>5, <2>6, <2>7
<1>3. Suma(f, {}) = 0 BY TotalNone
<1> HIDE DEF f
<1>4. Cuenta(w, m, C) BY <1>2, <1>3 DEF Cuenta
<1>5. PICK g : g = (CHOOSE h : Cuenta(h, m, C)) /\ Cuenta(g, m, C) BY <1>4
<1> DEFINE Bad == {s \in SUBSET DOMAIN m : g[s] # Suma(f, s)}
<1>6. ASSUME Bad # {} PROVE FALSE
  <2>1. PICK s \in Bad : \A W \in Bad : ~(W \subseteq s /\ W # s)
    <3>1. PICK D : D = DOMAIN m OBVIOUS
    <3>2. Bad \subseteq SUBSET D BY <3>1
    <3>3. IsFiniteSet(D) BY <1>1, <3>1
    <3>4. Bad # {} BY <1>6
    <3> HIDE DEF Bad
    <3> QED BY <3>2, <3>3, <3>4, SmallestSet
  <2>2. s \in SUBSET DOMAIN m /\ g[s] # Suma(f, s) OBVIOUS
  <2>3. g[s] = IF s = {} THEN 0
               ELSE IF Max(s) \in C THEN g[s \ {Max(s)}] + m[Max(s)].posterior - m[Max(s)].anterior
                    ELSE g[s \ {Max(s)}]
    BY <1>5, <2>2 DEF Cuenta
  <2>4. s # {} BY <1>3, <2>2, <2>3
  <2>5. g[s \ {Max(s)}] = Suma(f, s \ {Max(s)}) BY <1>2, <2>1, <2>2, <2>4
  <2> QED BY <1>2, <2>2, <2>3, <2>4, <2>5
<1>7. g[DOMAIN m] = Suma(f, DOMAIN m) BY <1>6
<1> QED BY <1>5, <1>7 DEF Net, f

\* The units that the sale s took from a pair, and those of the transfers.
DeLa(s)  == Kinds \X {s}
Traslado == {"transfer"} \X (Sales \cup {None})

\* The units of a sale in a pair, as SaleIsBacked folds them.
LEMMA UnitsOfSale ==
  ASSUME NEW p, kardex[p] \in Seq(Move), NEW s
  PROVE  Units(p, LAMBDA m : m.sale = s) = Net(kardex[p], DeLa(s))
<1> DEFINE k == kardex[p]
           C == {i \in DOMAIN k : k[i].sale = s}
           Lee(g) == g = [S \in SUBSET DOMAIN k |->
                IF S = {} THEN 0
                ELSE IF k[Max(S)].sale = s THEN g[S \ {Max(S)}] + k[Max(S)].posterior - k[Max(S)].anterior
                     ELSE g[S \ {Max(S)}]]
<1>1. Units(p, LAMBDA m : m.sale = s) =
        (CHOOSE g : Lee(g))[DOMAIN k]
  BY DEF Units, FoldLeft, MapThenFoldSet
<1>2. \A S \in SUBSET DOMAIN k : S # {} => (Max(S) \in C <=> k[Max(S)].sale = s)
  <2> SUFFICES ASSUME NEW S \in SUBSET DOMAIN k, S # {} PROVE Max(S) \in DOMAIN k OBVIOUS
  <2>1. IsFiniteSet(S) /\ S \subseteq Int
    <3>1. IsFiniteSet(DOMAIN k) /\ \A i \in DOMAIN k : Val(k, DeLa(s))[i] \in Int BY ValTyped
    <3>2. DOMAIN k \subseteq Int OBVIOUS
    <3> QED BY <3>1, <3>2, FS_Subset
  <2> QED BY <2>1, Greatest
<1>3. ASSUME NEW g
      PROVE  Cuenta(g, k, C) <=> Lee(g)
  BY <1>2 DEF Cuenta
<1>4. \A i \in DOMAIN k : i \in C <=> <<k[i].tipo, k[i].sale>> \in DeLa(s)
  <2>1. \A i \in DOMAIN k : k[i].tipo \in Kinds BY ValTyped DEF Move
  <2> QED BY <2>1 DEF DeLa
<1> HIDE DEF C, Lee
<1>5. (CHOOSE g : Cuenta(g, k, C))[DOMAIN k] = Net(k, DeLa(s)) BY <1>4, CountIsNet
<1>6. (CHOOSE g : Cuenta(g, k, C)) = (CHOOSE g : Lee(g)) BY <1>3
<1> QED BY <1>1, <1>5, <1>6

\* The units of the transfers in a pair, as TransfersConserve folds them.
LEMMA UnitsOfTransfers ==
  ASSUME NEW p, kardex[p] \in Seq(Move)
  PROVE  Units(p, LAMBDA m : m.tipo = "transfer") = Net(kardex[p], Traslado)
<1> DEFINE k == kardex[p]
           C == {i \in DOMAIN k : k[i].tipo = "transfer"}
           Lee(g) == g = [S \in SUBSET DOMAIN k |->
                IF S = {} THEN 0
                ELSE IF k[Max(S)].tipo = "transfer" THEN g[S \ {Max(S)}] + k[Max(S)].posterior - k[Max(S)].anterior
                     ELSE g[S \ {Max(S)}]]
<1>1. Units(p, LAMBDA m : m.tipo = "transfer") =
        (CHOOSE g : Lee(g))[DOMAIN k]
  BY DEF Units, FoldLeft, MapThenFoldSet
<1>2. \A S \in SUBSET DOMAIN k : S # {} => (Max(S) \in C <=> k[Max(S)].tipo = "transfer")
  <2> SUFFICES ASSUME NEW S \in SUBSET DOMAIN k, S # {} PROVE Max(S) \in DOMAIN k OBVIOUS
  <2>1. IsFiniteSet(S) /\ S \subseteq Int
    <3>1. IsFiniteSet(DOMAIN k) /\ \A i \in DOMAIN k : Val(k, Traslado)[i] \in Int BY ValTyped
    <3>2. DOMAIN k \subseteq Int OBVIOUS
    <3> QED BY <3>1, <3>2, FS_Subset
  <2> QED BY <2>1, Greatest
<1>3. ASSUME NEW g
      PROVE  Cuenta(g, k, C) <=> Lee(g)
  BY <1>2 DEF Cuenta
<1>4. \A i \in DOMAIN k : i \in C <=> <<k[i].tipo, k[i].sale>> \in Traslado
  <2>1. \A i \in DOMAIN k : k[i].sale \in Sales \cup {None} BY ValTyped DEF Move
  <2> QED BY <2>1 DEF Traslado
<1> HIDE DEF C, Lee
<1>5. (CHOOSE g : Cuenta(g, k, C))[DOMAIN k] = Net(k, Traslado) BY <1>4, CountIsNet
<1>6. (CHOOSE g : Cuenta(g, k, C)) = (CHOOSE g : Lee(g)) BY <1>3
<1> QED BY <1>1, <1>5, <1>6

----------------------------------------
(* The transfers: what a request has written, and what it commits.         *)

\* The lines of a request that it has written in a pair.
Written(x, p) == {i \in DOMAIN x.lines : i < x.at /\ x.lines[i].pair = p}

\* A sale takes a unit a line, and its annulment returns it; a transfer takes a unit and
\* gives it, line after line.
SaleLines(x) ==
  /\ x.kind = "sale" => \A i \in DOMAIN x.lines : x.lines[i].qty = -1 /\ x.lines[i].how = "by"
  /\ x.kind = "annul" => \A i \in DOMAIN x.lines : x.lines[i].qty = 1 /\ x.lines[i].how = "by"
  /\ x.kind \notin {"sale", "annul"} => x.sale = None
InPairs(lines) ==
  /\ Len(lines) % 2 = 0
  /\ \A i \in DOMAIN lines :
       /\ lines[i].how = "by" /\ lines[i].qty = (IF i % 2 = 1 THEN -1 ELSE 1)
       /\ i % 2 = 0 => lines[i].pair[2] = lines[i - 1].pair[2]
TransferLines(x) == x.kind = "transfer" => InPairs(x.lines)

\* What the pending movements of a request add up to: the lines of its sale that it has
\* written, or what a transfer has taken and not yet given.
SaleMoves(x) ==
  \A s \in Sales, p \in Pairs :
    Net(x.moves[p], DeLa(s)) =
      IF s # x.sale THEN 0
      ELSE IF x.kind = "annul" THEN Cardinality(Written(x, p)) ELSE 0 - Cardinality(Written(x, p))
ByBranch(m, v) == [b \in Branches |-> Net(m[<<b, v>>], Traslado)]
TransferMoves(x) ==
  \A v \in Variants :
    Suma(ByBranch(x.moves, v), Branches) =
      IF x.kind = "transfer" /\ x.at % 2 = 0 /\ x.lines[x.at].pair[2] = v THEN -1 ELSE 0

\* What the committed movements add up to.
KardexBalanced == \A v \in Variants : Suma(ByBranch(kardex, v), Branches) = 0
TransfersOK ==
  /\ KardexBalanced
  /\ \A t \in Threads : TransferLines(tx[t]) /\ TransferMoves(tx[t])

Mirrors(x) ==
  x.kind = "annul" =>
    /\ x.pc # "idle" => venta[x.sale] = IF x.sale \in x.stale THEN "anulada" ELSE "completada"
    /\ x.pc \notin {"idle", "checked"} =>
         /\ DOMAIN x.lines = DOMAIN detalle[x.sale]
         /\ \A i \in DOMAIN x.lines : x.lines[i].pair = detalle[x.sale][i].pair
KardexBacked ==
  /\ \A s \in Sales : venta[s] # "anulada" => repetidas[s] = 0
  /\ \A s \in Sales, p \in Pairs :
       Net(kardex[p], DeLa(s)) = IF venta[s] = "completada" THEN 0 - Sold(s, p) ELSE repetidas[s] * Sold(s, p)
DetailOK ==
  \A s \in Sales : venta[s] # "none" =>
    \A i \in DOMAIN detalle[s] : detalle[s][i].qty = -1 /\ detalle[s][i].how = "by"
SalesOK ==
  /\ KardexBacked /\ DetailOK
  /\ \A t \in Threads : SaleLines(tx[t]) /\ SaleMoves(tx[t]) /\ Mirrors(tx[t])

----------------------------------------
\* The fields that say what a request has written.
Alike(x, y) ==
  /\ y.kind = x.kind /\ y.sale = x.sale /\ y.lines = x.lines /\ y.at = x.at /\ y.moves = x.moves
  /\ (y.pc = "idle" <=> x.pc = "idle") /\ (y.pc = "checked" <=> x.pc = "checked")

\* They decide what it adds up to.
LEMMA AlikeDrafts ==
  ASSUME NEW x, NEW y, Alike(x, y)
  PROVE  /\ TransferLines(x) /\ TransferMoves(x) => TransferLines(y) /\ TransferMoves(y)
         /\ SaleLines(x) /\ SaleMoves(x) => SaleLines(y) /\ SaleMoves(y)
         /\ Mirrors(x) /\ y.stale = x.stale => Mirrors(y)
BY DEF Alike, TransferLines, TransferMoves, SaleLines, SaleMoves, Mirrors, Written

\* The statements that write no line.
LEMMA StatementAlike ==
  ASSUME Inv, NEW t \in Threads,
         \/ LockCompany(t) \/ NextCode(t) \/ InsertHeader(t) \/ UpdateSale(t)
         \/ (\E p \in Pairs : LockUpFront(t, p)) \/ LockLine(t)
  PROVE  \/ Abort(t)
         \/ /\ UNCHANGED committed /\ Alike(tx[t], tx'[t]) /\ tx'[t].stale = tx[t].stale
            /\ \A u \in Threads \ {t} : tx'[u] = tx[u]
<1>1. tx[t] \in Tx /\ tx \in [Threads -> Tx] BY DEF Inv, TypeOK
<1> SUFFICES ASSUME ~Abort(t) PROVE UNCHANGED committed /\ Alike(tx[t], tx'[t]) /\ tx'[t].stale = tx[t].stale /\ \A u \in Threads \ {t} : tx'[u] = tx[u]
  OBVIOUS
<1>2. ASSUME NEW pc \in {"code", "lock", "venta"}, tx' = [tx EXCEPT ![t].pc = pc], tx[t].pc \notin {"idle", "checked"}
      PROVE  Alike(tx[t], tx'[t]) /\ tx'[t].stale = tx[t].stale /\ \A u \in Threads \ {t} : tx'[u] = tx[u]
  BY <1>1, <1>2 DEF Alike, Tx
<1>3. CASE LockCompany(t) BY <1>2, <1>3 DEF LockCompany, Goto
<1>4. CASE NextCode(t)
  <2>1. /\ tx[t].pc = "code" /\ UNCHANGED committed
        /\ tx' = [tx EXCEPT ![t].pc = "lock", ![t].code = contador + 1]
    BY <1>4 DEF NextCode
  <2> QED BY <1>1, <2>1 DEF Alike, Tx
<1>5. CASE InsertHeader(t)
  <2>1. tx[t].pc = "header" /\ tx' = [tx EXCEPT ![t].pc = IF tx[t].kind = "annul" THEN "venta" ELSE "lock"] /\ UNCHANGED committed
    BY <1>5 DEF InsertHeader, Goto
  <2>2. PICK pc \in {"lock", "venta"} : pc = IF tx[t].kind = "annul" THEN "venta" ELSE "lock"
    OBVIOUS
  <2> QED BY <1>2, <2>1, <2>2
<1>6. CASE UpdateSale(t) BY <1>2, <1>6 DEF UpdateSale, Goto
<1>7. ASSUME NEW p \in Pairs, LockUpFront(t, p)
      PROVE  UNCHANGED committed /\ Alike(tx[t], tx'[t]) /\ tx'[t].stale = tx[t].stale /\ \A u \in Threads \ {t} : tx'[u] = tx[u]
  <2>1. /\ tx[t].pc = "upfront" /\ UNCHANGED committed
        /\ tx' = [tx EXCEPT ![t].want = @ \ {p},
                            ![t].pc = IF tx[t].want # {p} THEN "upfront"
                                      ELSE IF tx[t].kind = "transfer" THEN "header" ELSE "lock"]
    BY <1>7 DEF LockUpFront
  <2>2. PICK pc \in {"upfront", "header", "lock"} :
          pc = IF tx[t].want # {p} THEN "upfront" ELSE IF tx[t].kind = "transfer" THEN "header" ELSE "lock"
    OBVIOUS
  <2>3. tx' = [tx EXCEPT ![t].want = @ \ {p}, ![t].pc = pc] BY <2>1, <2>2
  <2> QED BY <1>1, <2>1, <2>3 DEF Alike, Tx
<1>8. CASE LockLine(t)
  <2>1. /\ tx[t].pc = "lock" /\ UNCHANGED committed
        /\ tx' = [tx EXCEPT ![t].pc = "change", ![t].read = StockRead(t, Pair(t))]
    BY <1>8 DEF LockLine
  <2> QED BY <1>1, <2>1 DEF Alike, Tx
<1> QED BY <1>3, <1>4, <1>5, <1>6, <1>7, <1>8

\* The statement that writes one: it changes the pair by what its line asks for.
LineDone(x, y) ==
  LET l == x.lines[x.at]
      p == l.pair
  IN /\ x \in Tx /\ l \in Line /\ x.at \in DOMAIN x.lines /\ p \in Pairs
     /\ x.pc = "change" /\ y.pc \in {"lock", "commit"}
     /\ y.kind = x.kind /\ y.sale = x.sale /\ y.lines = x.lines /\ y.at = x.at + 1 /\ y.stale = x.stale
     /\ \A q \in Pairs : q # p => y.moves[q] = x.moves[q]
     /\ \A K : /\ l.how = "by" =>
                    Net(y.moves[p], K) = Net(x.moves[p], K) + (IF <<x.kind, x.sale>> \in K THEN l.qty ELSE 0)
               /\ <<x.kind, x.sale>> \notin K => Net(y.moves[p], K) = Net(x.moves[p], K)

\* WriteLine does that.
LEMMA LineWritten ==
  ASSUME Inv, NEW t \in Threads, ChangeLine(t), ~Abort(t)
  PROVE  LineDone(tx[t], tx'[t]) /\ UNCHANGED committed /\ \A u \in Threads \ {t} : tx'[u] = tx[u]
<1>1. PICK x, y, p, l, a : x = tx[t] /\ y = tx'[t] /\ l = x.lines[x.at] /\ p = l.pair /\ a = Target(t)
  OBVIOUS
<1>2. x \in Tx /\ Shape(x) /\ x.pc = "change" /\ tx \in [Threads -> Tx]
  BY <1>1 DEF Inv, TypeOK, ChangeLine
<1>3. x.at \in DOMAIN x.lines /\ l \in Line /\ p \in Pairs /\ p = Pair(t) /\ x.moves \in [Pairs -> Seq(Move)]
  <2>1. x.at \in 1..Len(x.lines) /\ l \in Line /\ p \in Pairs BY <1>1, <1>2, PairTyped
  <2>2. x.lines \in Seq(Line) /\ x.moves \in [Pairs -> Seq(Move)] BY <1>2 DEF Tx
  <2>3. DOMAIN x.lines = 1..Len(x.lines) BY <2>2
  <2> QED BY <1>1, <2>1, <2>2, <2>3 DEF Pair
<1>4. ~(a < 0) /\ WriteLine(t) BY <1>1 DEF ChangeLine
<1>5. x.read \in Nat /\ l.qty \in Int /\ x.kind \in Kinds /\ x.sale \in Sales \cup {None}
  BY <1>2, <1>3 DEF Tx, Line
<1>6. a = (IF l.how = "to" THEN l.qty ELSE x.read + l.qty) /\ a \in Nat /\ (Moves(t) <=> a # x.read)
  <2>1. a = IF l.how = "to" THEN l.qty ELSE x.read + l.qty BY <1>1 DEF Target
  <2>2. Moves(t) <=> a # x.read BY <1>1 DEF Moves
  <2> QED BY <1>4, <1>5, <2>1, <2>2
<1>7. PICK v : v = [anterior |-> x.read, posterior |-> a, tipo |-> x.kind, sale |-> x.sale] OBVIOUS
<1>8. v \in Move BY <1>5, <1>6, <1>7 DEF Move
<1>9. v.anterior = x.read /\ v.posterior = a /\ v.tipo = x.kind /\ v.sale = x.sale BY <1>7
<1>10. PICK m, pc : m = x.moves[p] /\ pc = IF x.at = Len(x.lines) THEN "commit" ELSE "lock" OBVIOUS
<1>11. PICK n : n = IF a # x.read THEN Append(m, v) ELSE m OBVIOUS
<1>12. tx' = [tx EXCEPT ![t].pc = pc, ![t].at = @ + 1, ![t].read = 0, ![t].wrote = @ \cup {p}, ![t].moves[p] = n]
       /\ UNCHANGED committed
  BY <1>1, <1>3, <1>4, <1>6, <1>7, <1>10, <1>11 DEF WriteLine
<1>13. y = [x EXCEPT !.pc = pc, !.at = @ + 1, !.read = 0, !.wrote = @ \cup {p}, !.moves = [@ EXCEPT ![p] = n]]
       /\ \A u \in Threads \ {t} : tx'[u] = tx[u]
  BY <1>1, <1>2, <1>12 DEF Tx
<1>14. /\ y.pc = pc /\ y.kind = x.kind /\ y.sale = x.sale /\ y.lines = x.lines /\ y.at = x.at + 1 /\ y.stale = x.stale
       /\ y.moves = [x.moves EXCEPT ![p] = n]
  BY <1>2, <1>13 DEF Tx
<1>15. y.moves[p] = n /\ \A q \in Pairs : q # p => y.moves[q] = x.moves[q] BY <1>3, <1>14
<1>16. m \in Seq(Move) BY <1>3, <1>10
<1>17. ASSUME NEW K
       PROVE  /\ l.how = "by" => Net(n, K) = Net(m, K) + (IF <<x.kind, x.sale>> \in K THEN l.qty ELSE 0)
              /\ <<x.kind, x.sale>> \notin K => Net(n, K) = Net(m, K)
  <2>1. Net(Append(m, v), K) = Net(m, K) + (IF <<v.tipo, v.sale>> \in K THEN v.posterior - v.anterior ELSE 0)
    BY <1>8, <1>16, NetAppend
  <2>2. Net(m, K) \in Int BY <1>16, ValTyped
  <2>3. l.how = "by" => a - x.read = l.qty BY <1>5, <1>6
  <2>4. a # x.read => Net(n, K) = Net(m, K) + (IF <<x.kind, x.sale>> \in K THEN a - x.read ELSE 0)
    BY <1>9, <1>11, <2>1
  <2>5. a = x.read => n = m BY <1>11
  <2> QED BY <1>5, <1>6, <2>2, <2>3, <2>4, <2>5
<1>18. ASSUME NEW K
       PROVE  /\ l.how = "by" =>
                   Net(y.moves[p], K) = Net(x.moves[p], K) + (IF <<x.kind, x.sale>> \in K THEN l.qty ELSE 0)
              /\ <<x.kind, x.sale>> \notin K => Net(y.moves[p], K) = Net(x.moves[p], K)
  BY <1>10, <1>15, <1>17
<1>19. y.pc \in {"lock", "commit"} /\ UNCHANGED committed BY <1>10, <1>12, <1>14
<1>20. \A K : /\ l.how = "by" =>
                   Net(y.moves[p], K) = Net(x.moves[p], K) + (IF <<x.kind, x.sale>> \in K THEN l.qty ELSE 0)
              /\ <<x.kind, x.sale>> \notin K => Net(y.moves[p], K) = Net(x.moves[p], K)
  BY <1>18
<1>21. LineDone(x, y)
  <2>1. x.lines[x.at] = l /\ l.pair = p BY <1>1
  <2> SUFFICES
        /\ x \in Tx /\ l \in Line /\ x.at \in DOMAIN x.lines /\ p \in Pairs
        /\ x.pc = "change" /\ y.pc \in {"lock", "commit"}
        /\ y.kind = x.kind /\ y.sale = x.sale /\ y.lines = x.lines /\ y.at = x.at + 1 /\ y.stale = x.stale
        /\ \A q \in Pairs : q # p => y.moves[q] = x.moves[q]
        /\ \A K : /\ l.how = "by" =>
                       Net(y.moves[p], K) = Net(x.moves[p], K) + (IF <<x.kind, x.sale>> \in K THEN l.qty ELSE 0)
                  /\ <<x.kind, x.sale>> \notin K => Net(y.moves[p], K) = Net(x.moves[p], K)
    BY <2>1 DEF LineDone
  <2> QED BY <1>2, <1>3, <1>14, <1>15, <1>19, <1>20
<1> QED BY <1>1, <1>13, <1>19, <1>21

\* Zeros add up to zero.
LEMMA TotalZero ==
  ASSUME NEW f, NEW S, IsFiniteSet(S), \A x \in S : f[x] = 0
  PROVE  Suma(f, S) = 0
<1>1. Suma(f, S) = Suma(f, S) + Suma(f, S) BY TotalSum
<1>2. Suma(f, S) \in Int BY TotalIsInt
<1>3. \A a \in Int : a = a + a => a = 0 OBVIOUS
<1> QED BY <1>1, <1>2, <1>3

\* A request that has written nothing.
LEMMA NoMoves ==
  ASSUME NEW x, x.moves = Idle.moves, x.at = 1, x.lines \in Seq(Line)
  PROVE  SaleMoves(x) /\ TransferMoves(x)
<1>1. \A p \in Pairs : x.moves[p] = <<>> BY DEF Idle
<1>2. \A p \in Pairs : \A K : Net(x.moves[p], K) = 0 BY <1>1, NetNone
<1>3. \A p : Written(x, p) = {}
  <2>1. DOMAIN x.lines = 1..Len(x.lines) OBVIOUS
  <2> QED BY <2>1 DEF Written
<1>4. Cardinality({}) = 0 BY FS_EmptySet
<1>5. SaleMoves(x)
  <2>1. \A p : Cardinality(Written(x, p)) = 0 BY <1>3, <1>4
  <2>3. \A s \in Sales, p \in Pairs : Net(x.moves[p], DeLa(s)) = 0 BY <1>2
  <2> QED BY <2>1, <2>3 DEF SaleMoves
<1>6. ASSUME NEW v \in Variants PROVE Suma(ByBranch(x.moves, v), Branches) = 0
  <2>1. \A b \in Branches : ByBranch(x.moves, v)[b] = 0 BY <1>2 DEF ByBranch, Pairs
  <2> QED BY <2>1, TotalZero, ShopAssumption
<1>7. x.at % 2 # 0 OBVIOUS
<1> QED BY <1>5, <1>6, <1>7 DEF TransferMoves

\* Between two requests.
LEMMA IdleBalanced ==
  /\ TransferLines(Idle) /\ TransferMoves(Idle) /\ SaleLines(Idle) /\ SaleMoves(Idle) /\ Mirrors(Idle)
  /\ Idle.kind = "sale" /\ Idle.at = 1 /\ Idle.lines = <<>>
<1>1. Idle.at = 1 /\ Idle.lines = <<>> /\ Idle.lines \in Seq(Line) /\ Idle.kind = "sale" /\ Idle.pc = "idle"
  BY DEF Idle
<1>2. SaleMoves(Idle) /\ TransferMoves(Idle) BY <1>1, NoMoves
<1>3. DOMAIN Idle.lines = {} BY <1>1
<1> QED BY <1>1, <1>2, <1>3 DEF TransferLines, SaleLines, Mirrors

\* A step of t that commits nothing.
LEMMA TransfersStep ==
  ASSUME Inv, TransfersOK, NEW t \in Threads, UNCHANGED committed,
         \A u \in Threads \ {t} : tx'[u] = tx[u],
         TransferLines(tx'[t]), TransferMoves(tx'[t])
  PROVE  TransfersOK'
<1>1. KardexBalanced' BY DEF TransfersOK, KardexBalanced, ByBranch, committed
<1>2. ASSUME NEW u \in Threads PROVE TransferLines(tx'[u]) /\ TransferMoves(tx'[u])
  <2>1. CASE u = t BY <2>1
  <2>2. CASE u # t BY <2>2 DEF TransfersOK
  <2> QED BY <2>1, <2>2
<1> QED BY <1>1, <1>2 DEF TransfersOK, TransferLines, TransferMoves, ByBranch

\* A rollback undoes what the transfer did.
LEMMA AbortTransfers == ASSUME Inv, TransfersOK, NEW t \in Threads, Abort(t) PROVE TransfersOK'
<1>1. tx'[t] = Idle /\ \A u \in Threads \ {t} : tx'[u] = tx[u] BY DEF Abort, Inv, TypeOK
<1> QED BY <1>1, IdleBalanced, TransfersStep DEF Abort

\* The lines that a transfer brings: an exit and an entry of every variant.
LEMMA TransferBrings ==
  ASSUME NEW t, NEW a \in Branches, NEW b \in Branches, NEW c \in Carts, TransferArrives(t, a, b, c)
  PROVE  \E lines \in Seq(Line) :
           /\ Begin(t, "transfer", "upfront", None, lines, PairsOf(a, c) \cup PairsOf(b, c))
           /\ InPairs(lines)
<1> DEFINE exits == LinesOf(a, c, -1, "by")
           entries == LinesOf(b, c, 1, "by")
<1>1. PICK n \in Nat \ {0} : n = Len(c) BY ShopAssumption
<1>2. c \in Seq(Variants) BY ShopAssumption
<1>3. \A i \in 1..n : /\ exits[i] = [pair |-> <<a, c[i]>>, qty |-> -1, how |-> "by"]
                      /\ entries[i] = [pair |-> <<b, c[i]>>, qty |-> 1, how |-> "by"]
  BY <1>1 DEF LinesOf
<1>4. \A i \in 1..n : exits[i] \in Line /\ entries[i] \in Line
  <2> SUFFICES ASSUME NEW i \in 1..n PROVE exits[i] \in Line /\ entries[i] \in Line OBVIOUS
  <2>1. c[i] \in Variants BY <1>1, <1>2
  <2>2. <<a, c[i]>> \in Pairs /\ <<b, c[i]>> \in Pairs BY <2>1 DEF Pairs
  <2>3. [pair |-> <<a, c[i]>>, qty |-> -1, how |-> "by"] \in Line /\ [pair |-> <<b, c[i]>>, qty |-> 1, how |-> "by"] \in Line
    BY <2>2 DEF Line
  <2> QED BY <1>3, <2>3
<1>14. \A i \in 1..n : /\ exits[i].pair = <<a, c[i]>> /\ exits[i].qty = -1 /\ exits[i].how = "by"
                      /\ entries[i].pair = <<b, c[i]>> /\ entries[i].qty = 1 /\ entries[i].how = "by"
  <2> SUFFICES ASSUME NEW i \in 1..n
               PROVE  /\ exits[i].pair = <<a, c[i]>> /\ exits[i].qty = -1 /\ exits[i].how = "by"
                      /\ entries[i].pair = <<b, c[i]>> /\ entries[i].qty = 1 /\ entries[i].how = "by"
    OBVIOUS
  <2>1. PICK e, f : e = exits[i] /\ f = entries[i] OBVIOUS
  <2>2. e = [pair |-> <<a, c[i]>>, qty |-> -1, how |-> "by"] /\ f = [pair |-> <<b, c[i]>>, qty |-> 1, how |-> "by"]
    BY <1>3, <2>1
  <2>3. e.pair = <<a, c[i]>> /\ e.qty = -1 /\ e.how = "by" /\ f.pair = <<b, c[i]>> /\ f.qty = 1 /\ f.how = "by"
    BY <2>2
  <2> QED BY <2>1, <2>3
<1>5. PICK lines : lines = [i \in 1..2 * n |-> IF i % 2 = 1 THEN exits[(i + 1) \div 2] ELSE entries[i \div 2]]
  OBVIOUS
<1>6. Begin(t, "transfer", "upfront", None, lines, PairsOf(a, c) \cup PairsOf(b, c))
  BY <1>1, <1>5 DEF TransferArrives
<1> HIDE DEF exits, entries
<1>7. PICK k \in Nat \ {0} : k = 2 * n /\ k % 2 = 0 OBVIOUS
<1>8. \A i \in 1..k : /\ i % 2 = 1 => (i + 1) \div 2 \in 1..n
                      /\ i % 2 # 1 => i \div 2 \in 1..n /\ i - 1 \in 1..k /\ (i - 1) % 2 = 1 /\ ((i - 1) + 1) \div 2 = i \div 2
  BY <1>7
<1>9. \A i \in 1..k : lines[i] = IF i % 2 = 1 THEN exits[(i + 1) \div 2] ELSE entries[i \div 2]
  BY <1>5, <1>7
<1>10. \A i \in 1..k : lines[i] \in Line BY <1>4, <1>8, <1>9
<1>11. lines \in [1..k -> Line] BY <1>5, <1>7, <1>10
<1>12. lines \in Seq(Line) /\ Len(lines) = k /\ DOMAIN lines = 1..k BY <1>11
<1>13. ASSUME NEW i \in 1..k
       PROVE  /\ lines[i].how = "by" /\ lines[i].qty = (IF i % 2 = 1 THEN -1 ELSE 1)
              /\ i % 2 = 0 => lines[i].pair[2] = lines[i - 1].pair[2]
  <2>1. CASE i % 2 = 1
    <3>1. lines[i] = exits[(i + 1) \div 2] /\ (i + 1) \div 2 \in 1..n BY <1>8, <1>9, <2>1
    <3>2. PICK j \in 1..n : lines[i] = exits[j] BY <3>1
    <3>3. lines[i].how = "by" /\ lines[i].qty = -1 BY <1>14, <3>2
    <3> QED BY <2>1, <3>3
  <2>2. CASE i % 2 # 1
    <3>1. PICK j \in 1..n : j = i \div 2 /\ lines[i] = entries[j] BY <1>8, <1>9, <2>2
    <3>2. lines[i - 1] = exits[j] BY <1>8, <1>9, <2>2, <3>1
    <3>3. lines[i].pair = <<b, c[j]>> /\ lines[i - 1].pair = <<a, c[j]>> /\ lines[i].how = "by" /\ lines[i].qty = 1
      BY <1>14, <3>1, <3>2
    <3>4. lines[i].pair[2] = c[j] /\ lines[i - 1].pair[2] = c[j] BY <3>3
    <3> QED BY <2>2, <3>3, <3>4
  <2> QED BY <2>1, <2>2
<1>15. InPairs(lines) BY <1>7, <1>12, <1>13 DEF InPairs
<1> QED BY <1>6, <1>12, <1>15

\* What a request starts with.
LEMMA BeginFields ==
  ASSUME Inv, NEW t \in Threads, NEW kind, NEW first, NEW s, NEW lines, NEW want, Begin(t, kind, first, s, lines, want)
  PROVE  /\ UNCHANGED committed /\ \A u \in Threads \ {t} : tx'[u] = tx[u]
         /\ tx'[t].pc = first /\ tx'[t].kind = kind /\ tx'[t].sale = s /\ tx'[t].lines = lines
         /\ tx'[t].at = 1 /\ tx'[t].moves = Idle.moves /\ tx'[t].stale = tx[t].stale
<1> DEFINE x == [Idle EXCEPT !.pc = first, !.kind = kind, !.sale = s, !.lines = lines, !.want = want,
                             !.seen = rows, !.stale = tx[t].stale]
<1>1. x.pc = first /\ x.kind = kind /\ x.sale = s /\ x.lines = lines /\ x.at = 1 /\ x.moves = Idle.moves
      /\ x.stale = tx[t].stale
  BY DEF Idle
<1>2. tx' = [tx EXCEPT ![t] = x] /\ UNCHANGED committed BY DEF Begin
<1> HIDE DEF x
<1>3. tx'[t] = x /\ \A u \in Threads \ {t} : tx'[u] = tx[u] BY <1>2 DEF Inv, TypeOK
<1> QED BY <1>1, <1>2, <1>3

\* An arrival.
LEMMA ArriveTransfers == ASSUME Inv, TransfersOK, NEW t \in Threads, Arrive(t) PROVE TransfersOK'
<1>1. ASSUME NEW kind, NEW first, NEW s, NEW lines \in Seq(Line), NEW want, Begin(t, kind, first, s, lines, want),
             kind # "transfer"
      PROVE  TransfersOK'
  <2>1. PICK y : y = tx'[t] OBVIOUS
  <2>2. /\ UNCHANGED committed /\ \A u \in Threads \ {t} : tx'[u] = tx[u]
        /\ y.kind = kind /\ y.lines = lines /\ y.at = 1 /\ y.moves = Idle.moves
    BY <1>1, <2>1, BeginFields
  <2>3. TransferMoves(y) /\ TransferLines(y) BY <1>1, <2>2, NoMoves DEF TransferLines
  <2> QED BY <2>1, <2>2, <2>3, TransfersStep
<1>2. ASSUME NEW a \in Branches, NEW b \in Branches, NEW c \in Carts, TransferArrives(t, a, b, c) PROVE TransfersOK'
  <2>1. PICK lines \in Seq(Line) :
           /\ Begin(t, "transfer", "upfront", None, lines, PairsOf(a, c) \cup PairsOf(b, c))
           /\ InPairs(lines)
    BY <1>2, TransferBrings, Zenon
  <2>2. PICK y : y = tx'[t] OBVIOUS
  <2>3. /\ UNCHANGED committed /\ \A u \in Threads \ {t} : tx'[u] = tx[u]
        /\ y.kind = "transfer" /\ y.lines = lines /\ y.at = 1 /\ y.moves = Idle.moves
    BY <2>1, <2>2, BeginFields
  <2>4. TransferMoves(y) BY <2>3, NoMoves
  <2>5. TransferLines(y) BY <2>1, <2>3 DEF TransferLines
  <2> QED BY <2>2, <2>3, <2>4, <2>5, TransfersStep
<1>3. -1 \in Int /\ 1 \in Int /\ "by" \in {"by", "to"} /\ "to" \in {"by", "to"} /\ Counts \subseteq Int
      /\ Stores \subseteq Branches /\ Managed \subseteq Branches
  BY ShopAssumption
<1>4. ASSUME NEW s \in Sales, NEW b \in Stores, NEW c \in Carts, SaleArrives(t, s, b, c) PROVE TransfersOK'
  <2>1. LinesOf(b, c, -1, "by") \in Seq(Line) BY <1>3, LinesTyped
  <2> QED BY <1>1, <1>4, <2>1 DEF SaleArrives
<1>5. ASSUME NEW b \in Managed, NEW c \in Carts, NEW qty \in {-1, 1}, MovementArrives(t, b, c, qty) PROVE TransfersOK'
  <2>1. LinesOf(b, c, qty, "by") \in Seq(Line) BY <1>3, LinesTyped
  <2> QED BY <1>1, <1>5, <2>1 DEF MovementArrives
<1>6. ASSUME NEW b \in Managed, NEW c \in Carts, PurchaseArrives(t, b, c) PROVE TransfersOK'
  <2>1. LinesOf(b, c, 1, "by") \in Seq(Line) BY <1>3, LinesTyped
  <2> QED BY <1>1, <1>6, <2>1 DEF PurchaseArrives
<1>7. ASSUME NEW b \in Managed, NEW c \in Carts, NEW n \in Counts, CountArrives(t, b, c, n) PROVE TransfersOK'
  <2>1. LinesOf(b, c, n, "to") \in Seq(Line) BY <1>3, LinesTyped
  <2> QED BY <1>1, <1>7, <2>1 DEF CountArrives
<1>8. ASSUME NEW s \in Sales, AnnulReads(t, s) PROVE TransfersOK'
  <2> DEFINE x == [Idle EXCEPT !.pc = "checked", !.kind = "annul", !.sale = s]
  <2>1. x.kind = "annul" /\ x.at = 1 /\ x.lines \in Seq(Line) /\ x.moves = Idle.moves BY DEF Idle
  <2>2. tx' = [tx EXCEPT ![t] = x] /\ UNCHANGED committed BY <1>8 DEF AnnulReads
  <2> HIDE DEF x
  <2>3. tx'[t] = x /\ \A u \in Threads \ {t} : tx'[u] = tx[u] BY <2>2 DEF Inv, TypeOK
  <2>4. TransferMoves(x) /\ TransferLines(x) BY <2>1, NoMoves DEF TransferLines
  <2> QED BY <2>2, <2>3, <2>4, TransfersStep
<1>9. ASSUME NEW cash \in BOOLEAN, AnnulBegins(t, cash) PROVE TransfersOK'
  <2>1. PICK d, first : d = detalle[tx[t].sale] /\ first = IF cash THEN "header" ELSE "venta"
    OBVIOUS
  <2>2. PICK lines : lines = [i \in 1..Len(d) |-> [d[i] EXCEPT !.qty = -d[i].qty]] OBVIOUS
  <2>3. tx[t].pc = "checked" /\ Begin(t, "annul", first, tx[t].sale, lines, {})
    BY <1>9, <2>1, <2>2 DEF AnnulBegins
  <2>4. tx[t].sale \in Sales BY <2>3 DEF Inv, Shape
  <2>5. d \in Seq(Line) BY <2>1, <2>4 DEF Inv, TypeOK
  <2>6. \A i \in 1..Len(d) : [d[i] EXCEPT !.qty = -d[i].qty] \in Line
    <3> SUFFICES ASSUME NEW i \in 1..Len(d) PROVE [d[i] EXCEPT !.qty = -d[i].qty] \in Line OBVIOUS
    <3>1. d[i] \in Line BY <2>5
    <3> QED BY <3>1 DEF Line
  <2>7. lines \in Seq(Line) BY <2>2, <2>5, <2>6
  <2> QED BY <1>1, <2>3, <2>7
<1> QED BY <1>2, <1>4, <1>5, <1>6, <1>7, <1>8, <1>9 DEF Arrive

\* A line: the exit takes the unit that the entry gives.
LEMMA LineTransfers ==
  ASSUME NEW x, NEW y, LineDone(x, y), TransferLines(x), TransferMoves(x)
  PROVE  TransferLines(y) /\ TransferMoves(y)
<1>1. PICK l, p : l = x.lines[x.at] /\ p = l.pair OBVIOUS
<1>2. /\ x \in Tx /\ l \in Line /\ x.at \in DOMAIN x.lines /\ p \in Pairs
      /\ y.kind = x.kind /\ y.sale = x.sale /\ y.lines = x.lines /\ y.at = x.at + 1
      /\ \A q \in Pairs : q # p => y.moves[q] = x.moves[q]
  BY <1>1 DEF LineDone
<1>3. /\ l.how = "by" => Net(y.moves[p], Traslado) = Net(x.moves[p], Traslado) + (IF <<x.kind, x.sale>> \in Traslado THEN l.qty ELSE 0)
      /\ <<x.kind, x.sale>> \notin Traslado => Net(y.moves[p], Traslado) = Net(x.moves[p], Traslado)
  <2>1. \A K : /\ l.how = "by" => Net(y.moves[p], K) = Net(x.moves[p], K) + (IF <<x.kind, x.sale>> \in K THEN l.qty ELSE 0)
               /\ <<x.kind, x.sale>> \notin K => Net(y.moves[p], K) = Net(x.moves[p], K)
    BY <1>1 DEF LineDone
  <2> QED BY <2>1, Zenon
<1>4. x.sale \in Sales \cup {None} /\ x.lines \in Seq(Line) /\ x.at \in Nat \ {0} /\ x.moves \in [Pairs -> Seq(Move)]
  BY <1>2 DEF Tx
<1>5. TransferLines(y) BY <1>2 DEF TransferLines
<1>6. PICK b0 \in Branches, v0 \in Variants : p = <<b0, v0>> /\ p[2] = v0 BY <1>2 DEF Pairs
<1>7. \A q \in Pairs : Net(x.moves[q], Traslado) \in Int BY <1>4, ValTyped
<1>8. CASE x.kind # "transfer"
  <2>1. <<x.kind, x.sale>> \notin Traslado BY <1>8 DEF Traslado
  <2>2. \A q \in Pairs : Net(y.moves[q], Traslado) = Net(x.moves[q], Traslado) BY <1>2, <1>3, <2>1
  <2>3. ASSUME NEW v \in Variants PROVE Suma(ByBranch(y.moves, v), Branches) = Suma(ByBranch(x.moves, v), Branches)
    <3>1. \A b \in Branches : ByBranch(y.moves, v)[b] = ByBranch(x.moves, v)[b]
      BY <2>2 DEF ByBranch, Pairs
    <3> QED BY <3>1, TotalSame
  <2> QED BY <1>2, <1>5, <1>8, <2>3 DEF TransferMoves
<1>9. CASE x.kind = "transfer"
  <2>1. <<x.kind, x.sale>> \in Traslado BY <1>4, <1>9 DEF Traslado
  <2>2. /\ l.how = "by" /\ l.qty = (IF x.at % 2 = 1 THEN -1 ELSE 1) /\ Len(x.lines) % 2 = 0
        /\ \A i \in DOMAIN x.lines : i % 2 = 0 => x.lines[i].pair[2] = x.lines[i - 1].pair[2]
    BY <1>1, <1>2, <1>9 DEF TransferLines, InPairs
  <2>3. DOMAIN x.lines = 1..Len(x.lines) /\ Len(x.lines) \in Nat BY <1>4
  <2>7. \A n, k \in Nat : /\ n % 2 # 0 => n % 2 = 1 /\ (n + 1) % 2 = 0
                          /\ n % 2 = 0 => (n + 1) % 2 # 0
                          /\ n % 2 # 0 /\ k % 2 = 0 /\ n <= k => n + 1 <= k
    OBVIOUS
  <2>8. x.at \in Nat /\ x.at >= 1 /\ x.at <= Len(x.lines) BY <1>2, <1>4, <2>3
  <2>4. x.at % 2 # 0 => /\ x.at % 2 = 1 /\ (x.at + 1) % 2 = 0 /\ x.at + 1 \in DOMAIN x.lines
                        /\ x.lines[x.at + 1].pair[2] = v0
    <3>1. x.at % 2 # 0 => x.at % 2 = 1 /\ (x.at + 1) % 2 = 0 /\ x.at + 1 \in DOMAIN x.lines
      <4>1. x.at % 2 # 0 => x.at % 2 = 1 /\ (x.at + 1) % 2 = 0 /\ x.at + 1 <= Len(x.lines)
        BY <2>2, <2>3, <2>7, <2>8
      <4> QED BY <2>3, <2>8, <4>1
    <3>2. PICK j : j = x.at + 1 /\ j - 1 = x.at BY <2>8
    <3>3. x.at % 2 # 0 => x.lines[j].pair[2] = x.lines[j - 1].pair[2] BY <2>2, <3>1, <3>2
    <3> QED BY <1>1, <1>6, <3>1, <3>2, <3>3
  <2>5. x.at % 2 = 0 => (x.at + 1) % 2 # 0 BY <2>7, <2>8
  <2>6. ASSUME NEW v \in Variants
        PROVE  Suma(ByBranch(y.moves, v), Branches) =
                 IF y.kind = "transfer" /\ y.at % 2 = 0 /\ y.lines[y.at].pair[2] = v THEN -1 ELSE 0
    <3>1. Suma(ByBranch(x.moves, v), Branches) = IF x.at % 2 = 0 /\ l.pair[2] = v THEN -1 ELSE 0
      BY <1>1, <1>9 DEF TransferMoves
    <3>2. CASE v # v0
      <4>1. \A b \in Branches : ByBranch(y.moves, v)[b] = ByBranch(x.moves, v)[b]
        BY <1>2, <1>6, <3>2 DEF ByBranch, Pairs
      <4>2. Suma(ByBranch(y.moves, v), Branches) = Suma(ByBranch(x.moves, v), Branches)
        BY <4>1, TotalSame
      <4> QED BY <1>1, <1>2, <1>6, <2>4, <2>5, <3>1, <3>2, <4>2
    <3>3. CASE v = v0
      <4>1. PICK f, g : f = ByBranch(x.moves, v) /\ g = ByBranch(y.moves, v) OBVIOUS
      <4>2. \A b \in Branches : f[b] = Net(x.moves[<<b, v>>], Traslado) /\ g[b] = Net(y.moves[<<b, v>>], Traslado)
        BY <4>1 DEF ByBranch
      <4>3. g[b0] = f[b0] + l.qty /\ l.qty \in Int BY <1>2, <1>3, <1>6, <2>1, <2>2, <3>3, <4>2
      <4>4. \A b \in Branches \ {b0} : g[b] = f[b]
        <5> SUFFICES ASSUME NEW b \in Branches, b # b0 PROVE g[b] = f[b] OBVIOUS
        <5>1. <<b, v>> \in Pairs /\ <<b, v>> # p BY <1>6 DEF Pairs
        <5> QED BY <1>2, <4>2, <5>1
      <4>5. \A b \in Branches : f[b] \in Int BY <1>7, <4>2 DEF Pairs
      <4>6. \A b \in Branches : f[b] \in Int /\ g[b] \in Int BY <4>3, <4>4, <4>5
      <4>12. IsFiniteSet(Branches) BY ShopAssumption
      <4>7. Suma(g, Branches) = Suma(f, Branches) + g[b0] - f[b0] BY <4>4, <4>6, <4>12, TotalMoves
      <4>8. Suma(f, Branches) \in Int BY <4>6, TotalIsInt, ShopAssumption
      <4>9. Suma(g, Branches) = Suma(f, Branches) + l.qty BY <4>3, <4>5, <4>7, <4>8
      <4>10. CASE x.at % 2 = 0
        <5>1. Suma(f, Branches) = -1 /\ l.qty = 1 /\ y.at % 2 # 0
          BY <1>1, <1>2, <1>6, <2>2, <2>5, <3>1, <3>3, <4>1, <4>10
        <5> QED BY <4>1, <4>9, <5>1
      <4>11. CASE x.at % 2 # 0
        <5>1. Suma(f, Branches) = 0 /\ l.qty = -1 /\ y.at % 2 = 0 /\ y.lines[y.at].pair[2] = v
          BY <1>2, <2>2, <2>4, <3>1, <3>3, <4>1, <4>11
        <5> QED BY <1>2, <1>9, <4>1, <4>9, <5>1
      <4> QED BY <4>10, <4>11
    <3> QED BY <3>2, <3>3
  <2> QED BY <1>5, <2>6 DEF TransferMoves
<1> QED BY <1>8, <1>9

\* What a commit leaves of the others, and of what t had pending.
LEMMA CommitLeaves ==
  ASSUME Inv, NEW t \in Threads, Commit(t)
  PROVE  /\ tx'[t] = Idle
         /\ \A u \in Threads \ {t} : Alike(tx[u], tx'[u]) /\ tx'[u].stale = tx[u].stale \cup Outdated(t, u)
         /\ tx[t] \in Tx /\ Shape(tx[t]) /\ tx[t].pc = "commit" /\ tx[t].at = Len(tx[t].lines) + 1
         /\ \A p \in Pairs : /\ kardex[p] \in Seq(Move) /\ tx[t].moves[p] \in Seq(Move)
                             /\ \A K : Net(kardex'[p], K) = Net(kardex[p], K) + Net(tx[t].moves[p], K)
<1>1. tx[t] \in Tx /\ Shape(tx[t]) /\ tx[t].pc = "commit" BY DEF Inv, TypeOK, Commit
<1>2. tx[t].at = Len(tx[t].lines) + 1 BY <1>1 DEF Shape
<1>3. ASSUME NEW u \in Threads, u # t PROVE Alike(tx[u], tx'[u]) /\ tx'[u].stale = tx[u].stale \cup Outdated(t, u)
  <2> DEFINE news == Outdated(t, u)
  <2>1. tx'[u] = [tx[u] EXCEPT !.stale = @ \cup news] BY <1>3 DEF Commit
  <2>2. tx[u] \in Tx BY DEF Inv, TypeOK
  <2>3. news = Outdated(t, u) OBVIOUS
  <2> HIDE DEF news
  <2> QED BY <2>1, <2>2, <2>3 DEF Tx, Alike
<1>4. tx'[t] = Idle BY DEF Commit
<1>5. ASSUME NEW p \in Pairs
      PROVE  /\ kardex[p] \in Seq(Move) /\ tx[t].moves[p] \in Seq(Move)
             /\ \A K : Net(kardex'[p], K) = Net(kardex[p], K) + Net(tx[t].moves[p], K)
  <2>1. kardex[p] \in Seq(Move) /\ tx[t].moves[p] \in Seq(Move) BY <1>1 DEF Inv, TypeOK, Tx
  <2>2. kardex'[p] = kardex[p] \o tx[t].moves[p] BY DEF Commit
  <2>3. PICK k, m : k = kardex[p] /\ m = tx[t].moves[p] OBVIOUS
  <2>4. \A K : Net(k \o m, K) = Net(k, K) + Net(m, K) BY <2>1, <2>3, NetConcat
  <2> QED BY <2>1, <2>2, <2>3, <2>4
<1> QED BY <1>1, <1>2, <1>3, <1>4, <1>5

\* The commit: a transfer has given as much as it took.
LEMMA CommitTransfers == ASSUME Inv, TransfersOK, NEW t \in Threads, Commit(t) PROVE TransfersOK'
<1>1. PICK x : x = tx[t] OBVIOUS
<1>2. /\ tx'[t] = Idle /\ \A u \in Threads \ {t} : Alike(tx[u], tx'[u])
      /\ x \in Tx /\ x.at = Len(x.lines) + 1
      /\ \A p \in Pairs : /\ kardex[p] \in Seq(Move) /\ x.moves[p] \in Seq(Move)
                          /\ \A K : Net(kardex'[p], K) = Net(kardex[p], K) + Net(x.moves[p], K)
  BY <1>1, CommitLeaves
<1>3. TransferLines(x) /\ TransferMoves(x) BY <1>1 DEF TransfersOK
<1>4. x.kind = "transfer" => x.at % 2 # 0
  <2> SUFFICES ASSUME x.kind = "transfer" PROVE x.at % 2 # 0 OBVIOUS
  <2>1. Len(x.lines) % 2 = 0 /\ Len(x.lines) \in Nat BY <1>2, <1>3 DEF TransferLines, InPairs, Tx
  <2>2. \A n \in Nat : n % 2 = 0 => (n + 1) % 2 # 0 OBVIOUS
  <2> QED BY <1>2, <2>1, <2>2
<1>5. ASSUME NEW v \in Variants PROVE Suma(ByBranch(kardex', v), Branches) = 0
  <2>1. PICK f, g, h : f = ByBranch(kardex, v) /\ g = ByBranch(x.moves, v) /\ h = ByBranch(kardex', v)
    OBVIOUS
  <2>2. \A b \in Branches : f[b] \in Int /\ g[b] \in Int /\ h[b] = f[b] + g[b]
    <3> SUFFICES ASSUME NEW b \in Branches PROVE f[b] \in Int /\ g[b] \in Int /\ h[b] = f[b] + g[b]
      OBVIOUS
    <3>1. PICK p \in Pairs : p = <<b, v>> BY DEF Pairs
    <3>2. f[b] = Net(kardex[p], Traslado) /\ g[b] = Net(x.moves[p], Traslado) /\ h[b] = Net(kardex'[p], Traslado)
      BY <2>1, <3>1 DEF ByBranch
    <3>3. Net(kardex[p], Traslado) \in Int /\ Net(x.moves[p], Traslado) \in Int BY <1>2, ValTyped
    <3> QED BY <1>2, <3>2, <3>3
  <2>3. IsFiniteSet(Branches) BY ShopAssumption
  <2>4. Suma(h, Branches) = Suma(f, Branches) + Suma(g, Branches) BY <2>2, <2>3, TotalSum
  <2>5. Suma(f, Branches) = 0 /\ Suma(g, Branches) = 0
    BY <1>3, <1>4, <2>1 DEF TransfersOK, KardexBalanced, TransferMoves
  <2> QED BY <2>1, <2>4, <2>5
<1>6. ASSUME NEW u \in Threads PROVE TransferLines(tx'[u]) /\ TransferMoves(tx'[u])
  <2>1. CASE u = t BY <1>2, <2>1, IdleBalanced
  <2>2. CASE u # t
    <3>1. Alike(tx[u], tx'[u]) /\ TransferLines(tx[u]) /\ TransferMoves(tx[u])
      BY <1>2, <2>2 DEF TransfersOK
    <3> QED BY <3>1, AlikeDrafts
  <2> QED BY <2>1, <2>2
<1>7. KardexBalanced' BY <1>5 DEF KardexBalanced, ByBranch
<1> QED BY <1>6, <1>7 DEF TransfersOK, TransferLines, TransferMoves, ByBranch

\* Every step keeps what the transfers add up to.
LEMMA NextTransfers == Inv /\ TransfersOK /\ [Next]_vars => TransfersOK'
<1> SUFFICES ASSUME Inv, TransfersOK, [Next]_vars PROVE TransfersOK' OBVIOUS
<1>1. CASE UNCHANGED vars
  <2>1. tx' = tx /\ kardex' = kardex BY <1>1 DEF vars
  <2> QED BY <2>1 DEF TransfersOK, KardexBalanced, ByBranch, TransferLines, TransferMoves
<1>2. ASSUME NEW t \in Threads, Arrive(t) PROVE TransfersOK' BY <1>2, ArriveTransfers
<1>3. ASSUME NEW t \in Threads, Abort(t) PROVE TransfersOK' BY <1>3, AbortTransfers
<1>4. ASSUME NEW t \in Threads,
             \/ LockCompany(t) \/ NextCode(t) \/ InsertHeader(t) \/ UpdateSale(t)
             \/ (\E p \in Pairs : LockUpFront(t, p)) \/ LockLine(t)
      PROVE  TransfersOK'
  <2>1. CASE Abort(t) BY <1>3, <2>1
  <2>2. CASE ~Abort(t)
    <3>1. UNCHANGED committed /\ Alike(tx[t], tx'[t]) /\ \A u \in Threads \ {t} : tx'[u] = tx[u]
      BY <1>4, <2>2, StatementAlike
    <3>2. TransferLines(tx[t]) /\ TransferMoves(tx[t]) BY DEF TransfersOK
    <3>3. TransferLines(tx'[t]) /\ TransferMoves(tx'[t]) BY <3>1, <3>2, AlikeDrafts
    <3> QED BY <3>1, <3>3, TransfersStep
  <2> QED BY <2>1, <2>2
<1>5. ASSUME NEW t \in Threads, ChangeLine(t) PROVE TransfersOK'
  <2>1. CASE Abort(t) BY <1>3, <2>1
  <2>2. CASE ~Abort(t)
    <3>1. LineDone(tx[t], tx'[t]) /\ UNCHANGED committed /\ \A u \in Threads \ {t} : tx'[u] = tx[u]
      BY <1>5, <2>2, LineWritten
    <3>2. TransferLines(tx[t]) /\ TransferMoves(tx[t]) BY DEF TransfersOK
    <3>3. TransferLines(tx'[t]) /\ TransferMoves(tx'[t]) BY <3>1, <3>2, LineTransfers
    <3> QED BY <3>1, <3>3, TransfersStep
  <2> QED BY <2>1, <2>2
<1>6. ASSUME NEW t \in Threads, Advance(t) PROVE TransfersOK'
  BY <1>4, <1>5, <1>6, CommitTransfers DEF Advance
<1>7. ASSUME NEW t \in Threads, Victim(t) \/ Rollback(t) PROVE TransfersOK'
  BY <1>3, <1>7 DEF Victim, Rollback
<1> QED BY <1>1, <1>2, <1>6, <1>7 DEF Next

\* Nothing is moved at first.
LEMMA InitTransfers == Init => TransfersOK
<1> SUFFICES ASSUME Init PROVE TransfersOK OBVIOUS
<1>1. ASSUME NEW v \in Variants PROVE Suma(ByBranch(kardex, v), Branches) = 0
  <2>1. \A b \in Branches : ByBranch(kardex, v)[b] = 0
    <3> SUFFICES ASSUME NEW b \in Branches PROVE ByBranch(kardex, v)[b] = 0 OBVIOUS
    <3>1. kardex[<<b, v>>] = <<>> BY DEF Init, Pairs
    <3> QED BY <3>1, NetNone DEF ByBranch
  <2> QED BY <2>1, TotalZero, ShopAssumption
<1>2. \A t \in Threads : tx[t] = Idle BY DEF Init
<1> QED BY <1>1, <1>2, IdleBalanced DEF TransfersOK, KardexBalanced

\* The sum over the branches that the property states.
LEMMA TransfersTotal == Inv /\ TransfersOK => TransfersConserve
<1> SUFFICES ASSUME Inv, TransfersOK, NEW v \in Variants
             PROVE  MapThenSumSet(LAMBDA b : Units(<<b, v>>, LAMBDA m : m.tipo = "transfer"), Branches) = 0
  BY DEF TransfersConserve
<1>1. PICK f : f = [b \in Branches |-> Units(<<b, v>>, LAMBDA m : m.tipo = "transfer")] OBVIOUS
<1> DEFINE Todo(g) == g = [s \in SUBSET Branches |->
                            IF s = {} THEN 0
                            ELSE Units(<<One(s), v>>, LAMBDA m : m.tipo = "transfer") + g[s \ {One(s)}]]
<1>2. MapThenSumSet(LAMBDA b : Units(<<b, v>>, LAMBDA m : m.tipo = "transfer"), Branches)
        = (CHOOSE g : Todo(g))[Branches]
  BY DEF MapThenSumSet, MapThenFoldSet, One
<1>3. ASSUME NEW g PROVE Todo(g) <=> Adds(g, f, Branches)
  <2>1. \A s \in SUBSET Branches : s # {} =>
          f[One(s)] = Units(<<One(s), v>>, LAMBDA m : m.tipo = "transfer")
    BY <1>1 DEF One
  <2> QED BY <2>1 DEF Adds
<1> HIDE DEF Todo
<1>4. (CHOOSE g : Todo(g)) = (CHOOSE g : Adds(g, f, Branches)) BY <1>3
<1>5. ASSUME NEW b \in Branches PROVE f[b] = ByBranch(kardex, v)[b]
  <2>1. kardex[<<b, v>>] \in Seq(Move) BY DEF Inv, TypeOK, Pairs
  <2> QED BY <1>1, <2>1, UnitsOfTransfers DEF ByBranch
<1>6. Suma(f, Branches) = Suma(ByBranch(kardex, v), Branches) BY <1>5, TotalSame
<1>7. Suma(f, Branches) = (CHOOSE g : Adds(g, f, Branches))[Branches] BY TotalIs
<1> QED BY <1>2, <1>4, <1>6, <1>7 DEF TransfersOK, KardexBalanced

\* With any number of requests, branches and units: however the transfers interleave with
\* the rest and are rolled back, what their exits took from some branches their entries
\* gave to others (stock.service.ts: createTransfer).
THEOREM TransfersLoseNothing == Spec => []TransfersConserve
<1>1. Inv /\ TransfersOK /\ [Next]_vars => (Inv /\ TransfersOK)' BY NextInv, NextTransfers
<1>2. Init => Inv /\ TransfersOK BY InitInv, InitTransfers
<1> QED BY <1>1, <1>2, TransfersTotal, PTL DEF Spec

----------------------------------------
(* The sales and their annulments.                                         *)

\* A step of t that commits nothing.
LEMMA SalesStep ==
  ASSUME Inv, SalesOK, NEW t \in Threads, UNCHANGED committed,
         \A u \in Threads \ {t} : tx'[u] = tx[u],
         SaleLines(tx'[t]), SaleMoves(tx'[t]), Mirrors(tx'[t])
  PROVE  SalesOK'
<1>1. KardexBacked' /\ DetailOK' BY DEF SalesOK, KardexBacked, DetailOK, Sold, committed
<1>2. ASSUME NEW u \in Threads
      PROVE  SaleLines(tx'[u]) /\ SaleMoves(tx'[u]) /\ Mirrors(tx'[u])
  <2>1. CASE u = t BY <2>1
  <2>2. CASE u # t BY <2>2 DEF SalesOK
  <2> QED BY <2>1, <2>2
<1>3. venta' = venta /\ detalle' = detalle BY DEF committed
<1>4. ASSUME NEW u \in Threads PROVE Mirrors(tx[u])' BY <1>2, <1>3 DEF Mirrors
<1>5. ASSUME NEW u \in Threads PROVE SaleMoves(tx[u])' /\ SaleLines(tx[u])'
  BY <1>2 DEF SaleMoves, SaleLines, Written
<1> QED BY <1>1, <1>2, <1>4, <1>5 DEF SalesOK

\* A rollback undoes what the request did.
LEMMA AbortSales == ASSUME Inv, SalesOK, NEW t \in Threads, Abort(t) PROVE SalesOK'
<1>1. tx'[t] = Idle /\ \A u \in Threads \ {t} : tx'[u] = tx[u] BY DEF Abort, Inv, TypeOK
<1>2. Idle.kind # "annul" BY IdleBalanced
<1> QED BY <1>1, <1>2, IdleBalanced, SalesStep DEF Abort

\* A line: a unit more of what the sale moved.
LEMMA LineSales ==
  ASSUME NEW x, NEW y, LineDone(x, y), SaleLines(x), SaleMoves(x)
  PROVE  SaleLines(y) /\ SaleMoves(y)
<1>1. PICK l, p : l = x.lines[x.at] /\ p = l.pair OBVIOUS
<1>2. /\ x \in Tx /\ l \in Line /\ x.at \in DOMAIN x.lines /\ p \in Pairs
      /\ y.kind = x.kind /\ y.sale = x.sale /\ y.lines = x.lines /\ y.at = x.at + 1
      /\ \A q \in Pairs : q # p => y.moves[q] = x.moves[q]
  BY <1>1 DEF LineDone
<1>3. \A K : /\ l.how = "by" => Net(y.moves[p], K) = Net(x.moves[p], K) + (IF <<x.kind, x.sale>> \in K THEN l.qty ELSE 0)
             /\ <<x.kind, x.sale>> \notin K => Net(y.moves[p], K) = Net(x.moves[p], K)
  BY <1>1 DEF LineDone
<1>4. x.sale \in Sales \cup {None} /\ x.kind \in Kinds /\ x.lines \in Seq(Line) /\ x.at \in Nat /\ x.moves \in [Pairs -> Seq(Move)]
  BY <1>2 DEF Tx
<1>5. SaleLines(y) BY <1>2 DEF SaleLines
<1>6. ASSUME NEW s \in Sales, NEW q \in Pairs
      PROVE  Net(y.moves[q], DeLa(s)) =
               IF s # y.sale THEN 0
               ELSE IF y.kind = "annul" THEN Cardinality(Written(y, q)) ELSE 0 - Cardinality(Written(y, q))
  <2>1. <<x.kind, x.sale>> \in DeLa(s) <=> s = x.sale BY <1>4 DEF DeLa
  <2>2. /\ s # x.sale => Net(x.moves[q], DeLa(s)) = 0
        /\ s = x.sale => Net(x.moves[q], DeLa(s)) =
             IF x.kind = "annul" THEN Cardinality(Written(x, q)) ELSE 0 - Cardinality(Written(x, q))
    BY DEF SaleMoves
  <2>3. CASE s # x.sale
    <3>1. q = p => Net(y.moves[q], DeLa(s)) = Net(x.moves[q], DeLa(s)) BY <1>3, <2>1, <2>3
    <3>2. Net(y.moves[q], DeLa(s)) = Net(x.moves[q], DeLa(s)) BY <1>2, <3>1
    <3> QED BY <1>2, <2>2, <2>3, <3>2
  <2>4. CASE s = x.sale /\ q # p
    <3>1. Written(y, q) = Written(x, q)
      <4>1. \A i \in DOMAIN x.lines : i < x.at + 1 /\ x.lines[i].pair = q <=> i < x.at /\ x.lines[i].pair = q
        <5>1. \A i \in DOMAIN x.lines : i \in Nat BY <1>4
        <5> QED BY <1>1, <1>4, <2>4, <5>1
      <4> QED BY <1>2, <4>1 DEF Written
    <3> QED BY <1>2, <2>2, <2>4, <3>1
  <2>5. CASE s = x.sale /\ q = p
    <3>1. x.kind \in {"sale", "annul"}
      <4>1. s # None BY ShopAssumption
      <4> QED BY <2>5, <4>1 DEF SaleLines
    <3>2. l.how = "by" /\ l.qty = IF x.kind = "annul" THEN 1 ELSE -1
      BY <1>1, <1>2, <3>1 DEF SaleLines
    <3>3. Net(y.moves[p], DeLa(s)) = Net(x.moves[p], DeLa(s)) + l.qty BY <1>3, <2>1, <2>5, <3>2
    <3>4. PICK W : W = Written(x, p) OBVIOUS
    <3>5. Written(y, p) = W \cup {x.at} /\ x.at \notin W /\ W \subseteq 1..Len(x.lines)
      <4>1. \A i \in DOMAIN x.lines : i \in Nat BY <1>4
      <4>2. \A i \in DOMAIN x.lines : i < x.at + 1 <=> (i < x.at \/ i = x.at) BY <1>4, <4>1
      <4>3. Written(y, p) = W \cup {x.at} BY <1>1, <1>2, <3>4, <4>2 DEF Written
      <4>4. x.at \notin W BY <1>4, <3>4 DEF Written
      <4>5. DOMAIN x.lines = 1..Len(x.lines) BY <1>4
      <4>6. W \subseteq 1..Len(x.lines) BY <3>4, <4>5 DEF Written
      <4> QED BY <4>3, <4>4, <4>6
    <3>6. IsFiniteSet(W)
      <4>1. Len(x.lines) \in Nat BY <1>4
      <4>2. IsFiniteSet(1..Len(x.lines)) BY <4>1, FS_Interval
      <4> QED BY <3>5, <4>2, FS_Subset
    <3>7. Cardinality(W \cup {x.at}) = Cardinality(W) + 1 /\ Cardinality(W) \in Nat
      BY <3>5, <3>6, FS_AddElement, FS_CardinalityType
    <3>8. Net(x.moves[p], DeLa(s)) = IF x.kind = "annul" THEN Cardinality(W) ELSE 0 - Cardinality(W)
      BY <2>2, <2>5, <3>4
    <3>9. \A n \in Nat : n + 1 = n + 1 /\ (0 - n) + (-1) = 0 - (n + 1) OBVIOUS
    <3>10. Net(y.moves[p], DeLa(s)) = IF x.kind = "annul" THEN Cardinality(W) + 1 ELSE 0 - (Cardinality(W) + 1)
      BY <3>2, <3>3, <3>7, <3>8, <3>9
    <3> QED BY <1>2, <2>5, <3>5, <3>7, <3>10
  <2> QED BY <2>3, <2>4, <2>5
<1>7. SaleMoves(y) BY <1>6 DEF SaleMoves
<1> QED BY <1>5, <1>7

\* A request that begins with lines that its sale allows.
LEMMA BeginSales ==
  ASSUME Inv, SalesOK, NEW t \in Threads, NEW kind, NEW first, NEW s, NEW lines \in Seq(Line), NEW want,
         Begin(t, kind, first, s, lines, want), kind # "annul",
         kind = "sale" => \A i \in DOMAIN lines : lines[i].qty = -1 /\ lines[i].how = "by",
         kind # "sale" => s = None
  PROVE  SalesOK'
<1>1. PICK y : y = tx'[t] OBVIOUS
<1>2. /\ UNCHANGED committed /\ \A u \in Threads \ {t} : tx'[u] = tx[u]
      /\ y.kind = kind /\ y.sale = s /\ y.lines = lines /\ y.at = 1 /\ y.moves = Idle.moves
  BY <1>1, BeginFields
<1>3. SaleMoves(y) BY <1>2, NoMoves
<1>4. SaleLines(y) /\ Mirrors(y) /\ y.kind # "annul" BY <1>2 DEF SaleLines, Mirrors
<1> QED BY <1>1, <1>2, <1>3, <1>4, SalesStep

\* An annulment reads a sale that stands.
LEMMA AnnulReadsSales == ASSUME Inv, SalesOK, NEW t \in Threads, NEW s \in Sales, AnnulReads(t, s) PROVE SalesOK'
<1> DEFINE x == [Idle EXCEPT !.pc = "checked", !.kind = "annul", !.sale = s]
<1>1. x.kind = "annul" /\ x.pc = "checked" /\ x.sale = s /\ x.at = 1 /\ x.lines = <<>> /\ x.moves = Idle.moves
      /\ x.stale = {}
  BY DEF Idle
<1>2. tx' = [tx EXCEPT ![t] = x] /\ UNCHANGED committed /\ venta[s] = "completada" BY DEF AnnulReads
<1> HIDE DEF x
<1>3. tx'[t] = x /\ \A u \in Threads \ {t} : tx'[u] = tx[u] BY <1>2 DEF Inv, TypeOK
<1>4. x.lines \in Seq(Line) /\ DOMAIN x.lines = {} BY <1>1
<1>5. SaleMoves(x) BY <1>1, <1>4, NoMoves
<1>6. SaleLines(x) BY <1>1, <1>4 DEF SaleLines
<1>7. Mirrors(x) BY <1>1, <1>2 DEF Mirrors
<1> QED BY <1>2, <1>3, <1>5, <1>6, <1>7, SalesStep

\* It brings the lines of that sale, to give back what they took.
LEMMA AnnulBeginsSales ==
  ASSUME Inv, SalesOK, NEW t \in Threads, NEW cash \in BOOLEAN, AnnulBegins(t, cash)
  PROVE  SalesOK'
<1>1. PICK x, s, d, first : x = tx[t] /\ s = x.sale /\ d = detalle[s] /\ first = IF cash THEN "header" ELSE "venta"
  OBVIOUS
<1>2. PICK lines : lines = [i \in 1..Len(d) |-> [d[i] EXCEPT !.qty = -d[i].qty]] OBVIOUS
<1>3. x.pc = "checked" /\ Begin(t, "annul", first, s, lines, {}) BY <1>1, <1>2 DEF AnnulBegins
<1>4. x.kind = "annul" /\ s \in Sales BY <1>1, <1>3 DEF Inv, Shape
<1>5. Mirrors(x) BY <1>1, <1>4 DEF SalesOK
<1>6. venta[s] = IF s \in x.stale THEN "anulada" ELSE "completada"
  BY <1>1, <1>3, <1>4, <1>5 DEF Mirrors
<1>7. d \in Seq(Line) /\ DOMAIN d = 1..Len(d) BY <1>1, <1>4 DEF Inv, TypeOK
<1>8. \A i \in 1..Len(d) : d[i].qty = -1 /\ d[i].how = "by"
  <2>1. venta[s] # "none" BY <1>6
  <2> QED BY <1>1, <1>4, <1>7, <2>1 DEF SalesOK, DetailOK
<1>9. ASSUME NEW i \in 1..Len(d)
      PROVE  /\ lines[i] \in Line /\ lines[i].qty = 1 /\ lines[i].how = "by" /\ lines[i].pair = d[i].pair
  <2>1. PICK l, n : l = d[i] /\ n = -l.qty OBVIOUS
  <2>2. l \in Line /\ l.qty = -1 /\ l.how = "by" BY <1>7, <1>8, <2>1
  <2>3. n = 1
    <3>1. \A a, b \in Int : b = 0 - a => b = -a OBVIOUS
    <3>2. l.qty \in Int /\ 1 = 0 - l.qty BY <2>2
    <3> QED BY <2>1, <3>1, <3>2
  <2>4. PICK e : e = [l EXCEPT !.qty = n] OBVIOUS
  <2>5. e.qty = n /\ e.how = l.how /\ e.pair = l.pair /\ e \in Line BY <2>2, <2>3, <2>4 DEF Line
  <2>6. lines[i] = e BY <1>2, <2>1, <2>4
  <2> QED BY <2>1, <2>2, <2>3, <2>5, <2>6
<1>10. lines \in Seq(Line) /\ DOMAIN lines = DOMAIN d
  <2>1. \A i \in 1..Len(d) : lines[i] \in Line BY <1>9
  <2>2. PICK n : n = Len(d) OBVIOUS
  <2>3. lines \in [1..n -> Line]
    <3>1. DOMAIN lines = 1..n /\ lines = [i \in 1..n |-> lines[i]] BY <1>2, <2>2
    <3> QED BY <2>1, <2>2, <3>1
  <2>4. n \in Nat /\ DOMAIN lines = 1..n
    <3>1. Len(d) \in Nat
      <4>1. d \in Seq(Line) BY <1>7
      <4> QED BY <4>1
    <3> QED BY <1>2, <2>2, <3>1
  <2> QED BY <1>7, <2>2, <2>3, <2>4
<1>11. PICK y : y = tx'[t] OBVIOUS
<1>12. /\ UNCHANGED committed /\ \A u \in Threads \ {t} : tx'[u] = tx[u]
       /\ y.kind = "annul" /\ y.sale = s /\ y.lines = lines /\ y.at = 1 /\ y.moves = Idle.moves /\ y.stale = tx[t].stale
  BY <1>3, <1>11, BeginFields
<1>13. SaleMoves(y) BY <1>10, <1>12, NoMoves
<1>14. SaleLines(y) BY <1>7, <1>9, <1>10, <1>12 DEF SaleLines
<1>15. Mirrors(y)
  <2>1. y.stale = x.stale BY <1>1, <1>12
  <2>2. \A i \in DOMAIN y.lines : y.lines[i].pair = d[i].pair BY <1>7, <1>9, <1>10, <1>12
  <2> QED BY <1>1, <1>6, <1>10, <1>12, <2>1, <2>2 DEF Mirrors
<1> QED BY <1>5, <1>11, <1>12, <1>13, <1>14, <1>15, SalesStep

\* An arrival.
LEMMA ArriveSales == ASSUME Inv, SalesOK, NEW t \in Threads, Arrive(t) PROVE SalesOK'
<1>3. -1 \in Int /\ 1 \in Int /\ "by" \in {"by", "to"} /\ "to" \in {"by", "to"} /\ Counts \subseteq Int
      /\ Stores \subseteq Branches /\ Managed \subseteq Branches
  BY ShopAssumption
<1>4. ASSUME NEW s \in Sales, NEW b \in Stores, NEW c \in Carts, SaleArrives(t, s, b, c) PROVE SalesOK'
  <2>1. PICK lines : lines = LinesOf(b, c, -1, "by") OBVIOUS
  <2>2. lines \in Seq(Line) BY <1>3, <2>1, LinesTyped
  <2>3. \A i \in DOMAIN lines : lines[i].qty = -1 /\ lines[i].how = "by"
    <3> SUFFICES ASSUME NEW i \in DOMAIN lines PROVE lines[i].qty = -1 /\ lines[i].how = "by"
      OBVIOUS
    <3>1. PICK e : e = lines[i] OBVIOUS
    <3>2. e = [pair |-> <<b, c[i]>>, qty |-> -1, how |-> "by"] BY <2>1, <3>1 DEF LinesOf
    <3>3. e.qty = -1 /\ e.how = "by" BY <3>2
    <3> QED BY <3>1, <3>3
  <2>4. Begin(t, "sale", "company", s, lines, {}) BY <1>4, <2>1 DEF SaleArrives
  <2> QED BY <2>2, <2>3, <2>4, BeginSales
<1>5. ASSUME NEW a \in Branches, NEW b \in Branches, NEW c \in Carts, TransferArrives(t, a, b, c) PROVE SalesOK'
  <2>1. PICK lines \in Seq(Line) :
           /\ Begin(t, "transfer", "upfront", None, lines, PairsOf(a, c) \cup PairsOf(b, c))
           /\ InPairs(lines)
    BY <1>5, TransferBrings, Zenon
  <2> QED BY <2>1, BeginSales
<1>6. ASSUME NEW b \in Managed, NEW c \in Carts, NEW qty \in {-1, 1}, MovementArrives(t, b, c, qty) PROVE SalesOK'
  <2>1. LinesOf(b, c, qty, "by") \in Seq(Line) BY <1>3, LinesTyped
  <2> QED BY <1>6, <2>1, BeginSales DEF MovementArrives
<1>7. ASSUME NEW b \in Managed, NEW c \in Carts, PurchaseArrives(t, b, c) PROVE SalesOK'
  <2>1. LinesOf(b, c, 1, "by") \in Seq(Line) BY <1>3, LinesTyped
  <2> QED BY <1>7, <2>1, BeginSales DEF PurchaseArrives
<1>8. ASSUME NEW b \in Managed, NEW c \in Carts, NEW n \in Counts, CountArrives(t, b, c, n) PROVE SalesOK'
  <2>1. LinesOf(b, c, n, "to") \in Seq(Line) BY <1>3, LinesTyped
  <2> QED BY <1>8, <2>1, BeginSales DEF CountArrives
<1> QED BY <1>4, <1>5, <1>6, <1>7, <1>8, AnnulReadsSales, AnnulBeginsSales DEF Arrive

----------------------------------------
\* All the lines of a request are written at its commit.
LEMMA AllWritten ==
  ASSUME NEW x \in Tx, x.at = Len(x.lines) + 1, NEW d, NEW p, DOMAIN d = DOMAIN x.lines,
         \A i \in DOMAIN d : d[i].pair = x.lines[i].pair
  PROVE  /\ Written(x, p) = {i \in DOMAIN d : d[i].pair = p}
         /\ Cardinality(Written(x, p)) \in Nat
<1>1. x.lines \in Seq(Line) /\ DOMAIN x.lines = 1..Len(x.lines) /\ Len(x.lines) \in Nat BY DEF Tx
<1>2. \A i \in DOMAIN x.lines : i < x.at BY <1>1
<1>3. Written(x, p) = {i \in DOMAIN d : d[i].pair = p} BY <1>2 DEF Written
<1>4. IsFiniteSet(1..Len(x.lines)) /\ Written(x, p) \subseteq 1..Len(x.lines)
  BY <1>1, FS_Interval DEF Written
<1>5. IsFiniteSet(Written(x, p)) BY <1>4, FS_Subset
<1> QED BY <1>3, <1>5, FS_CardinalityType

\* Once more of something.
LEMMA Times ==
  ASSUME NEW k \in Nat
  PROVE  0 * k = 0 /\ \A n \in Nat : n * k \in Nat /\ n * k + k = (n + 1) * k
OBVIOUS

\* The lines of a sale are counted.
LEMMA SoldCounts == ASSUME Inv, NEW s \in Sales, NEW p PROVE Sold(s, p) \in Nat
<1>1. PICK d, C : d = detalle[s] /\ C = {i \in DOMAIN d : d[i].pair = p} OBVIOUS
<1>2. DOMAIN d = 1..Len(d) /\ Len(d) \in Nat BY <1>1 DEF Inv, TypeOK
<1>3. IsFiniteSet(1..Len(d)) /\ C \subseteq 1..Len(d) BY <1>1, <1>2, FS_Interval
<1>4. Cardinality(C) \in Nat BY <1>3, FS_Subset, FS_CardinalityType
<1> QED BY <1>1, <1>4 DEF Sold

\* A commit: a sale has taken its lines, an annulment has given them back.
LEMMA CommitSales ==
  ASSUME Inv, CodesOK, SalesOK, NEW t \in Threads, Commit(t)
  PROVE  SalesOK'
<1>1. PICK x, s : x = tx[t] /\ s = x.sale OBVIOUS
<1>2. /\ tx'[t] = Idle
      /\ \A u \in Threads \ {t} : Alike(tx[u], tx'[u]) /\ tx'[u].stale = tx[u].stale \cup Outdated(t, u)
      /\ x \in Tx /\ Shape(x) /\ x.pc = "commit" /\ x.at = Len(x.lines) + 1
      /\ \A p \in Pairs : /\ kardex[p] \in Seq(Move) /\ x.moves[p] \in Seq(Move)
                          /\ \A K : Net(kardex'[p], K) = Net(kardex[p], K) + Net(x.moves[p], K)
  BY <1>1, CommitLeaves
<1>3. SaleLines(x) /\ SaleMoves(x) /\ Mirrors(x) BY <1>1 DEF SalesOK
<1>4. /\ venta \in [Sales -> {"none", "completada", "anulada"}] /\ detalle \in [Sales -> Seq(Line)]
      /\ repetidas \in [Sales -> Nat]
  BY DEF Inv, TypeOK
<1>5. ASSUME NEW z \in Sales, NEW p \in Pairs
      PROVE  /\ Net(kardex[p], DeLa(z)) = IF venta[z] = "completada" THEN 0 - Sold(z, p) ELSE repetidas[z] * Sold(z, p)
             /\ Net(kardex'[p], DeLa(z)) = Net(kardex[p], DeLa(z)) + Net(x.moves[p], DeLa(z))
             /\ Net(kardex[p], DeLa(z)) \in Int
  BY <1>2, ValTyped DEF SalesOK, KardexBacked
<1>6. x.kind \in {"sale", "annul"} => s \in Sales BY <1>1, <1>2 DEF Shape
<1>7. ASSUME NEW z \in Sales, NEW p \in Pairs, z # s,
             venta'[z] = venta[z], detalle'[z] = detalle[z], repetidas'[z] = repetidas[z]
      PROVE  Net(kardex'[p], DeLa(z)) = IF venta'[z] = "completada" THEN 0 - Sold(z, p)' ELSE (repetidas[z] * Sold(z, p))'
  <2>1. Net(x.moves[p], DeLa(z)) = 0 BY <1>1, <1>3, <1>7 DEF SaleMoves
  <2>2. Net(kardex'[p], DeLa(z)) = Net(kardex[p], DeLa(z)) BY <1>5, <2>1
  <2> QED BY <1>5, <1>7, <2>2 DEF Sold
<1>8. SaleLines(Idle) /\ SaleMoves(Idle) /\ Idle.kind # "annul" BY IdleBalanced
\* What the others keep: they have all of s but its state.
<1>9. ASSUME KardexBacked', DetailOK',
             \A u \in Threads \ {t} : tx[u].kind = "annul" /\ tx[u].pc # "idle" =>
                LET z == tx[u].sale IN
                  /\ detalle'[z] = detalle[z]
                  /\ venta'[z] = IF z \in tx[u].stale \cup Outdated(t, u) THEN "anulada" ELSE "completada"
      PROVE  SalesOK'
  <2>1. ASSUME NEW u \in Threads PROVE Mirrors(tx[u])' /\ SaleMoves(tx[u])' /\ SaleLines(tx[u])'
    <3>1. CASE u = t BY <1>2, <1>8, <3>1 DEF Mirrors, SaleMoves, SaleLines, Written
    <3>2. CASE u # t
      <4>1. Alike(tx[u], tx'[u]) /\ tx'[u].stale = tx[u].stale \cup Outdated(t, u) BY <1>2, <3>2
      <4>2. SaleLines(tx[u]) /\ SaleMoves(tx[u]) /\ Mirrors(tx[u]) BY DEF SalesOK
      <4>3. SaleLines(tx'[u]) /\ SaleMoves(tx'[u]) BY <4>1, <4>2, AlikeDrafts
      <4>4. Mirrors(tx[u])' BY <1>9, <3>2, <4>1, <4>2 DEF Mirrors, Alike
      <4> QED BY <4>3, <4>4 DEF SaleMoves, SaleLines, Written
    <3> QED BY <3>1, <3>2
  <2> QED BY <1>9, <2>1 DEF SalesOK
<1>10. ASSUME NEW u \in Threads \ {t}, tx[u].kind = "annul", tx[u].pc # "idle"
       PROVE  /\ tx[u].sale \in Sales
              /\ venta[tx[u].sale] = IF tx[u].sale \in tx[u].stale THEN "anulada" ELSE "completada"
              /\ Outdated(t, u) = IF x.kind = "annul" THEN {s} ELSE {}
  <2>1. Mirrors(tx[u]) /\ Shape(tx[u]) BY DEF SalesOK, Inv
  <2> QED BY <1>1, <1>10, <2>1 DEF Mirrors, Shape, Outdated, Serializable
<1>11. CASE x.kind = "sale"
  <2>1. /\ venta' = [venta EXCEPT ![s] = "completada"] /\ detalle' = [detalle EXCEPT ![s] = x.lines] /\ s \in Sales
        /\ repetidas' = repetidas
    BY <1>1, <1>6, <1>11 DEF Commit
  <2>2. venta[s] = "none" /\ repetidas[s] = 0
    <3>1. Coded(tx[t]) BY <1>1, <1>2, <1>11 DEF Coded
    <3>2. venta[s] = "none" BY <1>1, <3>1 DEF CodesOK
    <3> QED BY <2>1, <3>2 DEF SalesOK, KardexBacked
  <2>3. venta'[s] = "completada" /\ detalle'[s] = x.lines
        /\ \A z \in Sales : z # s => venta'[z] = venta[z] /\ detalle'[z] = detalle[z]
    BY <1>4, <2>1
  <2>4. ASSUME NEW p \in Pairs PROVE Net(kardex'[p], DeLa(s)) = 0 - Sold(s, p)'
    <3>1. Net(x.moves[p], DeLa(s)) = 0 - Cardinality(Written(x, p))
      BY <1>1, <1>3, <1>11, <2>1 DEF SaleMoves
    <3>2. Written(x, p) = {i \in DOMAIN x.lines : x.lines[i].pair = p} /\ Cardinality(Written(x, p)) \in Nat
      BY <1>2, AllWritten
    <3>3. Net(kardex[p], DeLa(s)) = 0 BY <1>5, <2>1, <2>2, Times, SoldCounts
    <3>4. Net(kardex'[p], DeLa(s)) = 0 - Cardinality(Written(x, p)) BY <1>5, <2>1, <3>1, <3>2, <3>3
    <3> QED BY <2>3, <3>2, <3>4 DEF Sold
  <2>5. KardexBacked'
    <3>1. \A z \in Sales : venta'[z] # "anulada" => repetidas'[z] = 0
      BY <2>1, <2>2, <2>3 DEF SalesOK, KardexBacked
    <3>2. ASSUME NEW z \in Sales, NEW p \in Pairs
          PROVE  Net(kardex'[p], DeLa(z)) = IF venta'[z] = "completada" THEN 0 - Sold(z, p)' ELSE (repetidas[z] * Sold(z, p))'
      BY <1>7, <2>1, <2>3, <2>4
    <3> QED BY <3>1, <3>2 DEF KardexBacked
  <2>6. DetailOK'
    <3>1. ASSUME NEW z \in Sales, venta'[z] # "none" PROVE \A i \in DOMAIN detalle'[z] : detalle'[z][i].qty = -1 /\ detalle'[z][i].how = "by"
      <4>1. CASE z = s BY <1>3, <1>11, <2>3, <4>1 DEF SaleLines
      <4>2. CASE z # s
        <5>1. venta[z] # "none" BY <2>3, <3>1, <4>2
        <5> QED BY <2>3, <4>2, <5>1 DEF SalesOK, DetailOK
      <4> QED BY <4>1, <4>2
    <3> QED BY <3>1 DEF DetailOK
  <2>7. ASSUME NEW u \in Threads \ {t}, tx[u].kind = "annul", tx[u].pc # "idle"
        PROVE  /\ detalle'[tx[u].sale] = detalle[tx[u].sale]
               /\ venta'[tx[u].sale] = IF tx[u].sale \in tx[u].stale \cup Outdated(t, u) THEN "anulada" ELSE "completada"
    <3>1. /\ tx[u].sale \in Sales /\ Outdated(t, u) = {}
          /\ venta[tx[u].sale] = IF tx[u].sale \in tx[u].stale THEN "anulada" ELSE "completada"
      BY <1>10, <1>11, <2>7
    <3> QED BY <2>2, <2>3, <3>1
  <2> QED BY <1>9, <2>5, <2>6, <2>7
<1>12. CASE x.kind = "annul"
  <2>1. /\ venta' = [venta EXCEPT ![s] = "anulada"] /\ detalle' = detalle /\ s \in Sales
        /\ repetidas' = IF s \in x.stale THEN [repetidas EXCEPT ![s] = @ + 1] ELSE repetidas
    BY <1>1, <1>6, <1>12 DEF Commit
  <2>2. /\ venta[s] = IF s \in x.stale THEN "anulada" ELSE "completada"
        /\ DOMAIN x.lines = DOMAIN detalle[s]
        /\ \A i \in DOMAIN x.lines : x.lines[i].pair = detalle[s][i].pair
    BY <1>1, <1>2, <1>3, <1>12 DEF Mirrors
  <2>3. /\ venta'[s] = "anulada" /\ repetidas'[s] = IF s \in x.stale THEN repetidas[s] + 1 ELSE repetidas[s]
        /\ \A z \in Sales : z # s => venta'[z] = venta[z] /\ repetidas'[z] = repetidas[z]
    BY <1>4, <2>1
  <2>4. ASSUME NEW p \in Pairs PROVE Net(kardex'[p], DeLa(s)) = (repetidas[s] * Sold(s, p))'
    <3>1. PICK k, n : k = Sold(s, p) /\ n = repetidas[s] OBVIOUS
    <3>2. k \in Nat /\ n \in Nat BY <1>4, <2>1, <3>1, SoldCounts
    <3>3. Net(x.moves[p], DeLa(s)) = Cardinality(Written(x, p))
      BY <1>1, <1>3, <1>12, <2>1 DEF SaleMoves
    <3>4. Cardinality(Written(x, p)) = k
      <4>1. PICK d : d = detalle[s] OBVIOUS
      <4>2. DOMAIN d = DOMAIN x.lines /\ \A i \in DOMAIN d : d[i].pair = x.lines[i].pair
        BY <2>2, <4>1
      <4>3. Written(x, p) = {i \in DOMAIN d : d[i].pair = p} BY <1>2, <4>2, AllWritten
      <4> QED BY <3>1, <4>1, <4>3 DEF Sold
    <3>5. Net(kardex'[p], DeLa(s)) = Net(kardex[p], DeLa(s)) + k BY <1>5, <2>1, <3>3, <3>4
    <3>6. Sold(s, p)' = k BY <2>1, <3>1 DEF Sold
    <3>7. CASE s \in x.stale
      <4>1. Net(kardex[p], DeLa(s)) = n * k BY <1>5, <2>1, <2>2, <3>1, <3>7
      <4>2. n * k \in Nat /\ n * k + k = (n + 1) * k BY <3>2, Times
      <4>3. repetidas'[s] = n + 1 BY <2>3, <3>1, <3>7
      <4> QED BY <3>5, <3>6, <4>1, <4>2, <4>3
    <3>8. CASE s \notin x.stale
      <4>1. Net(kardex[p], DeLa(s)) = 0 - k BY <1>5, <2>1, <2>2, <3>1, <3>8
      <4>2. n = 0 /\ repetidas'[s] = 0 BY <2>1, <2>2, <2>3, <3>1, <3>8 DEF SalesOK, KardexBacked
      <4>3. Net(kardex'[p], DeLa(s)) = 0 /\ 0 * k = 0 BY <3>2, <3>5, <4>1, Times
      <4> QED BY <3>6, <4>2, <4>3
    <3> QED BY <3>7, <3>8
  <2>5. KardexBacked'
    <3>1. \A z \in Sales : venta'[z] # "anulada" => repetidas'[z] = 0
      BY <2>3 DEF SalesOK, KardexBacked
    <3>2. ASSUME NEW z \in Sales, NEW p \in Pairs
          PROVE  Net(kardex'[p], DeLa(z)) = IF venta'[z] = "completada" THEN 0 - Sold(z, p)' ELSE (repetidas[z] * Sold(z, p))'
      <4>1. CASE z = s BY <2>3, <2>4, <4>1
      <4>2. CASE z # s BY <1>7, <2>1, <2>3, <4>2
      <4> QED BY <4>1, <4>2
    <3> QED BY <3>1, <3>2 DEF KardexBacked
  <2>6. DetailOK'
    <3>1. \A z \in Sales : venta'[z] # "none" => venta[z] # "none" BY <2>2, <2>3
    <3> QED BY <2>1, <3>1 DEF SalesOK, DetailOK
  <2>7. ASSUME NEW u \in Threads \ {t}, tx[u].kind = "annul", tx[u].pc # "idle"
        PROVE  /\ detalle'[tx[u].sale] = detalle[tx[u].sale]
               /\ venta'[tx[u].sale] = IF tx[u].sale \in tx[u].stale \cup Outdated(t, u) THEN "anulada" ELSE "completada"
    <3>1. /\ tx[u].sale \in Sales /\ Outdated(t, u) = {s}
          /\ venta[tx[u].sale] = IF tx[u].sale \in tx[u].stale THEN "anulada" ELSE "completada"
      BY <1>10, <1>12, <2>7
    <3> QED BY <2>1, <2>3, <3>1
  <2> QED BY <1>9, <2>5, <2>6, <2>7
<1>13. CASE x.kind \notin {"sale", "annul"}
  <2>1. venta' = venta /\ detalle' = detalle /\ repetidas' = repetidas BY <1>1, <1>13 DEF Commit
  <2>2. \A z \in Sales : z # s BY <1>1, <1>3, <1>13, ShopAssumption DEF SaleLines
  <2>3. ASSUME NEW z \in Sales, NEW p \in Pairs
        PROVE  Net(kardex'[p], DeLa(z)) = IF venta'[z] = "completada" THEN 0 - Sold(z, p)' ELSE (repetidas[z] * Sold(z, p))'
    BY <1>7, <2>1, <2>2
  <2>4. KardexBacked' BY <2>1, <2>3 DEF SalesOK, KardexBacked
  <2>5. DetailOK' BY <2>1 DEF SalesOK, DetailOK
  <2>6. ASSUME NEW u \in Threads \ {t}, tx[u].kind = "annul", tx[u].pc # "idle"
        PROVE  /\ detalle'[tx[u].sale] = detalle[tx[u].sale]
               /\ venta'[tx[u].sale] = IF tx[u].sale \in tx[u].stale \cup Outdated(t, u) THEN "anulada" ELSE "completada"
    BY <1>10, <1>13, <2>1, <2>6
  <2> QED BY <1>9, <2>4, <2>5, <2>6
<1> QED BY <1>11, <1>12, <1>13

\* Every step keeps what the sales add up to.
LEMMA NextSales == Inv /\ CodesOK /\ SalesOK /\ [Next]_vars => SalesOK'
<1> SUFFICES ASSUME Inv, CodesOK, SalesOK, [Next]_vars PROVE SalesOK' OBVIOUS
<1>1. CASE UNCHANGED vars
  <2>1. tx' = tx /\ kardex' = kardex /\ venta' = venta /\ detalle' = detalle /\ repetidas' = repetidas
    BY <1>1 DEF vars
  <2>2. KardexBacked' BY <2>1 DEF SalesOK, KardexBacked, Sold
  <2>3. DetailOK' BY <2>1 DEF SalesOK, DetailOK
  <2>4. ASSUME NEW t \in Threads PROVE (SaleLines(tx[t]) /\ SaleMoves(tx[t]) /\ Mirrors(tx[t]))'
    <3>1. SaleLines(tx[t]) /\ SaleMoves(tx[t]) /\ Mirrors(tx[t]) BY DEF SalesOK
    <3>2. SaleLines(tx[t])' BY <2>1, <3>1 DEF SaleLines
    <3>3. SaleMoves(tx[t])' BY <2>1, <3>1 DEF SaleMoves, Written
    <3>4. Mirrors(tx[t])' BY <2>1, <3>1 DEF Mirrors
    <3> QED BY <3>2, <3>3, <3>4
  <2> QED BY <2>2, <2>3, <2>4 DEF SalesOK
<1>2. ASSUME NEW t \in Threads, Arrive(t) PROVE SalesOK' BY <1>2, ArriveSales
<1>3. ASSUME NEW t \in Threads, Abort(t) PROVE SalesOK' BY <1>3, AbortSales
<1>4. ASSUME NEW t \in Threads,
             \/ LockCompany(t) \/ NextCode(t) \/ InsertHeader(t) \/ UpdateSale(t)
             \/ (\E p \in Pairs : LockUpFront(t, p)) \/ LockLine(t)
      PROVE  SalesOK'
  <2>1. CASE Abort(t) BY <1>3, <2>1
  <2>2. CASE ~Abort(t)
    <3>1. UNCHANGED committed /\ Alike(tx[t], tx'[t]) /\ tx'[t].stale = tx[t].stale /\ \A u \in Threads \ {t} : tx'[u] = tx[u]
      BY <1>4, <2>2, StatementAlike
    <3>2. SaleLines(tx[t]) /\ SaleMoves(tx[t]) /\ Mirrors(tx[t]) BY DEF SalesOK
    <3>3. SaleLines(tx'[t]) /\ SaleMoves(tx'[t]) /\ Mirrors(tx'[t]) BY <3>1, <3>2, AlikeDrafts
    <3> QED BY <3>1, <3>3, SalesStep
  <2> QED BY <2>1, <2>2
<1>5. ASSUME NEW t \in Threads, ChangeLine(t) PROVE SalesOK'
  <2>1. CASE Abort(t) BY <1>3, <2>1
  <2>2. CASE ~Abort(t)
    <3>1. LineDone(tx[t], tx'[t]) /\ UNCHANGED committed /\ \A u \in Threads \ {t} : tx'[u] = tx[u]
      BY <1>5, <2>2, LineWritten
    <3>2. SaleLines(tx[t]) /\ SaleMoves(tx[t]) /\ Mirrors(tx[t]) BY DEF SalesOK
    <3>3. SaleLines(tx'[t]) /\ SaleMoves(tx'[t]) BY <3>1, <3>2, LineSales
    <3>4. /\ tx'[t].kind = tx[t].kind /\ tx'[t].sale = tx[t].sale /\ tx'[t].lines = tx[t].lines
          /\ tx'[t].stale = tx[t].stale /\ tx[t].pc = "change" /\ tx'[t].pc \in {"lock", "commit"}
      BY <3>1 DEF LineDone
    <3>5. Mirrors(tx'[t]) BY <3>2, <3>4 DEF Mirrors
    <3> QED BY <3>1, <3>3, <3>5, SalesStep
  <2> QED BY <2>1, <2>2
<1>6. ASSUME NEW t \in Threads, Advance(t) PROVE SalesOK'
  BY <1>4, <1>5, <1>6, CommitSales DEF Advance
<1>7. ASSUME NEW t \in Threads, Victim(t) \/ Rollback(t) PROVE SalesOK'
  BY <1>3, <1>7 DEF Victim, Rollback
<1> QED BY <1>1, <1>2, <1>6, <1>7 DEF Next

\* Nothing is sold at first.
LEMMA InitSales == Init => SalesOK
<1> SUFFICES ASSUME Init PROVE SalesOK OBVIOUS
<1>1. /\ \A p \in Pairs : kardex[p] = <<>>
      /\ \A s \in Sales : venta[s] = "none" /\ detalle[s] = <<>> /\ repetidas[s] = 0
      /\ \A t \in Threads : tx[t] = Idle
  BY DEF Init
<1>2. KardexBacked
  <2>1. ASSUME NEW s \in Sales, NEW p \in Pairs PROVE Sold(s, p) \in Nat
    <3>1. {i \in DOMAIN detalle[s] : detalle[s][i].pair = p} = {} BY <1>1
    <3> QED BY <3>1, FS_EmptySet DEF Sold
  <2> QED BY <1>1, <2>1, NetNone, Times DEF KardexBacked
<1>3. DetailOK BY <1>1 DEF DetailOK
<1>4. Idle.kind # "annul" BY IdleBalanced
<1> QED BY <1>1, <1>2, <1>3, <1>4, IdleBalanced DEF SalesOK

\* The movements of a sale, as the property counts them.
LEMMA SalesBacked == Inv /\ SalesOK => SaleIsBacked
<1> SUFFICES ASSUME Inv, SalesOK, NEW s \in Sales, NEW p \in Pairs
             PROVE  Units(p, LAMBDA m : m.sale = s) =
                      IF venta[s] = "completada" THEN -Sold(s, p) ELSE repetidas[s] * Sold(s, p)
  BY DEF SaleIsBacked
<1>1. kardex[p] \in Seq(Move) BY DEF Inv, TypeOK
<1>2. Units(p, LAMBDA m : m.sale = s) = Net(kardex[p], DeLa(s)) BY <1>1, UnitsOfSale
<1>3. Net(kardex[p], DeLa(s)) = IF venta[s] = "completada" THEN 0 - Sold(s, p) ELSE repetidas[s] * Sold(s, p)
  BY DEF SalesOK, KardexBacked
<1>4. PICK k, r : k = Sold(s, p) /\ r = repetidas[s] * k OBVIOUS
<1>5. k \in Nat BY <1>4, SoldCounts
<1>6. \A n \in Int : 0 - n = -n OBVIOUS
<1> QED BY <1>2, <1>3, <1>4, <1>5, <1>6

\* The goods and the codes of every commercial operation are accounted for, with any
\* number of requests, branches, variants and sales, whatever is rolled back, repeated or
\* overlapped (sales.service.ts: create, annul; stock.service.ts: changeStock,
\* createTransfer): what two annulments of one sale give back twice included, since annul
\* does not look again at the state that it read before its transaction.
THEOREM TradesStayBalanced == Spec => []TradesBalance
<1> DEFINE Todo == Inv /\ LocksOK /\ CodesOK /\ TransfersOK /\ SalesOK
<1>1. Todo /\ [Next]_vars => Todo' BY NextInv, NextLocks, NextCodes, NextTransfers, NextSales
<1>2. Init => Todo BY InitInv, InitLocks, InitCodes, InitTransfers, InitSales
<1>3. Todo => TradesBalance BY SalesBacked, TransfersTotal DEF TradesBalance, CodesOK
<1> QED BY <1>1, <1>2, <1>3, PTL DEF Spec
=============================================================================
