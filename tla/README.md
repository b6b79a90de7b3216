# Verification of the Norbitex backend

Norbitex is the backend of a shop: a NestJS application over PostgreSQL (Prisma)
in which a company sells, keeps stock in several branches, collects credit sales,
runs its tills, registers the attendance of its workers and issues its fiscal
documents to SUNAT, the Peruvian tax authority; the platform in turn sells plans to
companies. This directory holds TLA+ models of its concurrent and failure-prone
parts, TLC configurations that check them on small instances, and TLAPS proofs of
the main safety properties for every value of the constants.

Paths below are relative to the repository; `modules/` stands for `src/modules/`.
Lines of code for every definition are in the `map` of `PROJECT.json`.

Contents: 1 [the system](#1-the-system), 2 [the modules](#2-the-modules),
3 [what TLC checks](#3-what-tlc-checks), 4 [what is proved](#4-what-is-proved),
5 [where the code departs from what it says](#5-where-the-code-departs-from-what-it-says),
6 [conditions the properties carry](#6-conditions-the-properties-carry),
7 [what is not modelled](#7-what-is-not-modelled), 8 [plan](#8-plan),
9 [how to run](#9-how-to-run).

## 1. The system

One Node.js process serves HTTP requests and runs crons. JavaScript interleaves
only at `await`s, so the unit of interleaving is what lies between two of them: a
database statement, a transaction, or an HTTP call. All lasting state is in
PostgreSQL; a crash of the process rolls open transactions back and loses the rest.
Two services answer from outside: *Billing*, which numbers, signs and sends
fiscal documents, and SUNAT behind it (a company may also use the older *direct*
route, in which this backend talks to SUNAT itself).

### Inventory

| Component | State it keeps | Operations | Hard behaviour | What makes it correct |
|---|---|---|---|---|
| **Sale emission** `modules/billing-integration/billing-emission.service.ts` | `billing_outbox`, `venta.billing*` | enqueue, `processPending` (cron, 1 s), print on demand, `reconcile` (5 min), `retryDocument` | lost answers, two workers, crash after the claim, answers out of order | one fiscal document per sale; no acceptance SUNAT did not give; the queue drains |
| **Webhooks** `billing-webhook.service.ts` | `billing_webhook_event` | receive, deduplicate, dispatch | duplicates, reordering, crash before applying | each event is applied or overtaken |
| **Credit notes** `billing-credit-note.service.ts`, `sunat-emission/sunat-credit-note-emission.service.ts` | `nota_credito`, outbox row | the same protocol, then `applyAcceptedEffects` | three threads learn of one acceptance; a fault before the effects | goods come back exactly once, on acceptance |
| **Debit notes, despatch guides** `billing-debit-note.service.ts`, `billing-despatch-guide.service.ts`, `guia-remision/` | their rows and outbox rows | copies of the protocol; drafting, editing, emitting again, voiding a guide | edits and new emissions under a worker | charged once, on acceptance; what was sent is what the guide says |
| **Voids** `billing-void.service.ts` | `venta.billingVoid*`, VOID row | request, two calls, apply, annul, release, consult, retry | lost answer newer than the acceptance; annulment without lock | reverted once and only on acceptance |
| **Set up of Billing** `billing-integration.service.ts`, `platform-billing-integration.service.ts`, `sunat-config.service.ts` | keys, webhook secrets, series, certificate | provision, credentials, turn emission on | two walks of external calls at once | what is kept is what Billing has; a number is issued by one route |
| **Direct SUNAT route** `sunat-emission/*` | `sunat_job`, documents, `sunat_baja_lote` | job runner (15 s), emission, guide tickets, void batches | claims that outlive a crash, ticks that overlap, late joiners of a batch | verdicts are SUNAT's; jobs close; only what was voided is annulled |
| **Stock** `stock.service.ts` | `inventario_sucursal`, `stock_movimiento` (the kardex) | `changeStock`, `setStock`, `lockInventoryPairs`, transfers, movements | read-compute-write; deadlocks between lock orders | the kardex explains the stock |
| **Sales** `sales.service.ts`, `quotations.service.ts`, `shipping-links.service.ts`, `credit-notes.service.ts`, `debit-notes.service.ts` | sale, lines, codes, series, quotation, shipment, notes | create, annul, convert, deliver, dispatch, credit, debit | checks made before the transaction that writes | one exit per sale, one sale per quotation, nothing delivered or credited twice; amounts agree |
| **Accounts receivable, till** `accounts-receivable.service.ts`, `cash-register.service.ts` | account, installments, payments, sessions, movements | pay, annul a payment, open, move, close | repeated and overlapping payments, a void in progress | balance = credit less payments; the till holds each payment once |
| **Plans and limits** `plans.service.ts` and what consults it | plan, usage, overrides | check and use a limit under the lock of the company | whether room is needed is decided before | nothing grows beyond its limit |
| **Accounts and access** `auth.service.ts`, `users.service.ts` | version of the sessions, refresh tokens, keys, scope | register, login, refresh, logout, reset; give modules | a version read and written in two statements | a change of password ends every session; nobody gives what it has not |
| **Attendance** `attendance-*`, `worker*`, `employees`, `shifts` | links, PINs, devices, shifts, marks | scan, mark by hand, edit | two scans at once, midnight | one entrance and one exit a day; both readers agree |
| **Subscriptions, overages, affiliates** `platform-admin/*` | payments, Asistencias, overages, commissions, settlements | sell, annul, close and pay a month | annulments in any order, half of a checkout | the company has what stands; commissions add up |
| **Platform receipts** `platform-billing/*` | the platform's own receipts, jobs | emission by two routes, void, note, retry | as emission, and the reversal of the sale | annulled only on acceptance; verdicts arrive |
| **Notifications** `notifications/*` | notices with unique keys | a pass every 5 minutes and one every hour | missed and overlapping passes | what stood long enough was announced |
| **Lists** `categories`, `brands`, `colors`, `sizes`, `payment-methods`, `src/src/common/cache` | the rows, the answers kept in memory | list, create, edit, remove, restore | a change that crosses a listing | an answer served shows the rows as they are |
| **Courier agencies** `courier-agencies/*` | agencies, the execution, the mark in memory | synchronise by night or on request | an execution that fails or is cut half way | after one that completed, what is in use is what came |
| **Products** `products/*`, `storage/*` | product, colours, variants, photographs, files | create, update, remove | files changed inside a transaction that may abort | a photograph has its file; the storage is within the plan |
| Login throttle, reports, PDF, mail, metrics | counters, reads | | | |

### How the components meet

    client --> Sales.create --tx--> stock, kardex, codes, account, till, billing_outbox / sunat_job
                                                                          |
                  cron / print request --claim--> emission thread --POST--> Billing --> SUNAT
                                                        ^                   |
                     webhook, 5-minute poll, operator --+--- applyDocument <-+
                                                        |
      credit note accepted --> effects: stock, account (one transaction)
      debit note accepted  --> charge of the account
      void accepted        --> annulment: stock, payments, till, account
      void rejected        --> the account is released
      AccountsReceivable.registerPayment / annulPayment --> account, installments, till
      CashRegister.close --> sum of the till
      plan sold / annulled --> company's plan, Asistencias, limits, modules
                           --> receipt --> Billing or SUNAT --> void or note --> annulment
                           --> commission --> settlement of the affiliate

The same four sources (the thread that posts, the webhook, the poll, the operator)
copy the same remote document into the same row, each after reads made at
another time. The rule that protects them is a stamp (`billingUpdatedAt`): an
older document is dropped. Sales, annulments, payments and voids meet in the
stock, the account and the till, each under its own transaction and lock order.
Elsewhere the recurrent pattern is another: a handler reads what it checks, and a
later transaction writes without checking it again.

Every hazard is listed in `PROJECT.json` at its line, with the properties about it.

## 2. The modules

| Module | Models | Uses |
|---|---|---|
| `BillingEmission` | sale emission, webhooks, reconciliation, operator, crash | |
| `CommercialEffects` | abstract: what a reversal promises the shop | |
| `BillingCreditNote` | one credit note and its effects | implements `CommercialEffects` (`verdict <- Verdict, effects <- returned`) |
| `BillingVoid` | the void of one sale on credit | implements `CommercialEffects` (`effects <- returned - repeats`) |
| `BillingOutbox` ← `BillingDebitNote` ← `BillingGuide` | a paper's outbox row, executions, webhooks; the debit note and its charge; the guide from draft to void | each extends the one before |
| `BillingSetup` | provisioning of an issuer, numbers of both routes, certificate files | |
| `SunatQueue` | the job table of the direct route and its overlapping ticks | |
| `SunatDocuments` | sales, credit notes and guides sent directly; operators | extends `SunatQueue` |
| `SunatVoidBatches` | void batches, tickets, the clerk | extends `SunatQueue` |
| `StockLedger` | stock, kardex, sales, annulments, transfers, purchases, counts as PostgreSQL transactions | |
| `Receivables` | account, payments, till, annulment and void of one sale | |
| `SalesDesk` ← `Fulfilment` ← `Amounts` | series, quotations, sales; goods and papers of one sale; the arithmetic of its documents and of a checkout | each extends the one before |
| `PlanLimits` ← `Sessions` ← `Attendance` ← `ModuleAccess` | limits of a plan; account and sessions; workers and marks; what a user may open, catalogue, administrators | each extends the one before |
| `Catalogues` ← `CourierAgencies` ← `Products` | the lists of a company and the answers kept of them; the agencies of the couriers; products with their photographs and files | each extends the one before |
| `Subscriptions` ← `PlatformReceipts` | what the platform sells, annuls and settles; the way of its receipts to SUNAT | extends |
| `Notifications` | passes, windows, keys and recipients of notices | |
| `MC*` | the instances TLC checks | extend the module |
| `BillingEmission_proofs`, `SunatVoidBatches_proofs`, `BillingGuide_proofs` | theorems of their module and of the chain it extends | extend the module and `TLAPS` |
| `Accounts_proofs` | theorems of `BillingCreditNote` and of `Receivables` | extends both and `TLAPS` |
| `Shop_proofs` | theorems of `StockLedger`, and of `SalesDesk` and `Fulfilment` | idem |
| `Routes_proofs` | theorems of `SunatDocuments`, `BillingVoid` and `Notifications` | idem |
| `Company_proofs` | theorems of `ModuleAccess`, `Products` and the chains below them | idem |
| `Platform_proofs` | theorems of `BillingSetup` and of `Subscriptions` with `PlatformReceipts` | idem |

### The shape of the models

*A thread is one execution inside the process*: a cron tick, an HTTP request, a
webhook. `thread[t]` / `hilo[t]` / `runner[r]` is its program counter and the locals
that survive an `await`: the document it received, the stamp or the status it read.
Every `await` ends an action, so the stale reads of the code are stale reads of the
model. Where a transaction is protected by a lock or by `SERIALIZABLE` isolation
and the reads before it do not matter, it is one action.

*External* variables (`billing`, `sunat`, `remoto`, `enBilling`, `sent`, `archivos`)
are what the other side holds. An answer may be lost; a webhook stays in a set, so it
may arrive late, twice, out of order or never.

*Histories* only say why a property may fail: `viejas` is the set of kinds of
handler that wrote over something changed since they read it, `faults` / `fallos` /
`deaths` count what broke, `late` are the sales that joined a batch already read. In
`BillingVoid` a thread is `overtaken` from the write that makes old what it has read; `repeats`
counts the annulments such threads commit, `late` names their other writes; `repetidas`
counts the same for the annulments of `StockLedger`.
No guard reads them but to bound how often something breaks.

### Billing: emission, notes, voids, guides

| Variable | Code |
|---|---|
| `venta[s]` / `note` / `venta` / `papel` | the `billing*`, `sunat*` and `baja*` columns; `at` is `billingUpdatedAt` |
| `outbox` / `cola` | the outbox row: `status`, `attempts`; `nextAttemptAt` is "sooner or later" |
| `consumed` | `billing_webhook_event` (emission) |
| `clock` / `reloj` | a counter from which Billing's stamps and the backend's own failure stamps are taken, so that any two are comparable as the code compares them |

| Action | Handler |
|---|---|
| `Enqueue`, `Claim`, `ClaimForPrint` | `enqueueSale`; the `updateMany` that claims a row; the print request that processes without waiting for the cron |
| `PostAnswered`, `PostAnswerLost`, `PostFailed` | `billingApi.createDocument`; in `BillingVoid` also the second call, `SubmitAnswered`, which follows the first |
| `ApplyRead`, `ApplyWrite` | `applyDocument` up to its read and from there to its write |
| `MarkDone`, `HandleFailure` | the end of `processOutbox`, its failure stamp and `RETRY`/`DEAD` |
| `EffectsBegin`, `EffectsCommit`; `FinalizeRead`, `FinalizeCommit` | the locked effects of a note; the annulment of a void, which takes no lock |
| `WebhookBegin`, `WebhookRelease` | the recording of an event; its deletion in the `catch` |
| `Reconcile`, `RetryDocument`, `RetryRead`, `RetryRequeue`, `Consult`, `Request` | the poll; the operator's endpoints |
| `Crash`, `UncaughtError`, `StoreError` | the process dies; an error outside, or inside, the `try` |

### The direct route

`SunatQueue` has the claim, the rereads and the closing of a job; the modules that
extend it put their steps between the claim and the reread. A tick longer than 15
seconds overlaps the next one: `Runners` are overlapping ticks. `SunatDocuments`
sends a sale or a note over SOAP, which answers at once, and a guide over REST,
which gives a ticket, or in the simulated mode is accepted on the spot and in the disabled one fails for
good (its `kind` says the mode). In `SunatVoidBatches` a request picks or opens the batch of the
day in one transaction after reading which one, so a sale may join one a runner has
already read. The clerk who asks for a constancy is a member of `Runners` that takes no job.

### StockLedger

A request is one PostgreSQL transaction, from its first statement to its commit;
a statement that can wait for a lock is an action. `tx[t]` holds the lines of the
request, the pairs it still has to lock, its uncommitted movements (`moves`), the
pairs that had a row at its snapshot (`seen`) and the rows others committed since (`stale`).
All but the annulment are `SERIALIZABLE`: they abort when they touch a stale row, and a pair
whose row came after their snapshot is none for them (`Sees`): they cannot lock it, read 0 of it, and
insert it, which waits for whoever else is inserting it. The annulment is `READ
COMMITTED` and reads the sale before its transaction (`AnnulReads`). `owner` are
exclusive row locks, `share` the `KEY SHARE` of a foreign key to the company, which a
sale holds `FOR UPDATE`. `Deadlocked(D)` is a set of transactions each waiting for one
of the set; `Victim` is PostgreSQL aborting one of them. `kardex[p]` is the sequence
of movements of a pair.

### Receivables

`registerPayment` and `annulPayment` hold the row of the account from the first
statement of their transaction, so each transaction is one action (`PaymentCommits`,
`AnnulPaymentCommits`) preceded by the actions that make its reads
(`PaymentArrives`, `PaymentLocks`, `AnnulPaymentReads`). The annulment of the sale marks
the payments and only then reaches the account (`SaleMarksPayments`, `SaleCommits`), and
so does an accepted void. Any two requests overlap anywhere. The code does not protect all
of these overlaps (`annulPayment` writes installments it read before its transaction;
`close` sums and then writes): `Outdated` says that what a request read is no longer so
when it writes, and `viejas` keeps the kinds of request that wrote all the same.

### The counter, the company, the platform

`SalesDesk`, `Fulfilment` and `Amounts` are about one type of receipt, one sale and
its line, and one bill of up to four lines. Requests on the counter read
(`hilo[t]`), then write; the object they are on (`obj`) is the number of a quotation, or one of
`Lista` (the quotations), `Catalogo` (the series) and `Venta` (the sale), and a write makes every other
request on the same object old. `Amounts` is no protocol but arithmetic in cents, with the
rounding of the code (half a cent away from zero), stepping from
the quotation to the nota de venta, the boleta and its credit notes.

`PlanLimits`, `Sessions`, `Attendance` and `ModuleAccess` share `filas`, the rows of a
company, and `hilo`, the requests. Counting and writing under the lock of the company
is one action; deciding whether room is needed is an earlier one.
`Subscriptions` has transactions that lock the company or the row they are about: one
action each. `PlatformReceipts` adds the jobs, webhooks and reconciliations of one
boleta; `conocido` and `abierto` are the columns that decide what is asked for again.
`Notifications` has one row per source; `clave_evento` is the source and its state.

`Catalogues` has the same handler written five times, for five lists: `fichas` are its
rows and `respuestas` the answers `ResponseCacheService` keeps. A listing reads in one action
and keeps its answer in another; a change writes, and clears the answers in another.
`CourierAgencies` takes a synchronisation one `await` at a time. In `Products` a form reads
the product, opens its transaction, waits for the row of the company, deletes and uploads files,
and commits or aborts; `almacen` is the object storage, which no abort rolls back.

## 3. What TLC checks

Every property of a passing run is also checked to be breakable: `PROJECT.json`
names, for each, a plausible bug (a definition marked `mutant` beside the one it
would replace) under which TLC finds it violated.

All configurations say `CHECK_DEADLOCK FALSE`: clocks, requests, calls and attempts
are bounded, and a system whose bounds are used up stops. Real circular waits are found
by `SortedLockersNeverDeadlock`, stuck queues by the liveness properties.

Several runs hold systems that share nothing, seen side by side: a variable chosen
once (`ruta`, `parte`, `dia`, `jornada`, `clase`) says which of them moves, and the
rest stutters. `Dias` and `Jornadas` are the sets of what can meet on one day: which kinds
of request, how many, on which rows.

| Run | Instance | Distinct states | Shows |
|---|---|---|---|
| `emission` | 1 sale, 2 threads, 2 attempts, 5 stamps, 1 fault, operator | 197k | one document per sale; the queue drains; the poll catches up though every webhook may be lost |
| `credit_note` | 2 threads, 1 attempt, 2 claims, 4 stamps, 1 fault, operator | 233k | goods once, only on acceptance, as `CommercialEffects` promises; without a fault every accepted note gets its effects |
| `routes` | direct: 1 document of 5 kinds, 2 ticks, 2 attempts, 2 requests or 1 and a death; Billing: the void of a sale by 1 thread with 2 faults of 4 kinds and 8 stamps, or by 2 that overlap, 5 stamps | 276k | verdicts are SUNAT's, effects of a note once, acceptances stay, jobs close; the void returns goods once, but for overtaken annulments, and annuls in the end |
| `sunat_void_batches` | 2 sales, 1 batch, a runner and a clerk, 2 files, 1 death | 593k | what is annulled was voided, once; accounts stay blocked while it is open; a request comes to an end |
| `billing_papers` | a debit note, a guide, or a guide to be voided; 2 threads, 2 attempts, 2 emissions, 1 edit, 1 fault | 843k | charged as accepted; sent as written; the verdict reaches the guide |
| `receivables` | 2 threads, 2 payments, installments 2 + 1, 2 sessions, 5 calls; 6 days of notices with 1 or 2 sources | 1409k | account, installments and till agree; what stood was announced |
| `shop` | store: 2 threads, 3 requests, 2 branches, 2 products, 1 unit; counter: 6 days of 2 threads and 4 to 7 requests; 160 bills × 5 discounts, 18 checkouts | 437k | kardex, trades, deadlocks; goods, conversion, quotations, series; amounts |
| `platform_sales` | 2 plans, 2 capacities, 2 months, 2 sales; one boleta by either route; 3 requests of set up | 914k | company follows its sales; commissions; receipts; verdicts; the set up of Billing |
| `company_people` | 15 days of 1 or 2 threads, limits up to 2, 2 tokens, 3 marks, 2 days of 3 moments; 5 lists of 3 rows, one courier of 2 agencies, 2 products with 4 uploads, each with 2 requests at a time | 447k | limits, accounts, marks, grants, modules, administrators; lists, agencies, photographs |

Three more runs each end in a counterexample; see section 5.

### Why the bounds are enough

- *Two threads.* Every race of these protocols is between two executions: one that
  has read and one that writes before it does. A third would only repeat the
  role of one of them. The void is seen by one thread with two faults, and by two without:
  together they exceed what can be searched, and an overtaken thread needs no fault.
- *One sale, note, paper or document.* They share no state in the Billing protocols except
  the number of a series, which Billing hands out. The proofs cover any number.
  A batch needs two sales, one of which joins late.
- *Attempts.* Two let a row fail, be retried and fail for good; the caps leave room for
  what an operator adds.
- *Stamps.* Four to eight are enough for creation, two changes of status and a failure
  stamp before, between and after them. In `BillingOutbox` the clock's last value is
  handed out again and again, which is Billing answering within one millisecond.
- *Faults.* One fault at any `await`; two for the void, whose two calls and two
  transactions can fail after each other. Lost answers of the other protocols are
  not faults: any number may be lost.
- *Stock.* One unit makes every second sale, and every exit of a transfer, run
  out. Carts `<<1, 2>>` and `<<2, 1>>` give both lock orders. One branch has no row yet,
  so that rows are created concurrently. Both threads may annul the same sale.
- *Counter.* A day has the kinds of request that touch the same object; requests
  of different days meet in nothing modelled. Seven requests let goods be delivered,
  sent, returned and annulled in one day; two units make partial deliveries.
- *Amounts.* Prices and quantities with every rounding: half cents, a quantity of 3,
  discounts greater than a line, one to four lines (with four, the last may take
  more than its part, which the property states).
- *Platform.* Two sales with two months: renewal, change of plan, overlap, annulment in both
  orders, before and after a settlement. The receipt: seven instants for an emission, its
  void and note, a late webhook and a failure stamp.
- *Receivables.* Installments of 2 and 1 with payments of 1 and 2: a part, a whole, a
  payment over both, one beyond the balance. Two sessions: a payment older than the session
  that is open.
- *Lists and products.* Two requests at a time, three in all: one that lists or reads, one that
  changes it meanwhile, and one more to be served the answer or to count the storage. Two products
  and room for two photographs: a form fits by what it drops, and another takes its room.
- *Notices.* Five ticks exceed the window of two; two passes overlap; two falls of the
  process miss two passes in a row, which is what loses a notice.

### Fairness

- `WF` on a thread's step: a request that runs goes on; Node.js starves no callback.
- `SF` on `ApplyRead`, `ApplyWrite`, `EffectsBegin`: a step that may fail each time
  succeeds if tried again and again; the database does not fail for ever.
- `SF` on claims and polls: the crons repeat every second, 15 seconds or five minutes.
  Strong, because in the model all threads may be busy at a tick; the process has no
  such limit. On the direct route `WF` suffices: a job stays due until it is taken.
- In `routes` the fairness of each module is conjoined with its `ruta`: the part that is
  not seen is not asked to move.
- `InsistentSpec` (credit note) also assumes that webhooks are delivered again and
  that the operator insists. It is used only to show that even this does not help.
- Nothing is assumed of SUNAT, webhooks (but for `InsistentSpec`), operators or clients.
- A process that dies is started again: after a crash everything else stays fair. What
  the code itself never picks up again (a claimed row) is an exception of the property.

## 4. What is proved

The theorems hold for all values of the constants that satisfy the named assumptions
of the module (`EmissionAssumption`, `NoteAssumption`, `VoidAssumption`, `ShopAssumption`,
`DeskAssumption`, `FulfilmentAssumption`, `LimitsAssumption` and those of the other
modules), which TLC evaluates in every run. The assumptions say that bounds are natural numbers, that null
values are none of the values they stand for, and of some sets that they are finite (the
threads of the store, the rows of a company), as they are in any running system. The bounds themselves
(attempts, stamps, faults, requests) are arbitrary.

| Module | Theorems |
|---|---|
| `BillingEmission_proofs` | `TypeCorrect`, `OneDocument`, `AcceptanceIsReal`, `DoneIsIssued`, `OneWorker`, `BudgetKept` |
| `Accounts_proofs` | the credit note: `TypeCorrect`, `GoodsReturnOnce`, `GoodsReturnOnAcceptance`, `AcceptanceIsReal`, `NoteImplementsReversal`; the account and the till: `MoneyIsExplained` |
| `BillingGuide_proofs` | `PapersTypes`, `ChargesFollowAcceptances`, `GuidesAreIssuedAsWritten` |
| `Routes_proofs` | the direct route: `SunatTypes`, `DocumentsSayWhatSunatDecided`, `AcceptancesStick`; the void: `TypeCorrect`, `AnnulsOnAcceptance`, `AcceptanceIsReal`, `ReturnsOnce`, `OwesNothing`, `VoidImplementsReversal`; notices: `ChangesAreAlwaysNoticed` |
| `SunatVoidBatches_proofs` | `BatchTypes`, `BatchInvariant`, `AnnulledSalesWereVoided`, `OpenBatchesBlock` |
| `Shop_proofs` | the store: `TypeCorrect`, `StockIsExplained`, `DraftsAreLocked`, `LocksAreOrdered`, `SortedLockersProceed`, `CodesHaveNoGaps`, `TransfersLoseNothing`, `TradesStayBalanced`; the counter: `CounterTypes`, `BranchesHaveOneSerie`, `QuotationsSellOnce`; the sale: `SaleTypes`, `BoletasEndByTheirVoid`, `GoodsStayWithinSold` |
| `Company_proofs` | the company: `CompanyTypes`, `NothingGrowsBeyond`, `AccountIsHeld`, `MarksAgreeAlways`, `GrantsAreHeld`, `CompanyOpensWhatWasAsked`, `SomeAdminRemains`, `AccessIsHeld`; its lists and products: `CatalogueTypes`, `CataloguesAgreeAlways`, `ProductsAreHeld` |
| `Platform_proofs` | the set up: `SetupIsCurrentAlways`, `NumbersAreIssuedOnce`; what is sold: `CompanyFollowsItsSales`, `ReceiptsFollowTheirSources`; its receipts: `AnnulmentsWereAccepted` |

Each proof has the same layout: an inductive invariant, lemmas that say where each kind of step
leaves the rows and the requests, a lemma per action or group of actions, one that
puts them together, and the temporal step. A module that extends others and writes none of what an
invariant is about keeps it by that frame alone.

**Emission.** `OneDocumentPerSale` is not inductive: it needs that a key is made from
the sale alone (`OneKey`), and an acceptance is real only if what threads,
webhooks and the sale remember is something Billing once held, and Billing's acceptance is
final (`MirrorInv`: `SalesLinked`, `SnapshotsKnown`, `OneKey`,
`NoFalseAcceptance`, `DoneHasDocument`). The argument thus does not depend on the
stamps: even where an older document overwrites a newer one, it is a document of
this sale. Queue discipline is a separate invariant (`WorkInv`): as long as the operator
has not interfered, the row of a sale is `PROCESSING` exactly while its one
worker, whose attempt it carries, is at it, or after a fault.

**Credit note.** Threads may all decide to run the effects. The invariant
(`LockInv`) says that a thread between the lock of the note and the commit of its
transaction holds the lock and has seen `effectsApplied` false, and that
is still so; with `KnowledgeInv` (what is remembered was true) the effects
happen once and on acceptance. `NoteImplementsReversal` maps each step to a step
of `CommercialEffects` or to a stutter.

**Void.** For any threads and faults the annulment follows an acceptance, because
only a thread that holds an accepted document gets there (`KnowledgeInv`). How often
the goods return is proved for overlapping calls too (`OverlapInv`): a thread past its reads that no
other has overtaken still knows the sale as it is (`Sure`), so its annulment is the first, and its write leaves
every other thread past its reads overtaken (`Overtakes`). What the overtaken ones commit is counted in
`repeats`, and the rest is the one step of `CommercialEffects` that takes effect (`VoidImplementsReversal`).

**Debit notes and guides.** An execution that charges an account holds the row of the note and
found it not charged (`ChargeOK`); whoever writes an acceptance found it charged or goes on to
charge it, unless something broke (`DueOK`). What Billing holds of a guide is what the guide says, since
nothing was asked for a draft and only its own handlers work on it (`DraftOK`), so the text does not change under
who is about to post it (`SameOK`).

**Direct route.** The invariant follows the verdict on its way: a runner that was
answered holds what SUNAT holds (`AnswersOK`), and SUNAT does not change its mind; the
effects of a note are counted by its mark, whoever carries them out (`EffectsOK`). `AcceptanceSticks`
is about steps: until an operator asks again, a document has one runner at
most, and none once it is accepted and closed (`FirstOK`).

**Void batches.** Every ticket is of an XML that was sent with the sales it names (`LoteOK`,
`TicketOK`), and no sale of a batch is missing from its XML unless it joined late (`SalesOK`).
`BlockedWhileOpen` needs that one runner works at a batch and knows its state (`Working`), which
holds as long as no sale was late and no clerk asked.

**Stock.** `changeStock` writes `stock + qty` computed from a read. `Inv` says
that only the holder of a pair's lock has drafts of it, that these continue the
committed kardex, and that what a thread read under the lock is still the current
stock. Commits then concatenate chains (`ChainAppend`, `ChainConcat`). For the deadlocks, `LocksOK`
says in which order each kind of request has locked what it holds: along a circle of waits of requests
that lock in order the pairs would grow for ever, which a finite set of threads excludes
(`SortedLockersProceed`). The property excepts a request that inserts a row it could not
see: `lockInventoryPairs` locks only the rows there are, so the insertion comes out of order.
`CodesOK` says that a code not yet committed is the last one, taken by the holder of its row.
For `TradesBalance` the pending movements have to be counted with what is committed. Those of a transfer
add up, over the branches, to what it took and did not yet give (`TransfersOK`); those of a sale to the lines
it has written so far, and those of an annulment to the lines it has given back (`SalesOK`). Two annulments of one sale
that overlap are not kept apart by the code: the one that commits later found the sale completed
and is stale (`Outdated`), so it gives back what `repetidas` counts.

**Sums.** A total over a set is a fold of the community modules, which expands to a function defined by
`CHOOSE` over the subsets of the set. That there is one such function, and that it does not depend on the set it
is defined for, is shown for any finite set by its smallest counterexample: strict inclusion of the
subsets of a finite set is well founded (`SmallestSet`, `AddsExists`, `AddsOnce`). From there follow the lemmas that the proofs use: a total
with a member more, less or changed, of a sum of functions, of naturals, of zeros.

**Account and till.** What a request read is still so when it writes, or the request is `Outdated` and its
kind joins `viejas`: no hypothesis about overlaps is needed, and each part of `MoneyExplained` excepts only the kinds
that break it (`CallOK`). A payment holds the row of its account from its first statement.
With the totals of the payments that count (`BalanceExplained`) the installments then have received at least what one
payment applied to them, so taking it back leaves none below zero; and the till of a payment
moves with the payment, or its session was closed (`CashMatchesPayments`).

**Counter and sale.** The properties except what overlapped: `viejas` names the kinds of request that
wrote over what changed since they read it. The invariants say what a request that was not overtaken
still knows of the rows it is about to write: that the branches of its series are free
(`SeriesOK`), that its quotation has no sale (`QuotationsOK`), that the sale is a nota de venta
(`PapersOK`), what is pending of the goods (`GoodsOK`), that the units of a credit note not yet written
fit what the standing ones leave (`NotasOK`). Whoever writes makes all the others old, so
only the rows are left to be seen after a write; whoever reads learns what it has just checked.

**Company.** `TypeOK` and `AccessOK` type every row and say of every request what it has in hand where it
stands. Beside them: no token or request is ahead of the version of its account and at most one is level
with it (`OneHolds`), which was let in since the password last changed (`EpochHolds`), as long as no
version was written back; a code or link is spent once (`SpentOK`); marks of a day are in
order and none is of the future (`DayOK`); what is switched on and off is the difference between what was
last asked for and the plan it was asked over (`AskedOK`). `GrowsWithinLimit` is about steps: what
each kind of write adds to what is used was counted, under the lock of the company or before it, for a
row of the state and kind it still has (`RowsFit`, `Fits`), or the request is marked as one that wrote over
another row.

**Lists, agencies, products.** What a listing holds is what the rows say, or a change was written since it
read them, and while the answers of that change are still to be cleared somebody is bound to clear them
(`ReadsAgree`). A courier has one synchronisation, whose marks are those it received so far (`SyncsAlone`).
A file that is gone is in the hands of the form that deleted it (`FilesKept`); what a form counted under the lock of
the company is what is used, and stays so until it writes, since every other that takes room waits for that lock (`Counted`).

**Set up.** While the RUC stays, a walk of external calls has behind it what it wrote, and `READY` all of
it (`OneTenant`, `WalkedSoFar`). While walks do not meet and none fails, a webhook secret that is not kept yet is in
the hands of the only walk of its environment (`SecretInHand`). The numbers of the direct route are below the
series here, and below that of Billing from when it is told of it (`SeriesFollow`).

**What the platform sells.** Each payment that stands replaced what the one before it that stands had bought, the
first of them the trial (`PlansChained`), and the same of Asistencias while nobody changed them by hand
(`AddonsChained`): so annulling the last one, which restores what it replaced, leaves the company at the one
before, whatever was annulled between. Every receipt is of sources of its own (`ReceiptsOwn`), and the reversal of
both is one transaction. `SubscriptionsAssumption` says that there are plans and that the trial is none of
them: it is a state of the company that no sale creates.

**Platform receipts.** By Billing, a boleta is annulled by a thread that carries an accepted document, which Billing
once held, and what Billing accepted it does not take back. On the direct route the argument is another: jobs run
one at a time, so while the emission or the void of a boleta is in hand the boleta is not accepted by that thread's own
knowledge; a void asked for again, which forgets the earlier one, is asked for only when neither is in hand (`PipeInv`).

**Notices.** Two ticks can see a change that stood long enough. `NoticeInv` says of each: it was missed,
as a pass still ran or the process was down (what the property excepts), or its pass is still bound to announce the change, or the notices
are there (`EachTickCovers`); the pass of the hour and the scan of the five minutes leave out nothing
that was there when they began (`HourSees`, `ScanSees`), and a pass under way belongs to a process that is up.

**Only model-checked.** Liveness (the prover has no `ENABLED`): `QueueDrains`, `ReconcileConverges`,
`OnlyFaultsLoseEffects`, `AcceptedVoidAnnuls`, `BatchesEnd`, `GuideCatchesUp`. For want of a proof: `AmountsAgree`,
whose roundings follow one another over a bill of four lines; `CommissionsAddUp`; and `VerdictsArrive`, whose
invariant must say of every step of a thread that what it carries is newer than what the row was stamped with.

## 5. Where the code departs from what it says

Each of these runs checks one property, quoted from the repository, and TLC finds a
behaviour of the code that violates it. `findings` in `PROJECT.json` quotes the line.

| Run | Property | What happens |
|---|---|---|
| `webhook_crash` | `ConsumedEventsApplied` | The event is recorded before it is applied and released only by a `catch`: a crash in between loses it, and the redelivery is answered as a duplicate. The poll makes up for it while the status is open. |
| `credit_note_effects_lost` | `AcceptedTakesEffect` | The acceptance is committed, the effects run in another transaction and only on the change to accepted: a fault in between loses them for ever. |
| `payment_during_void` | `NoPaymentDuringVoid` | Annulling a payment rewrites the state of the account and so unblocks one whose void is pending. |

`credit_note_effects_lost` is a liveness counterexample under the fairness of section 3;
the others are finite behaviours.

### Met while modelling

These follow from the code and are built into the models (as behaviours, or as the named
exception of a property); no document of the repository says otherwise, so no run
claims a violation.

- *Stamps.* After a lost answer the backend stamps its failure later than Billing's document
  (`billing-emission.service.ts:499`); the answer of the retry is dropped as older, the row
  is `DONE`, and the sale has no document for the poll to ask about. The same stamp makes a
  void drop an acceptance (`billing-void.service.ts:324`), and a pending webhook of a void writes the
  `estado` it read before (`:351-385`). The catch of a debit note overwrites a webhook's
  acceptance (`billing-debit-note.service.ts:388`); applying a document to a guide compares no
  stamp (`billing-despatch-guide.service.ts:556`).
- *Annulments without a lock.* Two threads that apply the acceptance of a void together both see
  the sale not annulled (`billing-void.service.ts:541`), and two annulments both pass a check
  made before their transactions (`sales.service.ts:2069`): the goods return twice. A request for
  a void or a release of the account that another thread overtook writes over the annulled account. A void
  does not look at accepted credit notes (`billing-void.service.ts:60-140`).
- *Claims that outlive their worker.* `PROCESSING` of the outbox and `procesando` of a job are
  never taken again after a crash, because the query asks only for states that wait
  (`billing-emission.service.ts:68`, `sunat-job-runner.service.ts:66`). The attempts of a
  job count polls of a ticket too (`:474`).
- *Direct route.* A sale that joins a batch already read is annulled by the acceptance of the
  others, or never sent; and `sunat_baja_item` is unique per sale, so a failed void is not
  asked for again (`sunat-baja.service.ts:99`).
- *Set up.* `READY` of the platform is not of the environment it issues in; deleting the
  certificate clears the storage before the row (`sunat-config.service.ts:150`).
- *Sales.* What is pending of a delivery, what may be credited, the free series and the state of a
  quotation are read outside the transaction that writes. A line of a credit note may be named
  twice; the discount of a nota de venta's lines does not reach its total
  (`sunat-tax.service.ts:72`); with four lines or more the last one may be charged below zero;
  only lines with tax codes 10, 20 and 30 are added up (`credit-notes.service.ts:645`);
  the installments of a sale are counted from the date in UTC (`sales.service.ts:2789`).
- *Account and till.* `annulPayment` writes the installments and the balance from rows read before its
  transaction (`accounts-receivable.service.ts:463`), so one that a payment or another annulment overlaps loses
  theirs; an annulment of the sale leaves standing a payment that came between its two reads; a movement or a
  refund goes into a session closed meanwhile, and `close` keeps a sum others have added to
  (`cash-register.service.ts:185`).
- *Accounts.* Login, refresh and the creation of a company write the version they read plus one,
  so that a concurrent change of password is undone as to sessions. A registration is confirmed
  by the row that was read, though it was filled in again since (`auth.service.ts:180`); confirming an
  activation clears a newer link (`worker-auth.service.ts:61`).
- *Platform.* The commission of a checkout of plan and Asistencias is reversed once for each half
  annulled. Cancelling Asistencias restores the values from before, over what an
  administrator changed since; edits of prices and of the modules of a company carry no
  `expectedUpdatedAt`. A boleta followed by a later payment cannot be reversed, and nothing
  tries again.
- *Lists.* A listing read across a change is kept after the change cleared it, and served for up
  to a minute (`src/src/common/cache`).
- *Agencies.* The mark that a courier is being synchronised is set before the `try`: if the row of the
  execution cannot be created, the courier is taken as busy until the process restarts.
- *Products.* `update` reads the product outside its transaction: what it counts as freed, and what it
  adds in variants, may be old, and a product removed meanwhile gets live variants. A variant removed from a colour
  that stays cannot come back, since its unique key lies on the removed row; a deleted product keeps its name.
  The photographs of a colour that is dropped go with its row and leave their files behind. A kept photograph that
  another form dropped aborts the transaction after its files were deleted. `create` returns its last read
  without awaiting it, so the deletion in its `catch` never answers a failure of that read (`products.service.ts:422`),
  and swallows the refusal of the kardex.
- *Notices.* A second rejection of the same row has the key of the first and is silent; reading a
  notice again overwrites when it was first read.

## 6. Conditions the properties carry

A property that carries a condition names a weakness of the code, and the run shows that nothing
else breaks it. Each condition is reachable, and the comment at the property names it.

| Property | Holds unless |
|---|---|
| `QueueDrains` (emission, direct), `BatchesEnd` | a crash strands a claimed row; an operator puts it back; a sale joined late |
| `ReconcileConverges`, `GuideCatchesUp` | an operator forwards a retry; a local failure was stamped after the document; a guide was emitted again under its worker |
| `OnlyFaultsLoseEffects`, `ChargedAsAccepted`, `AcceptedVoidAnnuls` | a fault falls between acceptance and effects |
| `AcceptanceSticks` | an operator asks again; the effects of a note fail |
| `AnnulledWasVoided`, `BlockedWhileOpen` | a sale joined late; the clerk wrote an answer beside the runner's |
| `MoneyExplained` | a request wrote from rows changed since it read them: an annulment of a payment (the balance), any annulment or void (the till of a payment), any kind (a closed sum) |
| `TradesBalance`, `ReturnedOnce` | an annulment another one overtook is committed (`repetidas`, `repeats`): its goods return once more |
| `AsSunatDecided` | the acceptance is that of the simulated mode of guides |
| `GoodsWithinSold`, `BoletaEndsByItsVoid`, `OneSalePerQuotation`, `OneActiveSerie`, `GrowsWithinLimit`, `AccountHolds`, `MarksAgree`, `IssuedAsWritten` | the handler named in `viejas` wrote over something it had not seen |
| `CompanyFollowsSales`, `CommissionsAddUp`, `ReceiptsFollowSources` | Asistencias was changed by hand; the commission is of both halves of a checkout; the receipt is of both halves or was reopened |
| `VerdictsArrive` | something failed or was retried; a later payment stands over the boleta; a note reopened it |
| `SetupIsCurrent`, `NumbersIssuedOnce` | two requests set up at once, one broke off, the RUC changed; a direct number after Billing was told |
| `AccessHolds` | an administrator was switched off by one already switched off |
| `CataloguesAgree` | a change is still to clear the answers, or crossed the listing that kept one (`cruzada`) |
| `ProductsHold` | a file was deleted by a form that did not get to write (`cortadas`); a form was written over photographs it had not counted (`pasada`) |
| `ChangesAreNoticed` | both ticks that could see the change were missed |

## 7. What is not modelled

- Pure data: XML, PDF, signatures, CDR parsing, mail, reports, dashboards and listings; the totals and
  taxes that are modelled are those of `Amounts`.
- Rows edited one at a time without a protocol: clients; the personal data of workers; logos; the forms
  of affiliates; prices, SKUs and barcodes of products.
- The login throttle and Turnstile: guards of login that change no account.
- The deadline of an invoice (the same or the next calendar day in Lima, checked at each
  attempt): it is one of the refusals of `PostFailed`.
- Average cost and stock value: they follow the movements and no property tells them apart.
- In `Receivables`: an advance at the sale, several users, amounts declared by method at a
  closing. In `BillingVoid`: one sale on credit; a sale in cash differs only by having no account.
- Rate limits and metrics; files of the storage other than photographs of products.
- Partly modelled components are named in `components` of `PROJECT.json` with what they leave out.

## 8. Plan

The plan is done: emission and webhooks, reversals, stock, account and till; the job queue,
documents and batches of the direct route; debit notes, guides and the set up of Billing; the
counter and fulfilment with their amounts; limits, sessions, attendance and access; subscriptions
and platform receipts; notices; lists, agencies and products. What could still be proved:

1. `PlatformReceipts`: `VerdictsArrive`.
2. `Subscriptions`: `CommissionsAddUp`, with the lemmas on sums of `Accounts_proofs`.
3. A refinement of a common abstract outbox by `BillingEmission` and `BillingOutbox`.

## 9. How to run

    tlc -workers 2 -config MCBillingEmission.cfg MCBillingEmission
    tlapm BillingEmission_proofs.tla

`runs` in `PROJECT.json` pairs every configuration with its module.
