# A formal model of the register and its cloud

This directory holds TLA+ specifications of the parts of this repository where
concurrency, failure and ordering decide whether the shop's data is right, the
TLC configurations that check them on small instances, and proofs that TLAPS
checks for every value of the constants.

The program is a point of sale: registers (`apps/pos`, Electron, SQLite) that
must sell with no network, a cloud (`apps/cloud`, Node, PostgreSQL) that holds
the shop's books, and a back office (`apps/backoffice`). `packages/domain` holds
the use cases both sides run, against ports that `apps/*` implement.

## Inventory

| component | state it keeps | operations | what is hard | correct when |
|---|---|---|---|---|
| Outbox push (`domain/sync/use-cases/push-outbox.ts`, `receive-pushed-events.ts`, `pos/core/sync/sqlite-*outbox.ts`, `cloud/sync/drizzle-inbox.ts`) | register: outbox rows, `acked_at`, last seq and chain link, sales stop, stale mark; cloud: inbox, refused events, revocation | append, push loop, receive, acknowledge, resend, prune, set aside | lost answers, requests that arrive after their sender gave up, two push loops, crashes, files restored from copies | every event is received once, in one chain; what is acknowledged is held; nobody is condemned without a reason |
| Attached events (`receive-attached-event.ts`) | the inbox | receive one event out of turn | leaves holes that a later push joins | an attached event joins the chain or is refused |
| Rescued events (`receive-rescued-events.ts`) | the inbox | receive what was saved from a damaged register | mixes with what was pushed | same |
| Event application (`apply-pending-events.ts`, `drizzle-event-application.ts`) | inbox `applied_at`, attempts, quarantine | apply the next event of an aggregate, record a failure, quarantine, release | workers run at once; an event may wait for another aggregate; failures retry; refusing a push deletes rows meanwhile | each event applied at most once, in its aggregate's order, after what it depends on; all in the end applied or quarantined |
| Change log and pull (`change-log.ts`, `drizzle-change-log.ts`, `pull-changes.ts`, `catch-up-with-cloud.ts`, `sqlite-local-replica.ts`) | change rows, register cursor, replica | log a change, read a page, save page and cursor | transactions commit in another order than they take numbers | a register that caught up has what the cloud has |
| Redelivery (`redeliver-pulled-entities.ts`) | pull rows to send again | send again what a register could not store | races with new changes | nothing stays undelivered |
| Sync schedule and cycle (`sync-schedule.ts`, `sync-cycle.ts`) | running, requested | run push, pull, replenishment; on a timer and on demand | requests made while a cycle runs | one cycle at a time; a request is always followed by a cycle |
| Installation check, device adoption (`check-installation.ts`, `sqlite-local-replica.ts`) | device id, credentials | adopt another device id and restart the chain | answers of the old device arrive after | answers never acknowledge another device's events |
| Restore and replenishment (`replenish-restored-register.ts`, `sqlite-restored-sync-identity-store.ts`) | restored copy, stage, replenished rows | restore a snapshot under a new identity, fetch what it missed | interrupted and repeated at any stage | nothing is missing and nothing twice |
| Installation requests (`admit-installation-request.ts`) | buckets per device and endpoint | admit or limit a request | boundary of the window | never more than the limit |
| Fiscal documents (`domain/fiscal`, `cloud/fiscal`, `pos/core/fiscal`) | documents, series, numbers, deferred authorizations, contingency numbering | number, authorize with ARCA, reconcile a lost answer, issue offline | an answer of the authority may be lost after it numbered; two requests for one series | one document per sale, no number twice, no hole |
| Payments (`domain/payments`, `cloud/payments`, `pos/core/payments`) | a payment's row at the register and at the cloud, the orders of Mercado Pago, late-payment refunds | start, follow, abandon, replace, discover a charge; create, read, cancel, search its order; refund | an order may outlive the call that made it; notifications, checks and the register's requests in any order | what a sale holds is not given back; no order is out of sight, no paid order is left to nobody |
| Sales, returns, deferred sales (`domain/sales`, `domain/returns`) | tickets, lines, totals | add, discount, complete, void, return | cents and rounding | totals add up; nothing returned twice |
| Cash sessions, register, contingency (`domain/register`) | open session, movements, enrollment | open, count, close, enroll, revoke | an open session on two installations | one open session per register |
| Stock, purchasing (`domain/stock`, `domain/purchasing`) | movements, levels, orders | move, count, receive | concurrent movements | a level is the sum of its movements |
| Sessions, users, permissions, credentials | PINs, lockouts, sessions, roles | sign in, lock, sign out | attempts counted at once | lockout after the limit |
| Backups (`domain/backups`) | snapshots, their uploads | snapshot, upload, restore | crash between steps | a snapshot is whole |
| Catalog, pricing, branch, alerts | rows and versions | edit; open, close an alert | edits at once | last version wins, alerts open once |
| Back office UI, `packages/ui`, `packages/formatting`, `packages/contracts` | none of the system's | show, validate | - | - |

Components interact through three channels. A register's use cases append to the
outbox in the transaction that changes the register; the outbox push carries the
events to the inbox; workers apply the inbox to the cloud's tables, in the
aggregate's order. Every change of a pulled table is written to the change log
in the transaction that makes it; the pull carries it to the register's replica.
Fiscal and payment requests go to the cloud directly, with the sale's event
attached so that the cloud need not wait for the push.

## What is modelled, and where it is in the code

| module | what it is |
|---|---|
| `EventLog` | the abstract specification of pushing: the cloud's copy is a growing prefix of the register's log |
| `EventEffects` | the abstract specification of applying: an event takes effect once, after those it needs, or is refused |
| `FollowedRows` | the abstract specification of pulling: a copy follows each row forward, and may claim only what it has |
| `FiscalVerdicts` | the abstract specification of authorizing: each side concludes once what became of a sale's invoice, and both conclude the same |
| `OrderFates` | the abstract specification of charging: an order that was paid is kept by its sale or given back, each once and never both |
| `OutboxPush` | the outbox of one installation, its pushers, the network and the cloud's inbox |
| `OutboxPushProofs` | theorems about `OutboxPush` |
| `EventApplication` | the runs that apply the inbox, retries, quarantine, its release and its alert |
| `EventApplicationProofs` | theorems about `EventApplication` |
| `ChangeLogPull` | how a register's replica follows the cloud's rows: the change log, pages, redelivery |
| `ChangeLogPullProofs` | theorems about `ChangeLogPull` |
| `FiscalLane` | a point of sale's numbered series: the register's documents, the cloud's lane and jobs, the tax authority |
| `FiscalLaneProofs` | theorems about `FiscalLane` |
| `PaymentLane` | a charge with Mercado Pago: the register, the lane of its payment at the cloud, the orders |
| `PaymentLaneProofs`, `PaymentCustodyProofs`, `PaidOrdersProofs` | theorems about `PaymentLane` |
| `LeastElements` | two lemmas the proofs share: least and greatest elements of sets of naturals |
| `MCOutboxPush`, `MCEventApplication`, `MCChangeLogPull`, `MCFiscalLane`, `MCPaymentLane` | the instances TLC checks |

The first two meet in the inbox. `OutboxPush` says which events the cloud
holds; it has applying as one step, `Apply`, of an event that was attached above
a hole. `EventApplication` takes the arrival of events as given (`Receive`: in
turn, or attached ahead) and opens up the applying. `ChangeLogPull` is the way
back: its writers are the transactions of the cloud, of the back office or of a run.
`FiscalLane` stands beside them: its calls go to the cloud directly, and of the
pull it has the one row it reads, the count and the freeze of its point of sale.
`PaymentLane` does too: of the outbox it has the two events of its charge, which
the cloud applies in their order.

### OutboxPush

An event is `[seq, id, prev]`: its `device_seq`, its `event_id`, and the id of
the event its `chain_hmac` was computed from. Since events never change, the id
of the last event stands for the whole chain behind it; comparing `prev` with an
id is what `eventLinkHolds` does with HMACs.

- A pusher (`pushOutbox`) is a program counter whose labels are the awaits of the
  code: `read` (the batch is read and sent), `waiting` (the request is under
  way), `answered`, and after a gap `holds_event`, `holds_after`, `compromised`,
  `resend`, `next`, one for each call of the outbox, since each is a SQLite
  transaction of its own and another pusher may act between two of them.
- `HandlePush` is the transaction of `POST /events`, which the cloud serializes
  per installation. `PushOutcome` has the order of the checks of
  `receivePushedEvents`: revoked, version, stale sequence, gap, misplaced, chain.
- `delayed` holds the requests whose client gave up: they may still be handled,
  in any order with later ones. `attachments` holds events that travel inside
  fiscal requests.
- `rows`/`acked` are `outbox` and its `acked_at`; pruning (`Prune`) removes
  acknowledged rows, whichever are past the retention; `registerCopy` is a copy of
  the whole file of the register's database, and `cloudBackup` a backup of the cloud's.
- `created`, `forgotten` and `history` are not in the code: they number events,
  remember pruned rows, and remember which hazards happened, so that properties
  can say "unless".

What the environment may do is the constant `Hazards`; a request may be lost in
every run. Left out: what the same transaction writes for reports and telemetry,
the byte budget of a batch (a batch is any non-empty prefix of up to `MaxBatch`
events, which contains what the budget allows), a second device id.

### EventApplication

Events are model values with their installation, sequence, reported instant,
aggregate and dependencies given by constants. The steps of a run are the moments
of its transactions that another transaction can tell apart:

| step | code |
|---|---|
| `StartRun`, `SkipAggregate`, `EndRun` | `applyPendingEvents` and its task |
| `BeginApply` to `CommitApply` or `FailApply` | the transaction of `applyNextEvent`: lock, read, dependencies, record, mark |
| `RecordRetry`, `DropObsoleteFailure`, `BeginQuarantine` | the second transaction, `recordFailure` |
| `OpenAlert`, `CommitQuarantine` or `LoseAlert` | its end at the last attempt, under `lockDeviceQuarantines`: the alert is inserted, or the open one that excludes it is looked for |
| `CloseAlert` | `closeAlert`, the closure of an alert by hand in the back office |
| `BeginRelease`, `CommitRelease` | `releaseQuarantinedEvent`, which waits for its locks |
| `RefuseBrokenChain` | `setAsideRefusedPush`, at the moment of its delete |

Reads are read committed: a transaction sees what is committed at the step that
reads. The aggregate's advisory lock is tried by runs and waited for by releases.
Abstractions: the order of aggregates within a run is left open; of the jobs that
wait one is kept, since another comes every minute; `received_at` is a count of
receptions; a retry comes due at any later time (`RetryComes`); what a fact
writes, its refusal and the invariant-break alerts are one outcome, recorded or
failed, and any event may fail at any attempt. Left out: the deliveries and the escalation
of an alert, which neither open nor close it, and audit rows.

`dismissed` is not in the code. `closeAlert` asks neither what kind an alert is of
nor what is quarantined, and takes no `lockDeviceQuarantines`, though `alertClosing` says
of this kind that it closes when its events are released. So an event may be
quarantined without an open alert in two ways: somebody closed the alert
while it was quarantined, or while its quarantine, having found the alert open, had yet to commit;
of the second nobody who closed the alert knew. `dismissed` holds the events of
either kind until another alert of their installation opens, and `QuarantinedIsAlerted` says
that there are no others. A third order ends the run: the alert that excluded the insertion of
another is closed before it is looked for, `openAlertId` throws, and the job begins again
later (`LoseAlert`), the attempt not being counted.

### ChangeLogPull

The content of a row is its version. A page is read statement by statement, each
seeing what is committed by then, so that writers interleave with it:

| step | code |
|---|---|
| `Write`, `LogChanges`, `Commit`, `Rollback` | a transaction of `withPendingChanges`: rows first, under their locks, then `logChanges` under the log's lock |
| `BeginPage` | `loggedAfter`, of the register's audience; the cloud takes one change more than a page |
| `ReadRow`, `ReadParts` | the reads of `changesAfter`; a product is locked `for share` with its row and its barcodes and tags are read after it |
| `FinishPage` | the versions of removed rows, `pullPageOf`, and the commit with `recordObservedPull` |
| `StartPull`, `SavePage` | `catchUpWithCloud`, `savePage` |
| `NextRedelivery`, `SaveRedeliveredPage`, `FinishRedelivery`, `EndPull` | `redeliverPulledEntities`, after the pull caught up |
| `Stop` | a request fails, or the process ends, at any await; the request may still arrive (`HandleDelayed`) |
| `Upgrade` | the register starts with a version whose migrations add a column and declare redeliveries |

`Compound` are the rows read in several statements under a share lock (products,
branch settings), `Removable` those that `clearSampleData` deletes, `HeldBack`
those of `ENTITY_READABLE_SINCE`, `Widened` those whose table a migration gives a
column. `whole` is whether the copy has that column. Abstractions: one register,
whose branch and price list stay the same; the order in which a page's tables are
read is left open; a writer takes all its row locks in one step; the counts that a register's offline
point of sale is read with, in several statements and without a lock, are left
out: they may be newer than the row's version, and the change that made them so
follows. The comparison of the page with its cursor (`isPageAfter`) never fails here
and is a way to stop.

### FiscalLane

A document is a record of `fiscal_documents`, in the order of their ids; a number
of the series is its place in `arca`, the sequence of vouchers the tax authority
holds. The cloud's lane (`point-of-sale-lane-lock.ts`) does one work at a time;
what the code awaits inside it are steps of their own:

| step | code |
|---|---|
| `CompleteReserving`, `CompleteAside`, `CatchUp` | the path a sale takes (`saleAuthorizationPath`), the reservation of its number, the round of the deferred backlog |
| `ResolveCall`, `RestartRegister` | the call's answer or its absence, and the documents left requesting at a start |
| `StartAuthorize`, `NotAttempted`, `Solicit`, `FinishAuthorize` | `authorizeFiscalDocument`: recorded, not attempted, asked of the authority, answered |
| `AskOutcome` | the register asks what became of an unclear document; a request the cloud has never seen is recorded as abandoned |
| `SettlingDelayPasses`, `DecideStart`, `DecideVoucher`, `DecideLastAuthorized`, `DecideNoAnswer` | `decideUnclearRealTimeOutcome` and its job: the delay, then the two questions to the authority |
| `Diagnose`, `Reconcile` | the freeze after a numbering conflict, and the sweep that ends it |
| `Pull` | the point of sale's row reaches the register |
| `ArcaProcesses`, `InvoicedElsewhere` | the tax authority, which is not in the repository: what the code takes it for |
| `CallIsLost`, `SolicitationIsLost`, `LaneIsLost` | the network, the cloud's end, a broken lock |

`calls` are authorize requests that may arrive after the register gave them up,
`inflight` solicitations that the authority may process after the cloud gave them
up. `late` counts those that outlive the 60 seconds an outcome settles for.
Abstractions: a voucher is told from another by its amount alone, as the code
tells them by amount and date of one day; a configured branch has one point of
sale and one register that owns it. Left out: calendar days (so no conflict is
diagnosed as a date behind and no deferred sale expires), credit notes and their
jobs, alerts, the offline series beyond "the sale was invoiced there", the count
read when a point of sale is configured, and the sweep after a register is restored.

Two properties are conditioned, and the conditions say something of the code. A
solicitation processed after the delay finds its document released: the voucher
it makes matches the released document, `requestBehindVoucher` takes it for that
document's, and `Reconcile` passes over it without a task, while the sale, tried
again, is invoiced a second time. `InvoicedOnce` therefore speaks of the states
with no such solicitation (`late = 0`), and `CountedIsAccounted` has that voucher
as its third case, with vouchers of another program for the same amount.

### PaymentLane

One charge of one sale, by QR or at a terminal. A request of the register is an
activity (`charge`, `abandon`, `discovery`) that awaits a call and is then
answered; one it gave up may still travel (`late`). The cloud works on the
payment under an advisory lock of its session, the lane; a work is one step up
to its call to Mercado Pago (`creating`, `reading`, `cancelling`, `searching`)
and one after it:

| step | code |
|---|---|
| `Start`, `StartAnswered` | `startMercadoPagoCharge`, with its retries |
| `Follow`, `FollowAnswered`, `Abandon`, `AbandonAnswered` | `followMercadoPagoCharge`, `abandonMercadoPagoCharge`, with `Settle` and `Replace` |
| `Discover`, `ListPaidOrders`, `DiscoveryAnswered` | `discoverPaidOrdersWithoutSale` |
| `BeginCreate` to `OrderCreated`, `OrderNotCreated` or `CreationUnanswered` | `createMercadoPagoOrder`: that an order may exist is recorded before the call |
| `BeginRead`, `BeginCancel` to `OrderRead`, `CancellationAnswered` | `readMercadoPagoOrderPayment`, `cancelMercadoPagoOrder` |
| `BeginCheck`, `OrdersSearched` | `checkPendingMercadoPagoPayments`, `recordUnrecordedMercadoPagoOrder` |
| `TakeNotice`, `HandleNotice` | `confirmMercadoPagoOrderNotification`; an order nobody recorded is read before the lane is taken |
| `BeginRefund`, `ApplyReplaced`, `ApplyCompleted` | `openRegisterLatePaymentRefund`, and the two events of the charge |
| `ExpiryPasses`, `WaitElapses` | the order's expiry, the register's wait |
| `Ends`, `LateCreation` | Mercado Pago and its customers, which are not in the repository |
| `GiveUp`, `Restart`, `LaneLost`, `CreationUnanswered`, `OrderNotRead`, `CancellationUnanswered` | the faults |

`row.unknown` is that an order may exist which was not recorded; `lane.earlier`
what the work under way knows of the attempts before it. `refunds` holds 0 for a refund of the row's own
order and the number of any other that was refunded. Abstractions: EXPIRED,
DECLINED and CANCELLED are one state, an order is paid in full or not at all,
Mercado Pago repeats an order of the same idempotency key or makes the next one,
and one notification at a time is between its read and the lane. A
replacement that meets no row waits for it; the code counts attempts and quarantines it,
which leaves it waiting as long. Left out:
amounts and `needs_review`, the 72 hours after which a paid order is no longer
looked for, how an opened refund is sent, refunds of returned, voided and cancelled paid sales,
what the register records of paid orders it has no sale for, terminals and their
configuration.

Writing it showed three things that no property calls wrong:

- A charge may be paid when nothing takes the payment (`OutOfTime`): the wait of
  a QR charge is over, its sale was completed by other means, and the order is
  paid after that. The cloud's row is approved, the register's stays pending, a
  settlement is refused since the sale is closed, and a discovery answers that
  the charge is under way. `NoPaymentIsForgotten` names the case as its one exception.
- A terminal's charge whose start is answered with a refusal is closed at the
  register, also after an attempt that was not answered or an internal error of
  the cloud: an order may be on the terminal. `EndedAgreesWithCloud` is therefore
  about QR; the discovery finds a terminal's order once it is paid.
- `payment_provider_unavailable` is answered also when an order may have been
  created, though `cloud-client.ts:39` takes the cloud's refusals to prove that it did
  nothing. The retry that follows uses the same idempotency key and loses nothing.

## What is checked

Deadlock is checked in every run but `Outcomes`, which stops when its sales are
settled and its bounds used up: a push, a run of the task and the next start of a
register can always come.

| run | instance | shows |
|---|---|---|
| `TwoPushers` | 2 interchangeable pushers; attachments, crashes, late requests, pruning | what is acknowledged or pruned is held by the cloud; acknowledged rows come before the others; every step is a step of `EventLog` or none |
| `Rollback` | 1 pusher; the register's file goes back to a copy, with attachments, late requests, revocation and a minimum version | types; the hole-free inbox is one chain though two histories reach it; refusing a push loses no evidence and takes no applied event; only a rollback or a revocation condemns (with crashes or a restored cloud besides, that is the theorem's `Condemned`) |
| `Recovery` | 1 pusher; lost outbox rows, a restored cloud, crashes, pruning; fair | a lost row ends in the register stopping new sales; what a restored cloud forgot is sent again, or the register stops |
| `Delivery` | 1 pusher; attachments, late requests, pruning; fair | everything appended is received and known to be |
| `Overlapping` | 3 events of 1 installation, its clock set back, the sale depending on the session and attachable; 2 runs, 2 attempts, 1 release, a refused push | types; recorded once, in the installation's order and after its dependencies; an alert has its quarantine; attempts are spaced; every step is a step of `EventEffects` or none |
| `Settling` | 2 events, 2 runs with an allowance of 1, 1 release, 1 crash, alerts closed by hand; fair | every event is applied, set aside, or behind a quarantined one; a quarantine has its alert unless it was closed by hand |
| `Following` | 2 rows, one compound, removable and widened, one held back; 2 writers, pages of 1 change, 3 changes, 1 late request; fair | types; no committed change is skipped by a cursor; what the cloud takes for pulled is held; after its redelivery a row is whole; the replica ends like the rows; every step is a step of `FollowedRows` or none |
| `Outcomes` | 2 sales of different amounts, 2 documents, 1 restart or broken lane, 2 vouchers of another program, 1 late solicitation; fair | types; the series has no gap; no number and no sale is claimed twice; no sale is invoiced twice or forgotten; every step is a step of `FiscalVerdicts` or none; the count passes over nobody's voucher; every document and every freeze ends |
| `Charge` | 1 charge, 2 orders, 2 sends, 2 faults | types; no order is out of sight; nothing the sale holds is refunded; a QR charge ended at the register has ended at the cloud; no paid order is left to nobody; every step is a step of `OrderFates` or none |
| `CaughtUp`, `PruneAfterRollback`, `RecordedStaysHeld` | small | violations; see the findings |

Bounds. Three events (`MaxEvents = 3`) are the fewest with a hole that has an
event held on each side, a batch (`MaxBatch = 2`) that does not cover it, and two
histories that share a prefix and differ after it; the theorems below hold for any number.
One late request suffices to be overtaken and one attachment to make a hole. Two
pushers are what the code has: the sync cycle and the push before a shutdown for
a critical battery. Two runs are `WORKER_CONCURRENCY`. Two attempts tell the last
from the others, an allowance of one event tells a run that was cut
short from one that ended, one release and one crash are enough to meet every
other transaction at every step; where an alert may be closed, it may whenever it is open. Following a row takes
its insertion, a change and its removal (`MaxSeq = 3`), two writers to number in one order and
commit in the other, and pages of one change to stop between pages; the
proofs have pages of any size. `Overlapping` has no crash
and no closure of an alert (`Closable`), `Settling` has both: with them the first takes longer
than it shows; the theorems have any number of each. A document released and its sale's next one
are two documents, enough for a number to be used again; two vouchers of another
program can take both their numbers, one matching and one not. Two orders of a
charge are the fewest of which one is not recorded, two faults are an answer that
is lost and the loss of what would repair it, and two sends (of the code's
`MAX_ATTEMPTS`) one retry.

Fairness. Pushing: a push starts again and again (`WF ReadAndSend`: the sync
schedule repeats the cycle), and a request repeated for ever is at some time handled and
answered (`SF` of handling a push and of each step after its answer): a shop
whose network never works delivers nothing, and nothing is promised to it.
Applying: the crontab line enqueues a job every minute, retries come due,
transactions under way finish (`WF`), and a failure is not for ever made
obsolete by a second run that meets it at the same moment (`SF` of
`RecordRetry \/ BeginQuarantine`): jobs come a minute apart and hold an aggregate
for moments. Without it two runs could drop each other's failures for ever.
Pulling: a pull starts again and goes on until it ends or fails (`WF PullStep`);
`Convergence` promises nothing to a register whose pulls fail for ever, nor
while writers go on. The fiscal lane: something of what register, cloud and
authority do without a fault goes on happening (`WF Progress`): the jobs are
retried, the register asks again on its timer. Only an authority that leaves the
decision without an answer for ever is excluded, in the properties themselves
(`[]<><<DecideNoAnswer>>_vars`). The charge has no fairness and no liveness:
what it should in the end do is stated of each state instead, that something is
left that will take a paid order (`NoPaymentIsForgotten`).

### Findings

1. `CaughtUp`. The cloud notes an installation as caught up when it accepts an
   empty push; the comment on the port says that everything the installation held
   had been received by then. An event appended while the empty push travels was not.
2. `PruneAfterRollback`. The comment of the pruning says that only copies of what
   the inbox holds are removed. After the register's file went back to an older
   copy, an acknowledgement by number covers rows that the cloud holds as other events,
   and these can be pruned. The register learns that it is stale only from a push
   that overlaps.
3. `RecordedStaysHeld`. A refused push deletes the unapplied events beyond a
   hole; a run that is applying one of them commits its fact and marks no row.
The third needs an overlap of three transactions and is rare; the model shows that
nothing excludes it, not that it is likely.

## What is proved

TLAPS proves, for every number of events, pushers, runs, installations,
attempts, rows, writers, sales, documents, orders and faults, every page size and every choice of hazards:

| theorem | of |
|---|---|
| `OutboxPushProofs!TypeCorrect`, `Inductive` | `TypeOK`, `IInv` |
| `AcknowledgedHeld` | what is acknowledged or pruned is held, unless a database went back |
| `Condemned` | nobody is condemned without a reason |
| `OneHistory`, `AppliedHeld` | the hole-free inbox is one chain, applied events stay |
| `EvidenceKept` | refusing a push takes nothing that was applied, and what it takes it keeps |
| `AcknowledgedFirst` | acknowledged rows come before the others, in the register's outbox and in the copy of its file |
| `PushingImplementsEventLog` | every step is one of `EventLog` or none, if no database goes back and no outbox row is lost |
| `PruningRemovesOnlyCopies` | only copies of what the inbox holds are pruned, if no database goes back |
| `EventApplicationProofs!TypeCorrect`, `Inductive` | `TypeOK`, `IInv` |
| `RecordedOnce`, `DependenciesFirst` | recorded at most once, marked exactly when recorded, after its dependencies |
| `InOwnSequence` | an installation's order is kept |
| `QuarantineAlerted`, `AlertJustified` | a quarantine has its alert unless it was closed by hand, an alert its quarantine |
| `RetriesSpaced` | no attempt counts before its retry comes |
| `ApplyingImplementsEventEffects` | every step is one of `EventEffects` or none |
| `RecordedIsAccountedFor` | what recorded a fact is in the inbox, or among the events of a refused push |
| `RecordedStaysWithoutRefusals` | what recorded a fact stays in the inbox, if no push is refused |
| `ChangeLogPullProofs!TypeCorrect`, `Inductive` | `TypeOK`, `IInv` |
| `Complete`, `ObservedHeld` | no committed change is skipped, and what the cloud takes for pulled is in the replica |
| `OneVersion` | no row is torn |
| `FollowingImplementsFollowedRows` | every step is one of `FollowedRows` or none |
| `Redelivered` | rows in use have the new columns once redelivered |
| `FiscalLaneProofs!TypeCorrect`, `Inductive` | `TypeOK`, `IInv` |
| `NoGap`, `ClaimedByOne` | no number is reserved above a gap, none is claimed twice, nor a sale |
| `OneInvoice` | no sale has two invoices, unless a solicitation outlives the settling delay |
| `Agrees` | the register and the cloud agree on what is invoiced |
| `CountAccounted`, `NobodyLost` | every number counted is accounted for, no sale is forgotten |
| `AgreeingImplementsFiscalVerdicts` | every step is one of `FiscalVerdicts` or none |
| `PaymentLaneProofs!TypeCorrect`, `Inductive` | `TypeOK`, `IInv` |
| `OrdersInSight` | every order of a charge is recorded, or it is recorded that one may not be |
| `NotRefundedAsAnother` | the recorded order is not refunded as one that nobody recorded |
| `PaymentCustodyProofs!HeldIsKept` | a payment the register holds for its sale is not given back |
| `EndedIsEnded` | a QR charge the register took for ended has ended at the cloud |
| `PaidOrdersProofs!PaymentsInCare` | no order that the customer paid is left to nobody |
| `ChargingImplementsOrderFates` | every step is one of `OrderFates` or none |

Three theorems have a condition beside these: which hazards there are, or that no
installation pushes a broken chain. Where it fails the statement does too, as the
runs `PruneAfterRollback` and `RecordedStaysHeld` show of two of them.

The assumptions are the named ASSUMEs of the modules: bounds are naturals, most of them positive, hazards are known kinds, events and sales are finitely many, every sale has an amount, and no two events
of an installation have one sequence number (the unique index of the inbox).

The argument for `OutboxPush`. The invariants are not inductive: an answer that is
under way, a batch read before another pusher acted and a late request carry
facts about the past. `IInv` says of each what it still guarantees.
`EveryInboxIsOneChain` holds always and is about the backup as well, which the inbox may
become. Until a rollback, `Originals` says that every copy of an event anywhere
is the one numbered so; then a placement check never finds another event
(`NeverCondemned`). Until a rollback or a restore, `AcknowledgedReached` says
that every acknowledgement, given or under way, is below a hole-free prefix of
the inbox. Until a loss too, `NoGap` says that every batch under way continues that
prefix, so that no gap is ever answered. The lemmas they rest on are
`LeastNatural` of `LeastElements` (an induction by hand: the hole-free prefix exists) and
`ContiguousSpec`, which says what `Contiguous` chooses. `InOrder` says that no row is
acknowledged above one that is not; a rollback makes the copy of the register's file its
outbox, so `EveryOutboxInOrder` says it of the copy too, and of a resend that its
rows are all those above one number. `HistoryWithinHazards`, that only a hazard of the constant
ever happens, turns an "until" into an "if": under `NothingTakenBack` the facts above
hold for good, and `PushingImplementsEventLog` follows with three kinds of steps, an
event appended, events received, rows acknowledged (`OneThingAtATime`). It is also why
finding 2 needs a rollback: `PruningRemovesOnlyCopies`.

The argument for `EventApplication`. `Exclusion` says what the locks exclude;
`RunsKnowTheirEvents` that what a transaction read of its event stays true until
it commits, though other transactions commit meanwhile; `AttemptsLeft` that the
last attempt quarantines. `OwnSequenceKept` needs that the order the code sorts by
is total, so that an earliest event exists (`MinimalElement`, `EarliestSpec`), and
that it never puts an installation's later event first when both are there
(`OwnSequenceOrder`, from the running maxima of `Latest`); `RunsKeepOwnSequence` carries
it through a transaction. For the alerts it says of a transaction that found one open that
it is still open exactly if nobody closed it, since openings and releases wait for the
installation's lock and closures are on record. There is one lemma per action, `<Action>KeepsIInv`.
In `EventEffects` an event takes effect in one step, when its fact is recorded, or when it is
marked if it keeps none; that its installation's order and its dependencies are as they were when
they were read is what the invariant already says of a transaction under way. What it does
not say is where an event went: `MissingIsRefused` is about the refused pushes, and gives
`RecordedIsAccountedFor`, and `RecordedStaysWithoutRefusals` of the comment that finding 3 is about.

The argument for `ChangeLogPull`. `NothingSkipped` speaks of rows that were read a while
ago, so `IInv` follows a version from its reading to the replica. `Horizon`: a number
that the register or its page reached is never given to a change still to be committed, since
numbers are drawn under the log's lock and a page sees only what is committed. So a
row read later than that is as late as every change reached (`Fresh`), and stays so whatever
writers do, as their changes are numbered beyond; `Grows` is all that a writer's
step does to it. `PageRead`, `PartsRead` and `Answered` carry it through the page: what it
leaves out is after its cursor (`LeftOutMakesMore`, `CursorIsLast`), what it read in two
statements is one version as long as the row is locked. A deleted row stays deleted, so that a
removal may be read last. `Replicated` adds that the replica is never ahead of the
log and, for `RedeliveredIsWhole`, that all up to a redelivery's cursor is whole;
a redelivery ends on a page with nothing more, which then reached all the pull did (`Asked`).
For `FollowedRows` a copy must also never go back: `Forward` says that a change's version
exists and no number of a row is left out (`Gapless`), that a row that is gone has the change that
deleted it as its last (`DeletesRows`), and that a row removed from the replica was
removed for good (`RemovedForGood`), so that a page, a late one or a
redelivery either leaves a copy, renews it or removes it. Writers are `Commit`, pages `Follow`, what
the cloud notes `Claim`.

The argument for `FiscalLane`. Most of it is three facts. `Series`: the register
reserves a number only when the documents before have their outcome, so that at
most the last one waits for it and numbers only repeat where the earlier
document gave its number up; a taken number has its voucher (`Requests`), hence
`NoGap`. `Solicited`: a request is solicited once, whatever was retried, since it is
recorded before and a second call finds it recorded; so a voucher of a document is
the one at its number. `Voided`: a request that was rejected, released or found
conflicting has no voucher and none on its way, as long as no solicitation was
late. A sale whose document is not authorized may therefore be tried again
(`OneInvoice`). `Told`, `Replied` and `Decided` carry what the register is told from
the lane to the document, past restarts and answers to calls it gave up. `Accounts`
is `CountedIsAccounted` for the numbers below the documents' too, so that an
authorization may raise the count to its own number; a reconciliation raises
it to the last voucher, after the sweep from the count at the freeze
(`SweptIsAccounted`). There is one lemma per action, `<Action>Keeps`, over lemmas
of what a step to one request keeps (`RequestKeeps`, `RequestsKept`, `SolicitedKept`,
`VoidedKept`). In `FiscalVerdicts` the lane's decision is the verdict and the document's state what
the register knows of it: a decision is never changed, no state is written but from it,
and a reservation finds every document before with its outcome.

The argument for `PaymentLane`. `Holder` says what a work under way may rely on,
though an event that replaces the payment is applied outside the lane: a creation finds
its row waiting for an order, and that no earlier attempt made one unless it
knows that one may have. `Sight` adds to the two properties that a recorded
order and the notified ones exist, that no other order is refunded before one is
recorded, and that a creation nobody awaits was counted as a fault. Register steps touch neither
(`RegisterStepKeeps`); most steps of the cloud record nothing of another
order (`QuietStep`); the creations, the search and the notification of an
unrecorded order do and have their proofs in full.

`PaymentCustodyProofs` adds who may give a payment back. A payment is refunded
only if it was replaced or its sale was charged otherwise, and each excludes that
the register holds it (`Custody`). That needs `Answers`: an answer reaches the
register after the lane is free again and other works have held it, and holds
still because the cloud's row ends only once; and `Awaited`: the work in the lane
is the one its caller waits for. `PaidOrdersProofs` adds where a paid order is:
refunded or still notified while it is not recorded (`Noticed`), and in the row that ended
as the order did once it is (`RowTrue`); `Kept` relates that row to the register, so that one
of the two settles or refunds it. It relies on an order
that was paid or closed staying so, as `PaymentLane` models Mercado Pago.
For `OrderFates` it remains that an order refunded as another was paid (`RefundsPaid`) and
that a recorded order stays the recorded one (`MayGiveBack`, of every step that is not the
register's); then each order is given back at most once (`OnceEach`), and the register keeps the
payment only of an order that was paid, since what it is told of the row is what the row ended as.

Every invariant and every refinement that a passing run checks is proved. Three
invariants are proved and not listed by a run, since a refinement that the run checks
implies them: `RegisterAgrees` (`FiscalVerdicts`), `NotTorn` (`FollowedRows`),
`RefundedOnce` (`OrderFates`); `AppliedStaysHeld` is part of `SetAsideIsKept`.

Only model-checked is the liveness: `EverythingConfirmed`, `LossIsDetected`,
`CloudLossIsRepaired`, `EverythingSettles`, `Convergence`, `EveryDocumentSettles`,
`FreezeEnds`. Their proofs need that a step is enabled under fairness, which the prover
does not support.

## Plan

In this order, the first five being done:

1. `OutboxPush` with `EventLog`.
2. `EventApplication`.
3. `ChangeLogPull`.
4. `FiscalLane`. To extend: calendar days with the expiry of deferred sales,
   credit notes in the same lane, the sweep after a register is restored.
5. `PaymentLane`. To extend: the sending of an opened refund, whose answer may be
   lost, and the refunds of returns.
6. `SyncSchedule`: one cycle at a time, a request always followed by a cycle.
7. Device adoption and rescued events: a second device id, whose adoption resets
   the cursor of `ChangeLogPull` and the chain of `OutboxPush` while answers to
   the former one are under way, and events stored without their chain.
8. `RestoreReplenishment`: pages applied and interrupted, events of the
   predecessor still arriving.
9. The request limiter, and the attempts of a sign-in.
10. An abstract specification of each component, implemented by it and proved so step by
    step: done for the five there are.

## What is not modelled, and why

What is left of the inventory is either planned above or of one of three kinds.
Operations of one SQLite or PostgreSQL transaction on rows nobody else writes
(sales, cash sessions, purchasing, catalog): a unit test reaches what can go wrong
in them; their arithmetic may become pure operators. Long sequential jobs (the
fortnight reports, backups): their restarts matter more than their interleavings.
Screens, validation and formatting: no state of the system's own.
