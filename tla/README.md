# A specification of the hom-swag reporting service

The service keeps an earnings ledger for beauticians and riders: it turns
order and trip snapshots into ledger rows, lets admins pay them out, adjust
them and close periods, rebuilds the ledger on request, and produces reports.
This directory models the parts that keep state and can go wrong: TLA+ modules,
TLC configurations, and proofs for TLAPS.

Amounts are integer paise in the code and integers here. The office is a
parameter of every query of `repository.go`; the modules model one office.

## Inventory

| Part | State | Operations | What makes it correct |
|---|---|---|---|
| Settlement allocation (`repository.go`, `buildAllocations`) | none | two loops over the pending rows | shares add up to the request, deductions first, no row twice |
| Settlements and ledger rows (`repository.go`) | `earnings_ledger`, `earnings_settlements` | `PutSourceEntry`, `CreateAdjustment`, `AllocateSettlement`, `UpdateSettlement` | rows and settlements agree; paid rows are immutable; a repeated request changes nothing |
| Settlement transactions | sessions, retries | `runAtomicWrite`, compare-and-set updates | a transaction that conflicts, is run again or aborts is one step or none |
| Admin control plane (`http.go`) | `earning_periods`, `earnings_rebuild_jobs`, `earnings_modes` | adjustments, payouts, edits, closing, rebuild requests, mode changes | nothing gets into a period known to be closed; payouts, closings and promotions avoid known rebuilds |
| Rebuild queue and processor (`rebuild.go`, ticker in `main.go`) | job status, counters | claim, materialize, finish | one instance per job; completion means every row was written; jobs end |
| Source events (`source_events.go`, `source_event_worker.go`) | Kafka offset | process, retry, dead letter, commit | no event is lost; the month of an order is complete; rows follow their sources; the queue drains |
| Order issues, trip issues (`order_issues*.go`, `trip_issues*.go`) | issue documents, orders, trips | scan, upsert, recheck, accept, align, rebuild a snapshot | one correction per issue, on record; a scan recreates the index; a repair settles what the trip is worth |
| Reconciliation (`reconciliation.go`) | none | compare sources with the ledger | agrees with what a rebuild writes; ready means the reports stay as they are |
| Leaderboard (`leaderboard/`) | none | rank, award prizes | deterministic ranks, the same prizes wherever they are shown |
| Report jobs (`jobs/worker.go`, `kafka/`, `reports/projection.go`) | job status events, temporary file | fetch, commit, run, upload, report | a job ends in one final status; a completed one has its whole file, without columns the requester may not see |
| Commission, rider and petrol reports (`reports/static/`) | none | aggregations over documents or ledger, by mode | a verified promotion changes no amount |
| Other reports, rendering, MinIO, auth, configuration | none | queries, files, tokens | read-only or pure I/O |

The parts meet in the database. The control plane, the rebuild processor and
the source-event worker write the ledger; payouts change the rows they wrote;
rebuild jobs and closed periods refuse calls; the mode decides what the reports
read. Several instances of the service share the database. Calls are sequences
of single-document commands, except payouts and their edits, which are
transactions (`runAtomicWrite`), unless
`EARNINGS_ALLOW_NON_TRANSACTIONAL_WRITES` is set.

Hard to test: the steps of two calls, or of a call and a rebuild, in an
unlucky order; retries of calls whose answer was lost; instances that stop
between two commands; edits of payouts after the rows changed; deductions.
`PROJECT.json` lists each such hazard with its line.

## Modules

- `Sums`, `Allocation` - totals, and what `buildAllocations` returns, in closed
  form: a deduction receives its outstanding amount; a credit receives what the
  request, raised by the deductions, still owes after the credits sorted before
  it. The query's sort order is `Precedes`.
- `AllocationLoop` - the two loops, one iteration per action, for the same
  rows; checked and proved to compute the closed form.
- `Payouts` - the abstract ledger: what callers are promised of rows and
  settlements, without saying how a payout is divided. A settlement appears
  together with the rows it pays, an edit with its reversal and its audit
  record, and rows nobody paid may be rewritten. It models no code.
- `Settlements` - the ledger and the settlements. A row's position is its
  `_id`. `PutSourceEntry` is two commands in the code and two actions here:
  the upsert (`InsertSourceEntry`, or `FindStaleEntry` when it returned an open
  row with other contents) and the conditional update (`RefreshSourceEntry`).
  A decided refresh waits in `refreshes`, and payouts may come first.
  A transaction is one action. Refusals leave the state alone and have no
  action of their own. `ImplementsPayouts` is the refinement of `Payouts`.
- `SettlementTxn` - the transactions of `Settlements` taken apart: the
  callback fixes a snapshot, updates one row after the other, stores the
  settlement and commits; a conflict with another transaction or with a single
  command makes `WithTransaction` run it again. What has not been committed is
  seen by nobody. `ImplementsPayouts` says that all of this is one step.
- `EarningsControl` - the calls of `http.go`, one action per database command,
  for clients that overlap in time; the rebuild queue with one ticker per
  instance; closed periods; the mode. `Abandon` is any error on the way. What a
  call could know of closed periods and of the queue when it came, or when it
  looked, is part of its record in `calls` (`closed`, `queued`), and what the
  requests of a job or a period could know stays in `closedBefore` and
  `queuedBefore`. The code keeps none of this, and no guard reads it.
- `SourceEvents` - from orders and trips to rows: the consumer of one partition
  each, from fetch to commit, with one action per load, put, dead letter and
  commit, and the rebuild processor, which loads sources and puts rows later.
  Sources go through the states of `History`; an event names a source, a date
  and a version. An order's rows are what it earns itself (`own`: special and
  upgrade commission), general commission, which depends on the revenue of the
  month, and the bonus of the month. `Dependent` is what an event puts for other
  orders. Both commands of `PutSourceEntry` are one step here. Rebuilds and
  payouts appear only as far as they meet the consumer's rows. `overtaken`, which
  only a property reads, has the rows that were last put by a rebuild, or by the
  consumer of another partition, with a source in an earlier state.
- `OrderIssues` - detection, scans and actions on order issues, one database
  command per action. An issue is identified by order and type. `client` keeps
  what a handler carries from one command to the next, which may be stale;
  `alone` remembers whether it has been alone since it started, so that
  properties can speak of a handler that ran by itself, and `cut` the issues whose
  correction was written by a handler that failed before it could record it
  (`wrote` tells it from a handler that found the correction there). Amounts are
  integers, a missing or unusable total is `NoTotal`.
- `TripPayables` - what a trip pays, by the three rules the code has: the one
  of trip issues and repairs, the one of the ledger, and the aggregation
  expressions of the reports, rounding included.
- `TripIssues` - the same as `OrderIssues` for trips, with the repair of
  payable snapshots and the source events that are on their way meanwhile.
- `ReportJobs` - a report request from Kafka to its last status event: offsets,
  a goroutine per request, the stages of `ProcessJob` and their error paths, the
  projection of columns, the object store, the dead-letter topic, stops and
  restarts.
- `Leaderboard` - ranks, ties, prizes per gender, and the public board of the
  riders, as functions.
- `Cutover` - the documents of an office and everything that turns them into
  pay: the rows of a rebuild, what reconciliation expects, what the commission,
  rider and petrol reports say in either mode, and the change of the mode. A
  rebuild and a report are one step each. `SourceDoc` is what documents look
  like: `OrderDoc`, `TripDoc` and `OfficeDoc` name the fields the code reads.
- `MC...` - the instances TLC checks; `..._proofs` - theorems.

`Settlements` refines `Payouts`, and `SettlementTxn` extends `Settlements`: it
keeps its single commands and its state and replaces the one-step payouts.
`TripIssues` and `Leaderboard` extend `TripPayables`, and `Cutover` extends
`Leaderboard`. `EarningsControl` and `SourceEvents` have the interleavings of
what `Cutover` does in one step.

Each module states its types as `TypeOK`. The runs check what could go wrong
instead; `Settlements`, `SettlementTxn`, `EarningsControl`, `SourceEvents`,
`ReportJobs` and `Cutover` have their types as theorems, the others as part of
their invariants.

## Runs

| Run | Shows | Bounds |
|---|---|---|
| `settlements` | every property of `Settlements`, and that it implements `Payouts` | 3 ledger keys (one source with 4 variants: amount and date, worker, already paid), one deduction, 2 payout keys, amounts 1 to 4, one edit each |
| `settlement_txn` | transactions implement `Payouts`, whatever conflicts | two requests at once, two payout keys, an order that moves to another worker, a second order, a deduction, one edit, one retry each |
| `allocation_loop` | loops and closed form agree | all ledgers of up to 3 rows with amounts -1 to 2, all selections, requests 1 to 5 |
| `control` | one instance per job, honest completion, every queued job ends | two clients that queue rebuilds, two instances, two overlapping jobs, two source rows, one bonus per month |
| `control_calls` | what the handlers' checks guarantee of requests that overlap | two clients, all operations, two instances, one job, two mode changes, one edit of a payout, one stop |
| `events` | no committed event is lost, months are complete, amounts follow the sources | two consumers, two orders of one month (one changes), one fault, one closing, payouts |
| `events_serial` | rows converge to the sources, the partition is processed to its end | one consumer, an order that changes, a trip, a rebuild of either day, one closing, one fault, payouts |
| `order_issues` | one correction per issue and on record, the index is recreated | two admins, one order with two initial documents, 4 requests, one edit out of 6, one fault, two ranges |
| `order_issues_again` | violation, see below | the same |
| `trip_issues` | paid snapshots stay, repairs settle, the index is recreated | two admins, one trip with three initial snapshots, 3 requests, one edit out of 3, one fault |
| `report_jobs` | whole files, hidden columns, one ending, every request answered | two messages out of 7, two faults, one stop |
| `cutover` | rebuild, reconciliation, reports and board agree | two beauticians, two riders, two orders, two trips, two months of two days, three ranges, four rebuild jobs; one edit out of 11 orders, 9 trips, profiles, offices and boards, two rebuilds, one payment |

In `events` the two orders reach the targets only together, so each may be the
one that makes the other's commission due, and the first order's second state
crosses the second target.

The bounds are small because the interesting cases need few parties: a row, a
deduction and a second row make every order of allocation; two settlements over
overlapping ranges share rows; two clients and two jobs are enough for each
race; a third request on an issue is the one that finds it closed or reopened.
A source that moves to another worker, date or amount, or arrives paid,
is among the sources of `settlements`. The edits of `order_issues` exceed the
total, complete it with the tip apart, change or lose the total, move the order
out of the range and delete it. The documents of `cutover` have snapshots that
are missing, incomplete or paid, complaints, refunds, both genders, deleted
profiles, prizes per gender and rates that round. Deadlock is not checked in
most runs: the models stop when keys and bounds are used up, as an idle service
does.

The clients of `order_issues` and `trip_issues`, the clients and instances of
`control_calls` and the sessions of `settlement_txn` are interchangeable, and these runs, which check no liveness,
use that as symmetry.

## Properties with a premise

Some properties hold under a premise that no handler enforces, and the premise
is as much a result as the property.

- "by itself" (`ScanRecreatesIndex`, `AcceptedVarianceStands`,
  `AlignmentReconciles`, `RepairSettlesTrip`): nothing locks, so a handler that
  meets another one may write what was true before. What matters is that the
  next undisturbed scan repairs everything earlier interleavings and faults left.
- `PeriodsSealed`, `WritesAvoidRebuilds`: a handler looks and writes in separate
  commands, so nothing holds of what another request does in between. What the
  check is worth is that everything the call could know of when it came, or when
  it looked, is out of its way until it writes, over all interleavings: a closed
  period stays closed, and a rebuild that has ended does not run again. A rebuild
  writes into a closed period only if the two requests crossed, each looking
  before the other wrote. The promises of the documents go further and do not hold
  (see below).
- `RowsFollowSources` excuses the rows in `overtaken`: nothing in the code orders
  the writes of a rebuild, or of a consumer that loads the orders of a month for
  another partition, after those of the source's own consumer. It does not excuse
  that consumer, nor a row that was put again since.
- `AdjustmentsAudited` excuses a correction whose own handler was cut off between
  writing and recording it, and no other.
- `CutoverKeepsCommissions`, `CutoverKeepsPayables`, `CutoverKeepsPetrol`: each
  part of `PlainBeautician` and `PlainTrip`, the range within a month, and the
  exclusion of workers without a line in the shadow report was found necessary
  by dropping it. A verified promotion does change the reported amount
  - of a deleted beautician (target 0 in the ledger, the profile's in the report);
  - when a snapshot has no usable component or cost (the month counts as
    unusable, while the report falls back to other fields);
  - when complaint orders decide whether the first target is reached, or a
    complaint deducts general commission that was never a row;
  - for a range over two months (the report uses the last month's target for
    every order, the ledger each order's month);
  - of trips with a snapshot rate other than 1, a zero override, rates taken from
    the office, or an amount that ends in a half (`$round` rounds to even);
  - of workers with a bonus and no order, who only join the report.

  The petrol report shows a distance besides the amount. Reconciliation compares
  totals per worker, so rows of trips that were edited, or that somebody else
  made since, may add up to the right amount, and the report then shows the
  distance of the trips of these rows. `CutoverKeepsPetrol` therefore promises
  the distance only if the rows are those of the worker's trips. One edit does not
  show this, two do: the proof of the unrestricted property failed there, and
  TLC found the history with `MaxEdits = 2`.

## Fairness

For the end of rebuild jobs,
`EarningsControl!Fairness` says that an instance that can take a step of its
ticker loop eventually does: the ticker fires every two seconds and a command
returns or fails. Nothing is assumed of clients, and nothing of an instance that stops.
For `EventsDrain`,
`SourceEvents!Fairness` says that each partition has a consumer that goes on
(its loop never returns while the service runs, and another instance takes over
when it stops), and that the state an event announces becomes visible: the
README of the service asks producers to write both in one transaction. For
`JobsAnswered`, `ReportJobs!Fairness` says that the read loop and every
goroutine go on while the process is up; nothing is assumed of restarts, and a
fault or a stop ends what is promised.

## Where the code and its documents disagree

`order_issues_again` shows this one: an issue keeps its id for good, and the
entry an alignment pushes carries that id. When an order that was aligned once
stops to reconcile, its issue is reopened; aligning it again finds the first
entry, writes nothing, and still closes the issue with a recorded adjustment.
The README of the service says that the entry makes later reports reflect the
audited correction.

The models contain the following too; they have no run of their own.

Settlements and control (the first is seen when `JobsEnd` is checked with a stop):

- A rebuild whose instance stops, or whose end cannot be recorded, stays
  `running`: nothing claims it again, and payouts and closing are refused for
  its range from then on (`JobsEnd`).
- A check whose write comes in a later command. A period that closes after
  `createAdjustment` looked gets the back-dated adjustment, which a closed period
  is said to reject; a rebuild queued after `createSettlement` looked does not stop
  the payout, although settlement creation is said to reject active rebuild
  ranges, and a promotion misses it in the same way. Two promotions at once both
  record the mode they read, so the history has a change from a mode the office
  was no longer in, where every change is said to store the previous mode.
  Properties that state these promises without a premise fail in the instance of
  `control_calls`.
- A payout that selects rows (`entry_ids`) does not consume the deductions of
  its range, although `AllocateSettlement` says that a partial payout never
  leaves a negative payable (`NoDebtAfterPayout` leaves such payouts out).

Source events:

- The event of an order whose new state is not visible yet is a dead letter
  when the visible state has another date or is not completed: date and state
  are judged before the version. The README of the service says such events
  are retried, and stale ones, which meet the same checks, are ignored.
- A rebuild that loaded an order before it changed can write the old amount
  over the one the event put, and so can the consumer of another partition that
  loaded the order with its month (the rows `RowsFollowSources` excuses;
  with `overtaken = {}` as an invariant TLC shows one in both runs).
- Source events write into closed periods: the check is for the event's own
  date, before the writes. A period may close in between, and general
  commission of earlier orders of the month is written without a check.
- An event delivered again after its row was paid is a dead letter although
  nothing differs but the payment.
- The repair of a trip's snapshot renews `captured_at` and announces nothing:
  events on their way are stale, and the ledger keeps the old amounts until a
  rebuild (`RowsFollowSnapshots` leaves repaired trips out).

Rebuild, reconciliation and reports:

- A worker who falls out of the prizes keeps the award row of the earlier
  rebuild (a bonus of zero is not put), as does an order that is cancelled or
  earns nothing any more; reconciliation reports both and nothing removes them.
- An order without beautician becomes rows of a worker without identity, while
  reconciliation counts its snapshot as missing.
- The rider report of an authoritative office ranks everybody in one group,
  because its rows carry no gender; filtered by staff it ranks by gender, and
  may list rows of others.
- A limit is applied before the ranks are formed.
- The total commission of an authoritative rider is not rounded.
- The petrol report of an authoritative office loses the distance of trips that
  pay no petrol; that of a shadow office ignores the error of its cursor.
- `commission_applicable_from` is compared as an instant for the boards and as
  a date for orders.
- The public board counts orders and rider ids, the awards the `leaderboards`
  collection and the worker who gets the allowance.

Report jobs:

- `ReadMessage` commits an offset before the job runs, so that a stop loses the
  job, whose status stays PROCESSING; an error of that commit drops the message.
- `staff_summary` ignores the errors of `WriteRow`, of its counts and of the
  cursor, and completes with rows missing (`SilentReport`).
- The error of the dead-letter send is ignored.
- Status events are spread over partitions by load, not by job.

## Proofs

Eight modules hold proofs: `Allocation_proofs` about operators, and one module
for each of seven components; the loops of `buildAllocations` are the last part
of `Settlements_proofs`. The theorems hold for every ledger and every number of clients,
instances, consumers, rows, documents, messages and faults: the bounds of the runs are
constants that the proofs leave open. What they assume of the constants is in
the `ConstantsAssumption` of each module (`LoopAssumption` in `AllocationLoop`;
`SessionAssumption` in `SettlementTxn`; `RequestAssumption`, `ColumnsAssumption`
and `NoneAssumption` in `ReportJobs`; `CutoverAssumption` and
`CutoverDocuments` in `Cutover`): which requests the handlers let through, that amounts of sources are not
negative, that days are counted from 1, that the columns of a report have
different keys, that documents have the fields the code reads and are finitely
many, that nobody is both a beautician and a rider. TLC evaluates
them on every run.

No property is inductive by itself; this is what each invariant adds.

`Settlements_proofs`: all properties of the run, the types, and the refinement
of `Payouts`. `IInv` adds that

- a share consumes a deduction in full or is a positive part of a credit
  (`Fits`): otherwise a reversal could leave a row with a settled amount of the
  wrong sign;
- every refresh in flight concerns a row that exists and has its source's key,
  so that rewriting the row keeps keys unique.

`Good(ledger, settlements)` collects what both halves of an edit keep, so that
`EditAmountOf` is proved as a reversal (`ReverseGood`) followed by an
allocation (`AddGood`), and `AllocateSettlement` as an allocation to a new
settlement without shares. Conservation (a row's settled amount is what the
settlements paid on it) needs the sums of `Allocation_proofs`: changing one entry of
a list changes its total by the difference. `SettlementsBalance` rests on
`SharesAddUp` of `Allocation_proofs`: the shares `BuildAllocations` hands out
add up to the request whenever `CanAllocate` holds. Its argument goes over
initial segments of the credits in query order (`SharesOfFirst`): such a segment
receives the smaller of what it owes and what is payable. A largest element of a
finite set takes the place of induction over the rows. `NoDebtAfterPayout` is
proved from `DeductionsConsumed`, and `PaidRowsImmutable` from the guards of the
conditional update. `RefinesPayouts` maps every step to one of `Payouts` or a
stutter; that an allocation changes only rows in scope, and never one it does
not pay, comes from the same lemmas.

The second part of that module proves that `SettlementTxn`, where a payout or an
edit is a transaction of many steps, implements `Payouts` too
(`TxnRefinesPayouts`), for any number of requests at once. `TxnInv` adds to
`IInv` what an open transaction knows: its snapshot is still the ledger but for
the rows it was told of (`SnapshotHolds`); it has updated none of these, and
every row with a share is updated or still to be (`Reaches`); what it will store
was handed out over that snapshot, and as long as nobody else wrote its key, the
settlement is still the one it read (`Planned`); no two transactions update the
same row or store the same key (`Apart`). So when it commits, the rows it writes
are those it read, `Merged` is the allocation over the ledger of that moment
(`PayoutMerges`, `EditMerges`), and the shares can be paid from it
(`SharesStillOut`): the lemmas on `AllocateSettlement` and `EditAmountOf` apply.
This is a proof about the write conflicts as `RowConflict` and `DocConflict`
model them; that the database detects them is assumed. Rows that were appended
after the snapshot do not conflict and do not matter to `Payouts`. They are why
`NoDebtAfterPayout` is a property of `Settlements` only.

The loops of `buildAllocations`: `LoopInv` says what the loops have done with the
entries before the current one. The first has handed out the deductions among
them, the second the credits, each with its share of the closed form, and what
remains is the payable amount less what the credits seen owe, or nothing. So
`LoopsAgree` carries `SharesAddUp` over to the loops: `Result` refuses exactly
when `CanAllocate` does not hold.

`EarningsControl_proofs`: `IInv` says what each instance knows of the job it
works on (`WorkOK`: it is running, no other instance has it, the rows up to its
counter are written) and what each call carries (`CallOK`). Exclusive claims,
honest completion and jobs that only move forward hold for any number of calls.
`PeriodsSealed` and `WritesAvoidRebuilds` take `SealInv`: the range of a call is
clear of what it found when it looked, wherever the call is since (`CallClear`),
every job is clear of the periods its request found, and every period of the
jobs its request found (`JobsClear`, `PeriodsClear`). It is kept because a period
is never reopened, a job never starts again (`StaysClear`, from jobs moving
forward) and a payout keeps its key and range (`PayoutsKept`), so that an edit
writes to the range it checked. A job that writes into a period overlaps it, so
neither request can have found the other.

`SourceEvents_proofs`: `ProgressOK` says what an event in hand has achieved, and
`CommittedFine` that a committed one is stale, was refused or has its rows.
Versions, dead letters and the keys of the ledger only grow (`Grows`), which is
why nobody else undoes it. For months this is not enough: the commission of an
order is put by the event of another one. `MonthInv` speaks of every set `S` of
orders whose newest events passed the checks: what `S` is due by itself, whatever
other orders there are, is in the ledger or still to be put by the consumer that
handles a member of `S` for the first time. The last of `S` to have its month
loaded saw all of `S`, and orders that were loaded with it only add to the
revenue (`OwedRows`, `TotalMonotone`). `MonthsComplete` takes `S` to be the
counted orders of a month. TLC checked `MonthInv` on the constants of `events`,
also with orders before `EligibleFrom`.

`RowsFollow` says more than that rows are there: they have the amounts of their
sources, for any partitioning and any rebuilds, unless they were paid or are
`overtaken`. `AmountInv` says that a row in hand is up to date once the newest
event of its source passed, if the consumer is the source's own (`HandFollows`),
and that what handled sources are due is in the ledger as it should be, was paid,
was last put by another writer from an old source, or is still to be put
(`RowsKept`). Which steps let a source through, and which rows stop waiting, is
stated once (`Steady`) and used for both months and amounts.

`OrderIssues_proofs` and `TripIssues_proofs`: `IInv`, and `HandlersInv` with
`SourcesInv`, hold however handlers interleave: the corrections of an order are
known to an issue or to the handler still at it, but for the one a handler wrote
and was cut off with, and the newest event of a trip
is on its way when its rows do not say what its snapshot is worth. `AloneInv`
says what a handler that ran by itself knows: what it read is still so, and a
scan has reported all it found but what it has yet to write. The conclusions on
scans, repairs and accepted variances follow from it.

What an alignment does to the amounts is proved apart, in `CorrectionReconciles`:
an entry of the missing amount, whatever its sign, makes what was received equal
to what is expected, be the tips inside the payments or apart from them
(`NearestReceived`). For this the totals of a payment history must grow by what
is appended (`CountedOfAppended`, `TipsOfAppended`, from the sums of
`Allocation_proofs`), and amounts must be integers wherever they are kept
(`AmountsInv`, which also gives the types). `AlignInv` adds that the correction
an undisturbed handler is about to write is what its order lacks.

`ReportJobs_proofs`: `MessageOK` says for each message, by the stage of its
goroutine, what its events and its file are; `Offsets` which messages were never
read. A file is written from the rows and the columns of its own request, so
what is stored is whole and projected whatever ran at the same time.

`Cutover_proofs`: the calculations of pay that exist two or three times over
agree for every set of documents and every history. The argument has four parts.

- Sums. `SumOver` adds up what a finite set of orders, trips, rows or awards is
  worth. It is a fold of the community modules, and the first part derives from
  their definition that sums exist (`RunningExists`), do not depend on the order
  of the elements, and add up over disjoint sets and over functions (`OverAny`,
  `OverUnion`, `OverAdd`, `OverRenamed`). A smallest counterexample among the
  subsets of a finite set takes the place of induction.
- Entries. `ReconcilerAgrees` compares the entries of a full rebuild from nothing
  with the amounts that are expected, source by source: each entry has a key of
  its own, an amount that no entry is put for is zero, and general commission,
  revenue and awards are decided alike. `BoardAgrees` shows that the public board
  and the awards rank the same scores when riders drive all trips.
- The ledger. `LedgerInv` says that every row, whatever was edited, rebuilt and
  paid since, has the shape the rebuild gave it (`RowOK`): its key says what it is
  paid for, its day lies in the month or the period of its key, its worker is of
  its type, its amount is positive. Without it nothing says that the report,
  which selects rows by what they are, sees the same rows as the reconciliation.
- Totals. A promotion needs `Ready`, so for each worker and component the rows add
  up to what the documents give (`ReadyTotals`); the rows may still be other rows,
  which is why all three proofs go through totals and why the distance of the
  petrol report needs a premise. `CommissionsKeep` adds that what is
  deducted for complaints in the authoritative report is what the shadow report
  leaves out (`NetComponent`), and that report and ledger agree on the targets of
  a plain beautician (`RevenueAgrees`, `GeneralKept`). `PayablesKeep` and
  `PetrolKeeps` add that ledger and reports give a plain trip the same amount.

Only model-checked is liveness (`JobsEnd`, `EventsDrain`, `JobsAnswered`), which
the provers do not handle.

## Not modelled, and the plan

Left out of modelled parts:

- settlements: the mode without transactions, an option for development
  databases that promises nothing; the answer of a request whose transaction was
  run again (`stored` and `created` are not reset between the runs);
- `SourceEvents`: leaderboard awards, rows a source no longer earns (the code
  never voids them), and a consumer that goes on with a message after its
  partition was assigned to another instance;
- trip issues: the search for another worker with the same employee code, which
  only fills in details;
- report jobs: a limit on goroutines (there is none), panics, the order of the
  columns;
- reports: columns other than the amounts, filters by staff, limits;
- leaderboard: the public board of the beauticians, the view of one worker.

Not modelled: Daily Sales, customer, product, COD and staff reports (read-only
aggregation pipelines the database evaluates, which do not touch the ledger),
layout of files, authentication (a stateless check every modelled call has
passed), configuration, tracing, and the read-only queries of `report_detail.go`
and the field handlers.

What is left: Daily Sales, as far as it includes reconciliation entries; and,
once the code orders the writes of rebuilds and of consumers that share a month,
or looks again when it writes, the properties without what they excuse.
