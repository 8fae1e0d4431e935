# Rijeka: a verification project

Rijeka is a desk for over-the-counter derivatives: a FastAPI backend on
PostgreSQL, a React frontend, and a Solidity registry on which two firms record
the trades they agree on. The specifications here model the parts of it where
several actors share state: the registry contract, the confirmation of a trade
on the chain and its amendment and termination, the desk's own booking and event
streams, the cards on which two firms confirm and book one trade, the caps on
the relayer, the closing of a day, and the queue of background runs; and one
pure algorithm, the coupon schedule. They are TLA+
modules, checked by TLC on small instances and, where section 4 says so, proved
with TLAPS for every value of their constants.

Paths below are relative to the repository (`backend/...`, `chain/...`).

## 1. Inventory

| Component | State | Operations | Talks to | Hard parts |
|---|---|---|---|---|
| On-chain registry, `chain/src/TradeConfirmationRegistry.sol` | one record per trade hash: parties, predecessor, status | `confirm`, `amend`, `terminate`, callable by anyone with both signatures | the relayer | signatures never expire and calls come in any order |
| Relayer, `backend/chain/attestation.py` | send lock, the node's pool | `confirm`, `amend`, `terminate`, `tx_state`, `get` | registry, node, fallback node | late, reverted and forgotten transactions; used nonces |
| Pending anchors, `backend/chain/pending.py` | table `pending_anchors`, one open row per trade | `record`, `resolve`, `reconcile_trade`, `reconcile_pending` | relayer, lifecycle | several reconcilers on one row; failed commits; rows that never close |
| Chain routes, `backend/api/routes/chain.py` | sessions of request threads | `request`, `confirm`, `countersign`, `reconcile`, `amend`, `terminate`, `verify` | all of the above | state read before a 25 second wait and used after it |
| Lifecycle guard, `backend/chain/lifecycle.py` | none, reads `trade_events` | `anchored_attestation`, `refuse_offchain_mutation` | every route that edits a trade | checked in one transaction, relied on in another |
| Trade events, `backend/api/routes/trade_events.py` | `trades.status`, `trade_events` | `confirm`, `cancel`, `append` | projection | status overwritten, event numbers drawn twice |
| Booking and edits, `booking.py`, `trades.py`, `trade_legs.py`, `cashflows.py` | `trades`, `trade_legs`, `cashflows`, `idempotency_keys` | atomic booking, PUT of trade and leg, added legs | lifecycle guard | edits against signatures in flight |
| Projection, `backend/projections/trade_projection.py` | none | fold of an event stream | trade events | streams that cannot be folded any more |
| Relayer budget, `backend/chain/budget.py` | attempts of the last day, table or memory | `charge` | chain routes | the lock is lost on the fallback |
| Trade cards and chat, `trade_cards.py`, `chat.py`, `telegram.py` | cards in rooms, the trades of both firms | send, share, countersign, book or link the other side | booking, chain routes | what one firm's request loaded and the other's changes; UTIs drawn twice; one side booked twice |
| Job queue, `backend/jobs/queue.py` | table `jobs` | `enqueue`, `claim`, `finish`, `fail`, `latest`, `requeue_stale` | routes, workers | workers that die, overrun or restart |
| Worker, `backend/worker.py` | the job in hand | claim, run, record | job queue | as above |
| Run routes, `ccr.py`, `ipv.py`, `capital.py`, `risk.py` | none with a worker | start a run unless one is in progress | job queue | check and enqueue are two steps |
| Scheduler, `backend/scheduler.py` | last run of each group | a cycle a minute, release sync | pending anchors and the daily batches | two drivers of one batch, and of the branch `release` |
| P&L sign-off, `backend/pnl/report.py`, `routes/pnl.py` | `pnl_daily`, `eod_marks`, `pnl_signoffs` | end of day, tick, sign | pricing, scheduler | minutes between valuing and writing; a signature of a report that is recomputed |
| IPV, `backend/ipv`, `routes/ipv.py` | `ipv_runs`, `ipv_overrides` | run, override, decide, apply, sign | P&L, job queue | runs overlap, none is locked, each writes back what it read |
| Coupon schedules, `backend/pricing/schedule.py`, `calendars.py`, `day_count.py` | none | `generate_schedule`, `apply_bdc`, `actact_isda` | pricers, ticket | month ends, stubs, leap years, holidays |
| Collateral | regimes | apply to the book | trades | |
| Risk, credit, pricing, market data | curves, results | numerical runs | | floating point |
| Authentication, modules, limits | key cache, counters | | every route | stale caches |
| Stack tools, `backend/stack` | applied migrations | apply, seed | database | a migration applied halfway |
| Frontend | browser stores | confirm and poll | API | answers out of order |

What makes each of them correct, in one line:

* registry: no record without both consents; a chain of amendments never forks;
  a closed record stays closed.
* confirmation: the desk never says CONFIRMED of what the registry does not
  hold, never loses a confirmation the registry does hold, and writes it once;
  every anchor in flight is settled some day, as long as the trade's stream can
  be folded.
* amendment: registry and desk stay in step, act by act; no act is written twice;
  a terminated trade stays so; the booking hashes to what both sides signed but
  where a route that asks nobody for a signature has written it.
* trade lifecycle: the trade row is the fold of its events; CANCELLED is final;
  what is sent twice under one key takes effect once.
* trade cards: a side booked for the counterparty is the anchored record, stands
  on the other firm's confirmation, and exists once.
* relayer budget: no 24 hours hold more attempts than a cap.
* sign-off: what is signed is stored, stays signed, and counts each override at
  both orders.
* coupon schedule: periods tile the leg, keep its day of the month, pay in order.
* job queue: one worker per job, a bounded number of attempts, one run at a
  time, no job forgotten.
* the rest: see the plan.

`PROJECT.json` lists every component with its status and, under `hazards`, each
place where one of these can go wrong, with the properties that watch it.

## 2. Modules

| Module | Models | Extends or instantiates |
|---|---|---|
| `Registry` | the contract | |
| `Relayer` | the desk's view of the chain: records and sent transactions | instantiates `Registry` |
| `Confirmation` | request threads, scheduler, database and relayer while a trade is confirmed | extends `Relayer` |
| `ConfirmOnce` | what confirming promises, without threads or tables | instantiated by `Confirmation` |
| `Amendment` | request threads, database and relayer while a trade is amended or terminated | extends `Relayer` |
| `SignedRecord` | what amending and terminating promise, without threads or tables | instantiated by `Amendment` |
| `Desk` | booking, confirming and cancelling off the chain, appended events, idempotency keys, the projection | |
| `AtMostOnce` | what an idempotency key promises | instantiated by `Desk` |
| `TradeCards` | two firms on one trade: cards, countersignatures, the counterparty's side | |
| `RelayerBudget` | the caps on anchoring attempts | |
| `SignOff` | one day of one book: end of day, signatures, IPV | |
| `Schedules`, `Coupons` | the coupon schedule as functions, and what makes it a schedule | `Coupons` extends `Schedules` |
| `JobQueue` | the jobs table, the workers and the routes that enqueue | |
| `MC...` | values of the constants for TLC | |
| `RelayerProofs` | theorems about the budget and the registry | extends `RelayerBudget` and `Registry` |
| `ConfirmationProofs`, `JobQueueProofs`, `AmendmentProofs`, `SignOffProofs`, `TradeCardsProofs`, `DeskProofs`, `CouponsProofs` | theorems | each extends the module of its name |

A definition that stands right before another with the comment "Variant" is a
plausible mistake in that code. Nothing refers to it; putting it in the place
of the definition must break a property, which shows that the property depends
on the code.

### Registry

`confirmations` is the contract's mapping, empty when it is `Deployed`; `Called` is any
call of it. `Confirm`, `Amend` and `Terminate`
are its three external functions, guards in the order of the code; a call whose
guard fails reverts and is a stutter. Signatures are made off-chain and never
expire, so the world's signatures are a constant, `Signed`: a set of pairs of
an address and an EIP-712 message. Nothing is assumed of it, so every result
holds whatever key holders sign, and in whichever order anyone submits it.
Block numbers and timestamps are left out.

### Relayer

Hashes are injective, so a trade hash is the triple of the trade, its UTI and
its terms. `txs` are the relayer's transactions in sending order. `Mine`
includes one: it calls the registry and succeeds or reverts. `Drop` is the node
forgetting one, which does not stop a block from including it later. Inclusion
follows the nonces: a transaction is included when no earlier one is pending
and no later one has been included. `NodeState` is `tx_state()`.

### Confirmation

One variable per store: `booking` (the row of `trades` with the terms of its
legs), `events` (`trade_events` by `event_seq`), `anchors` (`pending_anchors`),
the chain's two variables, `sender` (who holds `_send_lock`), and `proc`, what
each request thread and the scheduler thread hold in their sessions.

A handler is cut where another thread can run: after loading the trade, while
it waits for a row lock, the send lock or a receipt, and before its commit. A
commit is one step. The path of `POST /api/chain/confirm`:

```
ConfirmArrives -> InFlightGuard -+-> Send -> Receipt -------------> Apply
                                 |        \-> ReceiptTimeout -> RecordPending
                                 |-> SendRefused, SendRecorded
                                 +-> LockRow -> CheckPending
                                             |-> CheckFailed   (then Send)
                                             +-> CheckAnchored -> Settle
```

`CountersignArrives` enters at `Send`, `ReconcileArrives` and the scheduler's
`Sweep` at `LockRow`. `OffchainConfirm`, `Cancel`, `UpdateLeg`, `CreateLeg`,
`IssueUti`, `PutTerms`, `PutStatus` and `AppendEvent` are the other routes that
write the same rows; the last two write only a row or only a stream. `Ops` chooses
the routes of an instance.

`AppendEvent` posts one of two classes of events. AMENDED stands for those
that are refused once an attestation is anchored; let in before and committed
after the anchor's event it hides that one, since `anchored_attestation` looks at the
latest event that may carry an attestation. COMPRESSION stands for those after which the stream cannot be
folded: it has no handler, a second BOOKED is refused by the fold, and so is a
payload its handler cannot read. The other types change nothing that is read
here, and a posted event is taken to carry no attestation, which the route does not
check. `Transition` folds the stream before it writes (`Foldable`), as
`_apply_lifecycle_transition` does; when it cannot, `FoldFails` ends the request
or the scheduler's turn with nothing written. `put` is history: a status was set as a
field.

Two things in the code are easy to miss and decide several properties:

* `_load_trade` in `resolve` queries the trade again, but a request's session
  already holds the object, and SQLAlchemy returns it unrefreshed. Only the
  scheduler, which starts from the row, sees the current status
  (`CheckAnchored`).
* `_apply_lifecycle_transition` assigns the status whatever it has become
  (`Transition`).

`Age` moves an open row past the 15 minutes after which an unknown transaction
counts as dropped and past the two hours after which the row fails. `CommitFails`
is a lost database or a clash of event numbers: everything rolls back and the
request ends, while the chain keeps what it has. `Crash` ends the process with
all its threads and locks. A node that cannot be read gives no answer in
`Check`, `Receipt` and `ReceiptTimeout`.

### ConfirmOnce

The abstract specification: a trade is `PENDING`; the registry records it;
after that the trade becomes `CONFIRMED` with one event, and nothing else ever
happens to it. `Confirmation` maps to it by the statuses, by whether the
registry holds any record of the trade and by the number of CONFIRMED events.

### Amendment and SignedRecord

The trades of this module are confirmed and anchored. A request derives the new
hash from the booking with its changes (`AmendArrives`; the preview is rolled
back), waits for the registry, re-derives the hash and commits terms, event,
status and key together (`AmendCommits`, `TerminateCommits`) or ends without
(`Abandon`). The relayer's path is `Build`, `Submit`, then `Receipt`,
`NoReceipt` or `NonceUsed`; each of the last two asks the registry whether it
already holds the act (`Recorded`). Neither act has a row in `pending_anchors`:
nothing follows a transaction whose handler gave up, so the desk may stay one act
behind. `SignedRecord` says what remains true: acts are signed one after the
other on the record the desk shows, and while the desk has not shown an act
nothing further is signed. It holds because a node estimates the gas of a call
before it builds it, and so refuses a call the registry would revert
(`Accepts`); a fixed gas limit would break it (`BuildBlind`).

Three routes still write an anchored trade. `CreateLeg` is the leg route
without the guard. `PutTerms` is the PUT of a trade, which guards a change of
status only, while the records of FX and crypto products are derived from
`trade.terms` (`canonical.py:348-454`). `AppendCompression` is an event type that
is not refused and that no projection can fold. The first two set `drifted`, which a
shown amendment clears, since the commit re-derives the hash. One corner is
abstracted: an amendment writes the terms it signed even where the session found
them equal to what it had loaded and would write no column. Setting a status by
PUT and the guarded leg routes are refused to every trade here.

### Desk and AtMostOnce

Requests are cut between their queries: a confirm or cancel loads the trade,
folds its stream, inserts the event (where the trigger draws its number) and
commits; what others commit between is seen by the later queries only. Three
unique indexes decide at the commit: event numbers, trade references and keys.
`Project` is the projection's fold, with the payloads that make a handler raise.
`AppendEvent` and `PutStatus` are the two routes that write only a stream or only
a row; `put` and the events' `src` record where they were used, since row and
stream agree only elsewhere. `AtMostOnce` is the promise of a key: one effect,
and everyone who is answered is answered with it.

### TradeCards

The trades of both firms are one table, since the other side is found across
firms by its UTI or its terms. Under record v2 both bookings are one record, so a
hash is the pair of a UTI and terms; UTIs are numbered as they are drawn. A
request is cut between what it loads and what it commits: `Send` and `Post`;
`Countersign`, `Anchor` and `Confirm`; `Lookup` and `Link` or `Mirror`, which
commit the booking and its CONFIRMED event together; `StartEdit` and `Edit`;
`StartCancel` and `Cancel`; `StartPut` and `Put`, the status set as a field. Two
routes look at nothing before they write terms and are one step each: `CreateLeg`
and `PutTerms`. They set `loose` on an attested trade, a history variable: from
then on its booking need not be its record. A flush writes what changed in the session, whatever
the row has become. `Fails` is every way to end without the commit, a refusal by
the index on user and UTI (`IndexAllows`) included; after `Anchor` it leaves a
record on the registry that no event shows. `how` in an event says how it came:
`signed`, `linked` to an earlier booking, or `booked` with its trade. Events posted
to a stream are not here but in `Confirmation` and `Desk`, amendments and
terminations in `Amendment`; deleting a trade is refused by the trigger on its events.

### RelayerBudget

`charge` as the steps between which other requests run: the time is fixed on
arrival (`Charge`), then the advisory lock, the count, the insert. `attempts` has
one store for the table and one for the memory of each process; `present` is what
a process believes of the table for five minutes at a time. Failures are those
of each query: the lock (`LockFails`), the presence of the table or the stored
events (`Unread`, which rolls back and so gives up the lock), the insert
(`InsertFails`, kept in memory), a membership (`Charge`). `degraded` records that
a lock or the table's presence could not be read; the caps are claimed only
until then, per store. Left out: the stored events counted as a floor where
there is no table, which only refuses more; the 20000 attempts a memory is bounded
to; a migration applied while the program runs; a restart, which loses a memory.

### SignOff

Reports and IPV runs value the book for minutes and write at the end; nothing is
locked and no row has a version. A session is cut before each read and each
commit. A figure is represented by what it was summed from: `daily` maps a
trade to the market it was marked on, an IPV run carries the overrides counted at
first order (`over`) and those its second order was revalued on (`second`).
`put_run` writes everything but the status (`StatusKept`). Left out: the second
order of a build skips a trade that values on the market and fails on the
overridden one (`ipv/run.py:181-184`); `OfficialWhole` says which overrides a figure
was revalued on, not that every trade was.

### Schedules and Coupons

A date is a month and a day of it; `Number` makes it a day count. Lengths of
months, holidays and the weekday of day one are constants, so leap years and
weekends are data of the instance. The definitions are the functions of the three
files; `Coupons` generates the schedule of a leg and states what it must be
against definitions of its own (`SameDay`, `InLeapYear`, counting days one by
one). 30/360 and the exact fractions are left out: an ACT/ACT period is the pair
of its days in leap years and in others.

The calendar is bounded, where `datetime` runs to the year 9999, and three assumptions
say what the code takes for granted. `CalendarAssumption`: months have 28 to 31 days, a
week has its Saturday, holidays lie in the calendar. `YearsAssumption`: every
month has a business day, and a year 366 days when its February has 29, else 365.
`LegsAssumption`: a leg ends after it starts, its last regular date does not
precede its start, a zero-coupon leg's first date precedes its last, and the calendar goes on
for a month at least after it. A lag is any integer. `generate_schedule` does not check the order of its dates: nothing is
shown of a leg that breaks it, which the code answers with no period or with one that
ends before it starts. Nor of a frequency of no months: "0M" passes the
parser's pattern, and the loop that generates the rolls never ends. In
the model frequency 0 is the zero coupon and nothing else.

### JobQueue

`jobs` are the rows by creation time, `workers` the processes, `requests` the
API threads between the check and the enqueue. Every function of `queue.py`
commits a small transaction of its own and is one step; a worker is cut between
claiming, the handler's end and recording. `Age` makes a row older than the 90
minutes of `requeue_stale`. `Overruns` are the kinds whose handler may still run
by then. `RecordFails`, `Signal` and `Kill` are a failed write of the outcome,
SIGTERM and death. Progress, heartbeats and the thread a route starts when no
worker is expected are left out.

## 3. Runs

Passing:

| Run | Question | Instance |
|---|---|---|
| `registry` | consent, lineage and closing of records | 4 hashes, 3 signers, of whom Carol is never countersigned |
| `confirm_once` | does the confirm path implement `ConfirmOnce`? | 2 trades, 2 requests, scheduler, every route that anchors or reconciles, 2 UTIs, 2 transactions, 1 fault, one arrival a trade |
| `confirm_routes` | do row, events and registry agree under races and a fault; do the rows of `pending_anchors` keep one holder and only close? | 1 trade, 2 requests and the scheduler, the routes that anchor, settle, decide through an event, or edit legs; 2 arrivals, 2 transactions, 1 fault |
| `rows_close` | is every anchor in flight settled, and none without the trade being decided, also where events are appended and fields are put? | 1 request and the scheduler; confirm, cancel, reconcile, append, put; 2 arrivals, 2 transactions, 1 fault, fairness |
| `amendment` | do registry and desk stay in step, act by act, whatever overlaps, times out, is retried or crashes? | 1 trade, 2 requests, 3 rates and 1 leg to add, 1 key, 2 transactions, 1 unguarded write of terms, 1 fault |
| `desk` | does a key take effect once, and is the row the fold of its stream? | 2 requests, 2 references, 1 key, 2 trades, 4 events |
| `trade_cards` | is the side booked for the counterparty the anchored record, backed, and booked once? | 2 requests, 1 person who sends and 2 who sign, 2 terms, 2 trades, 5 arrivals (1.9 million states, about 2 minutes) |
| `budget` | do the caps hold under overlap and failure? | 2 requests in 2 processes, 2 users of whom one has a firm, caps 2, 1 and 3, 4 attempts, 1 failure, with and without the table |
| `signoff` | does a signature survive overlapping runs, and is what it signs whole and stored? | 2 sessions, 1 trade on 1 input, 1 move, 2 overrides, 2 signatures, 4 arrivals |
| `coupons` | is every schedule a schedule? | 4 starts and 4 ends at month ends and February, 5 frequencies, 4 stubs, 5 conventions, lags of -1, 0 and 2 days, first and last dates (zero coupon included): 5376 legs |
| `jobs` | are attempts bounded, a job in one hand, its outcome final, a queued job taken? | 2 workers, 2 rows, 3 faults; one kind ends in time, one overruns, one is taken by nobody; fairness |

`confirm_once` allows one confirmation per trade because the code does not keep
the contract beyond that. The other properties hold without that restriction.

`rows_close` says of one row only that it may stay open: its record is on the
registry and the trade's stream can no longer be folded (`Unwritable`), so that
its CONFIRMED event can never be written. Every other row is closed, also
those of an unfoldable trade that the registry does not hold. The routes that append and put
are in this run and not in `confirm_routes`, whose two requests leave no room for
them; here one request thread posts and puts between the steps of its
own earlier request and of the scheduler.

One run ends in a violation, against the sentence "PENDING -> CANCELLED
(terminal state)" of `trade_events.py`: in `v_cancel_race` a cancel committed
while a confirm waits for its receipt is overwritten by CONFIRMED.

### Known divergences

Where the code does less than its comments say, no such property holds; these were
met while modelling and are reproducible on the modules above:

* two overlapping confirms both pass the in-flight guard and both write a
  CONFIRMED event (`chain.py:215`, against `pending.py:10`);
* a second pending confirm after an edit refreshes the open row's attestation and
  keeps its hash, so the event may attest a hash the registry does not hold
  (`pending.py:109`);
* an event that cannot be folded, appended while a transaction is in flight, leaves the
  row of `pending_anchors` open for ever although the registry holds the record: every
  cycle finds it anchored, fails to fold and rolls back (`trade_events.py:360`,
  against `pending.py:10-14`, and `MAX_AGE_S` does not help, since an anchored
  row is not failed by age). Appended to an anchored trade, it stops every later
  amendment and termination from being shown;
* a leg edited while the transaction is in flight, a leg added at any time, and terms
  PUT at any time on a product whose record reads them leave a
  booking that does not hash to the record (`chain.py:233`, `trade_legs.py:346`,
  `trades.py:312`, against `lifecycle.py:6-12`); the booked side of the
  counterparty drifts in the same way;
* an AMENDED event that was let in before the anchor's CONFIRMED event and commits after it
  is the latest attesting event and carries no anchor, which takes the guard off an
  anchored trade (`lifecycle.py:33`, `trade_events.py:193`);
* an off-chain confirm that loses the race hides the anchored attestation
  (`lifecycle.py:33`);
* two overlapping first signatures or sends of a trade draw two UTIs, and the
  later replaces the one a card already shows (`chain.py:133`, against
  `chain.py:130` and `trade_cards.py:370`);
* a colleague's booking may be the best match of a shared trade; the signer's own,
  which agrees on every term, is then left PENDING and a second one is booked
  (`trade_cards.py:594`, against `trade_cards.py:624`);
* the mirror of a countersignature and a booking from the card link one booking
  twice when both loaded it PENDING (`trade_cards.py:599`); a booking edited between
  its load and its link is CONFIRMED and does not hash to its attestation
  (`trade_cards.py:606`, against `trade_cards.py:598`);
* a job that runs for more than 90 minutes is requeued under its worker when another starts,
  and taken twice (`queue.py:153`, against `queue.py:4`); a worker restarted
  within 90 minutes never recovers the job it left (`worker.py:115`, against
  `queue.py:146`); two requests enqueue the backfill twice;
* the retry of a key that loses its race at the event-number index gets a 409 and
  not the stored reply (`trade_events.py:404`); a key used for another operation
  replays the first one's reply;
* `trades.py:144` says that PUT refuses to set a status; it does so for anchored
  trades only and otherwise sets it with no event (`trades.py:306`);
* the comment "what is signed is what is stored" (`pnl.py:277`) fails when the day
  was stored before; "a rerun replaces the day" (`report.py:312`) leaves the rows
  of trades the rerun does not have; the two-person rule is checked for the
  controller only, so a trader may sign after signing as controller;
* with a stored day no problems are reported, so an IPV sign-off does not see a live
  trade without a value (`ipv/run.py:152`, against `ipv/run.py:6`);
* a decision or override is lost to a build that read the run before it, and a
  SIGNED run's figures are overwritten by later builds (`ipv/run.py:194`);
* a long stub on a day some month cuts is merged although the leg has whole
  periods only (`schedule.py:161`); a first date beyond the first roll is not
  kept (`schedule.py:180`).

### Bounds

For the confirmation, two request threads and the scheduler give every pair of racers the code has
(two requests, a request and the scheduler) with the third at any point of its
path. Two transactions are what an overlap and a resend need. Two terms and two
UTIs distinguish "same" from "changed". One trade is enough for the races: the
code shares nothing between trades except the send lock and the order of
nonces, which `confirm_once` covers with two. Requests are symmetric in the runs
that check no liveness. Arrivals, transactions, rows, attempts, events, unguarded writes and faults are the only
counters, each bounded by a constant with "bound" in its comment; in `rows_close` a
trade with `MaxEvents` = 2 events gets no further append or put, and one appended
event is enough to hide an attestation or to spoil the stream;
in `amendment` `MaxWrites` = 1 lets the booking drift before, during or after
each act; an open row's
age stops at its last threshold. Deadlock is not checked: with its arrivals
used up, or a closed registry, the system rightly has nothing to do.

Two requests are the overlap in `amendment`, `desk`, `trade_cards`, `budget` and `signoff` too:
every property there is about a pair (of acts, of effects of a key, of a count and
an insert, of a build and what it overwrites). Three rates let two amendments
differ from each other and from the record; two transactions are a send and a
retry or a rival. In `budget` each cap is the one that refuses somewhere: the
firm's at 1, a user's at 2, everyone's at 3; the clock's two values are apart by
the window. `signoff` has one trade and one input, enough for a mark that is
there or missing, an input passing or pending, and an override counted or not.
In
`trade_cards` five arrivals are a send, a countersignature, and three of mirror,
edit, cancel, put, added leg, second send or second signature; two people on the signing side are
a signer and a colleague. The legs of `coupons` are a set of the cases that differ: cut days, a leap
February, a month that ends on Good Friday, stubs of both ends, whole and broken
terms.

### Fairness

`rows_close` assumes that a thread at a row makes progress, that the
scheduler's cycle comes back to every open row (it runs every minute over all
open rows; strong, since the thread may be busy whenever one row is looked at)
and that time passes. A cycle takes the 50 oldest open rows
(`open_rows(limit=50)`), so this needs fewer than 50 rows that stay open,
which only the unfoldable ones do. It assumes nothing of miners, users or the node. The
scheduler runs its steps only with `RIJEKA_CRON_SECRET` set
(`backend/scheduler.py:123`). `jobs` assumes that the
platform restarts a worker that exits, that a worker polls, and that handlers
end, those that overrun some day; nothing is assumed of requests, signals or deaths.

## 4. Proofs

`RelayerProofs` on the registry, from `ZeroAssumption` (the zero hash and address are not
among the others, and signatures are pairs of an address and a message), for any sets
of hashes and addresses and any signatures:

* `RegistryTypeCorrect`, `RegistryConsented`, `RegistryRecordsOnlyClose`, and
* `RegistryLineageSound`: a record is superseded exactly when a record names it
  as its predecessor, and by one only. The step that needs care is `amend`: the
  new record's slot was empty, so nobody named it, and the old one was
  Confirmed, so, by the invariant, nobody had named it either.

`JobQueueProofs`, from `JobQueueAssumption`, for any number of workers, users,
kinds, requests, rows and faults:

* `JobsTypeCorrect` and `JobsAttemptsBounded`;
* `JobsExclusiveRun` and `JobsOutcomeIsFinal` for the kinds whose handlers end
  within 90 minutes (a job of another kind may be taken twice). The
  inductive invariant adds `InHandIsYoung`: such a job in hand is not old, so no
  restart requeues it.

The argument goes through `TableStep`, which says once what any step may do to
the rows: leave one, requeue it, claim it, close it from the hands of a worker,
let it grow old, or add new ones. `StepOnTable` proves it, action by action;
the theorems then reason about rows and not about actions.

`ConfirmationProofs`, from `ConfirmationAssumption` (distinct names, hashes that
are neither the zero hash nor `NoHash`, bounds that are numbers), for any trades,
UTIs, terms and request threads, any subset of the routes, and any bounds:

* `ConfirmationTypeCorrect`, and the other four properties of `confirm_routes`:
* `AnchoredDecidesAlways`, from `BookStep`: a step leaves every status and event
  alone, or appends one event and writes its status in the same commit, or
  appends an event and leaves the row alone, or sets a status as a field;
* `RowsOnlyCloseAlways` and `OneReconcilerAlways`. `RowsOnlyClose` is not
  inductive: a thread that settles does not look at the row again. The invariant
  that carries it is `HeldIsOpen`: a row taken FOR UPDATE is PENDING and has one
  holder. `OneOpenRow` says the rest: an insert finds no open row of its trade;
* `EventsBackedAlways`. A thread writes an event on what it learnt some steps
  earlier, so the invariant `Backing` says what each thread stands on: a mined
  transaction left its record, a waiting thread follows a transaction of its own
  hash, a thread in `apply` or `settle` has seen a record, and a row's transaction
  carries the row's attestation. The last is why a refresh may change both while
  the row keeps its first trade hash.
* `ConfirmedOnceHolds`: `Confirmation` implements `ConfirmOnce`, from two hypotheses,
  that a trade's confirmation is asked for once (`MaxArrivals = 1`) and that the routes
  which decide a trade off the chain (confirm, cancel, PUT of a status) are not among `Ops`. The code needs both: see the
  overlapping confirms and the off-chain races below section 3. Appended events
  are among `Ops` in the theorem, though not in the run `confirm_once`. The invariant is
  `OnceInv`. A trade has one attempt (`OneAttempt`): one thread works for it, as long
  as it has no row and no transaction, or it has the one row; so nothing
  is decided while a thread works or a row is open (`Undecided`), and whoever
  reconciles settles a trade whose stream has no CONFIRMED event yet. Records
  come from included transactions only (`RecordsMined`), and a row speaks of
  its own trade (`RowsSigned`). `OnceStep` says what a step does: it leaves status and
  records alone, or a block adds a record (`Record` of the contract), or a commit
  decides the trade with one more event (`Confirm` of the contract).

`AnchorStep` (rows), `BookStep` (trades and events), `ThreadStep` (threads) and
`ChainGrows` (transactions and records) each say once, for every action, what a
step may do to that part of the state.

`RelayerProofs` on the budget, from `BudgetAssumption`, for any requests, processes, users, firms,
caps, window and faults:

* `BudgetTypeCorrect` and `BudgetCapsHold`. The invariant is `CapsInv`: until a
  query was lost, one store is used (`OneStore`), whoever counts or inserts holds
  the lock (`Exclusive`), a row that could not be written is kept only where
  the table is not what counts (`Fallen`), and a request about to insert has room
  under every cap in every window (`RoomLeft`). The last needs care because a
  request is charged at the time it arrived, and attempts with later times may be
  stored before it: it counts every attempt since the window of its own time,
  later ones included, and so every window that would contain it has room.

`AmendmentProofs`, from `AmendmentAssumption` (changes and legs map terms to terms;
the zero hash is no trade's), for any trades, terms, threads, keys, transactions,
unguarded writes and faults:

* `AmendmentTypeCorrect`, `AmendmentOneEventEach`, `AmendmentRowIsAttested`, and
  `AmendmentInStep`: `Amendment` implements `SignedRecord`. The invariant is
  `AmendInv`. A trade's acts stand level on both sides (`Open`, `Done`) or the
  registry is exactly one act ahead (`Ahead`, `Ending`): `Phase`. Every
  transaction was built on a record the desk had shown (`CallOK`), so the registry
  accepts one only where the trade is `Open` (`AcceptedIsOpen`); it is then one
  act ahead (`AcceptedAdvances`) until a commit levels it (`CommitLevels`). That the
  commit writes the act the registry is ahead by, and not another, is
  `ThreadOK` and `Alone`: from its build on a request stands alone on its trade,
  on the newest attestation, and a record it finds to be its own is the live
  one. A booking that is not `drifted` hashes to its newest attestation, since the
  commit re-derives the hash and nobody else but the unguarded routes writes
  terms. `BuildInv` is where the gas estimate is needed. The accepted call is `Sign`
  of the abstract specification, the commit is `Show`, every other step stutters.

`SignOffProofs`, from `ConstantsAssumption`, for any sessions, trades, inputs and
controllers and any bounds:

* `SignOffTypeCorrect`; `SignOffSignedStays`, `SignOffOfficialWhole` and
  `SignOffSignedDayIsStored`. `EveryStep` says what a step may do to the figures
  and to a session that is about to write them: a signed status stays, stored
  marks only get more, and a signature copies its session. `AboutToSign` carries
  the properties of a signature back to its session: a build that applies has
  revalued on the overrides it read, and a session at its signature found the
  day stored or stored it.

`TradeCardsProofs`, from `TradeCardsAssumption` (everybody is of one of two firms),
for any people, terms, requests and bounds:

* `CardsTypeCorrect`, `CardsOneBooking`, `CardsMirrorBacked` and
  `CardsMirrorIsTheRecord`. The invariant is `CardsInv`. A mirror stays the record
  because no request that looks before it writes ever writes to one, and the two
  routes that do not look make it `loose`: `Placed` says that what a request
  may still edit, cancel, put, link or confirm was booked by hand, which each request
  settled by the state it loaded, sometimes from the status, sometimes from the
  events or the UTI, and `MirrorIsTheRecord` itself rules the others out.
  `OneBookingPerUti` is the index for what links and mirrors, but a UTI drawn by
  `Send` is written without the index being asked in the model: `UncommittedIsOwn` says
  that nobody else holds it, on a trade or in a session. `Carries` ties what a
  session is about to attest to an event of the trade it copies. Every action is one of
  three steps: it leaves the tables alone (`QuietStep`), writes one row
  (`WriteStep`) or adds one (`AddStep`), and `Grows` is what all of them keep.

The proof of `ConfirmationTypeCorrect` needs that a confirm request keeps its hash while it
resolves an older row, since it goes on to send when that row turns out failed;
`SignsHash` in `TypeOK` says so.

`DeskProofs`, from `DeskAssumption` (no key is the absent one, a payload is complete
or not), for any requests, keys, references, events, statuses and bounds:

* `DeskTypeCorrect`, `DeskRowFollowsStream`, `DeskLatestIsNewest` and
  `DeskKeysAtMostOnce`. The invariant is
  `DeskInv`. `KeysOK` says that the result stored under a key is the key's one
  effect, so whoever is replayed a result is told of what was done. `Ready` says how
  old what a request holds may be: its event number is at most one past the stream,
  its version at most the stream's length. A commit that finds its number free
  then has the next one (`NextNumber`), which is why a stale row never moves the
  pointer back. A commit adds one trade (`AddTradeStep`) or one event
  (`AddEventStep`); every other step but a PUT writes neither (`QuietStep`). `Follows`
  says that a row is the fold of its stream where only routes that write both
  have written; a commit appends one event, and the fold of the longer stream is
  one `Apply` further (`ProjectAppend`). `Project` is a recursive function, so this is
  an induction over naturals: a least number without the claim (`Smallest`, from
  the well-foundedness of `<` on the naturals), hence `SetInduction`, hence that the
  passes of the fold exist and are unique (`PassesExist`, `PassesAgree`).

`CouponsProofs`, from `CalendarAssumption`, `YearsAssumption` and `LegsAssumption`
(section 2), for any calendar, holidays and legs:

* `CouponsTypeCorrect`, `CouponsTile`, `CouponsHaveTheStubsAsked`,
  `CouponsPaidInOrder` and `CouponsAccrueEachDay`, all from `ScheduleMade`: periods
  are none or the schedule of the leg. There is one step, so the work is in the
  functions. The code's loops are recursive functions; what they compute is shown by
  induction over naturals from least elements (`LeastOf`, `SetInduction`,
  `Recursion`): days before a month, the next and the previous business day, a lag of
  business days, the periods that are kept and the whole years of ACT/ACT.
* The rolls that stay inside the leg are numbers 1 to n from the anchor
  (`RollsAre`): a roll by more months is a later date although its day may be cut. Hence the
  ends come in order (`EndsInOrder`) and are regular but for the last or the
  first (`EndsRegular`). Only the first pair of dates can be out of order, so
  at most that period is skipped (`KeptIs`, `Cut`), and the rest still tile.
* Payments keep their order because each convention and each lag is monotone
  (`AdjustedInOrder`, `LagMonotone`). For the modified ones it rests on every month having a
  business day: only then does turning back stay in the month.
* Days in leap years add up over adjacent intervals (`DaysAdd`), a year is all of
  one kind (`OneYear`), and so are the whole years between (`WholeYearsAre`).

Only model-checked: the liveness properties (`RowsClose`, `QueuedIsTaken`)
and the disagreement that `v_cancel_race` shows. Liveness under fairness is out of the prover's reach.

## 5. Plan

What is left, in this order:

1. `RelayerSend`: nonces, the retry, the fallback node and the send lock below
   `Relayer`, shown to implement its `Broadcast` and `Mine`.
2. `TelegramMirror`: the outbox, link codes and unlinking; `ReleaseSync`: the two
   drivers of the branch `release`; `Migrations`: `backend/stack/apply.py`;
   `KeyCache`: authentication.

## 6. Not modelled, and why

Risk and credit simulation, curves, models and sensitivities compute over floats,
which TLC does not have; they are most of the repository's lines. Of pricing,
the schedules are modelled because they are integers. Market data, news, the
assistant and the methodology workbooks are calls to outside services and their
formatting. Static data routes write one row per request. Byte layout of the
canonical record, EIP-712 hashing and key storage are taken as injective hashing
and unforgeable signatures. Roles, tenants and quotas are checked before anything
modelled here happens.

The cash-flow table is left out because nothing can be written to it: the pricer
builds a row without an id (`pricer.py:1333`, and the column has no default,
`db/models.py:219`), the cash-flow route one without a user
(`cashflows.py:161`), and two CHECKs of `schema.sql:364-365` exclude each other.
Rooms, membership and the Telegram mirror of a room, records of version 1 and the
registration of a signing wallet are left out of `TradeCards`. The scheduler's cycle is left out
because it only repeats batches that are idempotent for a day, as its header
says. The release sync moves a branch of the repository itself and touches nothing
the desk keeps.
Deleting a trade is left out because the trigger on `trade_events` refuses it.
`PROJECT.json` says for each component what is left of it.
