# AgentTether: a formal model

TLA+ modules of the AgentTether backend, the runs that model-check them with
TLC, and the theorems about them that TLAPS checks. Paths below are relative to
the repository root; the backend's code is in `src/`.

AgentTether sells *monitored windows* of an EVM chain to agents. An agent posts
an intent, is quoted a ceiling (a number of blocks times a rate), signs a Permit2
voucher up to that ceiling, and is charged later, for the blocks from the opening
of its window to the stream's cursor, by submitting the voucher to a facilitator. Money, data and
bookkeeping move at different times and in different processes; that is what
the project is about.

## 1. Inventory

| part | code | state it keeps | operations | talks to |
|---|---|---|---|---|
| Pricing and metering arithmetic | `payments/pricing.ts`, parts of `settlementEngine.ts`, `db.ts` | none | quote, blocks consumed, amount due, window over, budget guard | everybody |
| Intents API | `api/intentsRouter.ts` | none of its own; the intents table | create an offer (402), verify and store a voucher (202) | facilitator, store |
| Intent store | `db.ts`, `prisma/schema.prisma` | intents, cursor, captures, lease | one function per statement; compare-and-swap claims; unconditional marks | Postgres |
| Settlement engine | `payments/settlementEngine.ts` | local variables of running calls | success path, timeout path, rejection triage, receipt gate, webhook, sweep | facilitator, RPC node, agent |
| Sweeps and maintenance | `cron.ts` | a minute timer | startup and minute sweep, expiry of offers, retention prune | engine, store |
| Data plane | `dataplane/substreamsManager.ts` | cursor in memory, retry counters, write chain | connect, deliver, undo, close, fatal error, give up, watchdog | endpoint, store, engine |
| Single-writer lease | `lease.ts`, `db.ts` | one row, one heartbeat timer | claim, renew, lose, release | store |
| Entry point | `index.ts` | the process | boot order, exit on a held lease, graceful shutdown | all |
| Oneshot API | `api/oneshot.ts`, `lookbackTransfers` in `db.ts` | none; reads the cursor and the captures | paid lookback query | store, x402 middleware |
| Report, annotations | `api/report.ts`, `appendLifecycle` in `db.ts` | lifecycle log in the row | read-only views, annotate by anyone | store |
| Rate limiters, logger, scripts | `api/rateLimit.ts`, `logger.ts`, `scripts/` | none of interest | | |
| Python agent | `agent/agenttether/graph.py`, `agent/scripts/demo_agent.py` | one paused run, a watchdog timer, a main wait | buy, wait for a notice or a watchdog, decide, re-issue, give up | the HTTP API, its webhook |

What is hard here:

- *The engine is re-entrant.* The stream's trigger, the minute sweep, the startup
  sweep and the re-drive of stale claims may all start a call for the same
  intent; every `await` is a point where the others move.
- *The facilitator's answer can be lost*, and a transaction may be mined after
  the receipt poll has given up.
- *The bill mixes two reads*: the start block, read before the claim, and the
  cursor, read after it. The block handler does the same: it matches with a start
  block and a status it read before it opened the window, and commits after a
  sweep may have claimed the intent.
- *The first match settles inside the write chain*: the call the trigger makes, with
  its receipt poll, holds up every block behind it, also those of other watches.
- *The lifecycle log is read and written back* by the handler, the engine and
  anybody who posts an annotation; the same writes refresh the `updatedAt` that
  decides whether a claim may be driven again.
- *The verify handler checks the status two awaits before it writes it*, and answers
  202 only after one more await: it may die with the voucher stored and nobody told.
- *The write chain outlives an attempt* that ends in a fatal error, but not one
  that closes.
- *The lease can be lost while the holder still delivers blocks*, and a graceful
  shutdown releases it while block writes are still queued.
- *The lookback reads the cursor and then the rows*, without a transaction.
- *Timers of two programs must fit*: TTL, sweep period, `STALE_SETTLING_MS`, the
  voucher's deadline buffer, the receipt timeout, the agent's watchdog.
- *A process may die between any two of these steps.*

What makes each part correct is stated as the properties in section 3.
`PROJECT.json` lists every hazard at its line with the properties that cover it,
and says which are not covered yet.

## 2. The modules

| module | models | state ↔ code |
|---|---|---|
| `Billing` | the arithmetic | operators only |
| `Settlement` | the engine, the two claims, the marks, the per-block handler as far as the engine reads it, facilitator and chain | `row` is the intents table, `drv` the running engine calls (`pc` names the await a call is at), `tx` the chain, `notices` what the agent heard |
| `Voucher` | what the settlement of a voucher promises | `opened`, `charges`, `books`, `told`: no counterpart in the code, but in `Settlement`'s state through `Ledger` |
| `Watch` | one watch and what it is about: the block handler with the matcher, the stored events, the bill, the webhook's contents, the lifecycle log, the report | `row` is the intent's row with `log` and `stored` events, `handler` the running `onBlock`, `drv` the call of the trigger and that of a sweep, `copy` the log each `appendLifecycle` has read |
| `Stream` | the manager's loop, the connection, the write chain, cursor, captures and meters, the retention | `saved` is the cursor row, `last` is `state.lastCursor`, `chain` is `writeChain` (and the one a fatal error or a shutdown leaves behind), `empty`/`onCursor` the two counters |
| `Lookback` | the oneshot query over `Stream` | `request` is the handler between its two reads; `Answers` are the sets of the first `limit` transfers in the query's order (blocks descending, log indices ascending); a capture row of `Stream` stands for the `PerBlock` transfers of its block |
| `Lease` | the lease row and the life of the processes around it | `holder` and `fresh` are the row, `beating` the timer, `phase` the process |
| `Intake` | offers, POSTs await by await, the expiry sweep, the engine reduced to its effect on row and voucher | `row` the table, `req` the handlers in flight; `accepted` who was answered 202, `unanswered` whose handler died between the row's update (`Store`) and that answer (`Accept`) |
| `Agent` | the clocks: the agent's timers against the backend's | `window` the backend's side of each watch, `agent`, `dog` and `giveUp` the program, its watchdog and its main wait |
| `SettlementProofs`, `VoucherProofs`, `WatchProofs`, `LeaseProofs`, `IntakeProofs`, `StreamProofs`, `LookbackProofs`, `AgentProofs` | theorems, and the inductive invariants they need | |
| `MCSettlement`, `MCWatch`, `MCIntake` | symmetry sets, transfers and selectors for TLC | |

How they fit. `Settlement` and `Watch` EXTEND `Billing` and take every amount from
it. `Settlement` starts where `Intake` ends, at a MONITORING row with a voucher;
`Intake` contains the engine as three actions per intent. Two modules look at the
same engine from two sides: `Settlement` asks how *several* calls race for a claim
and abstracts the stream to the blocks it commits; `Watch` composes the block
handler, the engine and the annotations of *one* watch, follows the data through
them, and has one call of a sweep beside the one the trigger runs inside the write
chain (a sweep starts its call while no other is at work: their races are
`Settlement`'s). `Lookback` EXTENDS `Stream`: its steps go between any two of the
stream's. `Stream` sees of the engine nothing. `Lease` is why all may assume a
single stream; where its release comes too early, with block writes still queued,
`Handover` of `Stream` has the stopped process and its successor side by side. `Agent` is the only module with a clock; what a settlement charges is
left to the others there.

Abstractions, and why they lose nothing the properties ask about:

- Except in `Agent`, time is what the code asks of it: whether a TTL, a voucher
  deadline or `STALE_SETTLING_MS` has passed, whether the heartbeat is older than
  `LEASE_TTL_MS`. Each is a bit that an action sets and a write resets. In `Watch`
  a block is early, in time or late for the intent, or has no timestamp.
- In `Agent` a tick is 30 seconds. A timer that is due, and an await whose time is
  up, happen before the next tick; a facilitator call takes at most `Latency`.
  A match triggers only while the TTL has not passed on the clock (the code judges
  the block's own time, so a catch-up can trigger later, as a sweep would), and a
  notice that comes while the first watch is being parked is dropped, although
  `resume()` only finds its lock taken from the second on. `WokenByItsNotice` and its
  theorem say nothing of runs with a dropped notice.
- In `Watch` a process that stops before a cursor was saved starts again at the first
  block. The code starts near the head; `Stream` has that.
- `SlowSteps` names the awaits of an engine call that may last longer than
  `STALE_SETTLING_MS` (the facilitator call has no timeout in the code). `overran`
  remembers the intents for which one did.
- A voucher is `good`, `malformed` or `missing`; the facilitator rejects
  permanently ("structural") only a malformed one. A rejection's wording is
  reduced to the class the triage assigns to it. In `Watch` every answer after
  which the row stays SETTLING is "left".
- A sweep pass lists the candidates and reads the cursor again for the dispatch;
  `Sweep` takes one intent of one pass in one step, and any number of passes
  overlap.
- In `Settlement` the stream may go on while a trigger it started is running. The
  write chain of one attempt would wait for it; a chain left behind by a fatal
  error does not, so the model allows it always. `Watch` has the wait, and `FatalError`
  after which the trigger's call (`left`) no longer holds up the blocks. What a fatal
  error or a shutdown leaves behind there is only that call, the last link of its
  chain: queued blocks that commit beside newer ones, a wiped cursor and undos are
  `Stream`'s.
- The log entries of `Watch` are those written from the first block on; the entry of
  a delivery that was not reached bears the same name as one that was.
- In `Stream` a block has one match and one capture row or is quiet: its transfers
  are inserted by one statement and pruned together. `Lookback` counts them, the
  same number (`PerBlock`) in every such block. A
  reorganisation gives the blocks above a point a new version. A connection that
  is stopped is taken to emit `close`, as the code relies on. The retention takes
  the lowest blocks' rows first, because they were captured first.
- A holder identity is host, pid and boot time and so never comes back: the row of
  a dead holder has the holder `Gone`. The age of the heartbeat is one bit.

Each module keeps, next to the definition it changes, the mutants its properties
were tested with: the form a plausible bug would give that definition. They are
marked as such and used by nothing else.

## 3. The runs

| run | instance | states | what it shows |
|---|---|---|---|
| `settle` | 1 intent, 2 drivers, 2 transactions, 3 blocks, 1 failure, a receipt poll that may overrun | 6.8M | the recorded charge is on the chain; data only after a receipt; SETTLE_FAILED is uncharged; charges within the quote; one owner, final states and one outcome heard unless an await overran; the engine implements `Voucher` |
| `settle_live` | 1 driver, 2 blocks, 1 failure, fair | 257k | an expired intent is driven; a claim is resolved |
| `watch` | 3 blocks of any times, the middle one possibly undated, two hits among four transfers or none, budget 2, 3 events stored, 2 log entries, 1 webhook attempt, 2 upsets | 13.5M | the nine properties of section 5 under `WatchProofs` |
| `lookback` | 3 blocks, the first of them quiet, 2 faults of 5 kinds, 2 transfers in each other, a lookback of 2 and a limit of 3, fair | 2.2M | a saved cursor covers captures and meters; nothing is metered twice; no replaced block is served; a paid answer leaves out only what the query's order puts last; the manager catches up or gives up |
| `lease` | 3 processes, fair | 126k | one healthy streamer; a fresh lease is respected; a usurped streamer stops; a dead holder's lease is taken over |
| `intake` | 2 intents, 2 vouchers, 2 requests, the engine | 6.5M | a voucher binds one intent, stays bound, is charged once and only if it was verified and stored; finished intents stay finished |
| `agent` | ticks of 30 s: TTL 2, buffer 4, sweep 2, stale 4, receipt 2, watchdog 6 after the TTL, main wait 20, 1 re-issue, 24 ticks, 2 faults of 6 kinds | 2.5M | attempts never overlap; a voucher is void only after a rejection or a long outage; a claim left behind is driven again in time; the agent is woken by its notice |
| `settle_uncharged`, `lease_zombie`, `intake_expired`, `stream_undo`, `agent_void` | the smallest that show it | | the disagreements of section 4 |

Why the bounds are enough. Intents do not interact in the engine (each has its own
row, voucher, claim), so one suffices for races; two drivers are the least that
race, and a third would have to win the same compare-and-swap. Two transactions
allow a charge and a later attempt on the consumed nonce. One failure may fall
between any two steps. In `Intake` two of everything let a voucher meet two
intents and an intent two vouchers. In `Stream` three blocks let one be committed,
one be queued and one be delivered; two fatal errors reach the cursor wipe
(`WipeAfter = 2`, in the code 3), `MaxEmpty = 3` (5 in the code) keeps the order
between the two limits. The first block is the quiet one, so that a lost second or
third shows; a limit of 3 (asked as 5, and clamped) cuts inside the older of two
blocks with two transfers each. In `Lease` three processes let a usurped streamer, its
usurper and a bystander differ. In `Watch` three blocks let one be skipped or
replayed, one open the window and one exhaust a budget of two; two hits a block
overflow the three stored events; a log of two entries (50 in the code) is
cut at the third, and shows which entry an overlapping append loses; one webhook
attempt is enough because the notices heard are a set, and a repeated one says the
same (the theorems are for any number of entries and attempts); two upsets combine a skipped block with a crash,
which one does not (a block that is skipped and comes again after a crash is
metered although it is from before the window: with one upset TLC cannot see it).
The one selector of the run looks at the direction, the contract and the smallest
amount; the matcher's other forms are definitions the proofs cover. In `Agent`
a rejected attempt and an outage, or either of them and a delivery fault, are
combinations of two; three faults were tried once and gave nothing new. The
constants of `Agent` are those of the two programs (TTL 60 s, buffer 120 s, sweep
60 s, stale 120 s, receipt 60 s, watchdog TTL + 180 s, main wait 600 s); a `Latency`
of 0 means that a facilitator call returns within its tick; the theorems about
`Agent` say for which other values of the timers its properties hold. The theorems
drop the bounds on everything else as well.

Deadlock is checked in `Lease` only: all intents settled, a manager that gave up,
the last tick, or a watch at its last block is a state where the system may stop.

Fairness. `Settlement`: time passes; every candidate is swept (the cron); an engine
call goes on (its awaits return or throw); a pending transaction is mined or
reverts; after the deadline the facilitator does not answer "transient" for ever.
Failures are finitely many. `Lease`: supervisors restart a dead process; a running
timer beats; a row nobody renews grows old; strong fairness only for the claim,
meaning that no process dies at each of its boots before the claim is answered.
`Stream` and `Lookback`: the loop and the chains go on, and the stall watchdog ends
a silent attempt; the endpoint is not assumed to deliver anything, and no request
has to be answered. `Watch` and `Agent` have safety properties only; the deadlines
of `Agent` are in its `Urgent`, so that "in time" is a matter of its clock.

Conditions in properties. Some properties hold only when something did not
happen, and say so. Each exclusion is needed; TLC finds the counterexample without
it:

- `ClaimExclusive`, `TerminalIsFinal` and `NoticesAgree` exclude intents for which an
  await outlasted `STALE_SETTLING_MS` while its call owned the claim.
- `MeteredIsInPaidWindow` excludes a block that was skipped. Block 1 throws, block 2
  opens the window, the process crashes before block 2 commits: block 1 comes again
  and is metered, although it precedes the start block and nobody is charged for
  it.
- `DeliveredIsPaid` excludes three cases. A block without a timestamp passes both
  time guards but opens no window, so its events are metered, and delivered for
  nothing. The block under way when the call reads the cursor commits after the
  bill. A window that opens after the call read the row is billed as unopened.
- `FreeOnlyIfUnprocessed` excludes a window opened after the call read the row, and
  one whose opening block the cursor has not reached: `setStartBlockNum` commits
  before the block does. So a window the stream did open can time out for free
  (also after an undo, which stores block number 0), where `README.md:221` allows
  it only when "the stream never opened the window at all".
- `ChargedIsProcessedOrLost` counts, beside the committed blocks, those a failed
  handler lost: they are billed (section 4). It says "not before the intent"; that
  nothing later than the TTL is charged does not hold. The opening does not look at
  the TTL, so in a catch-up, or before the next sweep, a late block opens the window
  and is charged.
- `FirstMatchIsBilledThrough` excludes a trigger whose chain a fatal error left behind.
  `substreamsManager.ts:382-386` rejects without waiting for the chain; the next
  attempt's blocks are committed while the trigger is still before its cursor read,
  and it bills for them too. (In the code an undo, or the cursor's wipe, may also
  happen beside such a trigger, which then bills nothing; and so may a stopped
  process's trigger beside a successor. `Watch` has neither.)
- `ChargedWasVerified` names the payers who are not told: a POST that dies between
  the update (`db.ts:63`) and its 202 (`intentsRouter.ts:311`) leaves a MONITORING row
  whose voucher is charged like any other. A retry of that POST finds the nonce bound
  and is answered 202.
- `LogOfOneWriter` excludes logs with overlapping appends. An annotation that is
  posted while the handler logs `window_opened` or the engine logs its outcome
  loses one of the two entries; `db.ts:31` calls the append "safe under the
  single-writer rule", which does not bind the annotations.
- `LeftIsRetriedSoon` excludes annotations and outages. Every annotation refreshes
  `updatedAt`, so whoever posts one every two minutes holds off the re-drive of a
  stale claim until the voucher is void.
- `WokenByItsNotice` excludes an outage, a rejection, a failed or repeated delivery
  and a notice that came while the agent was busy. A repeated notice finds the
  agent asleep on its next window and wakes it from there, since `resume()` does
  not compare `intent_id`.
- `AnswerIsComplete` excludes a failed handler, an undo, a fatal error, a start
  from the head, and a shutdown with a reorganisation, for it rests on the next one.
  What it lets the limit drop is what the order of `db.ts:198` puts last: the blocks
  behind the limit, and of the block where it cuts the *highest* log indices, which
  are that block's newest transfers. `db.ts:181` calls the order "newest first",
  which is true of blocks only.
- `CursorCoversCapture` excludes the same. *Failed handler* - block 1 throws, is
  logged, block 2 commits its own cursor, block 1 is lost, although `README.md:194`
  says "the cursor never advances past uncaptured blocks"; *undo* - see
  `stream_undo`; *fatal error* - the next attempt commits block 2 while block 1 is
  still queued on the chain left behind, and a crash now loses it; *shutdown with a
  reorganisation* - the stopped process commits a block, and its cursor, over the
  replacement its successor has already committed. A shutdown alone loses nothing,
  however much is queued: the successor replays from the saved cursor.
- `MeteredOnce` excludes an undo and a start from the head, which replay on
  purpose, and a crash after a fatal error: the chain left behind saves an older
  cursor last, and the restart meters the newer block again. It also excludes a
  graceful shutdown: `index.ts:64` stops the stream and releases the lease, the
  queued writes go on (`substreamsManager.ts:400` lets them finish "on their own
  chains"), and the successor may replay a block before the stopped process commits
  it. Both meter it, where `README.md:216` says of the lease that it keeps two
  instances from double-metering.
- `NoStaleRowIsServed` excludes a crash or a shutdown: the cursor save of an undo and
  its prune are two statements, and after a crash between them nothing prunes; a
  failed handler (the prune itself fails); a fatal error; a start from the head.
- `AcceptedVoucherIsBound`, `IntentChargedOnce` and `PaidIntentIsFinal` exclude
  intents for which two requests overlapped. Without it TLC finds that two
  vouchers are charged for one intent: both requests pass the status check, the
  first is stored and settled, the second is stored over the terminal row and
  settled as well.

Two things the models show that no property forbids. The trigger's call holds up
the write chain of *every* watch for the facilitator's answer and the receipt poll
(without a fatal error `FirstMatchIsBilledThrough` depends on it), while their TTLs go on. And the
report's note for a TIMEOUT without a charge, "no blocks processed - nothing was
charged (the watch never opened)" (`report.ts:123`), is also what it says of a
window that was open, matched, and lost its voucher to the deadline.

## 4. Where code and documentation disagree

- `settle_uncharged`: a row says TIMEOUT "nothing charged" while the chain charged
  the voucher (the answer or the receipt came too late and the re-drive bills 0
  or is told the deadline has passed). `README.md:216` excludes it.
- `lease_zombie`: a process whose claim fails with a database error, or whose
  manager gives up with its heartbeat running, serves the API alone for ever.
  `index.ts:45` and `lease.ts:7` exclude it.
- `intake_expired`: a verification that lands after the expiry sweep takes an
  EXPIRED intent to MONITORING. `db.ts:361` says the client gets a 404.
- `stream_undo`: an undo deletes every capture row, because the prune reads back
  the block number 0 the undo has just saved. `db.ts:212` means to delete only rows
  above the reverted cursor.
- `agent_void`: a voucher is void with the backend up all the time. A timeout
  settlement starts after the TTL; rejected once, it is driven again at the
  earliest `STALE_SETTLING_MS` = 120 s later, which is past the deadline of TTL +
  120 s. `cron.ts:8` says that only downtime longer than the buffer voids a voucher,
  `db.ts:296` that the staleness limit is short enough for a retry inside it. (That
  downtime shorter than the buffer can do it too, when no sweep falls into what is
  left, is why `OnlyLongOutageVoids` says "the buffer less a sweep period and a
  facilitator call"; one tick more in that bound and TLC violates it.)

Two smaller ones have no run of their own:

- A block lost by a failed handler is billed. `pricing.ts:4-5` says that "the backend
  meters the blocks it actually processes and settles exactly those", `README.md:8`
  the same. The bill is the distance from the start block to the cursor, and the
  commit of the next block moves the cursor past one whose handler threw
  (`substreamsManager.ts:358`). Without its second summand
  `ChargedIsProcessedOrLost` is violated after one upset: block 1 opens the window,
  then its handler fails; block 2 commits; two blocks are charged, one was committed.
- "Newest first" inside a block, see `AnswerIsComplete` in section 3.

## 5. What is proved

For every number of intents, drivers, transactions, processes, vouchers and
requests, any positive rate and budget, any size of the buffers, any transfers and
selectors, and any bound on blocks and failures. The proofs use the named
assumptions of the modules (constants are numbers, the absent values are not
members of the sets they stand beside) and nothing else, except in `AgentProofs`:
there two inequalities between timers are hypotheses of the theorems. Every safety
property a passing run checks is the statement of a theorem.

`SettlementProofs`
- `TypeCorrect` (`TypeOK`). `TypeInv` adds that a running driver has a job; the
  amounts are in type because of `AmountDueBounds`: the blocks consumed lie
  between 0 and the budget and multiplication by the rate is monotone.
- `RecordsMatchChain` (`RecordedChargeIsOnChain`) and `DeliveryIsFailClosed`
  (`DataOnlyAfterReceipt`). The invariant `MoneyInv` says what a driver holds at
  each program counter - nothing before the settle call was accepted, then a
  submitted transaction of its own job and amount, after the receipt a mined one
  - and that a voucher has at most one mined transaction. The property alone is
  not inductive: whether a mark is right depends on what the driver saw before.
  The chain moving only forward (`ChainMoves`) carries it across steps of
  others. No assumption on `SlowSteps`: money is right even when claims are
  stolen.
- `OneOwner` (`ClaimExclusive`) and `TerminalStatesAreFinal` (`TerminalIsFinal`).
  `OwnerInv` adds that the claim of a working driver still stands in the row and is
  fresh, unless it overran, which is why a second claim fails.

`VoucherProofs`
- `RecordsArePermanent`: a record of `MoneyInv` is rewritten only with itself, since
  a second mark for the same intent holds the same, only, mined transaction.
- `ChargesAreWithinQuote` and `FailedIntentsAreUncharged`, from `QuoteInv`: what a
  driver is about to submit was billed from an opened window, and an intent without
  a good voucher has no transaction.
- `EngineImplementsVoucher` (`ImplementsVoucher`): initial states map to initial
  states, and each step maps to `Open` (a window is opened), `Charge` (a
  transaction is mined), `Record` (a paid mark), `Tell` (a notice with data) or to a
  stutter. `VoucherInv` adds that a driver delivers only what its row records.
- `NoticesOfOneIntentAgree` (`NoticesAgree`), from `OneOutcome`: while no await
  overran, every notice of an intent, told or about to be, is the one its terminal
  row determines.

`WatchProofs`, the nine properties of the run `watch`. The invariant is a
conjunction of layers, each inductive given the ones before it:
- `Shape`, `Numbers`: fields and ranges; the cursor is never ahead of the stream;
  the start block has a date and is not early.
- `Stored` (`StoredEventsAreTheFirst`): merging into a buffer that was already cut
  is cutting the whole (`MergedPrefix`), although the code never sees the whole.
- `LogSafe` (`LogIsOfOneWriter`): without overlaps, a copy read and not yet written
  back is still the row's log and is the only one; cutting after each append keeps
  the latest of all (`CappedAppend`).
- `Owners`: one call holds the claim; what a call read of the start block is still
  true or was "unopened"; its bill is the arithmetic of what it read and of a
  cursor the stream has passed; a paid row is billed so.
- `NoticesOk`: a notice, from its mark on, states the row's outcome, and its events
  are a prefix of those the row stores, whatever is committed later. With `Owners`
  it gives `NoticeChargesWhatWasMetered`, `FreeIsUnprocessed` and
  `PaidNoticeIsConfirmed`. The first needs
  `DueIsMetered`, that counting from the start block to the cursor, capped, is the
  cardinality of the set of blocks at which the matcher's guard meters.
- `TriggerOk` (`TriggerBillsItsBlock`): while the trigger's call runs, no block is
  begun unless its chain was left behind, so the cursor stays at the block of the
  first match.
- `WindowOk`, `PaidOk` (`MeteredIsPaidFor`): what lies between the cursor and the
  last block delivered was skipped, but for the block under way; so the window
  opens beyond every block metered before. And every block delivered was committed or
  skipped, but for the one under way, which gives `ChargeHasNoGaps`
  (`ChargedIsProcessedOrLost`).
- `DeliveredOk` (`EventsAreDeliveredPaid`): after the bill only the block then under
  way can add events, since a claimed row is not watched.

`QuoteIsTight`, about `quoteWindow`: the budget is the least number of blocks that
lasts as long as the TTL sold.

`LeaseProofs`
- `TypesHold` (`TypeOK`), `SingleHealthyStreamer` (`OneHealthyStreamer`) and
  `FreshLeaseHolds` (`FreshLeaseIsRespected`). The invariant: a streamer that has not missed its
  beats is the holder of a fresh row; a claim that is on its way belongs to a
  living process.

`IntakeProofs`
- `TypesHold` (`TypeOK`), `OneIntentPerVoucher`, `AcceptedStaysBound`,
  `OnlyVerifiedIsCharged`, `ChargedOnce`, `FinishedStaysFinished`. The invariant `IntakeInv` follows a
  voucher: a request about to store has verified it; a row and an engine call
  hold only vouchers that a POST verified and stored for their intent (`Stored`: told
  202, still to be told, or never to be told); and, while no two requests
  overlap on an intent (`Alone`), a request past its status check still finds it
  unpaid. The last part is exactly what the code does not enforce with a
  compare-and-swap, and why the properties carry the overlap condition.

`StreamProofs`
- `TypesHold` (`TypeOK`). `TypeInv` adds that no cursor is newer than its block and
  that the first block is never replaced, so that an undo always finds a valid block
  to go back to.
- `BlocksAreMeteredOnce` (`MeteredOnce`), from `MeterInv`: what is queued is not
  metered, is not queued twice, on either chain, and is not beyond the cursor in
  memory. Until the first fatal error there is one chain, in order, ahead of the
  saved cursor (`OneChain`), which is what makes a crash harmless: everything
  metered is at or below the cursor the restart reads. After it the saved cursor may
  go backwards, and only "no crash" keeps the property; the two halves of its
  scope are the two forms of the invariant.
- `CursorGoesForward`, an action property from the same invariant: while there is one
  chain and nobody has gone back on purpose, no step moves the cursor row backwards,
  and a match is counted only in the step that takes the cursor from before its
  block to its block. No run has it as a property: TLC agrees with it on the
  instance of `lookback`, and finds it false without the exclusion of undos, of
  chains left behind or of shutdowns.
- `SavedCursorCovers` (`CursorCoversCapture`), from `CoverInv`: what was delivered is
  one interval of blocks; each chain is a run of blocks without a gap, each with
  the latest version that was delivered; everything delivered before a chain's first
  block, and everything up to the saved cursor, is captured and metered. The
  property speaks of the saved cursor alone and is not inductive, for a commit
  moves that cursor to a block whose predecessors are covered only because the chain
  has no gap. After a shutdown there are two such runs, which may overlap; the
  stopped process moves the saved cursor back and forth inside the interval.
- `RowsAreCurrent` (`NoStaleRowIsServed`), from `UndoInv`: a row, or a queued block
  with no undo queued behind it, is replaced only if the cursor in memory is
  replaced as well; and between the cursor save of an undo and its prune the saved
  block number is 0, so the prune deletes every row. (That it deletes too many is
  `stream_undo`; the proof shows what the code gains by it.)

`LookbackProofs`
- `LookbackOnlyReads`: with the endpoint beside it, the stream behaves as `Stream`
  says (each step is a step of the stream or leaves its variables alone), so the
  theorems of `StreamProofs` hold in `Lookback`.
- `AnswersAreComplete` (`AnswerIsComplete`), from `LookInv`: between the two reads
  everything up to the head that was read stays captured, although the saved
  cursor may be moved back by a stopped process in the meantime. `AnswerIsFull`:
  the window is finite, so an answer that leaves out one of its transfers has as
  many as the limit allows, and holds none that comes after the one left out.

`AgentProofs`. A hypothesis is an inequality between timers which the values in the
code satisfy: `ClaimOutlivesAttempt`, `Latency + Receipt <= Stale` (a facilitator call
and the 60 s of the receipt poll within the 120 s of `STALE_SETTLING_MS`), and
`DogOutlastsSettlement`, `SweepEvery + Receipt + 2 * Latency < Slack` (60 s, 60 s and
two calls below the watchdog's 180 s). With the code's values the first holds when a
facilitator call returns within 60 s, the second within 30 s. The code sets no
timeout on that call; `Settlement` has the runs and proofs where it takes longer.
- `TypesHold`, and `LeftClaimsAreRetried` (`LeftIsRetriedSoon`), for all timers, from
  `SweepInv`: since a window could be driven, no sweep was missed (`SweptSince`) - the
  last multiple of the period is not later, or it is now and its sweep is still to
  run. That is what is carried across a tick; the bound in the property is not.
- `AttemptsDoNotOverlap` (`AttemptsNeverOverlap`), if `ClaimOutlivesAttempt`, from
  `AttemptInv`: an attempt at work is not older than its claim and has not run out
  of time, so what a sweep finds stale is at rest.
- `VouchersOutliveShortOutages` (`OnlyLongOutageVoids`), if `ClaimOutlivesAttempt`,
  from `VoidInv`: while nothing is rejected or lost, a window has one attempt, which
  starts within a sweep period and the longest outage of the window's end.
- `NoticesArriveFirst` (`WokenByItsNotice`), if both, from `NoticeInv`: the window
  the agent waits for is the only one with a notice to come, and that notice is due
  before the watchdog, at each stage (watched, asked, awaiting the receipt, being
  delivered) by what is still ahead of it.

Only model-checked: the liveness properties `ExpiredIsDriven`, `ClaimResolved`,
`UsurpedStreamerStops`, `LeaseRecovers` and `CatchesUp`, and the disagreements of
section 4. The proof system does not reason about fairness (ENABLED).

## 6. The plan

Done, in this order of importance: `Billing`, `Settlement`, `Lease`, `Intake`,
`Stream`; then `Watch` (with what was planned as a module of its own for the
lifecycle log), `Voucher` and the refinement, `Lookback`, `Agent`; then proofs for all
of them. Next:

1. An abstract cursor (blocks applied once, in order) that `Stream` implements while
   no chain is left behind; `MeterInv` and `CoverInv` have the facts it needs.
2. The rest of the lease around the write chain: a usurped streamer that delivers
   until its next beat (what a shut-down process still has queued is `Handover`).
3. Liveness of `Watch`: a met watch is settled although its calls fail, under the
   fairness of `Settlement`.
4. Several watches in one handler: the trigger of one holding up the blocks of the
   other past its TTL.

## 7. What is not modelled

The contents of a query, a quote and a voucher; HTTP, JSON, hex and time formats;
the rate limiters (a library's counters); the rails and the x402 middleware of the
oneshot endpoint, which verifies before the handler and settles after it; the
recent list of the report (the same view of several rows); the stream status shown
by the health endpoint; logging; the operator scripts; what the agent's language
model answers, its x402 client and its allowance bootstrap (a library and the
chain, before a watch exists); the web pages, spikes, deployment files and the
vendored package.
