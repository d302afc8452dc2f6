# Formal models of the SignalDesk execution desk

SignalDesk (package `mandate-markets`) trades perpetual futures on Hyperliquid for
several owners. It polls one vendor's forecasts, turns each forecast that clears its gates
into an *intent* per account, and once a minute drives every account's venue state toward
what its ledger of intents says should be there. The specifications in this directory model
the program's own logic, from the vendor's archive to the page an owner reads. TLC checks
them on small instances; TLAPS proves the theorems in `*Proofs.tla` for every value of the
constants.

Paths below are relative to the repository's `src/` directory unless they say otherwise.

* [The system](#the-system)
* [Modules and how they map to the code](#modules-and-how-they-map-to-the-code)
* [What each run checks](#what-each-run-checks)
* [Fairness](#fairness)
* [What is proved](#what-is-proved)
* [What the models found](#what-the-models-found)
* [What is abstracted, and why that is sound](#what-is-abstracted-and-why-that-is-sound)
* [Not modelled](#not-modelled)
* [Plan](#plan)
* [Running it](#running-it)

## The system

Two processes share one SQLite ledger. The **executor** (`exec/runner.ts`) is a single
sequential loop over all accounts; it alone writes intents, orders, fills and account rows.
The **web server** (`web/server.ts`) writes only *requests*, in databases of its own, which
the executor consumes, and reads the ledger for the pages it serves. A third process, the
**recorder**, polls the vendor and journals what it hears; a timer runs the **watchdog**
over what the others leave; **operator scripts** write to the ledger from the shell; and the
**browser** walks an owner through the signatures only a wallet can give.

So the hard behaviour is not two threads racing in memory. It is

* one pass of the loop, split by its `await`s, against a venue that moves on its own:
  triggers fire, answers are lost, the owner trades by hand, and the process dies between
  the venue accepting an order and the ledger recording it;
* two processes that tell each other things through rows that are never deleted: presses,
  admissions, unlinks, holds that lapse, and pages built from reads of several moments;
* time: UTC days that roll in the middle of a halt, watermarks that outlive the account they
  belong to, approvals that lapse, a month's credits, a block of trades;
* state that a restart must not forget (a refusal, an alarm already sent, a half-run
  migration) and state it must (a remembered leverage).

### Inventory

| component | source | state it keeps | what makes it correct | here |
|---|---|---|---|---|
| execution loop | `exec/loop.ts`, `plan.ts`, `reconcile.ts` | none: every pass re-derives what to do from ledger and venue | one live intent per coin; a position always belongs to an intent; its stop rests in exactly its size; nothing of a finished intent rests | `Tick`, `Planner`, `Budget`: whole |
| paper venue and the venue contract | `exec/paper.ts`, `broker.ts`, `types.ts` | positions, resting orders, marks | reduce-only fills never cross flat; both venues agree on what a fill does | `Venue`: in part |
| live venue adapter | `hl/orders.ts`, `broker.ts`, `state.ts`, `cloid.ts` | the leverage it believes set | an answer says what happened; an order id leads back to its intent | `Venue`, `Tick`, `Budget`: in part |
| risk governor | `risk/governor.ts`, `capacity.ts`, `expiry.ts`, `sizing.ts`, `regimes.ts`, `params.ts` | none | a veto on every path; margins of live intents never sum past the mandate; a stop before the liquidation | `Planner`, `Budget`, `Outage`, `Reading`: in part |
| ledger store | `store/db.ts`, `synthetic.ts` | accounts, intents, orders, fills, admissions, connections, events | status never runs backwards; the risk state of an account survives its disconnect; opening an old file loses nothing | `Ledger`, and each user's tables: in part |
| halts, baseline, change requests | `risk/halt.ts`, `risk/ledger.ts`, `exec/change-queue.ts`, `exec/settings.ts`, `web/changes.ts` | halted flag, kind, day, baseline; requests; limits | who may clear what and when; a refused press stays spent; what the card shows is what is traded | `AccountRow`, `AccountRisk`, `Limits`: whole |
| fill ingest and counterfactuals | `exec/fills.ts`, `counterfactual.ts` | fills, watermarks, summaries | no fill lost behind the watermark; a stranger's fill halts, an old one does not; a summary answers every stop | `FillIngest`, `Replay`: in part |
| connect queue and accounts | `exec/queue.ts`, `connect-queue.ts`, `accounts.ts`, `mode.ts`, `web/connect.ts`, `web/queue.ts`, `web/renew.ts`, `keys/*` | queue rows, admissions, connections, the sealed keystore, plans of a renewal | never more than the live slots; turns are kept; the key on disk is the agent on the row; nobody is kept out | `AccessQueue`, `Front`, `Approvals`, `Wizard`: in part |
| runner | `exec/runner.ts` | accounts in service, the last heartbeat, its alarms | a failing account stops neither the others nor its own ingest; owners hear in time | `AccountRisk`, `Front`, `Outage`: in part |
| venue approvals, deposits, market data | `hl/approve-*.ts`, `deposit.ts`, `numbers.ts`, ... | none | a refusal is never read as success; rounding never crosses a price the wrong way | `Approvals`, `Budget`: in part |
| signal mapping | `mapping/*` | none | coin and side are the vendor's; the stop clears the buffer | `Tick`, `Budget`, `Replay`: in part |
| recorder and feed | `signals/*` | journal, archive, credit meter | every line reads back as it was said; never spends past the cap | `Feed`, `Reading`, `Sigma`: in part |
| operations | `ops/*` | alert edges, config fingerprint, heartbeats | a refusal survives restarts; what fires is heard | `Alerts`, `Watch`, `Outage`, `SpeedLimit`, `Sigma`: in part |
| web server and sessions | `web/*` | sessions, challenges, requests, a cache of desks | a challenge and a look at X are spent once; a served desk is true | `Visitor`, `Served`, `Limits`, `Screen`: in part |
| browser client | `../design/src/*` | the reader, pages, what the screen was last told | no dead end; nobody sees another's account | `Wizard`, `Screen`, `Approvals`: in part |
| analysis scripts | `scripts/*` | none of the running system | the simulator is the desk; a reading pools one feed and one configuration | `Replay`, `Reading`, `Sigma`, `Limits`, `Front`: in part |
| rulebook contract | `../contracts/src/MandateRulebook.sol` | published rules, operator | an answer nobody can rewrite afterwards | `Rulebook`: whole |

`PROJECT.json` says per component what "in part" leaves out, and lists under `hazards` what is
hard to test in this code, each at its line with the properties that watch it.

### How they interact

```
 recorder  -> archive (journal)      <- executor, watchdog, backtest, expectancy read it
 browser   -> web server -> requests <- executor
 operator scripts -> ledger, requests, accounts/<address>.json

 executor loop
   releaseUnlinked / serviceQueue / admitNewAccounts / serviceConnectRequests   Front
   serviceChangeRequests: settings, Clear, mandate                Limits, AccountRisk
   for each account
     tick:  readAccountView  ->  considerSignals (preTradeCheck)        Tick / Budget
            -> plan / reconcile / haltCheck
            -> place and cancel one by one -> protectFreshFills -> settleLedger
     ingest (slow cycle, and after each close): fills -> funding -> halts  FillIngest
   alarms of its own, heartbeat                                Outage, read by Watch
```

`Tick` is the inside of the `tick` line, for one account, and `Budget` the arithmetic inside
its `considerSignals`. `AccountRisk` is the life of one account around it, with the tick
reduced to what it does to the account row. `Front` is the loop around all accounts.

## Modules and how they map to the code

Trading one account:

| module | extends | what it is |
|---|---|---|
| `Venue` | | the exchange account of one owner: net positions, resting orders, what a fill does, what venue and owner do by themselves |
| `Planner` | `Venue` | the pure part of a pass: `planIntent`, `reconcile`, `orderActions`, the filter under a halt, `haltCheck` |
| `Tick` | `Planner` | the pass, split at each await, with the ledger and the surroundings |
| `CoinClaims` | | abstract specification: a coin is claimed by one intent at a time, and an intent that let go never claims again |
| `Budget` | | the money of a pass: mandate, reserve, vetoes, leverage, stop, and entries filled late or at another price |
| `AccountRow` | | the `accounts` row, `account_risk_state`, the halt events; one operator per statement of the store; `canClearHalt` |
| `FillIngest` | `AccountRow` | `ingestAccount`, split at each await |
| `AccountRisk` | `FillIngest` | one account through the runner's loop |
| `TickProofs`, `AccountProofs` | | theorems about `Tick` and `AccountRisk` |
| `BookProofs` | `TickProofs` | theorems: positions, ledger and claims, the orders that rest, and stops that fired |
| `Extrema` | | lemmas on least and greatest members and on sums, for all proof modules |

Getting in, and what is kept about an account:

| module | extends | what it is |
|---|---|---|
| `AccessQueue` | | the queue's rows and what both processes compute of them: rank, place shown, holds, who is admitted |
| `Front` | `AccessQueue` | the executor's loop around many accounts, split where it awaits the venue or writes the keystore; the web tier's requests, the operator's commands and files |
| `Wizard` | | the connect screen: one button, one awaited walk, readers that answer in any order |
| `Approvals` | | the two signatures: plans the web tier holds in memory, relays, tabs, the venue's expiry |
| `Visitor` | | challenges, sessions, PKCE cookies, the paid looks at X |
| `Limits` | | an account's limits in the four places that keep them |
| `Served` | | the desk a web process builds of two reads and keeps for some seconds |
| `Screen` | | one signed-in tab: whose figures it paints, and its pages of closed trades |
| `Ledger` | | opening a ledger of an earlier version: eight steps, each finding its need in the data |
| `FrontProofs` | `Front`, `Ledger`, `Extrema` | theorems about the front door and the opening of the ledger |
| `SiteProofs` | `Visitor`, `Approvals`, `Limits`, `Served`, `Screen` | theorems about logins, signatures, limits, pages and histories |

The signals and the operations around them:

| module | extends | what it is |
|---|---|---|
| `Feed` | | the recorder, its meter, its back-off, and the readers of its archive |
| `Sigma` | | the watch on the feed's own volatility estimate |
| `Reading` | | what one reading of the ledger may pool |
| `Replay` | | the simulator's two passes over an archive, beside the desk living through it bar by bar |
| `Alerts` | | when an alarm speaks |
| `Watch` | `Alerts` | a run of the watchdog, killed between a message and its save |
| `Outage` | `Alerts` | the executor's own alarms |
| `SpeedLimit` | | the speed limit on the money constants over boots, kills and lost files |
| `Rulebook` | | the contract |
| `DeskProofs` | `Feed`, `Watch`, `Outage`, `SpeedLimit`, `Rulebook`, `Reading`, `Budget`, `Sigma`, `Extrema` | theorems about the recorder, the alarms, the speed limit, the contract, the reading and the money |
| `ReplayProofs` | `Replay`, `Extrema` | theorems about the simulator |

Modules `MC...` give the constants small values. Three of them check several machines in one
run: the machines share no state, so a variable `scene` chosen at the start says which one
moves and the others stay where they began (`MCDesk`, `MCSite`, `MCLive`). The states
of such a run are the sum of the machines' states, not their product.

`PROJECT.json` maps every definition to the lines it stands for. Operators with a suffix
after an underscore (`Desired_EntersAnyway`, `Counted_NotDeployed`) are deliberate slips of
the operator they precede; they are used only to show that a property notices the slip.

### Tick

State: the venue (`pos`, `book`); the ledger, which survives the process (`status`,
`terms`, `filled`, `closeRow`, `stoppedToday`, `consumed`, `halted`); the clock (`late`); the
locals of the pass, which a crash loses (`pc`, `seenPos` ... `holding`); history variables,
which nothing reads but the properties (`calm`, `entered`, `left`, `stopOuts`, `faults`).

| action | code | what it does |
|---|---|---|
| `Begin`, `Assess` | `hl/state.ts` 25-114, `loop.ts` 82-195 | positions and orders are read by separate requests, so the view may be torn; a fresh snapshot retires open intents it no longer carries; `calls` is what will be considered |
| `Consider` | `loop.ts` 297-431 | one call that passes every gate becomes a pending intent |
| `PlanPass` | `loop.ts` 197-266 | desired orders of every priced intent, the difference from the book, `haltCheck`, the filter under a halt, the halt persisted |
| `Send` | `hl/orders.ts` 62-89 | the most urgent action goes out: accepted and filled in part or whole, refused, or accepted with its answer lost |
| `Record` | `loop.ts` 512-542 | the order row and the intent's status after the answer |
| `CancelOne` | `hl/orders.ts` 91-103 | cancel by client order id; gone is not an error |
| `ProtectFreshFills` | `loop.ts` 457-481 | re-read, and put exits on what this pass opened |
| `Settle` | `loop.ts` 586-669 | the ledger is made to agree with the view, as read again if the pass touched the account |
| `Abort` | `runner.ts` 505-579 | a read throws, or the process dies, at any await |
| `HorizonPasses`, `DayRolls`, `Observe`, `ClearHalt` | clock, vendor, operator | only between passes: a pass reads each of them once |
| `ExitFires`, `Liquidation`, `ByHand` | venue and owner | between any two steps |

### AccountRisk

A pass of the runner takes five instants: `admit`, `clear`, `mandate`, `tick`, `ingest`
(operators `Steps`, `Step`). Between two of them the other parties act.

| action | code | what it does |
|---|---|---|
| `Admit` (`Release`, `Connect`) | `runner.ts` 327-422, `db.ts` 905-965, 1779-1827 | an unlink moves halt and baseline to `account_risk_state` and deletes the row; a connect writes them back |
| `DecideClear` | `change-queue.ts` 199-234 | a press newer than the last decision clears or is refused; either way it is spent |
| `ReadMandate` | `change-queue.ts` 236-276 | re-bases the mandate and the day's baseline on the equity less today's realised result |
| `Tick`, `TickThrows` | `loop.ts` 82-288, `runner.ts` 552-579 | rolls the day, measures the loss, halts or types a halt, opens or settles the one trip |
| `Ingest` (`BeginWalk`, `ReadPage`, `Conclude`, `WalkThrows`) | `fills.ts` 306-435, `runner.ts` 581-612 | pages, watermark, funding, then the halts |
| `Crash` | `runner.ts` | the locals go: the walk, the last beat, the list of managed accounts |
| `MarkMoves`, `PositionCloses`, `Deposit`, `FillArrives` | venue and owner | the surroundings |
| `AskConnection`, `PressClear`, `PressMandate` | `web/sessions.ts`, `web/server.ts` 812-855 | the web tier's requests; Clear is offered under the executor's own rule with the heartbeat's equity |
| `OperatorClears` | `scripts/unhalt.ts` 153-189 | from another process, between any two steps |

### The other machines

| module | steps, and the code they stand for |
|---|---|
| `Budget` | `PassBegins` (`loop.ts` 82-97) reads deployed, count and free collateral once; a call is vetoed (`governor.ts`, `ledger.ts`), found unfit (`capacity.ts`, `intent.ts`) or has its leverage set (`hl/broker.ts` 50-54) and its row written (`loop.ts` 417-426); pending rows fill, wait or are refused at the present mark (`plan.ts` 69-85); around them settings, mandate, cash, mark, the owner's hand on the leverage, a crash that forgets what leverage was set |
| `Front` | the web tier's six requests and the operator's `invite`, `admit` and pin files; `Start`, `ConnectNext`, `LoopBegins`, `ReleaseNext`, `QueuePass`, `SealKey`, `WriteRow`, `AskAgain`, `ApplyLimits` are the stages of `runner.ts` 96-462; `Fails` a venue, a ledger or a process that gives up at one of them |
| `Wizard` | `Press` starts a chain at the phase painted (`connect.ts` 460-544); each awaited step goes on or ends it; `StatusArrives`, `BalanceArrives`, `FeeArrives`, `ReferralArrives` repaint; `Leaves`, `Returns`, `GivesUp` |
| `Approvals` | prepare, sign, relay, answer (`web/renew.ts`, `web/builder-fee.ts`, `hl/approve-*.ts`), over two tabs, a restart of the web tier, and the owner acting on the venue |
| `Visitor` | `IssueChallenge`, `LoginBegins` / `LoginEnds` around the verification, `CallbackBegins` / `CallbackEnds` and `PostArrives` / `PostEnds` around the look at X (`web/auth.ts`, `sessions.ts`, `xoauth.ts`, `server.ts`) |
| `Limits` | `OwnerPresses`, `ExecutorReads` / `ExecutorServes` (`change-queue.ts` 148-184), start and stop of the executor, `OperatorLooks` / `OperatorWrites` (`scripts/settings.ts`), `OperatorPins` |
| `Served` | `BuildBegins` reads the ledger, `BuildEnds` joins the venue's answer and keeps the payload (`web/desk.ts` buildDesk, `server.ts` 1029-1048), between them the executor, strangers and presses |
| `Screen` | `LoadDesk`, `DeskArrives`, `ChartArrives`, `SignalsArrive`, `PageArrives`, `RefusalArrives` of one tab (`desk.ts`, `session.ts`), against a session that ends or changes hands |
| `Ledger` | `MigratePaperBook`, `MigrateSkips`, `ApplySchema`, `AddMissingColumns`, `ReadForKeys` and `MigrateOutlookKeys`, `DateAccounts`, `NormaliseAccountKeys`, then use and pruning; `Dies` between any two; `WebBoots` beside them (`store/db.ts` constructor) |
| `Feed` | a pass over the endpoints: not due, succeeds, fails, is billed and lost, is not appended; `Sleeps`, `Dies`, `Restarts` (`signals/recorder.ts`, `meter.ts`, `journal.ts`) |
| `Watch` | a whole run in check order with one save at its end, or a run killed after a message (`ops/watchdog.ts`) |
| `Outage` | a tick that throws or ends, the hourly look at the approval, renewals, revocations, restarts (`runner.ts` 60-95, 505-579) |
| `SpeedLimit` | a boot that ends, throws after its writes, or is killed between them; deploys, overrides, trades that close, the file lost (`ops/config-event.ts`) |
| `Replay` | one step, `BarCloses`: the desk's hour (`loop.ts` 297-450, `plan.ts` 60-79), a coin's strongest outlook first (`Strongest`) and each to its own anchor (`IsOffered`, `Becomes`), while `Simulated` is the simulator's two passes over what there is so far (`scripts/backtest.ts`), in the feed's order, graded by `Replicates` |
| `Reading`, `Sigma` | polls, trades, boots with another configuration, days; the reading and the alarm are operators of the whole log (`scripts/expectancy.ts`, `signals/contract.ts`, `ops/feed-watch.ts`) |
| `Rulebook` | `publish`, `transferOperator`, `acceptOperator`, `ruleAt` by its binary search |

## What each run checks

Nine tenths of the value of these runs is in what may happen *between* two awaited calls, so
the bounds favour interleavings over size.

| run | instance | states | asks |
|---|---|---|---|
| `core` | 1 coin, 2 intents in turn, 2 lots per entry, 1 fault | 1.0 M | is every position some live intent's, at every instant, across a crash there (`EveryPositionIsAccountedFor`)? does any pass nothing disturbed leave it with its stop in exactly its size (`OpenIsProtected`) and known to the ledger (`LedgerAgrees`)? is a coin left alone for the day once its stop fired (`NoReentryAfterStop`)? does the ledger implement `CoinClaims` (`ImplementsCoinClaims`)? |
| `owner` | 1 coin, 1 intent, the owner trades, rests and cancels orders; operator and daily-loss conditions come and go | 2.5 M | do strangers hold the account (`StrangersStopTheAccount`)? is the book after an undisturbed pass what the rows ask for, halted or not (`BookIsWhatTheRowsAsk`)? are the owner's orders left alone (`HandOrdersStay`)? |
| `pair` | 2 coins, 3 outlooks, 2 intents at a time, answers may be lost | 3.5 M | is a coin held by one live intent although lost answers let a failed row come back (`OneLiveIntentPerCoin`)? |
| `live` | 1 coin, 1 intent, held to target or not; and beside it one person at the connect screen with the longest walk ahead of them, 1 mishap | 0.8 M | do intents past their horizon end, and what rests for them go (`NothingLingers`)? is everybody who signs and presses connected (`EverybodyGetsThrough`)? |
| `account` | three to four UTC days of two passes each, 3 moves of others or failed calls, with or without a halt from before kinds were recorded | 4.7 M | does a strict halt last until an operator (`StrictHaltsNeedAnOperator`)? does an owner's Clear wait for the day and a press of its own (`ClearsAreEarned`)? does the day keep its baseline (`OneBaselineADay`), and a re-read mandate its losses (`RebaseKeepsTheDay`)? |
| `ingest` | 3 fills of 3 sorts, pages of 3, 5 moves, 1 fault | 4.0 M | is every fill read (`NothingSkipped`), every stranger's answered by a halt, and nobody halted for the past (`NewsIsHeard`)? |
| `front` | 2 people, 1 slot, 5 requests or commands, 1 failure | 3.7 M | is the agent on the row the key on disk (`AgentIsTheSealedKey`)? are turns kept, as shown and after a lapse (`TurnsAreKept`)? are slots never given twice (`QueueNeverOverbooks`)? |
| `comeback` | a live account and an allowlisted newcomer at a full desk whose limits change, 4 moves, 1 failure | 0.7 M | is every incumbent managed again (`IncumbentsComeBack`)? is an unlink that stands carried out for good (`ReleasedForGood`)? |
| `desk` | the nine machines of signals and operations | 3.0 M | see below |
| `site` | the six machines of web tier, page and ledger file | 8.2 M | see below |
| `halted_enters`, `late_entry` | 1 coin, 1 intent | small | the two disagreements listed under [What the models found](#what-the-models-found) |

The properties of `desk`, each a conjunction where one machine promises several things:

| property | machine | says |
|---|---|---|
| `BudgetIsKept` | `Budget`, 3 coins of both sides and three venue caps, 2 marks, 2 settings, 2 passes, 1 deed | what is staked fits the mandate less its reserve; an account that still covers its mandate is refused for money only by the count; at the price its row was planned at, within slippage, a stop lies this side of the liquidation |
| `SimulatorIsTheDesk` | `Replay`, 4 outlooks on 2 coins, 3 of them on one, 4 polls of 2 strengths, anchors inside and past the archive, 4 bars of 4 shapes, days of 2 bars | where neither rule decided that the simulator lacks (`waited`, `ranked`): the walk did the desk's trades and grading reads no gap; always: budgets and halts add up, a stored summary answers every stop |
| `ReadingIsOneFeed` | `Reading`, 3 polls, 3 trips, 8 instants | no event of a scored block was decided on a broken feed, no two across two changes of configuration |
| `AlarmIsAMajority` | `Sigma`, 3 pairs, 5 days | the alarm is up only, and surely, for pairs no day lacks |
| `RecorderKeepsFaith` | `Feed`, 2 endpoints, 3 payload hashes, days and months of 2 ticks | every line reads back as said; spending stays under the cap by more than what was billed and lost |
| `NothingFiresUnheard` | `Watch`, 1 account, 3 hours, 1 kill | after a run the channel has heard what it found, once per interval |
| `OwnersHearInTime` | `Outage`, 6 instants, 1 restart | a lapse is foretold, a failing tick is told and, without a restart, its end |
| `BootsAnswerForTheDesk` | `SpeedLimit`, 2 constants of 2 values, 4 boots, 1 lost file | no restart opens a desk on refused constants; the ledger has a row of what runs |
| `AnswersAreFinal` | `Rulebook`, 2 addresses, 3 rules, 3 instants | an answer for a time before the last entry's beginning never changes; the right to publish is only taken when offered |

and of `site`:

| property | machine | says |
|---|---|---|
| `NothingIsSpentTwice` | `Visitor`, 2 wallets, 2 browsers, 2 X users | a challenge opens one session; a wallet never costs more looks than its allowance |
| `TabsAreRight` | `Approvals`, 2 tabs, 2 plans, 1 mishap | what a tab said last is true of the venue |
| `OpenedSaysTheSame` | `Ledger`, 5 sets of accounts, 3 paper books, 4 skip logs, 2 signal sets, 2 deaths | opening, dying and opening again change nothing the file says, and nobody runs on a file that is not finished |
| `LimitsAreAsAsked` | `Limits`, 2 accounts, 3 offers, 2 acts of an operator | a spent press was served; the card is what is traded; a sweep leaves a control arm |
| `DeskIsTheReaders`, `HistoryIsWhole` | `Screen`, 2 readers, 3 trades, pages of 1, 4 calls | a reader is painted their own account, and their own curve unless it is on its way; pages strung together miss and repeat nothing |
| `ServedIsTrue` | `Served`, 1 market, 2 builds, 3 moves | a press shows until it is served; strangers named are strangers there |

Why these bounds are enough to be worth something:

* **Two lots** is the least with a partial fill, and so with a re-size; one lot is used only
  where sizes do not matter (`pair`, the violations).
* **One fault** reaches every single failure at every await. Two failures in *different* passes
  are covered by one as far as the invariants go, because they hold after *any* undisturbed
  pass from *any* state reached, whatever the history; what one fault does not show is two
  failures inside one pass.
* **Two ids** let a coin be claimed again after its first intent ended: once for
  `NoReentryAfterStop`, and once for a revived row to collide with a newer one.
* **Two passes a day over four days** let every sequence press - refuse - midnight -
  decide, halt - unlink - midnight - reconnect and lose - midnight - lose again fit, with
  three steps of others in front of the release and the mandate (`Between`). The `account`
  run was also made with four moves: 29 M states, no error.
* **Pages of three** against three fills give both a full page and a page cut short.
* **Two people and one slot** is the least with a queue; a hold of one tick lapses while its
  owner is connecting and goes to the other. Five requests let a person join, be brought,
  link, post and ask to connect.
* **Two of a kind** (tabs, browsers, wallets, builds, readers, boots in a row) is the least for
  one to overtake the other, and one mishap is put at every step.
* **Three coins with venue caps of 10, 20 and 40** at settings of 10 and 20 times give a
  clamped and an unclamped leverage and stop on both sides; 50 and 30 percent a signal give
  a book that divides evenly and one that does not.
* **Four bars, days of two** hold a trade carried over midnight, a stop and a target touched by
  one bar, a second entry of one outlook, and a day halted and reopened.

Every property of a passing run has a mutant of the code that breaks it (`mutants` in
`PROJECT.json`).

`Undisturbed` in the properties of `Tick` says: the pass that just ended began with nobody else
moving and nothing failing until it ended. It says nothing about the passes before, which is
the point: "self-healing" (`exec/plan.ts` 10) means one good pass repairs whatever the
earlier ones left.

## Fairness

`FairSpec` of `Tick`, which the `live` run takes over for its scene of the loop:

* `WF_vars(LoopStep)`: the runner loops once a minute for ever and awaits every call; calls
  have time-outs in the HTTP client and a throw ends the pass (`Abort`), so the pass always
  goes on or starts again.
* `SF_vars(CloseFills)`: a close is immediate-or-cancel, so any one may fill nothing. The
  venue is assumed to fill, in full, a close that is sent again and again for ever. Nothing
  in the code can make this so; without it no exit strategy ends. Entries, targets and
  stops are under no such assumption, and `Abort` under no fairness.

The `live` run has the fairness of its two machines, `comeback` that of `Front`.

* `WF(Executor)` of `Front`: the unit starts an executor that died and its loop goes on. What
  people ask for, failures and the clock are under none.
* `WizardFair`: a read that was asked for is answered, the timer fires, the desk serves, a
  deposit sent is credited; and, of the person, that a button offered again and again is one
  day pressed (`SF`), that a prompt is answered, that a screen that stopped is opened again.
  A wallet that declines is a mishap and not fair. This is what "whoever keeps trying" means;
  nothing is assumed of the order in which answers arrive.

## What is proved

TLAPS checks the theorems below for all coins, intents, sizes, days, page sizes, people, tabs,
endpoints, numbers of faults and of moves. They rest on the named `ASSUME`s of the modules,
which say of what type the constants are, and where the last column names one on a hypothesis
that the run of the same property has too.

The loop (`TickProofs`, `BookProofs`):

| theorem | says | argument | hypothesis |
|---|---|---|---|
| `TypeCorrect` | `TypeOK` | one lemma per action; the helpers of `Planner` and `Venue` have lemmas that say what they return | |
| `OneIntentPerCoin` | `OneLiveIntentPerCoin` | `PlannedApart`, see below, and `OnlyPlannedInFlight`: what is sent, answered or freshly filled belongs to a row of the plan | |
| `OwnersOrdersStay` | `HandOrdersStay` | order ids of the book, the remembered book and the pending cancels are never shared by two orders (`SlotsApart`), so a cancel computed from an old book cannot hit a newer order of the owner's | |
| `StrangersAreFound` | `StrangersStopTheAccount` | `CalmInv`: while nothing disturbs a pass, what it read is what there is, every answer came, and each position is a listed row's unless the pass holds the account | |
| `PositionsAreAccountedFor` | `EveryPositionIsAccountedFor` | `RowsInv` (what is in flight is an entry of a row that still claims) and `PositionsInv` (a pass that enters does so from flat, at most one entry at a time) | no hand trades, no lost answer |
| `LedgerIsRight` | `LedgerAgrees` | settling marks every row of a position it saw, and the view is the venue's when nothing disturbed it | the same |
| `FinishedStays` | no row that finished is revived | a row that a pass planned from and that finished has no position left to be found | the same |
| `LoopImplementsCoinClaims` | `ImplementsCoinClaims` | initial states map to initial states; each step claims one free coin (`Consider`), lets some go (`Record`, `Settle`, a retirement) or stutters | the same |
| `BookIsRight` | `BookIsWhatTheRowsAsk` | `BookInv`: at each await of an undisturbed pass, the orders that rest and stay, with the actions still to do, are what the plan wants, one of each kind per coin | every market quoted |
| `StopsRest` | `OpenIsProtected` | follows from the one before | the same |
| `NoReentry` | `NoReentryAfterStop` | `FiredInv`: triggers carry their row's coin and side; only a pass that enters a pending row moves it on; an intent whose stop fired is on the day's list, or had a close out, or lives on flat and was last left by that stop | no hand trades |

One account (`AccountProofs`):

| theorem | says | argument | hypothesis |
|---|---|---|---|
| `StrictHaltsLast` | `StrictHaltsNeedAnOperator` | the row is always one of the records the table can hold (`RowWhole`), and each step keeps the halt, moves it to or from `account_risk_state`, or is the operator's | |
| `BaselineLastsTheDay` | `OneBaselineADay` | from `RowWhole` and the clock that does not run backwards: nothing but `ReadMandate` writes a baseline whose day is today | |
| `NothingIsSkipped` | `NothingSkipped` | `IngestInv`: fills arrive at or after the clock, everything the walk has passed is stored, and its watermark is never beyond what it read | `PagesHoldWholeInstants` |
| `NewsAreHeard` | `NewsIsHeard` | the same, with `NewsInv`: what a walk calls news it has stored itself | the same, nothing traded while unlinked |
| `RebasesKeepTheDaysLosses` | `RebaseKeepsTheDay` | `DayInv`: nothing is booked after the day of the baseline, and while the day is `whole` what was traded since it opened is what was booked that day and the result of the trip still open | one clock |
| `ClearsMustBeEarned` | `ClearsAreEarned` | `DecisionsAreKept` (a refused press has an event at or after it) and `HaltsAreDated` (the halt in force is dated by an event after the last clear, on the day it fired on) | one clock, no clear in the instant of a tick |

Getting in, and the site (`FrontProofs`, `SiteProofs`):

| theorem | says | argument | hypothesis |
|---|---|---|---|
| `FrontTyped` | the state of `Front` is well typed and every key was minted | one lemma per stage of the loop | |
| `AgentIsSealed` | `AgentIsTheSealedKey` | `KeysInSync`: a row is written with the key just sealed, or with the one found sealed | the ledger takes what is written |
| `KeysAreKept` | `OneKeyEach` | the same invariant | the same |
| `TurnsKept` | `TurnsAreKept` | who is managed is connected (`ManagedAreConnected`), so the queue compares newcomers only, and rank is a strict order on them | |
| `QueueKeepsToItsSlots` | `QueueNeverOverbooks` | cardinalities of the managed, the held and the newly held | |
| `LedgerAlwaysSaysTheSame` | `OpenedSaysTheSame` | `LedgerInv`: every file an opening can meet is well formed, it means what was recorded, and each stage leaves behind it nothing of what it brings forward; collapsing rows onto one key keeps the sum of each class and its widest span (`CollapseTwice`, `WidestOfParts`) | |
| `SpentOnce` | `NothingIsSpentTwice` | a nonce is in one place at a time (`NoncesAreApart`); every look paid for today is in the count of the wallet's row (`LooksAreCounted`) | |
| `TabsSayWhatIs` | `TabsAreRight` | `ApprovalsAreRight` relates a tab's last word to the plans, the relays under way and the venue | |
| `LimitsAsAsked` | `LimitsAreAsAsked` | `LimitsInv`: presses are later than what they replace; a card differs from what is traded only when an operator wrote it or the executor is down; of any n accounts moved on a day the last was looked at under a budget of n or more (`MovesFit`) | |
| `DeskIsServedTrue` | `ServedIsTrue` | `ServedInv`: a build remembers what it read, and in which markets an intent or position moved since | |
| `ReadersSeeTheirOwn` | `DeskIsTheReaders` | `ScreenInv`: until an answer crosses into a later session, each copy a tab keeps is of the account it was fetched for (`OwnCopies`) | |
| `HistoryIsReadWhole` | `HistoryIsWhole` | `HistoryInv`: a page is what its call asked for, a newest-first order of any trades exists and is one, pages strung together go on from the cursor of the last, and one call for the list is under way at most | |

Signals and operations (`DeskProofs`, `ReplayProofs`):

| theorem | says | argument | hypothesis |
|---|---|---|---|
| `BootsAnswer` | `BootsAnswerForTheDesk` | `FileIsSaid`: what the file names has a row, and while no file was lost it says of the refused constants it names that they are | |
| `OwnersHear` | `OwnersHearInTime` | `OutageInv`: the file never says more than the channel heard; an alarm past its count fires in both; after a look at an approval about to lapse the last word is younger than a repeat interval | |
| `WhatFiresIsHeard` | `NothingFiresUnheard` | `WatchInv`: the message goes out before the file, so the channel has heard at least what the file says; what a run checks under one key says one thing | |
| `SpendIsCapped` | credits spent stay under the cap | `MeterInv`: what was billed is on the meter, or is billed and lost (`unmetered`); the meter passes the cap only within a pass that began under it | |
| `RecordingIsFaithful` | `RecorderKeepsFaith` | `ArchiveInv`: a hash the process remembers is that of its last line with a payload, so a line without one is read back right | the disk takes what is appended |
| `ReadingsAreOfOneFeed` | `ReadingIsOneFeed` | `ReadingInv`: the archive is in the order of its polls, and a trip is dated by the poll it was decided on; between two neighbours of an archive without a break the contract is one, and so it is from end to end | |
| `AlarmsAreAlwaysMajorities` | `AlarmIsAMajority` | ratios compare by cross products; a value of every rank exists; a median has half of the values on its outer side, and lies on the side all of them are; the whole days since the last one inside are the newest | |
| `BudgetIsAlwaysKept` | `BudgetIsKept` | `BudgetInv`: the book is in step with what the pass has counted and allocated, the call in hand fits what is left, rows leave room for each other, and the venue's leverage is the row's unless set by hand; sums over the book; as many stakes as the count allows are within the mandate; a stop is nearer than the fortieth of the price the slippage and a leverage of twenty leave | |
| `SimulatorAlwaysIsTheDesk` | `SimulatorIsTheDesk` | `ReplayInv`, which `DeskWalksAlong` proves, see below | inside the property: no forecast refused for its age, no stronger outlook put first |
| `OrderedFeedsAgree` | the walk is the desk's, ranking or not | the strongest of a coin's outlooks is the first the feed names, so ranking decides nothing | the feed names a coin's strongest outlook first (`StrongestIsNamedFirst`) |
| `RecordIsFinal` | `AnswersAreFinal` | the list stays in order and only grows; the binary search returns how many entries have begun, by induction on what is left to search | |

Of the hypotheses:

* *No hand trades* is `UserSizes = {}` and *no lost answer* `~AnswersLost`, the instance of
  `core`. With hand trades a position is the owner's and `StrangersAreFound` speaks of it; a
  lost answer leaves a position for a pass without a row (see below).
* *Every market quoted* is `UnpricedChoices = {{}}`; what happens otherwise is the third finding
  of the list below.
* `PagesHoldWholeInstants` says that no full page of fills ends inside an instant; the finding
  about a cut page is what happens otherwise. `FewFillsAreRead` proves that it holds
  wherever a page has room for all fills there are, as in the run.
* *One clock* is `MaxAhead = 0`: with a web tier that is a day ahead a mandate signed there rebases
  a day the executor has not begun. *No clear in the instant of a tick* is
  `"tick" \notin Between` (see "A tick dates its halt by the instant it began").
* What the constants are is assumed where the code makes it so: settings are those
  `exec/settings.ts` 143-145 accepts (`BudgetAssumption`), the band of the feed's watch holds 100
  (`BandAssumption`), a page has room for a row (`PagesAssumption`), a file has the columns an
  earlier version wrote (`LedgersAssumption`), prices and anchors are whole, a day has a bar or
  more (`OutlooksAssumption`, `ArchiveAssumption`, `WalkAssumption`).
* *The ledger takes what is written* is `"ledger" \notin Failures`: else a second agent is minted
  (`OneKeyEach` below). *The disk takes what is appended* is `~DiskFills`: else the recorder
  remembers a hash it did not write.

Why `OneLiveIntentPerCoin` is not inductive by itself: `Settle` writes the status of the rows
it *planned from*, whatever they have become (`markFilled` and `markClosing` do not look). A
pass that saw a row pending, whose entry was then refused (`failed`), revives it when it finds
a position. That is harmless only because `considerSignals` runs before the plan, in the same
pass: no newer row can have taken the coin since the list was read. `PlannedApart` (while a
pass acts, every live row is one it planned from, and those hold their coins apart) is that
argument, and everything proved of the loop rests on it.

Why `BookIsWhatTheRowsAsk` is not: after a pass it follows from what the *last* action left,
and each action must leave less to do than there was. `WorkInv` says at every await what rests
and will stay (`Staying`), what is still to be placed (`Coming`) and that together they are
the plan, without two of one kind on a coin; the exits put on a fresh fill are checked
against the same plan.

Why `SimulatorIsTheDesk` is not: it compares the whole walk with the whole book, and a walk
over the archive knows the future. `ReplayInv` says what the walk of the archive *so far* is:
its resolved trades are the finished ones, its running ones are in the book, and so are the
chances of the last poll, which has no fill yet (`HoldsTheWalk`). That much holds while neither
of the desk's two rules has decided that the passes lack; `OrderedFeedsAgree` says what a feed
must be like for the second never to. One bar more leaves a resolved
trade as it was, ends a running one where `Becomes` does or lets it run on (`TradesGrow`), and
fills what the book took up (`EnteredGrow`); so the same chances are refused at every older poll
(`RefusedTheSame`), and the walk of the longer archive is the old one grown by one bar
(`FoundGrows`). The budget's half is an induction on the trades in the order they opened
(`KeepsRoom`), the halt's one on the bars: the running equity, the baseline and the flag of the
walk are those counted from the trades it kept in the end (`TotalsAre`, `OpeningsAre`,
`HaltsAre`).

Extrema, sums and ranks over finite sets, walks along an archive, the search of `Rulebook`, orders of an archive and
everything else that would be induction over data is done as *the least counterexample* (`Extrema`): the induction theorems of
the library take an operator, which the provers cannot instantiate, so a set of
counterexamples is supposed to have a least member.

Proving corrected the models three times. `DeskIsTheReaders` of `Screen` held within four calls
only: with a fifth, one account's curve is under another's balance while the reader's own is
on its way (see [What the models found](#what-the-models-found)); `ChartIsAsked` is now part
of what it says. The history variable `refused` of `SpeedLimit` took a reverted refusal for
a standing one after five boots. And `AccountRow` took an amount of -1 for one that was never
written (SQL `NULL`), which no run's amounts reached; it now has `NoAmount`. Stating the
simulator's theorem for every candle corrected a fourth: a day that opens on nothing or less
loses nothing in `haltWalk`, and did in `Replay`.

Only model-checked: liveness, which is everything `live` and `comeback` check, and `ENABLED`.

## What the models found

Two runs state what the repository says and have TLC print the counterexample.

| run | the repository says | the code does |
|---|---|---|
| `halted_enters` | "No new positions" to the owner on a halt (`exec/loop.ts` 244) | `haltCheck` is evaluated afresh every pass and does not read the row, so when the condition goes away by itself a pending intent is entered while the row still says halted |
| `late_entry` | "The stop must fire at most this far toward liquidation" (`risk/params.ts` 453) | a pending row is entered at each later pass's mark with the size, stop and target of the mark it was written at (`exec/plan.ts` 73-84); a position may open with its stop past its liquidation, and posts more than was budgeted |

The others were met while modelling. Each is visible in a model when the property or constant
named is put in the place of the weaker one its run uses; the definitions are in the
modules.

In a pass, and about one account:

* **Same-day clear** (`NoClearOnTheDayOfTheBreach`): a daily-loss halt is not to clear before
  midnight (`risk/halt.ts` 199-204), but a cap breached again while the row is already halted
  writes no event: the halt keeps yesterday's date and clears the same day (`exec/loop.ts` 232).
* **A lost halt** (`EveryStrangerHalts`): "a foreign fill after the watermark halts the
  account" (`exec/fills.test.ts` 242, 494), but fills are stored before the funding is awaited
  and the halt decided after it, from a local count: if the funding read throws, no later
  pass halts (`exec/fills.ts` 385).
* **Trades made while unlinked** (`OldTradesNeverHalt` with `TradesUnlinked`): a foreign fill is
  news only if we were already watching (`exec/fills.ts` 359-362); "watching" is the
  watermark, which outlives an unlink.
* **A coin without a mid** (`OpenIsProtected` with `AnyUnpriced`) is to be "left untouched"
  (`exec/loop.ts` 204), but its intent wants nothing in that pass and `reconcile` takes its
  resting stop off.
* **Entered twice** (`EntersOnce`): a crash between the fill of an entry and its record leaves
  the row pending; if the position is gone again before a pass has settled it, the row is
  entered a second time, against `exec/plan.ts` 10.
* **A pending intent adopts a position** the owner opened by hand on its coin between the row
  and the plan (`exec/loop.ts` 224). `StrangersStopTheAccount` asks for *no live intent* on the
  coin.
* **A lost answer leaves a position unprotected for a pass.** An exception on the way back
  counts as a refusal (`hl/orders.ts` 86), the row becomes `failed`, and the same pass's
  settling revives it only if it read the account again.
* **The stop goes before the close has filled** (`exec/plan.ts` 88-102). `OpenIsProtected` speaks
  of `open` rows, not of `closing` ones.
* **Leftovers rest through a halt**: cancels of unwanted orders are filtered out then
  (`exec/loop.ts` 260, against 661). `NothingLeftBehind` excludes passes that were held.
* **The reserve can be posted** (`TheReserveIsLeft`): `freeUsd` is read once a pass and, unlike
  what is deployed, not decremented by the rows the pass writes, nor are pending rows taken off
  it (`exec/loop.ts` 404-426): two entries on a drawn-down account spend what
  `risk/governor.ts` 125 keeps back.
* **The last position of a full book is refused** when entry fees of the earlier ones were
  paid out of an account that holds exactly its mandate, where `risk/governor.ts` 139-141 has
  it land exactly on the reserve. `FullBookIsReached` asks for equity covering the mandate and
  positions at their row's price.
* **A leverage the owner changes at the venue is not set again** while the process remembers
  having set it (`hl/broker.ts` 50-54). `StopsHoldAtTheirPrice` leaves out coins touched by hand.
* **A page cut inside an instant** continues one millisecond past its last fill (`exec/fills.ts`
  373). `NothingSkipped` is checked with pages that hold all fills of an instant.
* **A tick dates its halt by the instant it began** (`exec/runner.ts` 513): an operator who
  clears while that tick awaits the venue leaves a clear dated after the new halt.

At the front door:

* **A failed reconnect writes the old request's limits** over the newer ones
  (`exec/connect-queue.ts` 196, `store/db.ts` 1115-1117) [`ChosenIsKept`].
* **The place shown counts referrals among those waiting only**, the order served counts all
  (`web/queue.ts` 130-138) [`ServedInTheOrderShown`, `CountsAgree`].
* **A second agent is minted** when the ledger refuses the row after the key was sealed
  (`exec/connect-queue.ts` 127) [`OneKeyEach`].
* **A code is applied that nobody was asked about** (`../design/src/connect.ts` 898, against
  478-481) [`NobodyIsReferredUnasked`], and **two chains of the wizard run at once** after a
  departure (113-118, against 66-67) [`OneChainAtATime`]; a deposit is sent again after its
  wait for credit timed out.
* **Half-done renewals say the wrong half** (`../design/src/renew.ts`); "Your account is
  unchanged." is said of a relay that timed out and may have applied (`builderFee.ts`); a relay
  that ends deletes a newer plan (`web/renew.ts` 243).
* **The X callback's gate is read before its await** (`web/sessions.ts` 114-118).

Limits, pages, ledger:

* **A press between the executor's read and its stamp is lost** (`exec/change-queue.ts`
  148-176), an operator's `settings set` or a pin file silently spends an owner's press, and a
  refused press's message is shown for a later one (`web/changes.ts` 86).
* **A dropped desk comes back**: a press deletes the kept desk, a build in flight keeps its
  older one (`web/server.ts` 1042). `PressIsShown` leaves out presses that met a build.
* **`foreignPositions` counts our own position** opened between its two reads, and a pending
  intent hides a stranger on its coin (`web/desk.ts` 829-838).
* **Answers are matched to the reader of the moment they were asked** (`desk.ts` 898-901);
  `loadSignals` and `fetchHistory` do not match at all; a late refusal of an earlier session signs out the new reader; "Show more" during a
  refresh repeats or skips rows.
* **One account's curve under another's balance** while the reader's own is fetched: a warm render
  does not reset the chart (`../design/src/desk.ts` 951, 956), where 747-751 says it cannot.
* **Migrations**: `migrateOutlookKeys` reads rows before its `BEGIN` (`store/db.ts` 590-641);
  `normaliseAccountKeys` looks only at tables keyed by account (686-707); a file with a global
  paper book and an append-only skip log cannot be opened (174, 788-791).

Signals and operations:

* **Constants refused open the desk without a person** (`RefusedStaysRefused`): the refusal is
  carried in the file only until a boot with other constants the limit allows, such as a
  revert; the refused ones deployed again are then measured afresh, where
  `ops/config-event.ts` 119-124 has the desk closed "until a person says the hash".
* **A break of the feed's contract may not be alarmed** (`EveryBreakIsAlarmed`): only the latest
  change is looked at, against "an alarm only on a change that could move the gate"
  (`ops/watchdog.ts` 29-31, 236-239).
* **A failing account's recovery is not said after a restart** (`RecoveryIsSaid`,
  `exec/runner.ts` 68-71); a revoked agent is announced as healthy again.
* **The recorder remembers a hash before the line is on disk** (`signals/journal.ts` 67-71).
* **The simulator** looks ahead against its header's rule 2 (`scripts/backtest.ts` 70-73, 1130),
  does not know the desk's `snapshot-predates-close` refusal (`exec/loop.ts` 355-371), and frees
  budget earlier than the exit by the delay from poll to fill.
* **The simulator takes a coin's outlooks in another order than the desk.** Of two on one coin in
  one poll it takes the one the feed names first, "the order `considerSignals` reads them in"
  (`scripts/backtest.ts` 1032-1035); `considerSignals` sorts by |displacement| first (`exec/loop.ts`
  299-302), so the stronger gets the coin. `WalkIsTheDesk` without `~ranked` is violated within two
  bars: the desk and the walk hold different outlooks. `OrderedFeedsAgree` proves that this
  difference vanishes when the feed lists a coin's outlooks strongest first, which nothing in
  the repository makes sure of.
* **A reading's window** starts when its first event opened and ends when each event's *first*
  trip closed (`scripts/expectancy.ts` 768).
* **A pair that one poll lacks shrinks the basket of every day**, and "consecutive" days are days
  of the archive (`ops/feed-watch.ts` 83).
* **Up to the last entry's beginning a late entry of the rulebook may still change what is in
  force**; `AnswersAreFinal` speaks of the times before it.

## What is abstracted, and why that is sound

`Tick`, `Planner`, `Venue`:

* **Prices are gone.** A trigger may fire at any time and fill any part: more behaviours than
  any price path has. The one place where a price decides something kept is
  `leftOnTheStopSide`: the mark is taken nearer the stop after a stop or a liquidation,
  nearer the target after a target, and either after anything else (`MarkNearStop`).
  That presumes the mid read by the settling pass exists and has not crossed half the way to
  the target meanwhile.
* **Gates that refuse.** Budget, depth, displacement, approval and freshness of a price may
  each refuse a call for reasons outside the model. A refused call is one not considered, so
  every choice of refusals is a behaviour of the model.
* **One account.** Accounts share no row and no order; the runner is sequential. What they
  share, the pass itself, is what `Abort` interrupts.
* **Time inside a pass.** `now` is read once per tick, so horizon, day and vendor move only
  between passes. The venue's answers have no lag beyond the torn view: a read started
  after an order was accepted shows it.
* **Unresolved markets** (`loop.ts` 202-205) and coins without a mid are one case,
  `unpriced`; a trigger of the right size at the wrong price is one of the wrong size.
* **`cancelOurRestingOrders`** on an unlink cancels resting entries only; entries are
  immediate-or-cancel, so nothing rests for it to cancel.
* **`calm`** is lost when anybody moves during the pass; a trigger that fires as it arrives
  counts as somebody moving.

`AccountRow`, `FillIngest`, `AccountRisk`:

* **The account is live.** A paper account ingests no fills and is cleared by the same rule.
* **A tick is one step**, with one trip at a time. Its inside is `Tick`.
* **Money** is a few units, with the cap a half: enough to be breached by one loss, to
  recover inside the day, and to be masked by a deposit. A deposit does mask a daily loss;
  the code measures equity, and no property here says otherwise. Withdrawals, funding and
  fees are left out.
* **`RebaseKeepsTheDay` has a condition** (`whole`): today's realised result is booked on the
  day an intent *closes*, so a trip carried over midnight books yesterday's part today, and
  one let go of by an unlink books nothing. In both cases the rebased baseline is off by
  that part, in the code as in the model.
* **Clocks.** `MaxAhead` lets the web tier's clock run ahead; it is 0 in the runs. With skew,
  a request near midnight is decided by its stamp, so the day rules hold against the stamp and
  not against the executor's clock.
* **Left out:** settlement of amounts from fills, the funding watermark, the one-off rescan of
  old ledgers; the earliest interest of a first trip is the connect time.

`Replay`:

* **What happens inside a bar** happens in one order: its candle, then the anchors that end in it,
  then its poll. Candles and polls are of one length; the code has minutes, hours and polls, and
  both the passes and the desk are given the same ones here.
* **A strength is a whole number** (`sigma`), compared and never computed with; that the published
  one is past the gate is part of "tradeable". The target must still lie ahead of the price
  (`IsAhead`), for the desk as for the passes; how far ahead is not asked.
* **Fills, fees and slippage** are left out of both sides alike; a desk's entry is filled by the
  next bar's open.

`Budget`:

* **One mark for all coins**, in ticks, and money in ten-thousandths of a cent, so `cents()` is
  the code's comparison. A fill is at the mark or thirty basis points past it; a result is half
  of what was posted, lost.
* **A call of a coin is an outlook on it**; whether it passes the gates of the feed is a choice, as
  is the depth of the book (`CallIsUnfit`).
* **Answers are not lost** and accounts not unlinked here: that is `Tick` and `AccountRisk`.

The front door, the site, the operations:

* **People are numbers**, so that ties in the queue are broken as the code breaks them, by
  address; times are ticks of a hold.
* **A signature, a challenge, an X account, a payload** is a value that is equal to itself and to
  nothing else. Verification succeeds or fails; nothing is forged.
* **A screen is its phase and its button.** What the words on it say is left out unless a property
  is about them (`Approvals`).
* **A migration works on a handful of rows** chosen so that every need it looks for is present in
  some file and absent in others: keys to collapse onto each other, checksummed twins, undated
  accounts, a global paper book with and without an owner.
* **A payload of the feed** is what the contract of a poll can be told by: keys, words and the
  number of parts; estimates are small integers and the band a tenth.
* **Scenes.** Machines that share no state in the models do share processes in the program. Where
  they do meet, the meeting is inside one of them: `Served` has the executor's writes,
  `Limits` both processes, `Outage` and `Watch` the files both read.

## Not modelled

* **Projections without state**: cards, shares, the public board, HTML and icons (`web/cards.ts`,
  `share.ts`, `leaderboard.ts`, `page.ts`, `render.ts`), charts and formatting in the browser.
* **Offline tools that touch no state of the desk**: probes, tape and hydration scripts, the
  prediction-market scripts (`scripts/pm-*`, `mapping/quotient-pm.ts`).
* **Encodings and I/O**: the venue's wire formats and EIP-712 payloads, the keystore's cipher and
  command line, the HTTP client of the feed, message delivery.
* **Paper accounts beyond what a fill does**: their equity and margin.
* **Amounts**: settlement of a trade's result from its fills, funding rows, fees in the ledger.
* **Clock skew between the two processes** (`exec/change-queue.ts` 105): `MaxAhead` is in the model
  and 0 in the runs. **A press of Clear that finds the row not halted** is skipped without being
  spent (207) and may clear a later halt. **Starvation of counterfactuals** by five trades that
  always throw (`exec/counterfactual.ts` 105). No document promises otherwise, so there is
  nothing to check them against.

## Plan

Done: every component has a model of its core, and every invariant and action property the runs
check is proved.

What is left:

1. **Settlement of amounts** in `FillIngest`, with the counterfactual queue.

## Running it

```
cd tla
tlc -workers 2 -config MCTick_core.cfg MCTick
tlc -workers 2 -config MCAccount_account.cfg MCAccount
tlc -workers 2 -config Front_front.cfg Front
tlc -workers 2 -config MCDesk_desk.cfg MCDesk
tlapm TickProofs.tla
tlapm BookProofs.tla
tlapm AccountProofs.tla
tlapm FrontProofs.tla
tlapm SiteProofs.tla
tlapm DeskProofs.tla
tlapm ReplayProofs.tla
tlapm Extrema.tla
```

The largest passing runs take two to four minutes with two workers, each of the proof modules
finishes in between a few seconds and a few minutes.
