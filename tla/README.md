# Verification of the home battery controller

TLA+ specifications of HOME ENERGY & BATTERY, with TLC runs that check them on small
instances and TLAPS proofs of what matters most.  They model two sides of the server: the
services in which concurrency, failures and durable state meet (the queue in front of the
ECHONET adapter, the workflows that take the battery over and must give it back, the
documents that have to survive a restart), as state machines; and the calculations these
services act on (codecs, meters, tariffs, forecasts, plans, learning, backtests), as
operators whose answers must agree with each other.

Paths are relative to the repository (`lib/...` is `src/lib/...` in `PROJECT.json`).
`PROJECT.json` maps every definition of a model to the lines it stands for.

1. [The system](#the-system)
2. [The modules](#the-modules)
3. [The runs](#the-runs)
4. [Fairness](#fairness)
5. [The proofs](#the-proofs)
6. [What the code does that its documents do not say](#findings-and-observations)
7. [What is not modelled](#what-is-not-modelled)
8. [Plan](#plan)

## The system

One Node.js process controls one storage battery (and reads solar, grid and fuel cell)
over ECHONET Lite.  JavaScript runs one callback at a time, so the concurrency is that
of `await`: HTTP requests, the status poll, the automation interval, the deadline timer
of a charge, timers of the queue and the adapter's replies interleave at every await.
Promise queues ("mutexes") serialize what must not interleave.  There are three kinds of
state: SQLite documents, which survive a restart; memory, which does not; and the
battery, which the household and other controllers change too.

### Components

| Component | State | Operations | What makes it correct | Module |
|---|---|---|---|---|
| Device command queue (`device-command-queue.ts`) | waiting items, whether one executes, sequence | `run`, selection, queue timeout, completion, wake-up microtask | one command at a time; nobody lost, stalled, starved or told two outcomes; reads bounded | `DeviceCommandQueue` |
| Away reserve override (`away-reserve-service.ts`, `domain/away-reserve.ts`) | document `awayReserveState`, its mutex | `reconcile` (tick, timer, startup, change of setting), `withCommand` around manual reserve commands | the reserve a battery had comes back, and never over a choice of the user | `AwayReserve` |
| Demand Guard (`automation-orchestrator.ts`, `automation-rule-evaluator.ts`, `demand-guard-service.ts`) | rules and rule states in `automationStore`, the run's copy of them | automation run, manual restore, changes of rules | Standby is temporary; the guard respects Backup Preparation | `BatteryOwnership` |
| Backup Preparation (`backup-preparation-service.ts`, `operational-overrides.ts`) | document `operationalOverrides` | `start`, `end`, `reconcileOnStartup`, `assertAllowed` | the profile comes back; active means the backup profile is set | `BatteryOwnership`, and its part in `WorkflowLocks`, `AdaptiveControl` |
| Schedules (`schedule-runner.ts`, `schedule-service.ts`, `domain/schedules.ts`) | document `schedules`, its mutate queue | `run`, edits | once is once, daily is daily, due is attempted | `ScheduleRunner` |
| Locks (`create-application.ts`, the services) | five promise queues | the thirteen workflows that nest them | no circular wait, everybody served | `WorkflowLocks` |
| Adaptive Charging control (`adaptive-charging-*.ts`, `adaptive-control-service.ts`, `adaptive-state-service.ts`) | document `adaptiveChargingState`, deadline timer, `exclusive()` | evaluation, deadline, pause, resume, guard restore, release by settings and Backup Preparation | every charge has an owner and a timer; paused means paused | `AdaptiveControl` |
| Configuration (`configuration-service.ts`, `configuration-commit-service.ts`) | document `config`, its mutex | `update`, `commit` | a save that releases the battery leaves no charge behind | part of `AdaptiveControl`, `WorkflowLocks` |
| Device commands (`device-command-service.ts`, `command-verification.ts`, `command-receipt-service.ts`) | receipts and their events, the writes under way | `execute`, `start`, verification, polling of a receipt | a receipt only goes forward and says "succeeded" only of what the battery showed | `CommandLifecycle`, `DeviceCommands`; promise: `CommandReceipt` |
| ECHONET adapter (`echonet-codecs.ts`, `echonet-commands.ts`) | none (the client and its sockets are I/O) | decode, encode, the read and write commands | what is written reads back; one lost property costs that property | `EchonetCommands` |
| Status collection (`status-collection-service.ts`) | the snapshot, the refresh in flight, the setting cache | `get`, `refresh`, `invalidate`, `readAll` | no answer older than the last command; a status of one moment | `StatusCollection` (concurrency), `StatusReading` (what is read) |
| Notifications (`notifications.ts`, `system-alert-service.ts`, `status-alerts.ts`) | observations, attempts, the promise queue | `observeCondition`, `enqueue`, `deliver`, `sendTest` | each change is reported | `Notifications` |
| Runtime (`runtime-coordinator.ts`, `application-initializer.ts`, `create-application.ts`) | timers, running tasks | start, stop, wait for idle | reconciliation before timers | the start and the stop in `DatabaseRestore`; the order at start in the `Restart` and `Crash` actions |
| Database administration (`database-administration.ts`, `database-backup.ts`) | database file and its copies | restore, rollback, the last attempt | one usable database after every step | `DatabaseRestore` |
| Discovery (`discovery-service.ts`, `discovery-protocol.ts`) | jobs, the context that suspends polls | request, run, expiry | the context is always given up | `Discovery` |
| Planning and learning (`chronological-charging.ts`, `adaptive-planning.ts`, `domain/adaptive-control/*`, `battery-learning.ts`, `guard-deliverability.ts`) | plan, slots, breaker recovery, learned model: parts of documents | plan, consume a slot, check the breaker and the export, ask for a new plan, learn | energy is planned once, delivered once, and an outcome is learned from once | `ChargeSlots`, `ChargeTiming`, `ChargePlan`, `ChargeSafety`, `AdaptivePlanning`, `BatteryLearning` |
| Forecasts (`demand-forecast.ts`, `solar-forecast.ts`, `away-fuel-cell.ts`) | evidence of a trip; otherwise none | predict demand, generation, sun | nothing is learned from what is not known yet, or twice | `DemandForecast`, `SolarForecast`, `AwayFuelCell` |
| Histories (`history-store.ts`, `history-samples.ts`, `energy-summary.ts`, `energy-report.ts`, `backtesting.ts`) | tables of samples and roll-ups; in memory the last sample, the baselines, the roll-ups under way | append, query, retain, report, backtest | an energy is counted once | `HistoryStore` over `Meters`; `EnergyReports`, `Backtesting` |
| Counters and tariffs (`counter-utils.ts`, `tariffs.ts`, `gas-tariffs.ts`, `time.ts`) | none | differences, bands, billing periods | every minute has one rate, every day one period | `Meters`, `Tariffs` |
| Persistence (`persistence/*`) | SQLite | queries, transactions | what was rolled back is not stored | the history in `HistoryStore`; each other document an atomic step of its module |
| Web page, scripts | the browser | views | - | not modelled |

### How they interact

* Every read and write of a device goes through the **queue**.  Its callers see a promise
  that settles once.
* The **automation interval** starts the automation run (unless one is under way), which,
  under the automation lock, reconciles the Away reserve, evaluates the guard rules and,
  last, Adaptive Charging (under `exclusive()`).
* A **manual command** (page or schedule) asks `assertAllowed`, pauses Adaptive Charging,
  and, when it sets the reserve, is wrapped by `withCommand` of the Away reserve.
* **Backup Preparation** takes the automation lock and the override lock, releases the
  guard and the charge, writes its profile and blocks every other source until it ends.
* A **save of settings** releases what Adaptive Charging controls before it commits a
  configuration that plans anew or disables it.
* The **status poll** reads the devices through the queue, records a sample, feeds the
  **notifications** and the histories; a command that the battery acknowledged drops the
  cached status.  A search for devices suspends the poll while it runs.
* The **histories** feed the forecasts and the learned model of the battery, and these the
  plan, which the evaluation of Adaptive Charging follows.
* **Startup** runs `backupPreparation.reconcileOnStartup()`, then
  `awayReserve.reconcile()`, before any timer is armed or a request is served.

The mutexes, and who owns them:

| Lock | Code | Held by |
|---|---|---|
| automation | `automationStoreService.exclusive` | automation run, manual guard restore, start of Backup Preparation, changes of rules |
| override | `operationalOverrides.mutate` | operations of Backup Preparation, and the record of a refusal |
| reserve | `awayReserveService` `exclusive` | `reconcile`, `withCommand` |
| adaptive | `adaptiveStateService.exclusive` | evaluation, deadline, pause, resume, guard restore |
| config | `configurationService.update` | commits, and the setting cache after verified reads |
| schedules | `mutateSchedules` | runs and edits of schedules (`ScheduleRunner`) |
| queue | `DeviceCommandQueue` | one adapter operation (`DeviceCommandQueue`) |

### What is hard

A reader of this code has to keep in mind: documents read before an await and written
after it; commands that fail although they took effect; a stop of the process between a
command and its record; timers that fire while they are being replaced; two writers of
one document, of which only one holds its lock; locks taken in two orders.  The
calculations have their own: a counter that was reset between two samples, a band past
midnight, a history that holds readings later than the moment that is forecast, an outcome
that is judged again at every learning.  The list `hazards` of `PROJECT.json` names each
place, and the properties that guard it.

## The modules

Each module `*Proofs` extends the module it proves about; `ServicesProofs` is about the four
modules `DeviceCommands`, `DatabaseRestore`, `HistoryStore` and `Discovery`, and
`MCServicesProofs` about `MCServices`, which puts them and `Notifications` together.
The `MC...` modules give the constants their values for TLC.  A definition whose comment
begins with "Mutant:" is a plausible bug next to the definition it would replace; no
specification uses it.

### DeviceCommandQueue, SerialExecutor

`SerialExecutor` is what the callers of `run()` rely on: a call is submitted, perhaps
refused, executes at most once, alone, and settles exactly once.  `DeviceCommandQueue`
is the code: `queue` is `#queue` (a set, since each selection sorts it by a total order),
`running` is `#running`, `wakeups` counts microtasks that will call `#runNext`, `status`
is the promise of each call.  `QueueMatchesPromises`, a part of `TypeOK`, is their agreement:
the queue holds exactly the calls whose promise waits, and `#running` says whether one
executes.

| Action | Code |
|---|---|
| `Refuse`, `Run` | `run()`: the capacity, the insertion, and its synchronous call of `#runNext` |
| `QueueTimeout` | the timer of a waiting item |
| `ExecutorDone` | the executor settles; the `finally` resets `#running` and schedules the wake-up |
| `Wakeup` | the microtask |
| `Tick` | `Date.now()` advances |

`Before` is the comparator: starved items first, by age, then priority, then age.

### AwayReserve

`doc` is the document `awayReserveState`, `device` the reserve of each battery, `pc` and
`job` what the holder of `exclusive()` is doing and what it read when it began.  An action
is the code from one await to the next, so `reconcile()` is cut at each of its reads and
writes (`Reconcile`, `PendingRead`, `RestoreRead` ... `Activate`), `withCommand()` likewise
(`Command`, `CommandCheck`, `CommandWrite`, `CommandVerify`).  `Fail` and `CommandFail`
reject the await under way, with the write done or not.  `Crash` stops the process; what
follows (`pc` is "start", as it is at first) is the startup, which awaits
`awayReserve.reconcile(true)` before it takes requests or starts timers
(`create-application.ts:827`), so that no command and no save comes before that
`reconcile()` has ended or failed.  `Snapshot` is what a `reconcile()` reads before its
first await, `Refused` the record at which it only throws.
`Change` changes configuration, Away window or Backup Preparation; `External` is the
household's hand on the battery.  The ghost `owed` is the value each battery had before this
service wrote 0 to it; the ghost `deliberate` is the set of batteries the user has set
meanwhile.

### BatteryOwnership

Two workflows that take over the battery, over the documents `conf`, `state` (the rules)
and `override`, and the battery's `mode` and `profile`.  `guard` is what the holder of the
automation lock does (`Run...` the automation run, rule by rule; `Restore...` the manual
restore; `RuleConfigure` the routes), `backup` what the holder of the override lock does
(`BackupStart`, `BackupRecord`, `BackupRelease`, ... for `start()`, `BackupEnd` and the
same writing steps for `end()`, `Restart` for `reconcileOnStartup()`).  `Other...` is a
command of anybody else, checked first and written later; `External` is a command that
does not pass this program.  A command has an outcome: done, failed, or failed although
done.  The ghosts tell who set the mode and which profile the user chose.

`Lapses` names four things that the code does not survive (see Observations); a run allows
none of them or the one it is about.

### ScheduleRunner

`doc` is the document `schedules`; `queued` are the runs that have read their inputs and
wait for the mutate queue, with what they have read; `job.mem` is the copy of the run
inside.  `RunPass`, `RunBlocked`, `RunExecute`, `RunOutcome` are the branches of the loop;
`RunExecute` includes the write that precedes the command, `RunOutcome` its result and the
last write that follows the loop is `RunLeave`.  `Edit` and `Replace` are the routes.

### WorkflowLocks

A workflow is a sequence of steps over locks: `Exclusive(l, body)` queues at `l` and passes
it on, `Maybe(body)` is a section the state may skip, and a check asks whether Backup
Preparation blocks: a refusal is thrown through the enclosing sections (`Unwound`) and,
except where the caller has checked the state itself, is recorded under the override lock.
`Program` translates thirteen workflows of `create-application.ts` and the services.
`Opposed` are the pairs of them that nest two locks in opposite orders (see below).

### AdaptiveControl

`doc` holds what decides about the battery in `adaptiveChargingState`: the owner, the
slot (its end), the Standby hold, the pause.  `job` is the holder of `exclusive()` with
the copy it read (`base`) and changed (`mem`); `outside` is a writer that does not hold it
(a save of settings, the start of Backup Preparation).  Both write through `Merge`, the
field-wise merge of `adaptive-state-service.ts`.  `timer` is the deadline timer with the
slot it is armed for, `stale` the fired deadlines whose timer has been replaced.

| Actions | Code |
|---|---|
| `EvaluateAsk` ... `EvaluateWrite` | the evaluator, from the automation run to its one write |
| `TimerFires`, `DeadlineBegin`, `DeadlineStop`, `DeadlineWrite` | the deadline of a slot |
| `Pause...`, `ManualCommand`, `Resume...` | a manual action and its pause, the resume route |
| `GuardTurns`, `GuardRestore`, `Restore...` | the guard takes and gives back, and replans |
| `SettingsBegin` ... `SettingsWrite` | `configuration-commit-service.ts` |
| `BackupStart` ... `BackupEnd` | Backup Preparation's part |
| `Restart` | a stop at any point, then the start |

What the forecasts, the plan and the telemetry say is not a variable: an evaluation may
find any of it, so the model has every plan the code could have.

### CommandLifecycle, StatusCollection, DeviceCommands, CommandReceipt

`CommandLifecycle` follows a command from its request (`Ask`) through admission (`Refused`,
`Admitted`), the writes (`Forbidden`, `Acknowledged`, `Rejected`, `Unanswered`) and the
verification (`ModeSeen` ... `TargetHidden`), over `device`, the settings of the battery,
and `log`, the events from which a receipt is derived (`ReceiptState` is
`receiptFromEvents`).  `late` is a write that was not answered and may still land; `Crash` is
a stop of the process.  `backedUp` are the events in a backup of the database (`BackUp`, at
any moment; before it, one older than these commands).  `Closes` is the moment a restore
closes the history, which may find a command of another service between two requests.
`Opens`, or the start after a stop, opens the history with the events of the backup, with its
own when the restore was undone, or with none when the original was set aside and nothing
put in its place (the empty database of `DatabaseRestore`).
`StatusCollection` is the snapshot and the shared refresh; `version` counts acknowledged
commands, so that "older than the command" can be said.  `DeviceCommands` lets both move
over the same battery: `Acknowledge` is the acknowledgement with its `invalidateStatus`.
`CommandReceipt` is what a page that polls receipts relies on; `Receipts` is the refinement
mapping (`state <- ReceiptState`, `readBack <-` the commands the battery was seen to follow,
`backup` and `closed` from `backedUp` and `history`).  It promises that a receipt goes forward,
with one exception: a restore of the database takes the receipts of all commands back
together, to one earlier moment or to none (`Reopen`).

### HistoryStore

`samples` is the table of samples, stored as they were read; `rolled` are the interpreted
samples that the roll-ups of the database are made of.  A roll-up is that set here, so that
one can ask of which times it tells; what the code sums up of it is `AddRollupSample` in
`Meters`.  `previous` and `baselines` are what the next sample is compared with.

| Action | Code |
|---|---|
| `AppendSample` | `appendSample()`: the comparison, the row, the roll-up, the new `previousSample` and baselines |
| `AppendFails` | its transaction is rolled back, at the roll-up or at the commit |
| `Initialize` | the store is closed and opened: `latestRawSample()`, `recentMetricBaselines()` |
| `RetainSamples`, `RetainRollups` | the two deletions of `applyRetention()` |

`DetailedAvailableRows(start, end)` is a query: the stored samples of the range are told
again (`Queried`), and roll-ups stand for the times before them (`RetainedRollups`).  A
rolled back append leaves its sample in the roll-up in memory, which the next append of the
same half hour writes: `cached` are those, `undone` the ghost of which samples they are.
The clock does not go back in this model.

### Notifications, DatabaseRestore, Discovery

In `Notifications` the tasks of the promise queue run one by one, cut at their awaits; the
observations and attempts are durable, the queue is lost with the process.  In
`DatabaseRestore` `at` is the await the restore or the start is at, `database` and `aside`
are what the files hold; every step may fail (`Fail`, `FailAgain`, `FailLast`), the process
may stop between any two (`Stops`), and the start creates what is missing.  In `Discovery`
a request makes a job, and the run owns the context until it ends, in whatever way.

### The calculations

Pure functions of the code are operators.  Quantities are integers (W, Wh, percent,
minutes), a division rounds down, and a value that may be null, undefined or not a number
is `Absent`; the arithmetic of floating-point numbers is abstracted to that, formulas of
weights (exponentials) to rational ones of the same order.

| Module | Translates |
|---|---|
| `Numbers` | `statistics.ts`, `numbers.ts`: medians, means, quantiles, rounding |
| `EchonetCommands` | `adapters/echonet-codecs.ts`, `adapters/echonet-commands.ts`: bytes of properties, and the commands as functions of what each property answers |
| `StatusReading` | `readAll()`: what a refresh makes of its commands' answers, the cached settings, the balance of the house |
| `Meters` | `counter-utils.ts`, `telemetry.ts`, `history-samples.ts`: counter differences, samples, their interpretation, roll-ups |
| `Tariffs` | `tariffs.ts`, `time.ts`, `gas-tariffs.ts`, the rates of the configuration |
| `EnergyReports` | `energy-summary.ts`, `energy-report.ts`, `circuits.ts` |
| `ChargeSlots`, `ChargeTiming`, `ChargePlan` | the slots of a plan and what is taken off them, how long a charge takes, `planChronologicalDiscountedCharging` |
| `ChargeSafety` | breaker headroom and recovery, the export, the reasons for a new plan |
| `BatteryLearning` | `battery-learning.ts`: coefficients, charge power, its curve, their validation |
| `AwayFuelCell`, `DemandForecast`, `SolarForecast` | the forecasts |
| `AdaptivePlanning` | `adaptive-planning.ts`: the timeline of a plan from forecasts, rates and trips |
| `Backtesting` | `backtesting.ts` and the choices of `backtest-service.ts` |

`ChargeQuestions`, `AccountQuestions` and `ForecastQuestions` ask them: a topic is an initial
state, each `Ask...` action draws one bounded input of it, and the invariants say what the
answers must agree on.

### MCServices

One instance of each service and the questions, side by side: `part` says which of them
moves in a behaviour, since they share no state in these models.  One run checks them all.
The commands move in two parts, with a caller of the status ("commands") or with a backup and
a restore ("receipts"): the status does not depend on the history.
`Notifications` is instantiated with parameters, `Reporting(observers, rules)`, so that two
kinds of conditions can be named, and all of them reasoned about at once.

## The runs

| Run | Instance | Shows | Distinct states |
|---|---|---|---|
| `device_queue` | a write, two live reads, a discovery; capacity 2; starved after 1 tick, rejected after 2, clock to 3 | `TypeOK`, `NoStall`, `ReadsBounded`, `StarvedNotOvertaken`, `EveryCallSettles`, and `ExecutorSpec` (the refinement) | 142,694 |
| `away_reserve` | 2 batteries, 2 windows, reserves 0, 20, 50; 1 crash, 1 failure, 4 changes, 1 outside change, 1 command | `TypeOK`, `OwedIsRecorded`, `RestoreRespectsChoice` | 2.0 million |
| `away_reserve_one_battery` | 1 battery; the process may also stop inside a command | `RefusalOwesNothing`, `EventuallyRestored`, `EventuallyApplied` | 269,384 |
| `away_reserve_lost_record` | 2 batteries, a stop inside a command, a failed read | `OwedIsRecorded` is violated | - |
| `battery_ownership` | 2 rules, no lapse | `TypeOK`, `StandbyHasRestorePath`, `GuardHonoursPolicy`, `ActiveIsBackup`, `ProfileKept` | 678,842 |
| `battery_ownership_stop` | 1 rule, a stop between command and record | `StandbyHasRestorePath` is violated | - |
| `schedules` | 2 schedules, 2 days, 1 stop, 1 edit, 1 waiting run | `TypeOK`, `ActsOnce`, `DueIsDecided` | 591,259 |
| `workflow_locks` | every 3 of 13 workflows without an opposed pair, each repeated for ever | `TypeOK`, `NoCircularWait`, `Served` | 248,217 |
| `workflow_locks_opposed` | a start of Backup Preparation, a reserve command, a recalculation | `ReserveAvoidsOverride` is violated | - |
| `adaptive_control` | 4 moments, every actor | `TypeOK`, `DeadlineArmed`, `PausedOwnsNothing`, `ChargeIsOwned`, `PauseHolds` | 2.5 million |
| `adaptive_control_ends` | 3 moments, all but manual commands | `OverdueChargeStops`, `HoldEnds` | 93,570 |
| `services` | 2 commands with 2 attempts each, and a caller or a backup and its restore; 2 conditions; a restore with 3 troubles; a history of 7 readings; 2 searches over 2 hosts; 7,200 questions in 17 topics | `TypeOK`, `StaleOnlyWhenCrossed`, `ReceiptsForward` (the refinement of `CommandReceipt`), `EverythingEnds`, `EachChangeReported`, `RestoreAllOrNothing`, `ChargesAccounted`, `EnergyCountedOnce`, `ForecastsAgree`, `ReadsBack` | 169,679 |

`TypeOK` is checked once per module; where it says more than the types (an owner has a slot,
nobody stands twice in a queue, a running schedule has a pending intent) its comment says
so.  The stop inside a command is left out of `away_reserve` (the code can then lose a
record, as `away_reserve_lost_record` shows) and is in `away_reserve_one_battery`.  The
lapses of Backup Preparation other than the stop (`release`, `restore`, `late`) are in no
run, since the code does not prevent what they do: the theorems about `BatteryOwnership` say
which property each of them breaks.

### Why the bounds are enough

* **Queue.**  Four calls are one more than the capacity plus the one that executes, so that
  the capacity refuses a read and a write passes it.  The priorities are those of a write,
  of live reads and of a discovery.  A starved item needs one tick, a rejected one two, and
  the third lets an item queued later starve as well.  The proofs drop every one of these
  bounds.
* **Away reserve.**  Two batteries are needed to owe one its value while another is
  configured; two windows to tell a new absence from the one of a manual choice; 20 and 50
  to tell the saved reserve from a choice.  Each kind of disturbance has a budget, since
  each is independent of the others: with two crashes the same states are reached from the
  document alone.  The invariant is proved for any budget.  Batteries and windows are
  interchangeable in the actions, so `Symmetry` is sound for the invariants and the action
  property; the run with liveness does not use it.
* **Battery ownership.**  Two rules, of which one is evaluated after the other has taken
  Standby, are the first case in which a run has both a written and an unwritten intent.
  There is no bound on steps.  The proofs hold for any number of rules.
* **Schedules.**  Two schedules, of which one executes while the other is due or edited;
  the first starts a charge (and may be refused for the demand), the second does not.  Two
  days have one midnight.  One waiting run is enough for a run that waits behind another.
* **Locks.**  A circle of three workflows needs three processes.  Each repeats its workflow
  for ever.  `NoCircularWait` is proved for any number of them, two that run the same
  workflow included; so larger mixes could only show more of `Served`.
* **Adaptive Charging.**  A day has three moments: the two halves of the discounted window
  and the time after it.  Horizon 3 reaches the first moment of the next day, whose window
  may renew a charge or meet a hold that has outlived its own, and the midnight at which a
  pause ends.  Bounds of the model, besides: one writer at a time does not hold
  `exclusive()`; a pause is admitted and begun in one step; the process stops before the
  last moment only (so that the clock does not freeze in a restart loop).  The proofs drop
  the horizon.

* **Commands and status.**  Two commands are the fewest of which one undoes the other between
  its write and its verification; two attempts have a first and a last one.  One is sent in
  the background, the other waits for its caller.  One caller of the status suffices for a
  refresh that a command falls into, since all who wait share it.  One restore comes, with
  a backup of any moment before it: a second would start from receipts that a first can leave.
* **Notifications.**  One condition that reports its recovery and one that does not, each
  with two polls until it changes; one task waits behind the one that runs; two changes of
  the settings; one fault (a delivery or a stop of the process).
* **Restore.**  Three troubles reach the last attempt and its failure; a backup that does
  not open counts as one.
* **History.**  Three readings two minutes apart, so that the middle one can lack its counter,
  or its power too, and the last its counter; they lie in two half hours.  A reading a day
  later lets the retention delete, with one cutoff between the first and the second reading
  and one after all three.  One append is rolled back.  The proof drops all of these bounds.
* **Discovery.**  Two jobs, of which one asks while the other runs; two hosts of the subnet and
  a configured one outside it.
* **Calculations.**  Each topic has a small history or timeline whose parts vary on their
  own: 972 plans (six steps, two bands, an old battery and a new one), 3,072 series of
  checks, 384 series of requests for plans, 81 histories and 256 charges to learn from; 384
  triples of readings, 639 settings, 320 answers, 2,304 refreshes, 432 rates, 752 dates;
  64 demands, 128 trips, 128 weeks of the cell, 72 of the sun, 32 evenings, 192 backtests.
  A day has four parts where the code has 48 half hours, a year twelve months of 30 days in
  the forecasts (the billing periods have real months).

`CHECK_DEADLOCK FALSE` stands in two configurations: the queue's, in which every call has
settled and the clock is at its bound, and that of the services, in which commands, jobs and
questions are used up.

### The properties in words

* *Queue.*  While items wait, a command executes or a wake-up is pending (`NoStall`);
  reads never exceed the capacity, although writes are admitted past it (`ReadsBounded`);
  a starved item is overtaken only by an older one (`StarvedNotOvertaken`); if executors
  settle, every call does (`EveryCallSettles`).
* *Away reserve.*  While a battery holds the 0 of this service, the document names it and
  the value it had (`OwedIsRecorded`); a restoration never overwrites a choice made since
  (`RestoreRespectsChoice`); a record that `reconcile()` refuses, because it does not say
  which battery it owns or what it had, stands in nobody's debt (`RefusalOwesNothing`); the
  value is restored, and the 0 applied, in the end, the latter unless the record is refused
  (`EventuallyRestored`, `EventuallyApplied`).
* *Ownership.*  Who finds the battery in the guard's Standby finds somebody that will
  return it to Auto (`StandbyHasRestorePath`); no guard command is under way while Backup
  Preparation disallows it (`GuardHonoursPolicy`); success is reported only with the backup
  profile set (`ActiveIsBackup`); the profile the user chose is on the battery or in the
  override that will restore it (`ProfileKept`).
* *Schedules.*  A one-time schedule acts a second time only for a stop of the process that
  hit its command, and a daily one once a day (`ActsOnce`); what is due is attempted or
  blocked (`DueIsDecided`).
* *Locks.*  No circle of waiting, through any number of workflows (`NoCircularWait`); the
  holder of the reserve never waits for the overrides (`ReserveAvoidsOverride`); everybody
  gets the locks he waits for (`Served`).
* *Adaptive Charging.*  The end of every charge has a timer (`DeadlineArmed`); no write
  that began before a pause brings a charge or hold back (`PausedOwnsNothing`); a battery
  that charges has an owner who will stop it (`ChargeIsOwned`); nothing is commanded while
  paused (`PauseHolds`); an overdue charge stops, a hold that is over is released
  (`OverdueChargeStops`, `HoldEnds`).
* *Commands and status.*  A receipt moves forward, a final one stays, and success is said
  only of a command whose setting the battery showed to one of its reads (`ReceiptsForward`,
  the refinement); only a restore of the database takes receipts back, all of them to the
  moment of its backup or to none; the cached status is older than the last acknowledged command only if it
  comes from the one refresh the command fell into (`StaleOnlyWhenCrossed`).
* *Services.*  A command, a wait for the status, a restore and a search end
  (`EverythingEnds`); a change of a condition that is to be reported is reported
  (`EachChangeReported`); a restore is all or nothing: the original always has a copy,
  success means the restored database, after one failure the database of before is open and
  the background work runs (`RestoreAllOrNothing`).
* *History.*  No two energies of one kind and one source are counted over the same time, in the
  roll-ups as in the answer to any query, whatever readings are missing, however often the
  store is opened again, and whatever the retention has deleted of either table; an append
  that was rolled back is left out (`EnergyCountedOnce`).
* *Charging.*  A plan stays in its windows and below the capacity; the slots that are done
  take off it what it planned, once; a charge the breaker ended begins again exactly after
  the cooldown and three safe checks of different times; a new plan is asked for once per
  reason; learning again from the same history changes nothing (`ChargesAccounted`).
* *Accounts.* A sample means the same when it is told again from what is stored, and
  roll-ups and reports tell what the samples do. A setting reads back as it was asked for;
  one lost property, command or device costs its own figures; a status and its sample tell
  one balance of one moment; a time is discounted exactly in the occurrences of its band; a
  date lies in one billing period (`ReadsBack`).
* *Forecasts.*  No reading later than the moment of a forecast, and none twice, is in it; the
  cell counts as off only after a whole day of covered silence of that cell; the steps of a
  plan's timeline follow each other with one rate each; a backtest counts no time twice and
  scores the plan that was last before it would have charged (`ForecastsAgree`).

## Fairness

* *Queue*: weak fairness of the microtask, of the clock and of each timer, which the event
  loop provides.  Nothing is assumed of executors but in `EveryCallSettles`, whose premise
  is that they settle: adapter operations end by a command timeout.
* *Away reserve*: weak fairness of the steps of `reconcile()` and of a command together:
  ticks and the retry timer keep calling `reconcile()`, and an await ends.  Failures are
  finite (the budget).
* *Schedules*: the interval keeps starting runs, and a run goes on.
* *Locks*: each process goes on unless it waits.  Promise queues are first in, first out,
  which is modelled and not assumed.
* *Adaptive Charging*: workflows go on, the clock runs, and timers fire (weak fairness).
  Strong fairness stands for what the model has abstracted: the automation run comes time
  and again (`EvaluateAsk`), `exclusive()` is a first-in-first-out queue, so that whoever
  waits gets his turn however many others come (`EvaluateBegin`, `RestoreBegin`,
  `DeadlineBegin`), and a command tried time and again succeeds in the end (`DeadlineStop`,
  `EvaluateExpire`).
* *Battery ownership* has no liveness property.
* *Services*: weak fairness of the steps of a command (each request of the queue is answered
  or times out), of a refresh, of the task that runs, of a restore and of a search; polls
  come time and again (strong fairness of `Poll`, which other tasks may keep off the
  bounded queue for a while), and a cooldown passes.  Failures are finite (the bounds).

## The proofs

TLAPS checks the eight modules `*Proofs`; every result holds for all values of the constants
that satisfy the assumptions named in the modules (a finite set of calls, natural priorities
and limits; a `None` that is no battery, window or reserve; a `NoFile` that is no content of
a file; mixes that name workflows; requests that the service admits, and at least one attempt;
samples with a time and the fields that their interpretation writes; finitely many hosts).
Each module has an inductive invariant, or several of
which each rests on those before it, one lemma per action or per group of actions that change
the same things, and theorems that follow from them.

**DeviceCommandQueue.**  `IInv` is `TypeOK` (`Shapes` and `QueueMatchesPromises`), `OneRunning`,
`NoStall` and `ReadsBounded`.  `NoStall` is not inductive alone: that `run()` may leave a queued item
without a wake-up follows only from `#running` telling the truth, which is
`QueueMatchesPromises`; and that clearing `#running` at the end of one command is right needs
`OneRunning`.  From `IInv`:

| Theorem | Statement |
|---|---|
| `TypeCorrect`, `NeverStalls`, `ReadsStayBounded` | `Spec => []...` |
| `StarvedKeepTheirTurn` | `Spec => StarvedNotOvertaken`, through `BeginsFirst`: a call begins only when it comes first |
| `Implements` | `Spec => Executor!Spec`: each step of the queue is a step of `SerialExecutor` or a stutter |

**AwayReserve.**  `IInv` adds to `TypeOK` and `OwedIsRecorded` four facts.  `OwedZero`: what is
owed is not 0 and the battery still shows 0, which makes "the battery shows something else"
proof that somebody has set it.  `ReconcileInv`: what `reconcile()` has established at each
of its awaits (between two of them configuration, window and the battery may change, but
not the document).  `CommandInv`: the record a command will put back if it fails still
accounts for what is owed.  `PendingInv`: a record is left pending only by a stop of the
process.  Each action keeps an account `Rec(document, owed)`; the pure decisions
(`SettleKeeps`, `HoldKeeps`, `RestoredKeeps`) are lemmas about the document alone.

| Theorem | Statement |
|---|---|
| `TypeCorrect` | `Spec => []TypeOK`, stops inside a command included |
| `NothingOwedIsLost` | `ASSUME OneOwner PROVE Spec => []OwedIsRecorded` |
| `RefusalsOweNothing` | `ASSUME OneOwner PROVE Spec => []RefusalOwesNothing` |

`OneOwner` says that the process does not stop inside a deliberate command, or that there is
one battery.  It cannot be dropped: `away_reserve_lost_record` is the counterexample.  The types
do not need it: `TInv` is `TypeOK` with `Shaped`, what the record and the job look like at
each await.

Two more facts serve the last theorem, of the case that the process does not stop inside a deliberate command.
`Complete`: an owner has a battery and a value, and so has the record that a failed command
puts back. `Chosen`: a battery whose setting the user chose does not show a 0 that a record
owns, nor will it when a command fails and the old record returns; and a command that works
on another battery than the owned one leaves the owned one alone.

| Theorem | Statement |
|---|---|
| `RestorationRespectsChoice` | `ASSUME ~CrashInCommand PROVE Spec => RestoreRespectsChoice` |

**BatteryOwnership.**  `Base` says who holds which lock in which phase (`Turns`) and that a
guard never commands against Backup Preparation; no lapse breaks it.  On it rest three
arguments, each of which excludes the lapses that break its property and no other.  `Path`:
the intent to restore precedes the Standby command, in the document or, during a run, in the
run's copy of the rules (`Known`), so a run may end without writing only if it has changed
nothing; a start of Backup Preparation that has released the rules has yet to command Auto.
`Quiet` and `Forced`: no command of another source is at work once a start has begun, so that
what the start has verified is still so when it reports success.  `Restoring`: where the
user's profile is at each step of a start, an end, or the undoing of a start.

| Theorem | Statement |
|---|---|
| `TypeCorrect`, `GuardPermitted` | `Spec => []TypeOK`, `Spec => []GuardHonoursPolicy` under all lapses |
| `StandbyIsRestored` | `ASSUME Lapses \cap {"stop", "release"} = {} PROVE Spec => []StandbyHasRestorePath` |
| `SuccessIsVerified` | `ASSUME "late" \notin Lapses PROVE Spec => []ActiveIsBackup` |
| `ProfileIsKept` | `ASSUME Lapses \cap {"late", "restore"} = {} PROVE Spec => []ProfileKept` |

None of these assumptions can be weakened: with one rule and one of the excluded lapses TLC
finds the property violated.  `"stop"` is `battery_ownership_stop`, the others are below under
Observations.

**ScheduleRunner.**  That a schedule acts once is spread over three places: the document, the
copy of the run inside `mutate()`, and what a stop of the process lost.  `Copy` says how far
the copy may be ahead (same repetition, an attempt date that is not earlier, what the document
calls settled is settled), and that the two agree while a command executes.  `Dates`: a daily
schedule changed the battery last on a date the document knows, before the date of the run
that executes it.  `Counts`: one change more than stops is possible only where the schedule is
settled, in the document or, while the document says it runs, in the copy; so a stop that
loses the copy is one that is counted.

| Theorem | Statement |
|---|---|
| `TypeCorrect` | `Spec => []TypeOK` |
| `SchedulesActOnce` | `Spec => ActsOnce` |

**WorkflowLocks.**  What one workflow does with the locks, whatever the others do, is finite:
`Rests` are the steps it may have left, computed from its program, and the assumption
`ProgramsNest` says what they have in common (a lock is asked for once, within those its
order puts before it; a refusal passes on all that is held).  It mentions no constant and TLC
decides it with each run of `MCWorkflowLocks`, so nothing is left to believe.  What the
workflows do to each other is proved.  `IInv` is `TypeOK`, `Rested` (what is left of a
workflow is one of its rests) and `Nested` (who waits for a lock holds the other ones it
asked for, and they come before it in its order).  From it, `AnOrder`: at any time all that
wait take the locks in one order.  Without Backup Preparation it is one of two that differ in
the configuration and Adaptive Charging; while Backup Preparation holds the automation lock it
is its own, since who would be refused in the opposite order needs the automation lock for
it.  `OneOrder` then excludes every circle.

| Theorem | Statement |
|---|---|
| `TypeCorrect` | `Spec => []TypeOK`, for any mixes |
| `NoDeadlock` | `ASSUME NoneOpposed PROVE Spec => []NoCircularWait`: no two processes run an opposed pair |

`NoneOpposed` cannot be weakened: TLC finds a circle of two for each of the eleven pairs.
That pairs are all that has to be kept apart is what the theorem adds to the run.

**AdaptiveControl.**  A tower of invariants.  `Base`: types, the steps of each workflow, and
who is at work while who else is (`Turns`: the automation lock).  `Kept`: what a writer has in
mind compared with what it read (`JobWork`, `OutsideWork`) and with what is on record by now
(`Meanwhile`: since a job has read the document at most one release was written; since the
writer outside has read it, a charge with another end may have taken its place).  It is what
makes `Merge` harmless, and the rest needs it.  `Armed`: a timer that has fired is due, and
`DeadlineArmed`.  `Pausing`: an evaluation goes beyond its decision only if it knows of no
pause, and what began under one had nothing to release.  `Charging`: at each step of each
workflow, who still knows that the battery charges.

| Theorem | Statement |
|---|---|
| `TypeCorrect` | `Spec => []TypeOK` |
| `ChargeHasTimer` | `Spec => []DeadlineArmed` |
| `PauseIsKept`, `PausedIsQuiet` | `Spec => []PausedOwnsNothing`, `Spec => PauseHolds` |
| `ChargeHasOwner` | `Spec => []ChargeIsOwned` |

They hold for every horizon and every set of actors, with no further assumption.

**Services, commands.**  `StatusInv` says that what a refresh has begun with is either the
version that counts or crossed.  For the receipts, `RecordedState` and `RecordedStep` show that
the state read off the events of a command never falls, and `Ranks` orders the states; with
`ReceiptInv` (what the battery showed when an outcome is recorded) each step of a command is
a step of `CommandReceipt` or a stutter.  `Within` says that neither the events of a command
nor those a restore would leave it are ahead of its stage: so what is recorded after a restore
goes forward again.  The types are inductive only with a bound on the
events (`Bounded`): each stage of a command has recorded a number of them at most.

**Services, restore.**  `Kept`: at each await, where the database of before is (in its place
until it is moved, aside until it is put back).  `Fitting`: a backup that does not open is
never under an open application, and where a restart might take it for the database two
things went wrong.  `Working`: what is closed, stopped and ready at each await, and how much
must have gone wrong to be there (once on the way back, twice in the last attempt).

**Services, history.**  That the roll-ups do not count twice is not inductive: the next sample
is compared with `previous` and `baselines`, which an opening of the store takes from the
samples the retention has left.  `HistoryInv` relates the three.  `Placed`: what a roll-up
tells of is still stored, with the same powers, or is older than all that is.  `Grounded`: an
energy comes of a counter, or of powers of which one is in the sample.  `NotOvertaken`: what
the next sample is compared with is not older than any sample told.  Then `Told` counts from
the last sample on, or from the last with that power, and `Initialize` finds nothing older
(the newest stored sample exists, by a well-founded order; so does the newest with a given
power).  For a query, the same argument goes from each sample to those stored before it, and
a roll-up that is taken ends before the first sample told in detail (`QueryApart`).

**Services, search.**  `SearchInv`: the job of the context runs, or was dropped while it did,
and no other job runs; what is found is a sequence of addresses with a class that was asked
for.

| Theorem | Statement |
|---|---|
| `StatusFollowsCommands` | `CommandsSpec => []StaleOnlyWhenCrossed` |
| `ReceiptsImplement` | `CommandsSpec => ReceiptsForward`, the refinement of `CommandReceipt`, with restores of any backup |
| `RestoreIsAllOrNothing` | `ASSUME FileAssumption PROVE DatabaseSpec => []RestoreAllOrNothing`, for any number of failures and stops |
| `EnergyIsCountedOnce` | `HistorySpec => []EnergyCountedOnce`, for any samples and retention |
| `EveryQueryCountsOnce` | the same for a query of any range of times |

**MCServices.**  `ServicesInv` gives the part that moves its own invariant.  That of the
notifications, `NotesInv`, is for any list of observed conditions and any rules that count at
least one poll: `Counting` says that an observation which has not turned is below the count
at which it would, so that the tasks of the queue carry a count within the bounds of their
rule; a task is in the queue as long as a step of it is left.

| Theorem | Statement |
|---|---|
| `TypeCorrect` | `ServicesSpec => []TypeOK`: commands, status, notifications, restore, history and search, for any values of the constants |

Only model-checked: liveness (the provers have no rule for fairness and `ENABLED`), so of the
notifications and the search all but their invariants; and `ChargesAccounted`,
`ForecastsAgree`, `ReadsBack`, which compare what folds and recursive functions compute over
a whole plan or history.  The theorems of the library that would give induction over data
take an operator as a parameter, which these provers do not instantiate.  That a set of numbers
has a least element can be cited, and is all the history needs: what `EnergyCountedOnce`
says of a comparison of two samples has no recursion in it.

## Findings and observations

The three violations, each with the line of the repository it contradicts (`findings` in
`PROJECT.json`):

1. `away_reserve_lost_record`.  A stop inside a deliberate command leaves the record
   "manual-pending" with the first battery's value.  The startup reads that battery to settle
   the record; if the read fails, the record stays, and `reconcile()` does not try again for
   30 seconds (`retryAt`).  If a replacement battery is configured meanwhile, a command for
   it takes the record over, and the first battery keeps the temporary 0.  Without the failed
   read the startup would have put the record right.
2. `battery_ownership_stop`.  The guard sets `awaitingRestore` before its command, as its
   comment says, but in a copy that the run writes after its last rule.  A stop in between
   leaves Standby with no rule to restore it.
3. `workflow_locks_opposed`.  A reserve command checks Backup Preparation itself so as not to
   wait for the overrides while it holds the reserve; but the release of a charge, which
   it waits for, checks again and does.  If Backup Preparation waits for the reserve by
   then, both wait for ever.

### The opposed pairs

`workflow_locks` leaves out eleven pairs of workflows that nest two locks in opposite
orders.  In seven, Backup Preparation holds the override lock and waits, through the
reconciliation of the reserve, for the reserve, the configuration or Adaptive Charging,
while the other one holds one of these, is refused, and waits for the override lock to record
the refusal (`deadline`, `resume`, `recalculate`, `command`, `reserve`, `settings`,
`awaySetting`).  In the rest a save of settings holds the configuration and waits for
Adaptive Charging in order to release its Standby hold, while `recalculate` or
`guardRestore` holds Adaptive Charging and reads the status, which saves settings.

### Observations

None of these contradicts a document, so no run reports them; the models have them as
behaviours, and where a property has to make an exception, its comment says so.

* A save of settings releases a Standby hold by a command that counts as manual, and so
  pauses Adaptive Charging until midnight (`configuration-commit-service.ts:97`).
* A save that disables Adaptive Charging while a charge starts sees nothing to release.
  The deadline then ends the charge in Standby, and nobody releases that hold: evaluations
  no longer run (`HoldEnds` has `~enabled`).
* A release by a save of settings that overlaps the renewal of the charge leaves it without
  an owner: the merge keeps the release (the ghost `lapsed`).  So does a stop of the process
  between the command that starts a charge and its record.
* The merge may leave a slot that nobody owns (`adaptive-state-service.ts:55`); it does no
  harm.  Its check of a newer pause is redundant for owner and hold, which `exclusive()`
  protects already, and matters for the plan.
* A save of settings under Backup Preparation drops the ownership of a charge without
  stopping it.  This happens only after a start at which `reconcileOnStartup()` failed;
  the end of Backup Preparation sets Auto.
* An evaluation that has written its state once (after a change of the learning model) and
  writes it again finds its snapshot gone unless somebody has read meanwhile, and throws
  "Adaptive state revision expired" (`adaptive-state-service.ts:43-45`).  The next one is well.
* A resume, or a save of settings, releases a hold to Auto although the guard owns Standby.
* Deleting a rule while it awaits its restore leaves the battery in Standby.
* `releaseDemandGuard()` writes the released rules before the command to return to Auto: if
  that fails, and the start is undone, no rule remembers the Standby (`release` in `Lapses`).
* A start of Backup Preparation that fails and cannot restore the profile becomes inactive;
  the next one takes the backup profile for the user's (`restore`).
* A command checked before a start of Backup Preparation may reach the battery after it
  (`late`).
* The end of Backup Preparation does not take the automation lock; a guard run in between
  repairs what they do to each other.
* With a stop inside a deliberate command, a later restoration may overwrite the choice the
  command made (`CrashInCommand`; `RestoreRespectsChoice` holds without it).  A record may
  also become active without a saved value (`away-reserve-service.ts:95`): every `reconcile()`
  then throws (`Refused`), and the override is not applied until a command of the user
  replaces the record.  No battery is owed anything by then (`RefusalOwesNothing`).
* A run of the schedules reads the guard rules before it waits for the mutate queue; what
  it finds may be over by the time it executes.  The next guard run repairs it.
* The page says that schedules are preserved but will not run during Backup Preparation
  (`frontend/src/i18n/locales/en.json:376`); a one-time schedule that becomes due then is
  consumed as blocked.
* A patch that enables a one-time schedule that is over keeps its intent
  (`automation-routes.ts:34`), and `isDue()` is false for ever; the page offers Enable for
  it (`BatteryPage.tsx:587`).
* *Commands.*  A command refused by `withActionMutation`, or lost with the process, leaves its
  receipt at "requested".  Between a write and its verification another command may reach the
  battery: the receipt says "mismatched" of a command that was done, or "succeeded" of one
  that is undone by then.  After a restore of the database the page polls for a receipt that
  has gone back or is not there.  A forced read joins a refresh that began before the last command.
  `decodeUnsignedW` and `decodeSignedW` throw on a value of no or more than six bytes, which
  fails the whole command and not the property alone.
* *Reading of the status.*  A failed write of the setting cache rejects the whole refresh
  while other probes still run, and the next refresh may start beside them.  With a silent
  primary fuel cell the home load falls back although the sample takes another cell's power.
  The bytes of a window that only the fallback decoded are shown but not remembered.
* *Notifications.*  An active observation does not reset the count of recoveries, so the two
  polls of a recovery need not be consecutive.  A pending report of a low battery is not tried
  again while the charge is at most 5 points above the threshold.  A delivery that failed
  starts the cooldown too.  A message that was sent but not recorded is sent again.
* *Restore.*  If the second rename and the one of the rollback both fail, the last attempt
  creates an empty database while the original stays beside it as `.restore-original-*`; so
  does the start after a stop between the renames.  After three failures background work may
  start on closed stores.
* *Discovery.*  A running job that said nothing for ten minutes is dropped while its run goes
  on; its page then gets 404.
* *Learning.*  After one outcome that is off by more than six points every later one counts
  as a failure (the maximum error of all outcomes is compared), so a value is given up after
  one bad outcome and two good ones, although the reason says "three consecutive
  forward-validation failures".  After the configured charge power is lowered, a power still
  learned keeps its value, so bands of the curve may lie above the first.
* *Planning.*  `cumulativeRangeNeeds` ignores the cap of the capacity: after a spill later
  deficits are underestimated.  A request that waits is followed at once by the window's own
  plan.  A step of the timeline takes the band at its start (`adaptive-planning.ts:177`) and
  the ends of bands are no boundaries of steps, so that with bands that do not end on a half
  hour a charge may run past the discount.
* *Meters.*  A discharge over a missing reading counts as 0 W (`energy-summary.ts:254`); an
  energy taken from the counter may be integrated once more from the power over the same time
  through the baselines of the metrics; a report leaves out the part of an interval before
  the edge of its bucket (`energy-report.ts:307`); a sample compares the circuits' counters
  also when the meter was replaced.  A sample whose append is rolled back stays in the roll-up
  in memory (`history-store.ts:202`), and is counted again with the next sample, which covers the
  same time: `EnergyCountedOnce` leaves such samples out (`undone`).
* *Backtests.*  `active` is set before the first await and outside the `try` that resets it
  (`backtest-service.ts:111`): if reading the statistics fails, every later run is refused.

## What is not modelled

* Sockets and the initialization of the ECHONET client, SMTP, SQL, HTTP parsing, the page:
  input and output, or views.  A document is written atomically, as one SQLite statement is.
* Of the persistence layer (`history-database.ts`, the repositories) all but the tables of the
  history: each call is an atomic step of the module that makes it; the queries themselves are
  SQL text.  A query of more than 5000 rows is told in pieces, which are not modelled; neither
  are the roll-ups of days (made of the same samples as those of half hours), nor a clock that
  is set back.
* Floating-point arithmetic: the calculations are over integers that round down, so what
  they show is about the order, the bookkeeping and the conditions, not about rounding.
* The composition of the calculations with `AdaptiveControl`: there an evaluation may find
  any plan, so its safety properties hold for the plans of `ChargePlan` too, but that a
  particular plan is carried out in full is not stated.
* Services that only fetch, cache and format (weather, strategy view, reports' pages), the
  editing of Away periods, the saving of secrets.
* Times of the day in the state machines, beyond what the properties tell apart: a window is
  a model value, a day has three moments, a schedule's time has come or not.
* What a recursive definition computes for every input: the calculations are checked over
  bounded inputs only, since no induction over data can be proved with these provers.
* Texts, logs.

## Plan

Done: the queue and its refinement; the Away reserve; ownership of the battery; schedules;
locks; control of Adaptive Charging; commands and status; the history with its roll-ups and
retention; notifications, restore, discovery; the calculations; the proofs listed above, which
by now cover the types of every state machine.  Next, in this order: the revisions of
`adaptive-state-service.ts` (256 snapshots) below `AdaptiveControl`; a run that lets the plan
of `ChargePlan` be carried out by `AdaptiveControl`; the editing of Away periods.

Proofs to come: lemmas about the steps of the calculations that are not recursive, as for the
history (a slot that is consumed, a check of the breaker, a step of the timeline).
