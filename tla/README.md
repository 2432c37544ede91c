# Verification of the IoT monitoring infrastructure

The repository compares two ways to put the readings of sensors on a
blockchain: a Hyperledger Fabric smart contract that keeps aggregates next to
the readings, and Stellar transactions that a separate program aggregates
later. This directory holds TLA+ models of both, of the set-up of accounts, of
the load generators that feed them and of the queries that read them, the TLC
runs that check the models on small instances, and TLAPS proofs about the smart
contract and its range queries, the set-up of accounts, the three load generators,
the aggregator, the memos and the answers of the browser. Every safety property of
a passing run is proved for all values of the constants. Paths in this text are
relative to the root of the repository.

## 1. The system

### Components, their state and their operations

| Component | Where | State | Operations |
|---|---|---|---|
| Smart contract | `fabric-smart-contract/chaincode/chaincode.go` | world state: the latest log per device id, an aggregate (sum, count, max, min) per device and month, day, hour, minute; the history of each key | `SetSensorState`, `GetAggregation`, `GetHistoryForKey`, `GetHistoryForKeyCount` |
| Range queries of the contract | the same file, 174-552 | none | `Get1` ... `Get4Agg`, `QueryLogs` |
| Fabric load generator | `cmd/generator-fabric/main.go`, `fabric-app/setSensorState.sh` | per goroutine a loop counter and a clock reading | `startGenerator`, `sendLogTx` |
| Stellar load generator | `cmd/generator/main.go`, `pkg/generator` | per device the loaded account with a locally counted sequence number, a loop counter, a shared cancelled context | `startGenerator`, `SendLogTx`, `CreateSensorDevices` |
| Stellar aggregator | `cmd/aggregator/main.go`, `pkg/aggregator` | the loaded time accounts, the current interval of ledgers | `aggregateForNBlocksInterval`, `CalculateFunctionsForLedgers`, `SendTransaction` |
| Browser | `cmd/browser/main.go` | none; SQL over Horizon's database | `get1Agg` ... `get4Tx` |
| Node.js load generator | `generator-nodejs/src` | a pool of worker threads, tasks waiting as event listeners, a counter of finished tasks | `runTask`, message and error handlers, the loop of `index.ts` |
| Account set-up | `pkg/helpers`, `pkg/utils`, the beginnings of `cmd/generator`, `cmd/aggregator` and `index.ts` | per program the master account's sequence number, loaded once and counted locally; on the ledger accounts, trust lines and tokens | `MustLoadAccount`, `MustCreateAccounts`, `MustCreateTrustlines`, `MustFundAccountsEvenly`, chunking |
| Memo encryption | `pkg/crypto` | none | `DeriveDHKey`, `EncryptToMemo` |

Fabric's peers and orderer, stellar-core, the Stellar ledger, Horizon and its
database are not in the repository. They are modelled from what the code sends
them and reads from them, and are marked `external` in the map.

### How they interact

- The Fabric generator calls the contract through `contract.SubmitTransaction`
  and waits for the commit. The contract runs on a snapshot, and what it read
  is compared with the state when the transaction is validated.
- The two generators for Stellar and the aggregator first create the accounts,
  trust lines and tokens they need, all from one master account, and nothing
  keeps them from doing so at the same time.
- The Stellar generator and the Node.js generator send signed transactions to
  stellar-core over HTTP; core answers when it has queued a transaction, the
  ledger applies it later, and Horizon learns of it later still.
- The aggregator reads the sensors' transactions from Horizon's database and
  sends transactions of its own. The `BumpSequence` operations in them carry
  the first and the last sequence number of an interval.
  The value of a log or an aggregate is in its memo, encrypted under the
  sequence number of the transaction that carries it.
- The browser follows these marks from an aggregate back to the logs, and
  decrypts both.

### What is hard, and what makes each part correct

| Component | Hard behaviour | Correct if |
|---|---|---|
| Smart contract | overlapping transactions on snapshots; ignored errors of single updates; a blind write of the latest log | the aggregates are those of the committed logs; it acts like a store with atomic updates |
| Account set-up | errors that are logged while the sequence number counts on; programs that are killed, started again, or run at once; limits on operations and signatures | a program gets ready only when everything it asked for is there; another start repairs what an earlier one left |
| Fabric generator | an error in one goroutine kills the process with the others' transactions in flight; restarts | goroutines never invalidate each other; "Completed" means everything is on the chain; every run ends |
| Stellar generator | requests given up that still arrive; a Horizon that is behind; answers that are no promise | no log out of order, none reported and lost, retries end |
| Aggregator | sequence numbers counted locally while bumps move the account; new logs during a run; restarts | intervals adjoin, restarts cut them alike, core refuses nothing |
| Memo | one key stream for all the memos of two parties | the receiver reads the value; no block is used twice |
| Browser | marks that are inclusive on one side and exclusive on the other; averages of averages | answers of different intervals are disjoint; aggregates and logs tell the same; counts are counts |
| Worker pool | waiting tasks are listeners that all wake up; threads that die | first in, first out; each task settled once; closed only at the end |
| Node.js generator | logs of one device go out through different workers, and refusals are not looked at | a device loses logs only if its requests overlapped, failed, or a thread died |
| Range queries | date arithmetic over the ends of months and days; dates of a client's clock against instants, and times of creation against timestamps of transactions | aggregates hold the range; scans of the history differ from them by no more than the clocks do |

`PROJECT.json` lists the hazards with the line where each one bites and the
properties that cover it.

## 2. The modules

| Module | Models | Composes or uses |
|---|---|---|
| `Aggregations` | an aggregate, its update, the time frames of a reading | |
| `AggregationStore` | what the contract promises: recording a reading updates its aggregates in one step | `Aggregations` |
| `SensorChaincode` | the contract under snapshot simulation and validation | `Aggregations`, implements `AggregationStore` |
| `RangeQueries` | `Get1`, `Get3`, `Get4` and `Get3Agg`, `Get4Agg` over ranges of time | |
| `FabricGenerator` | the generator, restarts and the script, writing to the contract | an instance of `SensorChaincode` |
| `Bootstrap` | the set-up of accounts by three programs that share the master account | |
| `StellarGenerator` | the generator's goroutines, retry loop, core, ledger and Horizon | |
| `Memo` | a value in the memo of a transaction | |
| `StellarAggregator` | the aggregator, the sensors, core and the ledger with `BumpSequence` | extends `Memo` |
| `Browser` | `get1Agg`, `get2`, `get3Agg`, `get3Tx`, `get4Agg` in every state of the aggregator | extends `StellarAggregator` |
| `TaskPool` | what the worker pool promises | |
| `WorkerPool` | the pool, the loop and callback of `index.ts`, the threads | implements `TaskPool` |
| `NodeSequence` | the pool at work: the devices' sequence numbers, the requests and core | extends `WorkerPool` |
| `SumTheorems` | facts about sums over finite sets that the proofs need | |
| `SensorChaincodeProofs` | the proofs about the contract and the store it implements | extends `SensorChaincode`, `SumTheorems` |
| `FabricGeneratorProofs`, `StellarGeneratorProofs`, `BootstrapProofs`, `RangeQueriesProofs` | the proofs | the modules they are named after; `FabricGeneratorProofs` uses `SensorChaincodeProofs`, `RangeQueriesProofs` uses `SumTheorems` |
| `NodeSequenceProofs` | the proofs about the pool and the order of a device's transactions | extends `NodeSequence` |
| `StellarAggregatorProofs` | the proofs about the aggregator, the browser and their memos | extends `Browser`, `SumTheorems` |
| `MC...` | definitions of constants for TLC | |

Definitions have the names of the source where TLA+ allows it. A definition
whose comment begins "A faulty variant of" is not part of the model: it is a
bug the code does not have, kept to show that a property notices it.

`TypeOK` is checked by `chaincode` and proved of `AggregationStore`,
`SensorChaincode`, `Bootstrap`, `FabricGenerator`, `StellarGenerator` and
`WorkerPool`. In `StellarAggregator` it documents the variables, and no run lists
it; `RangeQueries` has none.

### SensorChaincode

`SetSensorState` is one action, since the contract sees none of its own writes
and reads only what was committed before it started: it adds a transaction with
the versions it read and the aggregates it computed to `endorsed`. `Commit` and
`Invalidate` validate a transaction at any later time and in any order. The
parameters `read` and `done` say which frames could be read and which were
written; the code ignores the errors of `updateAggregation` (chaincode.go:43-49),
so they may be fewer than four, for `MaxFaults` transactions. `latest` is the key
of the device id, which is written without being read. Versions are counters
here; Fabric's are the positions of the writing transactions, which serve the
same comparison. An endorsing peer that is behind is covered by the time between
simulation and validation. An instant is a tuple <<month, day, hour, minute,
second>>; a time frame is a prefix of it, as the formatted strings of the code
are. The month stands for year and month. All readings carry one offset from UTC,
since the generator formats `time.Now()` of one machine.

### RangeQueries

The bounds of the query choose which of the five loops runs; `Enumerate` is an
iteration. That the aggregate of a frame holds the logs of the frame is the
subject of `SensorChaincode` and used here. `Get4Agg` is `Get3Agg` with a fixed
end that is an hour; the bounds may therefore differ in length. `Get3` and `Get4`
scan the history by the creation time of a log; `Get1` goes by the timestamp of
the transaction, which may lie in another frame. `Get4Agg` sums the counts of the
listed frames.

A date is what a clock shows in its time zone, with the leap years of Go's `time`
package (`IsDate`); `Unix` is the number of seconds a clock in UTC that shows it is
past 1970. A log has three clocks to do with. Its creation time is the date and the offset
of the client's clock (cmd/generator-fabric/main.go:188 formats `time.Now()` with
the offset). Its aggregates are kept under prefixes of that date
(chaincode.go:42-49), whatever the offset. `Get3` and `Get4` compare its instant,
`CreatedAt`, with bounds `parseTime` takes for dates in UTC (chaincode.go:286, 423).
`Get1` formats the timestamp of the transaction by the clock of the chaincode, whose
offset is `Zone`. Offsets are seconds, and each log has its own.

### FabricGenerator

One action for each place where a goroutine can be overtaken: reading the
clock, submitting, and the answer. `SubmissionFails` stands for every error of
the gateway; the transaction may be committed nevertheless, and `StartAgain`
begins a new run with the old transactions still in `endorsed`. The script
`setSensorState.sh` writes a device id the generator does not have.

### Bootstrap

What a program does before it sends or aggregates its first log is a list of
steps: load accounts, create accounts, create trust lines, fund. `Generator`,
`Aggregator` and `Nodejs` are these lists, in the order of the three main
programs, with the chunking of `pkg/helpers` and `pkg/utils`; the actions carry
them out. A step says what becomes of an error: `TrySendTxToHorizon` logs it,
`MustSendTransactionToStellarCore` ends the program, and `index.ts` forgives
accounts that exist. Whatever happens, `NewTransaction` has counted the sequence
number. Core refuses a transaction that is too long, has too many signatures, a
sequence number that is not the next, or an operation of an account that is not
there; the ledger uses up the sequence number of a transaction that fails and
has no other effect from it. `steady` and `calm` are history variables that say
which runs met no other run and no failure.

### StellarGenerator

`NextLog`, `SendLogTx`, `Success`, `BadSequence`, `Timeout` and `Fatal` are the
steps and exits of a goroutine (generator.go:48-155), `RoundEnds` and `Reload`
those of the retry loop of `main`. With `SEND_TX_TO=horizon` the answer comes when
the transaction is in the ledger (`HorizonAnswers`), any error ends the process
(`HorizonError`), and `Restart` is the operator who starts it again; the other
mode may be restarted as well. `transit` is a set, so requests arrive in any
order, and a request that was given up stays in it. Sequence numbers begin at
one, so that the position of a transaction in the account's ledger is its
sequence number. The branch in `sendLogToStellarCore` that cancels after
`log.Fatalf` cannot be reached and is left out.

### Memo, StellarAggregator and Browser

A memo is a value and the set of blocks of the key stream it is combined with;
applying a block twice removes it, as exclusive or does. That the two parties of
a memo derive one key and nobody else does is taken from the libraries.

`ReadFirst`, `ReadLast`, `CalculateFunctionsForLedgers` and the three sends are
actions of their own, because sensors send and ledgers close between them. Every
transaction of a sensor is a log here. The rows of a query are taken in the
order Horizon inserted them (the query has no ORDER BY), so the first and the
last row are those with the least and the greatest sequence number. Core knows
the sequence number of an account after what it has queued, but not what a
`BumpSequence` will do when it is applied. `Browser` adds no action; its operators
are the queries, asked in every state.

### WorkerPool and NodeSequence

`runTask` is an iteration of the loop of `index.ts`, which never yields, so
`Handles` waits until it is over. `Work` is a worker that posts its message,
`Crash` one that dies with a task, without one, or after posting. `runTasks` is
the effect of emitting the "worker freed" event: every listener runs once, those
that find no worker register again in the order they had. A worker that died
without a task stays on the stack until its error event is handled, and can be
handed a task nobody works on.

`NodeSequence` joins each step of the pool with what it does to requests:
`HandOut` puts those of the tasks that start under way, `Settle` is a worker that
is done with its request or dies, and `Answer` is core, which looks at the
sequence number only. `troubled` is a history variable.

## 3. What is checked

| Run | Shows | Instance |
|---|---|---|
| `bootstrap` | a program gets ready only with every account and trust line there or queued; a later undisturbed run repairs what earlier ones left, with two exceptions; fleets beyond the limit of operations get no tokens; an issuer that was passed over never follows | fleets of 2 and 4 devices, 2 time accounts, 3 operations and 2 signatures to a transaction, 2 starts of the three programs, 2 disturbances |
| `chaincode` | the aggregates are those of the committed logs, short of failed updates and of nothing else; the latest log never steps back; a transaction that passes validation would write the same again; the contract implements the atomic store | 1 sensor, 3 transactions around the end of a month, 2 values of different signs, one transaction with failed updates |
| `fabric_generator` | goroutines and script never conflict in the first run; only the network keeps it from completing | 2 devices, 2 readings each, the script once |
| `fabric_generator_restarts` | "Completed" means logged, the latest reading does not go back within a month, every run ends | 1 device, 2 readings, 3 runs |
| `stellar_generator` | success means all sent; the retry loop ends, also after a round that failed because its accounts were loaded while Horizon was behind | both modes, 2 devices, 2 logs, one timeout or retransmission, 1 stale load |
| `stellar_generator_order` | no reordering and no loss of reported logs with late requests, restarts and a Horizon that is behind; with transactions core answers for and drops, only the end of a round can be lost, and nothing when Horizon is sent to | both modes, 1 device, 2 logs, 2 disturbances, 1 stale load, 1 loss, 1 restart |
| `node_sequence` | a first-in first-out pool that settles every task once, closes at the end, and survives threads that die busy; a device loses logs only if its requests overlapped, failed, or a thread died | 2 threads, 2 devices with 3 logs each, 2 deaths |
| `stellar_aggregator` | marks adjoin, nothing is refused, everything before the last ledger is covered | 2 sensors, time accounts of 1 and 2 ledgers, 4 ledgers, 4 logs |
| `stellar_aggregator_restarts` | no minimum or maximum without its average; answers of `get1Agg` for different intervals, of both runs, are disjoint and within their intervals; every aggregate decrypts to what its logs decrypt to; `get3Agg` agrees with `get3Tx` within one run | 2 sensors with 4 logs together, 4 ledgers, 2 runs, 1 loss |
| `range_queries` | within one enclosing frame the aggregates hold the range exactly; otherwise they are a prefix of it; `Get3` and `Get4` differ from them by no more than the offset of the client's clock; `Get1` loses no log between three frames in a row; the loops end | 12 bounds of every length, 26 logs, clocks in UTC, an hour and two hours east, five hours west of it |
| `browser_count`, `range_queries_count` | findings, see section 6 | |

Every property of a passing run has a mutant: a definition replaced by its
faulty variant, with which TLC finds the property violated.

`PROJECT.json` lists for every hazard the properties that cover it. Those
without a property say why.

### Why the bounds are enough

- In `Bootstrap` the limits are 3 operations and 2 signatures instead of 100 and
  20. What matters is on which side of the limit a fleet is, and that there is
  more than one chunk of signers: two devices take two chunks and one funding
  transaction, four do not fit into it. `fleet` is chosen from both, as the
  repository has fleets on both sides: `generator.env` lists 50 secrets,
  `secrets.txt` has 600. Two starts are two programs at once, one after the
  other, or one that is repaired.
- Three transactions are the least with which one can overlap two others that
  do not overlap each other, and with which one can be invalid between two valid
  ones. The instants lie on both sides of the end of a month and of a minute, so
  that two logs share no frame, the coarse ones, or all of them. Keys of
  different sensors are different, so one sensor is enough. What does not depend
  on the number of transactions is proved (section 5).
- Three runs of the Fabric generator leave two transactions behind at once.
- Two disturbances and a stale load allow a request to arrive two rounds late
  and a round to begin with used up sequence numbers. Two logs are the least that
  can be reordered or leave a gap. `MaxStaleLoads` bounds how
  often Horizon is found behind, and both Stellar runs have a stale load. It is an
  assumption about Horizon and not a wait of the code: cmd/generator/main.go:51-54
  sleeps for a second and loads. With a Horizon that trails by a log for ever, each
  round could fail and the loop need not end; what `RetriesEnd` says is that
  it ends once Horizon keeps pace, and that no failed round prevents that.
- Intervals of one and two ledgers over four ledgers contain intervals without
  logs, with several logs, and a last one that reaches beyond the last ledger.
  `TimeStart = 10` lies above every sequence number of a log, see section 4. The
  values of the logs do not divide evenly, and those of a sensor are not in order.
- With two threads and six tasks four tasks wait, logs of one device overlap, and
  a thread that dies is replaced while tasks wait and while none does. For the
  pool itself the number of threads, tasks and deaths does not matter (section 5).
- The bounds of the ranges lie at the ends of a short month, a long month, a
  year, a day and an hour, and include the fixed end of `Get4Agg`. Logs lie at a
  bound exactly, with seconds after it, and an offset away from it, before and
  after, so that each of the differences `ScansDifferByTheOffset` and
  `Get1MissesOnlyLateLogs` allow for does occur. The chaincode's clock is an hour
  east of UTC; clients' clocks are in UTC, with it, east of it, and west of UTC.

Runs say `CHECK_DEADLOCK FALSE` because the programs end, and because the bounds
stop the environment.

## 4. Assumptions

Fairness:

- Goroutines of both Go generators are scheduled weakly fairly, as Go's scheduler
  does for a goroutine that can run.
- A transaction handed to the Fabric orderer and waited for is validated. Those
  left behind by a killed process need not be.
- A request to stellar-core that is waited for reaches it, ledgers close, and
  Horizon answers and ingests. Requests that were given up need not arrive.
- The loop of `index.ts` and Node.js' event loop go on, and a worker that has a
  task finishes it. `fetch` in `sendTxTask.js` has no timeout, so this is an
  assumption about the network; without it the pool need not close.
- Failures, crashes, restarts by the operator and new logs have no fairness.
- `StellarAggregator` has no liveness property and no fairness: its loops run to
  a ledger read once, before them, and skip intervals without logs.
- `Bootstrap` has none either: what it says of runs that get ready or
  are killed is said of the step in which they do.

Assumptions about the environment:

- `SteadyRunsSetUp` is about a run that has the master account to itself from a
  Horizon that is up to date, while core loses nothing. `CalmRunsGetReady` and
  `CalmRunsFundSmallFleets` are about a run that meets no failure at all, after
  any number of failures before it. The exceptions in `CalmRunsGetReady` are
  states in which no later run of the program gets ready by itself: an issuer
  that was passed over (`IssuerNeverFollows`), and, for the aggregator, sensors'
  accounts that the generator has yet to create.
- `MarksAdjoin`, `CoversBeforeTheLastLedger`, `YoungAccountsAreNotRefused` and
  `AverageComesFirst` are about time accounts with a starting sequence number above
  those of the logs (`Young`), while core loses nothing. Stellar derives the
  first sequence number of an account from the ledger it is created in, and
  `cmd/aggregator` creates the time accounts when it starts, after the sensors
  have sent. For an account that is older than logs it aggregates, a bump moves
  it past transactions already queued, and the ledger drops these, which leaves a
  gap between the averages; the properties do not hold for it.
  `AnswersDoNotOverlap` and `AggregatesMatchTheirMarks` need none of this.
- `SuccessMeansAllSent`, `ReportedMeansAccepted` and `LogsInOrder` are about
  behaviours in which core loses nothing. After a loss they do not hold when core is
  sent to, because a body without "ERROR" counts as success (generator.go:141); `LossesLeaveNoGap`
  states what remains as long as Horizon is up to date and no request of an
  earlier round or run arrives late. `HorizonKeepsPace` needs none of this.
- `CoversBeforeTheLastLedger` leaves out the last ledger: its logs are in no
  aggregate when the number of blocks divides the range of ledgers, and never for
  an interval of one block (cmd/aggregator/main.go:135, aggregator.go:191).
- `AggregatesMatchTheirMarks` is about readings that are not negative
  (`ReadingAssumption`), as the simulated sensors have them: the maximum starts from
  zero (aggregator.go:239-250).
- `RecentAveragesAgree` is about intervals of one run with equally many logs;
  after a restart an interval is in the database twice, and `get3Agg` counts it
  twice.
- `TimestampsAssumption` of `RangeQueries`: a client reads its clock before it
  makes the transaction, whose timestamp is read on the same machine
  (cmd/generator-fabric/main.go:188-191). Nothing is assumed about time zones;
  `Get1MissesOnlyLateLogs` is about logs whose client's clock is not set east of the
  chaincode's. For another one a log may seem to be made before it was created.
- `LatestNeverStepsBack` and `LatestNeverGoesBackInTime` speak of logs that share
  a time frame. Two readings of different months have no key in common, and the
  older may replace the newer one.

## 5. What is proved

`SumTheorems` is about `SumFunctionOnSet` of the community modules, a recursive
function over the subsets of a finite set. That the recursion has a solution
(`SumsExist`), that the solution is unique (`SumsAgree`), and that any element can
come off first (`SumWithout`) is shown by the absence of a least counterexample,
since the library's induction theorems cannot be instantiated here. From these
follow sums with one more summand, over disjoint sets, shifted sums, and
`SumOfClasses`: the sizes of the classes a set is sorted into add up to its size.

`SensorChaincodeProofs` proves, for every set of sensors, instants and values and any
number of overlapping transactions, from `ValueAssumption` (values are integers),
`InstantAssumption` (instants are tuples of five integers) and
`MaxProposalsAssumption`:

- `TypeCorrect` of the contract and `StoreTypeCorrect` of the store.
- `StoreCountsCorrect`, `StoreExtremesCorrect` and `StoreSumsCorrect`: the store's
  count, minimum, maximum and sum of every key are those of the recorded readings.
  The step lemmas `CountsStep`, `ExtremesStep` and `SumsStep` rest on
  `ContributorsStep`: a new reading joins the readings of its own keys and of no
  other.
- `Invariance` of the contract. None of the properties is inductive: a valid
  transaction writes what it computed from an old snapshot, so the invariant
  must say something of transactions that still wait. `IInv` is the conjunction
  of the type invariant, of the facts that ids name transactions uniquely and
  that every latest log is committed, and of `FreshTransactionsAreRepeatable`:
  while the version of a frame a transaction read is current, the aggregate is
  the one it read, so what it will write is the update of the present one, and
  every log in it was simulated before the transaction. It is preserved because a
  commit changes the version of every key it writes, so that any other
  transaction that read the key is no longer current.
- `Refinement`: the contract implements the atomic store. A commit is one
  `Record` step, because the invariant makes the written aggregates those of the
  current state; every other step leaves the store alone.
- `CountsCorrect`, `ExtremesCorrect` and `SumsCorrect` of the contract, inherited
  from the store through the refinement.
- `HistoryCorrect`: for each granularity, the counts of a sensor's frames and the logs
  whose aggregation failed add up to its history. With the counts known to be those
  of the logs, it is `SumOfClasses`: a committed log is in one frame of a
  granularity or in none (`OneFrame`, `HistoryByFrames`).
- `LatestCorrect`: the latest log is never replaced by an older one that shares a
  frame, from the second half of the invariant.

`FabricGeneratorProofs` proves, for any devices, numbers of readings, runs and
visits of the script, and any instants of the clock, from `DeviceAssumption`,
`ClockAssumption` and `BoundsAssumption` (the devices are sensors of the chain, the
clock returns instants, the bounds are natural numbers):

- `ChainIsTheContract`: generator and script are a behaviour of the contract
  without failed updates, so all that `SensorChaincodeProofs` says holds of the
  chain they write. It rests on `SameFrames`, `SameSteps` and `SameStates`, which
  say that the two instances of the contract mean the same.
- `Invariance`. `IInv` contains the invariant of the contract and adds `Ids`, ids
  are handed out in order and transactions read and write all their frames;
  `Loops`, a goroutine counts to `LogsNumber`, and the process dies once in a run;
  `OneInFlight`, in a run a device has at most the one transaction it waits for,
  and what it has counted is on the chain; `Clocked`, the readings of a device
  carry the instants at which its goroutine looked at the clock, in the order of
  their ids.
- `TypeCorrect`; `FirstRunCorrect` (a transaction of a device writes keys of that
  device, and `OneInFlight` leaves nobody else to write them); `CompletedCorrect`
  (the readings a device counted are those of this run on the chain);
  `LatestCorrect` (by `Clocked` a commit of this run is the newest of its device,
  and one of an earlier run has no month in common with it when it is not).

`StellarGeneratorProofs` proves, for any devices and numbers of logs, in both
modes, and for any number of disturbances, stale loads, losses and restarts, from
`LogsNumberAssumption`, `SendTxToAssumption` and `BoundsAssumption`:

- `Invariance`. What core accepts depends on requests that were given up rounds
  ago, so none of the properties is inductive. `Counting` ties the loop counter of
  a goroutine to its sequence number; `Numbering` says that the sequence number of
  a transaction is its place in the ledger, and that those of a round are as far
  apart as their logs; `NoLoss`, that while core loses nothing no goroutine is
  ahead of what core took in, and that a request of an earlier round comes too
  late as soon as core has one of a later round; `Paced`, what Horizon has
  answered for is in the ledger; `Undisturbed`, rounds without disturbances leave
  no request behind.
- `TypeCorrect`; `OrderCorrect`, `ReportedCorrect` and `SuccessCorrect` from
  `Numbering` and `NoLoss`, the last with a count of the places in the ledger;
  `NoGapCorrect` from `Undisturbed`, with losses; `HorizonPaceCorrect` from
  `Paced`, with losses, late requests and restarts.

`StellarAggregatorProofs` proves, for any sensors, lists of `Blocks`, values of the
logs, ledgers, runs and losses, from `BlocksAssumption` (there is a time account,
and no interval is empty) and `BoundsAssumption`:

- `Invariance`. `IInv` is: `Chronicle`, the logs of a sensor come in the order of
  the ledgers; `Walk`, where the loops are, and that the marks stand for the logs
  of the current interval up to the last ledger, whatever has been logged since;
  `Filed`, every transaction core took in is about logs of one interval;
  `Numbered`, the ledger drops nothing of a young account and the first run counts
  as core does; `InTurn`, sensors and time accounts are gone through in order;
  `Adjoining`, the next interval begins where the last average of this run ended;
  `Pending` and `Averaged`, minimum and maximum come behind their average;
  `Covering`, the logs behind the current interval are in averages; and two of the
  properties themselves. `Numbered` needs `Filed` and `Chronicle`: the marks of a
  transaction are sequence numbers of logs, so they are below those of a young
  account, and no bump moves it.
- `AdjoinCorrect`, `NotRefusedCorrect`, `CoversCorrect` and `AverageFirstCorrect`,
  of the aggregator, and `DisjointCorrect`, of the browser in every state of the
  aggregator: by `Filed` all the logs of a transaction have the same number of
  interval, which `IntervalNumber` computes from the division. This one needs
  neither young accounts nor a core that loses nothing.

- `ContentsInvariance`, a second invariant beside the first, about what is told of the
  logs rather than which logs it is told of. `Told`: the memo of every transaction core
  took in holds the result for its marks, read under its sequence number; `InHand`: so
  do the results the program is about to send; `Ascending` and `Behind`: the averages of
  one run for a sensor lie one behind the other, whatever is lost between them.
- `MarksMatchCorrect`, of the browser: an average, minimum or maximum on the ledger
  is that of exactly the logs its marks stand for. `OnTheLedger` takes the result
  from `Told`, and `ResultsDescribe` says what the loop of
  `CalculateFunctionsForLedgers` computes; the maximum starts from zero, hence
  `ReadingAssumption` (readings are natural numbers, as the simulated sensors
  have them).
- `RecentAveragesCorrect`, of the browser: `get3Agg` is `get3Tx` for the logs behind
  the rows, or one less. `RanksAreAll` shows that the ranks of the transactions are
  a numbering, so that the rows are read in the order of the ledger; by `Ascending`
  the intervals of a run do not overlap, and `NoGaps` concludes from the room they
  have that they follow each other; `SumOfAverages` and `AverageOfAverages` bound
  what rounding down twice can lose.

The invariant has a type invariant of its own, `Types`, which leaves open of what
type values and memos are; what they are is said by `Told`.

It also proves of `Memo`, for any parties, sequence numbers and values, that a memo
decrypted under its own sequence number gives the value (`ReceiverReadsTheValue`),
that memos of different sequence numbers share no block of the key stream
(`StreamsAreDisjoint`), and that under another sequence number nothing is read
(`WrongSequenceNumberReadsNothing`). The 64 bits of the counter are not modelled.

The first part of `NodeSequenceProofs` is about the pool, `WorkerPool`. It proves, for
any number of threads, tasks and deaths, from `NumThreadsAssumption` and
`TotalAssumption` (there is a thread and a task) and `MaxCrashesAssumption`:

- `Invariance`. `WorkersKnowTheirTasks` says nothing of threads that are dead, of
  events that wait, or of who waits for what, and is not inductive. `IInv` adds,
  in conjuncts that can be read one by one: `Crew`, a dead worker stays in the
  pool until its error is handled, and there is a number left for its
  replacement; `Stack`, the stack holds every worker without a task once, and
  nobody listens while it holds one; `Mail`, the events of a worker in the queue
  are a message and then an error, or one of them, and its message finds a task;
  `Tasks`, a task that was handed in listens, has one worker, or is settled;
  `Count`, `finished` is the number of settled tasks. `MessageEffect` and
  `ErrorEffect` reduce the loop over all listeners to what it comes to: because of
  `Stack`, at most one listener finds a worker.
- `TypeCorrect`, `WorkersCorrect` and `ClosedCorrect`. The first half of
  `WorkersKnowTheirTasks` counts the stack by a bijection, the second follows from
  `Mail`.
- `Refinement`: the pool implements `TaskPool`. The contract starts a task if
  fewer than `NumThreads` run; `RunningCounts` shows that this is when the stack
  is not empty. A message and an error of a busy worker are `Settle`, and every
  other step is a stutter.

The second part shows that requests and answers give the pool no step it does
not have alone (`ThePoolAtWork`), so that `NodeWorkersCorrect`,
`NodeClosedCorrect` and `NodeRefinement` hold of the load generator, which is what
the run `node_sequence` checks. It also proves `UntroubledDevicesLoseNothing`
(`UntroubledCorrect`), for any number of devices (`NumDevicesAssumption`), logs,
threads and deaths. The property looks only at settled tasks and is not inductive.
`NodeIInv` adds to `IInv`: `Queue`, the tasks that wait are the last ones handed
in, so the next to start is always `Started + 1`, whichever listener calls
`runTask` first; `Requests`, only started tasks have a request under way, and of an
untroubled device none that a thread has done with; `Ledger`, core has taken in
every started log of an untroubled device but the one under way, and none that has
not started. A step of the pool starts the next task or none (`HandInStarts`,
`MessageStarts`, `ErrorStarts`). That core expects just the log whose request
arrives (`NextForCore`) needs the arithmetic of the two loops of `index.ts`: the
numbers of a device grow with the tasks (`LaterLogs`), and a log that is not the
first comes one round after its predecessor (`LogBefore`).

`BootstrapProofs` proves, for any fleet, limits of Stellar, number of runs and
disturbances, from `FleetsAssumption`, `LimitsAssumption` (three trust lines for
each signer fit into a transaction), `NumTimeAccountsAssumption` (the time accounts
are created by one transaction; `aggregator.Aggregators` lists less than ten) and
`BoundsAssumption`:

- `ScriptsAreProper`, what the lists of steps of the three programs have in common,
  however many chunks they are cut into: the sequence number is loaded first; a
  trust line is followed by a submission to core (`Confirmed`); an account that is
  created is loaded, gets a trust line or may exist already (`Certain`); nothing
  makes an issuer without a batch account. It is put together step by step with
  `Joined`, and rests on `ChunksCover`: each member of a slice is in one of its
  chunks, and nothing else is.
- `Invariance`. `SteadyRunsSetUp` speaks of one moment and is not inductive.
  `IInv` says of a steady run that no other one is running (`Alone`), that it only
  works with accounts that are there (`Loads`), that a trust line it has asked for
  is on the ledger or queued unless the local sequence number is ahead of core's
  (`Trusts`, `Astray`), and that it is not ahead once it is past a submission to
  core. A submission that did not get through sets the run astray; it never gets
  back, as local and core's number grow together, so that core refuses all that
  follows and the first submission to core ends the program. `Places` and `Queue`
  hold of all runs.
- `TypeCorrect`; `IssuerCorrect` from `Queue`, for all runs; `SteadyCorrect`, with
  `SetUpIsComplete` and `OnlyReady`. What core refuses because of its limits is
  covered by `Astray`.
- `ListsAreOrderly`, what the lists ask for, one step after another. `Known`: accounts
  are created in the groups of `Creations`, every transaction but the one that gives
  the tokens keeps to the limits, and only the aggregator and that one give tokens;
  `Needs`: accounts that are loaded were created by an earlier step, or exist before
  the run (`Base`), and trust lines are for accounts that were loaded. `ChunksFit`
  bounds the chunks, `CreationsApart` says that groups of accounts are disjoint, but
  for the batch account.
- `CalmInvariance`, the invariant of the runs that meet no failure, beside `IInv`.
  `Ledgers` holds whatever happens: accounts created by one transaction are all
  there or none is, except that there may be a batch account without its issuer.
  That is why a calm run can leave refused creations alone: if one of the accounts
  is there (`Landed`), all are. Of a calm run `CalmInv` says that it counts exactly
  the transactions core got (`Abreast`), that the accounts it asked for have landed or
  are in the transaction it waits for (`Creates`), that it holds the accounts it looked
  for (`Finds`), and, of the generator, that the tokens are on the ledger, or last in
  the queue with the trust lines they need on the ledger or before them (`Gives`).
- `ReadyCorrect`: a calm run is ended only by what the property excuses. It finds its
  accounts (`FindsAccounts`, `NoneIsNil`), and core takes every transaction
  (`GetsThrough`) but tokens for a fleet that is too large, whose refusal is logged.
- `FundingCorrect`: with `Gives` the tokens are there for a small fleet; `Ledgers` says
  that for a large one none of them ever gets on its way, and `TokensAre` counts them.

`RangeQueriesProofs` proves, for any bounds, any finite history and any time zones,
from `DatesAssumption` (bounds and times of logs are dates of the calendar, offsets are
integers), `LoggedAssumption` (there are finitely many logs) and `TimestampsAssumption`
(no transaction is made before its log was created):

- `Invariance`. `IInv` says of the list the loop builds: it is made of frames of one
  length, cut from dates, and the loop has got to the last one (`Listed`); each frame
  is `FollowedBy` the next, no frame of the calendar lies between them, and none begins
  after the end of the range (`Consecutive`); while the range stays within the
  frame its bounds are part of, the list counts up from its beginning (`CountsUp`).
  `NextFrame` is the step of `Add` on the calendar, with the carry over the end of a
  month of 28 to 31 days. Other units never carry, because the loop only adds to
  one that is smaller than that of the end.
- `NeverMoreCorrect`: the frames on the list are in order (`Increasing`), so they are
  different, the logs counted are different ones, `CountOfList` adds them up with
  `SumOfClasses`, and `FoundAreInRange` says that they are in the range.
- `AgreesCorrect`: within the enclosing frame `CountsUp` and the end of the loop leave
  no frame of the range out (`AllAreListed`, `WholeRangeFound`).
- `ScansCorrect`: the difference between the aggregates and the history scans is one
  of clocks. `CountedByTime` says of the aggregates in seconds what `Get3` and `Get4` say
  of the history, and the rest is arithmetic with the offset. What it takes is
  `UnixInOrder`: dates are in order as the seconds they stand for are, over months
  (`MonthsInOrder`), leap years (`YearsInOrder`) and days.
- `Get1Correct`: by `UnixInOrder` and `TimestampsAssumption` the chaincode's clock shows
  no earlier date for the transaction than the client's for the log. Between three
  frames in a row no other begins (`NoneBetween`, from `Consecutive`), so a log that was
  created in one of them and made in none was made after them (`LateLogs`).

Only model-checked are the properties that need fairness: `CompletesUnlessDisturbed`,
`EveryRunEnds`, `RetriesEnd`, `PoolCloses` and `EnumerationEnds`.
The installed provers have neither liveness under fairness nor `ENABLED`. Induction
over data, which they cannot instantiate either, was avoided with least
counterexamples.

## 6. Findings

- `cmd/browser/main.go:150`: `get4Agg` prints the difference of two inclusive
  sequence numbers, one less than the number of logs the comment on line 85 asks
  for. Run `browser_count`.
- `fabric-smart-contract/chaincode/chaincode.go:327`: a range over the end of
  the enclosing frame, or one of whole years, loses logs that the history scan
  of `Get3` finds, also where all clocks show UTC. Comments in the code mark the first case as to be done.
  Run `range_queries_count`.

## 7. What is not modelled

Left out for good: how the simulated values come about (`pkg/usecases`, random),
the curve, the hash and the cipher behind `pkg/crypto`, the web front end
(`fabric-app/app.js`), `cmd/sendtx`, the generated mocks, JSON and SQL formatting,
`Get2` of the contract, which only filters the history by value, `QueryLogs` and
`GetLogsFromDeviceId`, which hand a selector to CouchDB, and
`CalculateFunctionsForLedger` and `CalculateFunctionsForLastBlocks`, which nothing
calls. `get1Tx` and `get4Tx` of the browser select by the time bounds of the logs,
which no other part of the system reads. Range queries with a bound of seconds or
a full RFC 3339 time read only their first frame, for which nothing is stored;
they are left out.
