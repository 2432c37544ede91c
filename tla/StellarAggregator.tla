------------------------- MODULE StellarAggregator --------------------------
(***************************************************************************)
(* The aggregator of cmd/aggregator/main.go and pkg/aggregator.  For every *)
(* sensor and every time account it walks over the ledgers in intervals of *)
(* a number of blocks, and sends three transactions from the time account, *)
(* the average, the minimum and the maximum of the logs of the interval.   *)
(* Two BumpSequence operations in each tell the browser which transactions *)
(* of the sensor the value stands for: BumpTo is the sequence number of    *)
(* the first, respectively the last, log of the interval.  The value       *)
(* itself is in the memo.                                                  *)
(*                                                                         *)
(* The sensors go on sending meanwhile.  Horizon's database, stellar-core  *)
(* and the ledger are not in the repository; they are modelled from how    *)
(* the code uses them.  In particular BumpSequence is a real operation: it *)
(* raises the sequence number of the time account itself, if the account   *)
(* is behind the number, and core cannot know before it is applied.        *)
(***************************************************************************)
EXTENDS Memo, Sequences, SequencesExt, FiniteSets, FiniteSetsExt

CONSTANTS
    NumSensors,     \* sensors, in the order of sensorKeypairs
    Blocks,         \* the Blocks of each element of aggregator.Aggregators
    SensorStart,    \* sequence number a sensor's account was created with
    Reading,        \* for every sensor, the values of its logs
    TimeStart,      \* sequence number a time account was created with
    MaxLedger,      \* bound: ledgers with logs
    MaxLogs,        \* bound: logs of all the sensors
    MaxRuns,        \* bound: how often the program is started
    MaxLosses       \* bound: transactions core answers for and then loses

ASSUME BlocksAssumption == Blocks \in Seq(Nat \ {0}) /\ Blocks # <<>>
ASSUME BoundsAssumption ==
    /\ {NumSensors, MaxRuns} \subseteq Nat \ {0}
    /\ {SensorStart, TimeStart, MaxLedger, MaxLogs, MaxLosses} \subseteq Nat

\* The simulated temperatures lie between 2 and 18 degrees, and the humidities
\* around 40 to 81 percent (temperature.go:12-14, humidity.go:11-13): never below zero.
ASSUME ReadingAssumption ==
    \A s \in 1 .. NumSensors : Reading[s] \in Seq(Nat) /\ Len(Reading[s]) >= MaxLogs

VARIABLES
    ledger,         \* the last ledger
    logs,           \* for every sensor, the ledger of each of its logs
    process,        \* "running", "finished", "refused" or "crashed"
    runs,           \* how often the program was started
    pc,             \* where it is: "first", "last", "interval" or "send"
    sensor, index,  \* the sensor and the time account it works on
    firstLedger, lastLedger, currentLedger,
    marks,          \* startAccSeq and endAccSeq of the interval
    results,        \* its average, minimum and maximum
    function,       \* the function to be sent next
    sequence,       \* the sequence number of each loaded time account
    queued,         \* the transactions core has queued for a time account
    account,        \* the sequence number of a time account on the ledger
    aggregates,     \* the transactions of a time account on the ledger
    losses          \* what MaxLosses counts

loop == <<pc, sensor, index, firstLedger, lastLedger, currentLedger, marks, results, function>>
network == <<queued, account, aggregates>>
vars == <<ledger, logs, process, runs, loop, sequence, network, losses>>

Sensor == 1 .. NumSensors
TimeAccount == DOMAIN Blocks

\* In the order they are sent.
Function == 1 .. 3
AVG == 1
MIN == 2
MAX == 3

\* The accounts, as the parties of an encryption.
SensorKey(s) == <<"sensor", s>>
TimeKey(a) == <<"time", a>>
BatchKey == <<"batch", 0>>

\* A transaction of a time account.
Transaction == [seq : Nat, run : 1 .. MaxRuns, sensor : Sensor, function : Function,
                start : Nat, end : Nat,
                memo : [value : Int,
                        stream : SUBSET ({{SensorKey(s), TimeKey(a)} :
                                            s \in Sensor, a \in TimeAccount} \X Nat)]]

Init ==
    /\ ledger = 0
    /\ logs = [s \in Sensor |-> <<>>]
    /\ process = "running"
    /\ runs = 1
    /\ pc = "first"
    /\ sensor = 1
    /\ index = 1
    /\ firstLedger = 0
    /\ lastLedger = 0
    /\ currentLedger = 0
    /\ marks = <<0, 0>>
    /\ results = <<0, 0, 0>>
    /\ function = AVG
    /\ sequence = [a \in TimeAccount |-> TimeStart]
    /\ queued = [a \in TimeAccount |-> <<>>]
    /\ account = [a \in TimeAccount |-> TimeStart]
    /\ aggregates = [a \in TimeAccount |-> <<>>]
    /\ losses = 0

At(label) == process = "running" /\ pc = label

\* The variables of aggregateForNBlocksInterval end with it.
LocalsEnd ==
    /\ pc' = "first"
    /\ firstLedger' = 0
    /\ lastLedger' = 0
    /\ currentLedger' = 0
    /\ marks' = <<0, 0>>
    /\ results' = <<0, 0, 0>>
    /\ function' = AVG

-----------------------------------------------------------------------------
(***************************************************************************)
(* aggregateForNBlocksInterval, for one sensor and one time account.       *)
(***************************************************************************)

\* The first ledger with a log; a sensor without one ends the process.
ReadFirst ==
    /\ At("first")
    /\ IF logs[sensor] = <<>>
         THEN process' = "crashed" /\ UNCHANGED <<pc, firstLedger>>
         ELSE /\ firstLedger' = Head(logs[sensor])
              /\ pc' = "last"
              /\ UNCHANGED process
    /\ UNCHANGED <<ledger, logs, runs, sensor, index, lastLedger, currentLedger, marks,
                   results, function, sequence, network, losses>>

\* The last one, in a query of its own.
ReadLast ==
    /\ At("last")
    /\ lastLedger' = Last(logs[sensor])
    /\ currentLedger' = firstLedger
    /\ pc' = "interval"
    /\ UNCHANGED <<ledger, logs, process, runs, sensor, index, firstLedger, marks,
                   results, function, sequence, network, losses>>

\* The sequence number of the k-th log of a sensor.
AccountSequence(k) == SensorStart + k

\* A faulty variant of Rows: the ledger the interval ends with belongs to it.
RowsWithEnd(s, start, end) ==
    {k \in DOMAIN logs[s] : start <= logs[s][k] /\ logs[s][k] <= end}

\* The logs of a sensor in the ledgers from start to end, without end.
Rows(s, start, end) ==
    {k \in DOMAIN logs[s] : start <= logs[s][k] /\ logs[s][k] < end}

\* The memo SendLogTx gave each log, and what the aggregator reads from it.
LogMemo ==
    [s \in Sensor |-> [k \in DOMAIN Reading[s] |->
       EncryptToMemo(AccountSequence(k), SensorKey(s), BatchKey, Plain(Reading[s][k]))]]
getLogValue ==
    [s \in Sensor |-> [k \in DOMAIN Reading[s] |->
       parseMemo(LogMemo[s][k], AccountSequence(k), BatchKey, SensorKey(s))]]

\* The division of Go's integers.
Quotient(sum, n) == IF sum >= 0 THEN sum \div n ELSE -((-sum) \div n)

\* A faulty variant of Results: the minimum starts from zero, as the maximum does.
ResultsFromZero(values) ==
    <<Quotient(SumFunction(values), Len(values)),
      Min(ToSet(values) \cup {0}), Max(ToSet(values) \cup {0})>>

\* Average, minimum and maximum of a list of values; the minimum starts from the
\* first value and the maximum from zero.
Results(values) ==
    <<Quotient(SumFunction(values), Len(values)),
      Min(ToSet(values)), Max(ToSet(values) \cup {0})>>

\* A faulty variant of NextInterval: every other interval is left out.
NextIntervalButOne == currentLedger + 2 * Blocks[index]

NextInterval == currentLedger + Blocks[index]

\* Where the loop goes on after an interval without logs.
AfterGap == NextInterval

\* The logs of the next interval are read; one without logs is skipped.  The
\* marks are taken from the first and from the last row; the query has no
\* ORDER BY, and the rows are assumed to come as Horizon inserted them.
CalculateFunctionsForLedgers ==
    /\ At("interval")
    /\ currentLedger < lastLedger
    /\ LET rows == Rows(sensor, currentLedger, currentLedger + Blocks[index])
       IN  IF rows = {}
             THEN /\ currentLedger' = AfterGap
                  /\ UNCHANGED <<pc, marks, results, function>>
             ELSE /\ marks' = <<AccountSequence(Min(rows)), AccountSequence(Max(rows))>>
                  /\ results' = Results(SubSeq(getLogValue[sensor], Min(rows), Max(rows)))
                  /\ function' = AVG
                  /\ pc' = "send"
                  /\ UNCHANGED currentLedger
    /\ UNCHANGED <<ledger, logs, process, runs, sensor, index, firstLedger, lastLedger,
                   sequence, network, losses>>

\* The intervals are used up: the next time account, or the next sensor, or the
\* end of the program.
EndOfIntervals ==
    /\ At("interval")
    /\ currentLedger >= lastLedger
    /\ IF index < Len(Blocks)
         THEN index' = index + 1 /\ UNCHANGED <<sensor, process>>
         ELSE /\ index' = 1
              /\ IF sensor < NumSensors
                   THEN sensor' = sensor + 1 /\ UNCHANGED process
                   ELSE process' = "finished" /\ UNCHANGED sensor
    /\ LocalsEnd
    /\ UNCHANGED <<ledger, logs, runs, sequence, network, losses>>

-----------------------------------------------------------------------------
(***************************************************************************)
(* SendTransaction.  The sequence number is counted locally.               *)
(***************************************************************************)

Message == [seq |-> sequence[index] + 1, run |-> runs, sensor |-> sensor,
            function |-> function, start |-> marks[1], end |-> marks[2],
            memo |-> EncryptToMemo(sequence[index] + 1, TimeKey(index), SensorKey(sensor),
                                   Plain(results[function]))]

\* The sequence number core expects of a time account.
Expected(a) == (IF queued[a] = <<>> THEN account[a] ELSE Last(queued[a]).seq) + 1

LastFunction == MAX

\* A faulty variant of Counted: the transaction does not count the sequence number
\* of the account on.
CountedNever == sequence

Counted == [sequence EXCEPT ![index] = @ + 1]

\* The next function, or the next interval after the last one.
Advance ==
    /\ sequence' = Counted
    /\ IF function < LastFunction
         THEN function' = function + 1 /\ UNCHANGED <<pc, currentLedger>>
         ELSE pc' = "interval" /\ currentLedger' = NextInterval /\ function' = AVG

\* Core queues the transaction.
SendTransaction ==
    /\ At("send")
    /\ Message.seq = Expected(index)
    /\ queued' = [queued EXCEPT ![index] = Append(@, Message)]
    /\ Advance
    /\ UNCHANGED <<ledger, logs, process, runs, sensor, index, firstLedger, lastLedger,
                   marks, results, account, aggregates, losses>>

\* The answer TRY_AGAIN_LATER is taken for a success.
TryAgainLater ==
    /\ At("send")
    /\ losses < MaxLosses
    /\ losses' = losses + 1
    /\ Advance
    /\ UNCHANGED <<ledger, logs, process, runs, sensor, index, firstLedger, lastLedger,
                   marks, results, network>>

\* A faulty variant of Fatal: the error is logged, and the loop goes on.
LogOnly ==
    /\ Advance
    /\ UNCHANGED <<process, sensor, index, firstLedger, lastLedger, marks, results>>

\* log.Fatal
Fatal == process' = "refused" /\ LocalsEnd /\ UNCHANGED <<sensor, index, sequence>>

\* Core answers with an error.
Refused ==
    /\ At("send")
    /\ Message.seq # Expected(index)
    /\ Fatal
    /\ UNCHANGED <<ledger, logs, runs, network, losses>>

\* The request fails, and the nil response is used.  Core may have queued the
\* transaction.
SendFails ==
    /\ At("send")
    /\ process' = "crashed"
    /\ \/ UNCHANGED queued
       \/ /\ Message.seq = Expected(index)
          /\ queued' = [queued EXCEPT ![index] = Append(@, Message)]
    /\ LocalsEnd
    /\ UNCHANGED <<ledger, logs, runs, sensor, index, sequence, account, aggregates, losses>>

\* The operator starts the program again; it loads the time accounts from
\* Horizon, which does not know what core has queued.
Restart ==
    /\ process # "running"
    /\ runs < MaxRuns
    /\ runs' = runs + 1
    /\ process' = "running"
    /\ LocalsEnd
    /\ sensor' = 1
    /\ index' = 1
    /\ sequence' = account
    /\ UNCHANGED <<ledger, logs, network, losses>>

-----------------------------------------------------------------------------
(***************************************************************************)
(* The sensors and the ledger.                                             *)
(***************************************************************************)

\* The logs of all the sensors.
AllLogs == UNION {{s} \X DOMAIN logs[s] : s \in Sensor}

\* A ledger closes with some logs.
CloseLedger ==
    /\ ledger < MaxLedger
    /\ ledger' = ledger + 1
    /\ \E n \in [Sensor -> 0 .. 2] :
         logs' = [s \in Sensor |-> logs[s] \o [k \in 1 .. n[s] |-> ledger + 1]]
    /\ Cardinality(AllLogs') <= MaxLogs
    /\ UNCHANGED <<process, runs, loop, sequence, network, losses>>

\* The ledger applies the first queued transaction of a time account, and with
\* it the two BumpSequence operations, or drops it if its sequence number is no
\* longer the next one.
Apply(a) ==
    /\ queued[a] # <<>>
    /\ queued' = [queued EXCEPT ![a] = Tail(@)]
    /\ LET tx == Head(queued[a])
       IN  IF tx.seq = account[a] + 1
             THEN /\ account' = [account EXCEPT ![a] = Max({tx.seq, tx.start, tx.end})]
                  /\ aggregates' = [aggregates EXCEPT ![a] = Append(@, tx)]
             ELSE UNCHANGED <<account, aggregates>>
    /\ UNCHANGED <<ledger, logs, process, runs, loop, sequence, losses>>

-----------------------------------------------------------------------------
Aggregator ==
    \/ ReadFirst
    \/ ReadLast
    \/ CalculateFunctionsForLedgers
    \/ EndOfIntervals
    \/ SendTransaction
    \/ Refused

Next ==
    \/ Aggregator
    \/ TryAgainLater
    \/ SendFails
    \/ Restart
    \/ CloseLedger
    \/ \E a \in TimeAccount : Apply(a)

Spec == Init /\ [][Next]_vars

-----------------------------------------------------------------------------
TypeOK ==
    /\ ledger \in 0 .. MaxLedger
    /\ logs \in [Sensor -> Seq(1 .. MaxLedger)]
    /\ process \in {"running", "finished", "refused", "crashed"}
    /\ runs \in 1 .. MaxRuns
    /\ pc \in {"first", "last", "interval", "send"}
    /\ sensor \in Sensor
    /\ index \in TimeAccount
    /\ {firstLedger, lastLedger} \subseteq 0 .. MaxLedger
    /\ currentLedger \in Nat
    /\ marks \in Nat \X Nat
    /\ results \in [Function -> Int]
    /\ function \in Function
    /\ sequence \in [TimeAccount -> Nat]
    /\ queued \in [TimeAccount -> Seq(Transaction)]
    /\ account \in [TimeAccount -> Nat]
    /\ aggregates \in [TimeAccount -> Seq(Transaction)]
    /\ losses \in 0 .. MaxLosses

\* What core has taken in for a time account.
Accepted(a) == aggregates[a] \o queued[a]

\* The time accounts are younger than the logs: they were created with a sequence
\* number above those of all the logs.
Young == TimeStart > SensorStart + MaxLogs

\* One run covers the logs of a sensor without a gap and without an overlap: the
\* mark an average ends with (aggregator.go:371) is followed immediately by the
\* mark the next one starts with (aggregator.go:368), although new logs arrive
\* between the queries of two intervals and intervals without logs are skipped.
\* (An average that is answered for and lost, or dropped by an account older than
\* the logs, leaves a gap.)
MarksAdjoin ==
    (Young /\ losses = 0) =>
      \A a \in TimeAccount, s \in Sensor :
        LET average(i) == Accepted(a)[i].sensor = s /\ Accepted(a)[i].function = AVG
            next(i, j) == /\ i < j /\ average(i) /\ average(j)
                          /\ ~ \E k \in i + 1 .. j - 1 : average(k)
        IN  \A i, j \in DOMAIN Accepted(a) :
              next(i, j) /\ Accepted(a)[i].run = Accepted(a)[j].run
                => Accepted(a)[i].end + 1 = Accepted(a)[j].start

\* Counting the sequence number locally (aggregator.go:354, helpers.go:235) is
\* right for accounts that are younger than the logs: the bumps of the
\* transactions then never move the account, and core refuses nothing in the
\* first run, whichever of the earlier transactions it has applied.
YoungAccountsAreNotRefused ==
    (Young /\ runs = 1 /\ losses = 0) => process # "refused"

\* Whatever failures and restarts do to the transactions of a young account, a
\* minimum or a maximum is never on the ledger without the average of the same
\* interval before it (main.go:143-147), unless that was answered for and lost.
\* (For an account older than the logs this is not so: the bump of an average
\* can drop the next interval's average and leave its minimum.)
AverageComesFirst ==
    (Young /\ losses = 0) =>
      \A a \in TimeAccount : \A i \in DOMAIN aggregates[a] :
        LET tx == aggregates[a][i]
        IN  tx.function # AVG =>
              \E average \in ToSet(SubSeq(aggregates[a], 1, i - 1)) :
                /\ average.function = AVG
                /\ <<average.run, average.sensor, average.start, average.end>>
                     = <<tx.run, tx.sensor, tx.start, tx.end>>

\* The averages of this run for a sensor contain a log.
Covered(a, s, k) ==
    \E tx \in ToSet(Accepted(a)) :
      /\ tx.run = runs /\ tx.sensor = s /\ tx.function = AVG
      /\ tx.start <= AccountSequence(k) /\ AccountSequence(k) <= tx.end

\* When an interval loop has come to its end (main.go:135), every log up to the
\* last ledger, but for that ledger itself, has been aggregated.  The logs of the
\* last ledger are not when the number of blocks divides the range.
CoversBeforeTheLastLedger ==
    (Young /\ losses = 0 /\ At("interval") /\ currentLedger >= lastLedger) =>
      \A k \in DOMAIN logs[sensor] :
        logs[sensor][k] < lastLedger => Covered(index, sensor, k)
=============================================================================
