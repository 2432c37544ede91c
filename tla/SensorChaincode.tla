-------------------------- MODULE SensorChaincode ---------------------------
(***************************************************************************)
(* The smart contract of fabric-smart-contract/chaincode/chaincode.go as   *)
(* Hyperledger Fabric runs it.  SetSensorState is simulated on a snapshot  *)
(* of the world state: it sees none of its own writes, and produces a read *)
(* set, with the version of every key it read, and a write set.  Later,    *)
(* and in any order, the transaction is validated: it takes effect when    *)
(* every version it read is still current and is marked invalid otherwise. *)
(* The endorsing peer and the committer are not in the repository; they    *)
(* are modelled from how the contract and its clients use them.            *)
(***************************************************************************)
EXTENDS Aggregations

CONSTANTS
    Sensor,         \* the device ids
    NoLog,          \* the state of a device id that was never written
    MaxProposals,   \* bound: transactions simulated in a behaviour
    MaxFaults       \* bound: simulations in which an aggregation fails

ASSUME MaxProposalsAssumption == MaxProposals \in Nat

VARIABLES
    worldState,     \* the aggregate stored under every composite key
    version,        \* the version of every composite key
    latest,         \* the log stored under every device id
    committed,      \* the logs of the valid transactions of the chain
    endorsed,       \* simulated transactions that wait to be validated
    invalid,        \* ids of the transactions validation rejected
    proposals,      \* how many transactions were simulated
    faults          \* how many of them failed to update an aggregation

vars == <<worldState, version, latest, committed, endorsed, invalid,
          proposals, faults>>

Key == Sensor \X TimeFrame

Log == [id : 1 .. MaxProposals, sensor : Sensor, time : Instant,
        value : Value, done : SUBSET TimeFrame]

Init ==
    /\ worldState = [key \in Key |-> NoAggregation]
    /\ version = [key \in Key |-> 0]
    /\ latest = [sensor \in Sensor |-> NoLog]
    /\ committed = {}
    /\ endorsed = {}
    /\ invalid = {}
    /\ proposals = 0
    /\ faults = 0

\* What updateAggregation computes for one time frame of the snapshot.
updateAggregation(sensor, frame, value) ==
    Updated(worldState[<<sensor, frame>>], value)

\* A faulty variant of Simulated: the aggregates are written without having
\* been read in the transaction.
SimulatedWithoutReading(log, read) ==
    [log    |-> log,
     reads  |-> <<>>,
     writes |-> [frame \in log.done |->
                   updateAggregation(log.sensor, frame, log.value)]]

\* The transaction a simulation leaves behind.  Its write set holds an
\* aggregate for every frame in log.done, and the log under the device id.
Simulated(log, read) ==
    [log    |-> log,
     reads  |-> [frame \in read |-> version[<<log.sensor, frame>>]],
     writes |-> [frame \in log.done |->
                   updateAggregation(log.sensor, frame, log.value)]]

\* SetSensorState calls updateAggregation for the four frames and ignores the
\* error each call may return: a frame may fail to be read, and one that was
\* read may fail to be written.  The log is written in any case.
SetSensorState(sensor, value, time, read, done) ==
    /\ proposals < MaxProposals
    /\ done \subseteq read
    /\ read \subseteq Frames(time)
    /\ IF done = Frames(time) THEN UNCHANGED faults
                              ELSE faults < MaxFaults /\ faults' = faults + 1
    /\ LET log == [id |-> proposals + 1, sensor |-> sensor, time |-> time,
                   value |-> value, done |-> done]
       IN  endorsed' = endorsed \cup {Simulated(log, read)}
    /\ proposals' = proposals + 1
    /\ UNCHANGED <<worldState, version, latest, committed, invalid>>

\* A faulty variant of Fresh: only the finest frame is looked at.
FreshAtTheMinute(tx) ==
    \A frame \in DOMAIN tx.reads :
      Len(frame) = 4 => tx.reads[frame] = version[<<tx.log.sensor, frame>>]

\* The versions a transaction read are still the current ones.
Fresh(tx) ==
    \A frame \in DOMAIN tx.reads :
      tx.reads[frame] = version[<<tx.log.sensor, frame>>]

\* The keys of the write set.
Written(tx) == {<<tx.log.sensor, frame>> : frame \in tx.log.done}

\* The effect of a transaction on everything but the versions.
Apply(tx) ==
    /\ worldState' = [key \in Key |-> IF key \in Written(tx)
                                        THEN tx.writes[key[2]]
                                        ELSE worldState[key]]
    /\ latest' = [latest EXCEPT ![tx.log.sensor] = tx.log]
    /\ committed' = committed \cup {tx.log}
    /\ endorsed' = endorsed \ {tx}
    /\ UNCHANGED <<invalid, proposals, faults>>

BumpVersions(tx) ==
    version' = [key \in Key |-> IF key \in Written(tx) THEN version[key] + 1
                                                       ELSE version[key]]

\* Faulty variants of Commit: the reads are not compared with the current
\* versions; writing a key does not change its version.
CommitUnchecked(tx) == tx \in endorsed /\ Apply(tx) /\ BumpVersions(tx)

CommitSameVersion(tx) == tx \in endorsed /\ Fresh(tx) /\ Apply(tx) /\ UNCHANGED version

\* A valid transaction replaces what its keys hold by what it wrote.
Commit(tx) == tx \in endorsed /\ Fresh(tx) /\ Apply(tx) /\ BumpVersions(tx)

\* A transaction that read a version which is no longer current has no effect.
Invalidate(tx) ==
    /\ tx \in endorsed
    /\ ~Fresh(tx)
    /\ endorsed' = endorsed \ {tx}
    /\ invalid' = invalid \cup {tx.log.id}
    /\ UNCHANGED <<worldState, version, latest, committed, proposals, faults>>

Next ==
    \/ \E sensor \in Sensor, value \in Value, time \in Instant :
         \E read \in SUBSET Frames(time) : \E done \in SUBSET read :
           SetSensorState(sensor, value, time, read, done)
    \/ \E tx \in endorsed : Commit(tx)
    \/ \E tx \in endorsed : Invalidate(tx)

Spec == Init /\ [][Next]_vars

-----------------------------------------------------------------------------
(***************************************************************************)
(* The queries the properties read the state with.                         *)
(***************************************************************************)

\* GetAggregation: what is stored for exactly this sensor and frame.
GetAggregation(sensor, frame) == worldState[<<sensor, frame>>]

\* GetHistoryForKey lists the logs that were stored under the device id, and
\* GetHistoryForKeyCount says how many there are.
GetHistoryForKey(sensor) == {log \in committed : log.sensor = sensor}
GetHistoryForKeyCount(sensor) == Cardinality(GetHistoryForKey(sensor))

Store == INSTANCE AggregationStore WITH aggregations <- worldState,
                                        records <- committed,
                                        MaxLogs <- MaxProposals

-----------------------------------------------------------------------------
Transaction(tx) ==
    /\ tx.log \in Log
    /\ tx.log.done \subseteq DOMAIN tx.reads
    /\ DOMAIN tx.reads \subseteq TimeFrame
    /\ \A frame \in DOMAIN tx.reads : tx.reads[frame] \in Nat
    /\ DOMAIN tx.writes = tx.log.done
    /\ \A frame \in tx.log.done : tx.writes[frame] \in Aggregation

TypeOK ==
    /\ worldState \in [Key -> Aggregation]
    /\ version \in [Key -> Nat]
    /\ latest \in [Sensor -> Log \cup {NoLog}]
    /\ committed \subseteq Log
    /\ IsFiniteSet(committed)
    /\ \A tx \in endorsed : Transaction(tx)
    /\ invalid \subseteq 1 .. MaxProposals
    /\ proposals \in 0 .. MaxProposals
    /\ faults \in Nat

(***************************************************************************)
(* What the stored aggregates say of the history, whatever the order in    *)
(* which overlapping transactions are simulated and validated.             *)
(***************************************************************************)

\* No update is lost and none is counted twice: the count an aggregate stores
\* (chaincode.go:86, :97) is the number of committed logs it took in, although
\* it is computed from a snapshot.
CountsCommittedLogs == Store!CountsRecords

\* The stored Min and Max (chaincode.go:87-92, :99-100) are those of the
\* committed logs, also for negative values and for the value zero.
ExtremesOfCommittedLogs == Store!ExtremesOfRecords

\* The stored Sum (chaincode.go:85, :98) is the sum over the committed logs.
SumsCommittedLogs == Store!SumsRecords

\* The time frames of one granularity an aggregate is stored for.
Stored(sensor, granularity) ==
    {frame \in TimeFrame : /\ Len(frame) = granularity
                           /\ GetAggregation(sensor, frame).count > 0}

\* A committed log that the aggregate of its frame does not contain.
Skipped(sensor, granularity) ==
    {log \in GetHistoryForKey(sensor) :
       SubSeq(log.time, 1, granularity) \notin log.done}

\* The two ways a client has to count the logs of a sensor agree: the history
\* of the device id (chaincode.go:123-141) and the aggregates of one
\* granularity (chaincode.go:114-121), up to the updates whose error
\* SetSensorState ignored (chaincode.go:43-49).
HistoryAgreesWithAggregates ==
    \A sensor \in Sensor, granularity \in Granularity :
      LET count == [frame \in Stored(sensor, granularity) |->
                      GetAggregation(sensor, frame).count]
      IN  GetHistoryForKeyCount(sensor)
            = SumFunction(count) + Cardinality(Skipped(sensor, granularity))

\* The log stored under a device id is written without being read
\* (chaincode.go:61), so nothing in that write keeps an older reading from
\* replacing a newer one.  The aggregates the same transaction read do: two
\* logs that share a frame take effect in the order they were simulated in.
LatestNeverStepsBack ==
    [][\A sensor \in Sensor :
         (/\ latest[sensor] # NoLog
          /\ latest'[sensor] # latest[sensor]
          /\ latest[sensor].done \cap latest'[sensor].done # {})
         => latest[sensor].id < latest'[sensor].id]_vars

\* Why snapshots do no harm (chaincode.go:68-112 under Fabric's validation):
\* a transaction whose reads are still current would write the same aggregates
\* if it were simulated again now, and everything its aggregates contain was
\* simulated before it.
UpToDate(tx, frame) ==
    LET key == <<tx.log.sensor, frame>>
    IN  tx.reads[frame] = version[key] =>
          /\ frame \in tx.log.done =>
               tx.writes[frame] = Updated(worldState[key], tx.log.value)
          /\ \A log \in Store!Contributors(key) : log.id < tx.log.id

FreshTransactionsAreRepeatable ==
    \A tx \in endorsed : \A frame \in DOMAIN tx.reads :
      /\ tx.reads[frame] <= version[<<tx.log.sensor, frame>>]
      /\ UpToDate(tx, frame)

\* The contract implements the atomic store.
ImplementsStore == Store!Spec
=============================================================================
