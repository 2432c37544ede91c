-------------------------- MODULE AggregationStore --------------------------
(***************************************************************************)
(* What the chaincode promises its callers: a store in which recording a   *)
(* sensor reading adds it, in one indivisible step, to the aggregates of   *)
(* its sensor.  There are no transactions, snapshots or conflicts here;    *)
(* SensorChaincode has them, and implements this module.                   *)
(***************************************************************************)
EXTENDS Aggregations

CONSTANTS
    Sensor,     \* the device ids
    MaxLogs     \* bound: readings submitted in a behaviour

VARIABLES
    aggregations,   \* the aggregate of every key
    records         \* the readings recorded so far

vars == <<aggregations, records>>

\* The composite keys sensor~timeframe.
Key == Sensor \X TimeFrame

\* A reading.  done holds the time frames whose aggregate took it in; the
\* chaincode skips one whose update fails.
Log == [id : 1 .. MaxLogs, sensor : Sensor, time : Instant, value : Value,
        done : SUBSET TimeFrame]

\* The keys a reading contributes to, and the readings of a key.
KeysOf(log) == {<<log.sensor, frame>> : frame \in log.done}

Contributors(key) ==
    {log \in records : log.sensor = key[1] /\ key[2] \in log.done}

Init ==
    /\ aggregations = [key \in Key |-> NoAggregation]
    /\ records = {}

Record(log) ==
    /\ \A other \in records : other.id # log.id
    /\ records' = records \cup {log}
    /\ aggregations' = [key \in Key |->
                          IF key \in KeysOf(log)
                            THEN Updated(aggregations[key], log.value)
                            ELSE aggregations[key]]

Next ==
    \E id \in 1 .. MaxLogs, sensor \in Sensor, time \in Instant, value \in Value :
      \E done \in SUBSET Frames(time) :
        Record([id |-> id, sensor |-> sensor, time |-> time, value |-> value,
                done |-> done])

Spec == Init /\ [][Next]_vars

-----------------------------------------------------------------------------
TypeOK ==
    /\ aggregations \in [Key -> Aggregation]
    /\ records \subseteq Log
    /\ IsFiniteSet(records)

\* Count of chaincode.go:86 is the number of readings that were aggregated:
\* none is lost and none is counted twice.
CountsRecords ==
    \A key \in Key : aggregations[key].count = Cardinality(Contributors(key))

\* Min and Max (chaincode.go:87-92) are values some reading really had, and no
\* reading of the key lies outside of them.
ExtremesOfRecords ==
    \A key \in Key :
      Contributors(key) # {} =>
        /\ IsLeastOf(aggregations[key].min, Contributors(key))
        /\ IsGreatestOf(aggregations[key].max, Contributors(key))

\* Sum (chaincode.go:85) is the sum of the readings of the key.
SumsRecords ==
    \A key \in Key : aggregations[key].sum = TotalOf(Contributors(key))
=============================================================================
