---------------------------- MODULE Aggregations ----------------------------
(***************************************************************************)
(* The aggregate the chaincode keeps for every sensor and time frame, and  *)
(* the time frames a sensor reading falls in                               *)
(* (fabric-smart-contract/chaincode/chaincode.go).                         *)
(*                                                                         *)
(* An instant is the tuple <<month, day, hour, minute, second>>, "month"   *)
(* standing for the year and the month together: what time.Format cuts     *)
(* into "2006-01", "2006-01-02", "2006-01-02T15" and "2006-01-02T15:04" is *)
(* a prefix of the tuple.                                                  *)
(***************************************************************************)
EXTENDS Integers, Sequences, FiniteSets, Functions

CONSTANTS
    Instant,    \* the creation times of readings
    Value       \* the values a sensor measures

ASSUME ValueAssumption == Value \subseteq Int

\* Frames are cut out of instants that reach down to the second.
ASSUME InstantAssumption ==
    /\ Instant \subseteq Seq(Int)
    /\ \A time \in Instant : Len(time) = 5

\* How many components of an instant the four time frames keep: the month,
\* the day, the hour and the minute.
Granularity == 1 .. 4

\* The four time frames of a reading created at time.
Frames(time) == {SubSeq(time, 1, n) : n \in Granularity}

TimeFrame == UNION {Frames(time) : time \in Instant}

Aggregation == [sum : Int, count : Nat, max : Int, min : Int]

\* No aggregate is stored yet.  A stored aggregate counts at least one value.
NoAggregation == [sum |-> 0, count |-> 0, max |-> 0, min |-> 0]

\* Faulty variants of Updated: the extremes start from zero, as they do in
\* pkg/aggregator; the count is not kept.
UpdatedFromZero(aggregation, value) ==
    [sum   |-> aggregation.sum + value,
     count |-> aggregation.count + 1,
     max   |-> IF aggregation.max < value THEN value ELSE aggregation.max,
     min   |-> IF aggregation.min > value THEN value ELSE aggregation.min]

UpdatedWithoutCount(aggregation, value) ==
    [UpdatedFromZero(aggregation, value) EXCEPT !.count = 1]

\* The aggregate once one more value has been added to it.
Updated(aggregation, value) ==
    IF aggregation.count = 0
      THEN [sum |-> value, count |-> 1, max |-> value, min |-> value]
      ELSE [sum   |-> aggregation.sum + value,
            count |-> aggregation.count + 1,
            max   |-> IF aggregation.max < value THEN value ELSE aggregation.max,
            min   |-> IF aggregation.min > value THEN value ELSE aggregation.min]

(***************************************************************************)
(* The reference the stored aggregates are compared with: the summary of a *)
(* set of logs computed from the logs alone.                               *)
(***************************************************************************)
TotalOf(logs) == SumFunction([log \in logs |-> log.value])

\* value is the least, respectively the greatest, one in logs.
IsLeastOf(value, logs) ==
    /\ \E log \in logs : log.value = value
    /\ \A log \in logs : value <= log.value

IsGreatestOf(value, logs) ==
    /\ \E log \in logs : log.value = value
    /\ \A log \in logs : log.value <= value
=============================================================================
