---------------------------- MODULE RangeQueries ----------------------------
(***************************************************************************)
(* The queries of the smart contract over time: Get1, Get3 and Get4 scan   *)
(* the history of a device, Get3Agg and Get4Agg enumerate the time frames  *)
(* of a range and read their aggregates (chaincode.go:174-520).            *)
(*                                                                         *)
(* A date is <<year, month, day, hour, minute, second>>, as a clock in     *)
(* some time zone shows it, and a frame is a prefix of a date.             *)
(* SetSensorState cuts the frames of the aggregates from the date as the   *)
(* generator's clock showed it (chaincode.go:42-49), while the history     *)
(* scans compare instants: parseTime takes the bounds of a query for dates *)
(* in UTC, and a creation time carries the offset of its clock             *)
(* (generator-fabric/main.go:188).  Aggregates are kept for months, days,  *)
(* hours and minutes; that they hold what the history holds is the subject *)
(* of SensorChaincode and is used here.                                    *)
(***************************************************************************)
EXTENDS Integers, Sequences, FiniteSets, Functions

CONSTANTS
    Bound,      \* the dates the bounds of a query are cut from
    Logged,     \* the logs of the device
    Zone        \* the offset from UTC, in seconds, of the chaincode's clock

VARIABLES
    createdFrom,    \* the frame the range begins with
    createdTo,      \* the one it ends with
    base,           \* the loop variable of the enumeration
    timeFrames,     \* the frames enumerated so far
    pc              \* "loop" or "done"

vars == <<createdFrom, createdTo, base, timeFrames, pc>>

\* Months and days count from one, hours, minutes and seconds from zero.
Zero == <<0, 1, 1, 0, 0, 0>>

\* The date in UTC a frame begins with.
parseTime(frame) == [i \in 1 .. 6 |-> IF i <= Len(frame) THEN frame[i] ELSE Zero[i]]

\* Format, cut to the length the caller used.
Cut(time, n) == SubSeq(time, 1, n)

\* The order of dates on one clock.
Before(t, u) == \E i \in 1 .. 6 : t[i] < u[i] /\ \A j \in 1 .. i - 1 : t[j] = u[j]

Leap(year) == year % 4 = 0 /\ (year % 100 # 0 \/ year % 400 = 0)

DaysIn(year, month) ==
    CASE month = 2 -> IF Leap(year) THEN 29 ELSE 28
      [] month \in {4, 6, 9, 11} -> 30
      [] OTHER -> 31

\* The days of a year before a month.
DaysBefore(year, month) ==
    <<0, 31, 59, 90, 120, 151, 181, 212, 243, 273, 304, 334>>[month]
      + IF month > 2 /\ Leap(year) THEN 1 ELSE 0

\* The leap years before a year.
LeapsBefore(year) == (year + 3) \div 4 - (year + 99) \div 100 + (year + 399) \div 400

\* The seconds a clock that shows the date is past the beginning of 1970.
Unix(time) ==
    LET days == 365 * (time[1] - 1970) + (LeapsBefore(time[1]) - LeapsBefore(1970))
                  + DaysBefore(time[1], time[2]) + (time[3] - 1)
    IN  86400 * days + 3600 * time[4] + 60 * time[5] + time[6]

\* The dates there are.  DaysIn tells how many days they have.
IsDate(time) ==
    /\ time \in [1 .. 6 -> Nat]
    /\ time[2] \in 1 .. 12
    /\ time[3] \in 1 .. DaysIn(time[1], time[2])
    /\ time[4] \in 0 .. 23
    /\ time[5] \in 0 .. 59
    /\ time[6] \in 0 .. 59

\* A log: its creation time as the client's clock showed it, the offset of that
\* clock from UTC, and the timestamp of its transaction as the chaincode's clock
\* would show it.
IsLog(log) == IsDate(log.created) /\ log.offset \in Int /\ IsDate(log.made)

ASSUME DatesAssumption ==
    (\A time \in Bound : IsDate(time)) /\ (\A log \in Logged : IsLog(log)) /\ Zone \in Int

\* The instants of a creation time and of a timestamp.
CreatedAt(log) == Unix(log.created) - log.offset
MadeAt(log) == Unix(log.made) - Zone

\* The client reads the clock before it makes the transaction, on one machine
\* (generator-fabric/main.go:188-191).
ASSUME TimestampsAssumption == \A log \in Logged : CreatedAt(log) <= MadeAt(log)

\* A history is finite.
ASSUME LoggedAssumption == IsFiniteSet(Logged)

\* A faulty variant of Add: a month always has 30 days.
AddInEqualMonths(time, n) ==
    IF n = 3 /\ time[3] = 30 THEN [time EXCEPT ![2] = @ + 1, ![3] = 1]
                             ELSE [time EXCEPT ![n] = @ + 1]

\* AddDate and Add with one unit.  The loops never carry but over the end of a
\* month: a day that is smaller than the last day of another month.
Add(time, n) ==
    IF n = 3 /\ time[3] = DaysIn(time[1], time[2])
      THEN [time EXCEPT ![2] = @ + 1, ![3] = 1]
      ELSE [time EXCEPT ![n] = @ + 1]

\* The length of createdFrom decides which of the five loops runs.  createdTo may
\* have another length: the end of Get4Agg is an hour of its own (line 439).
Init ==
    /\ \E k, l \in 1 .. 5, first, last \in Bound :
         createdFrom = Cut(first, k) /\ createdTo = Cut(last, l)
    /\ base = parseTime(createdFrom)
    /\ timeFrames = <<createdFrom>>
    /\ pc = "loop"

n == Len(createdFrom)
from == parseTime(createdFrom)
to == parseTime(createdTo)

\* Faulty variants of Enumerate: the test is one off; the step is forgotten.
EnumerateOneMore ==
    /\ pc = "loop"
    /\ base[n] <= to[n]
    /\ base' = Add(base, n)
    /\ timeFrames' = Append(timeFrames, Cut(base', n))
    /\ UNCHANGED <<createdFrom, createdTo, pc>>

EnumerateInPlace ==
    /\ pc = "loop"
    /\ base[n] < to[n]
    /\ UNCHANGED vars

\* The loop of Get3Agg and Get4Agg for frames of length n.  It compares nothing
\* but the n-th component of the two dates.
Enumerate ==
    /\ pc = "loop"
    /\ base[n] < to[n]
    /\ base' = Add(base, n)
    /\ timeFrames' = Append(timeFrames, Cut(base', n))
    /\ UNCHANGED <<createdFrom, createdTo, pc>>

Return ==
    /\ pc = "loop"
    /\ base[n] >= to[n]
    /\ pc' = "done"
    /\ UNCHANGED <<createdFrom, createdTo, base, timeFrames>>

Next == Enumerate \/ Return

Spec == Init /\ [][Next]_vars /\ WF_vars(Next)

-----------------------------------------------------------------------------
(***************************************************************************)
(* The answers.                                                            *)
(***************************************************************************)

\* The count of the aggregate stored for a frame.  Nothing is stored for years.
Count(frame) ==
    IF Len(frame) = 1
      THEN 0
      ELSE Cardinality({log \in Logged : Cut(log.created, Len(frame)) = frame})

\* The logs in the aggregates Get3Agg lists, and the sum Get4Agg returns.
Get4Agg == SumFunction([i \in DOMAIN timeFrames |-> Count(timeFrames[i])])

\* A faulty variant of Get3: the end is not looked at.
Get3WithoutEnd == {log \in Logged : Unix(from) < CreatedAt(log)}

\* The history scan compares instants, and leaves out a log that was created at
\* the very instant of a bound.
Get3 == {log \in Logged : Unix(from) < CreatedAt(log) /\ CreatedAt(log) < Unix(to)}

\* A faulty variant of Get1: a copied line asks for the first frame twice.
Get1Twice(timeframe1, timeframe2, timeframe3) ==
    {log \in Logged : \E frame \in {timeframe1, timeframe2} :
                        Cut(log.made, Len(frame)) = frame}

\* The logs of three frames, by the timestamps of their transactions.
Get1(timeframe1, timeframe2, timeframe3) ==
    {log \in Logged : \E frame \in {timeframe1, timeframe2, timeframe3} :
                        Cut(log.made, Len(frame)) = frame}

\* Get4 counts what Get3 would find without an end, and Get4Agg has a fixed end.
Get4 == {log \in Logged : Unix(from) < CreatedAt(log)}
EndOfGet4Agg == <<2021, 8, 21, 5>>

-----------------------------------------------------------------------------
\* The logs a range of frames means: those of the first frame, of the last one
\* and of all between them.
InRange(log) ==
    LET frame == parseTime(Cut(log.created, n))
    IN  ~Before(frame, from) /\ ~Before(to, frame)

\* The logs of the listed frames.
Counted == {log \in Logged : \E i \in DOMAIN timeFrames : Cut(log.created, n) = timeFrames[i]}

Proper == n > 1 /\ ~Before(to, from)

\* The bounds of the range are part of one frame, such as the days of a month.
InOneFrame == Cut(from, n - 1) = Cut(to, n - 1)

\* As long as a range does not leave the frame its bounds are part of, a month's
\* days or an hour's minutes, the aggregates count exactly the logs of the range
\* (chaincode.go:316-356).
AgreesWithinOneFrame ==
    (pc = "done" /\ Proper /\ InOneFrame) =>
      Get4Agg = Cardinality({log \in Logged : InRange(log)})

\* The history scans of Get3 and Get4 compare instants with bounds in UTC, the
\* aggregates go by the clock of the client.  Within one frame they differ by no
\* more than the offset of that clock: a log one of them has and the other has not
\* was created, by that clock, between a bound and the offset from it, if it does
\* not belong to the last frame, which no scan looks into, or, for Get4, to the
\* time after the fixed end of Get4Agg.  With clocks in UTC that is a log of the very
\* instant of the beginning.
ScansDifferByTheOffset ==
    (pc = "done" /\ Proper /\ InOneFrame) =>
      \A log \in Logged :
        LET near(bound) ==
              LET past == Unix(log.created) - Unix(bound)
              IN  past \in 0 .. log.offset \/ past \in log.offset .. 0
        IN  /\ (log \in Counted) # (log \in Get3) =>
                 near(from) \/ near(to) \/ Cut(log.created, n) = Cut(to, n)
            /\ createdTo = EndOfGet4Agg /\ (log \in Counted) # (log \in Get4) =>
                 near(from) \/ Before(to, log.created)

\* Get1 goes by the timestamp of the transaction, the aggregates go by the creation
\* time.  Asked for three frames that Get3Agg has enumerated, and unless the
\* client's clock is set east of the chaincode's, Get1 misses a log of the
\* aggregates only when its transaction was made after the three frames, and has one
\* too many only when that was created before them: a log that is on its way from
\* one of them to another is found, since the loop leaves no gap between them, not
\* even at the end of a month.
Get1MissesOnlyLateLogs ==
    (Proper /\ Len(timeFrames) = 3) =>
      LET found == Get1(timeFrames[1], timeFrames[2], timeFrames[3])
      IN  \A log \in Logged : log.offset <= Zone =>
            /\ log \in Counted \ found =>
                 Before(parseTime(timeFrames[3]), parseTime(Cut(log.made, n)))
            /\ log \in found \ Counted => Before(log.created, from)

\* A range over several frames is cut short, but the answer is never made up:
\* no frame is listed twice, none lies outside of the range, and none is left
\* out between two that are listed.
NeverMoreThanTheRange ==
    Proper =>
      /\ Get4Agg <= Cardinality({log \in Logged : InRange(log)})
      /\ \A i \in 1 .. Len(timeFrames) - 1 :
           LET earlier == parseTime(timeFrames[i])
               later == parseTime(timeFrames[i + 1])
           IN  /\ Before(earlier, later)
               /\ ~Before(to, later)
               /\ \A time \in Bound \cup {log.created : log \in Logged} :
                    LET frame == parseTime(Cut(time, n))
                    IN  ~(Before(earlier, frame) /\ Before(frame, later))

\* The enumeration ends, also for a range whose bounds are the wrong way round.
EnumerationEnds == <>(pc = "done")

\* "GET AVG ... WHERE created_at > time AND created_at < time" (logs.go:21): the
\* aggregates Get3Agg lists for a range leave out no log the history scan Get3
\* finds in it, not even where all clocks show UTC.
AggregatesCountEveryLog ==
    (pc = "done" /\ Proper) => {log \in Get3 : log.offset = 0} \subseteq Counted
=============================================================================
