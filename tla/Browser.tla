------------------------------ MODULE Browser -------------------------------
(***************************************************************************)
(* The queries of cmd/browser/main.go that go through the transactions of  *)
(* a time account instead of the logs: the marks of a transaction lead     *)
(* them to the logs of the sensor.  They are asked of the database at any  *)
(* time, also while the aggregator is at work.                             *)
(***************************************************************************)
EXTENDS StellarAggregator

\* The transactions of a time account about a sensor and a function, by their
\* account_sequence, which is how the ledger has them.
Places(a, s, f) ==
    {i \in DOMAIN aggregates[a] : aggregates[a][i].sensor = s /\ aggregates[a][i].function = f}

Rank(places, i) == Cardinality({j \in places : j <= i})

Operations(a, s, f) ==
    LET places == Places(a, s, f)
    IN  [n \in 1 .. Cardinality(places) |->
           aggregates[a][CHOOSE i \in places : Rank(places, i) = n]]

\* A faulty variant of LogsBetween: the transaction the interval ends with is
\* taken for the one after it.
LogsBetweenPlusOne(s, from, to) ==
    {k \in DOMAIN logs[s] : from <= AccountSequence(k) /\ AccountSequence(k) <= to + 1}

\* The query by account_sequence at the end of get1Agg.
LogsBetween(s, from, to) ==
    {k \in DOMAIN logs[s] : from <= AccountSequence(k) /\ AccountSequence(k) < to}

\* get1Agg for a transaction of a time account.
get1Agg(tx) == LogsBetween(tx.sensor, tx.start, tx.end)

\* get4Agg: the transaction offset places before the latest, and the count that
\* is read off its marks.  Without such a transaction the program ends.
Answers(a, s, f, offset) == offset < Len(Operations(a, s, f))

get4Agg(a, s, f, offset) ==
    LET tx == Operations(a, s, f)[Len(Operations(a, s, f)) - offset]
    IN  tx.end - tx.start

\* parseMemo for a transaction of a time account.
Value(a, tx) == parseMemo(tx.memo, tx.seq, TimeKey(a), SensorKey(tx.sensor))

\* A faulty variant of Latest: ORDER BY without DESC.
Earliest(a, s, f, lastBlocks) == SubSeq(Operations(a, s, f), 1, lastBlocks)

\* The rows get3Agg reads, the latest ones.
Latest(a, s, f, lastBlocks) ==
    LET n == Len(Operations(a, s, f))
    IN  SubSeq(Operations(a, s, f), Max({1, n - lastBlocks + 1}), n)

get3Agg(a, s, f, lastBlocks) ==
    LET latest == Latest(a, s, f, lastBlocks)
        values == [i \in DOMAIN latest |-> Value(a, latest[i])]
    IN  Quotient(SumFunction(values), Len(values))

\* get3Tx for a time in which a sensor has sent the logs from the k-th to the m-th.
get3Tx(s, k, m) ==
    Quotient(SumFunction(SubSeq(getLogValue[s], k, m)), m - k + 1)

\* get2: the logs of a sensor whose value is in a relation with a number.  The memo is
\* decrypted with the key of the sensor, as its sender would.
get2(s, operation, predicate) ==
    {k \in DOMAIN logs[s] :
       LET v == parseMemo(LogMemo[s][k], AccountSequence(k), SensorKey(s), BatchKey)
       IN  CASE operation = ">" -> v > predicate
             [] operation = ">=" -> v >= predicate
             [] operation = "<" -> v < predicate
             [] operation = "<=" -> v <= predicate}

-----------------------------------------------------------------------------
\* What get1Agg returns for one interval it never returns for another, so the
\* answers for several intervals can be put together; and no answer has a log of
\* a ledger outside of the interval its transaction is about, which spans Blocks
\* ledgers and does not move when the aggregator is started again.
AnswersDoNotOverlap ==
    \A a \in TimeAccount : \A tx, u \in ToSet(aggregates[a]) :
      LET Interval(s, k) == (logs[s][k] - Head(logs[s])) \div Blocks[a]
          interval(t) == Interval(t.sensor, t.start - SensorStart)
      IN  /\ tx.sensor = u.sensor /\ interval(tx) # interval(u)
               => get1Agg(tx) \cap get1Agg(u) = {}
          /\ \A k \in get1Agg(tx) : Interval(tx.sensor, k) = interval(tx)

\* A transaction of a time account holds the average, minimum or maximum of exactly
\* the logs its marks stand for, although it is sent long after they were read
\* (aggregator.go:353), and the browser can decrypt it by its account_sequence
\* (browser/main.go:388), whatever became of the transactions before it.  For the
\* extremes get2 agrees: it finds such a log up to the value and none beyond.
AggregatesMatchTheirMarks ==
    \A a \in TimeAccount : \A tx \in ToSet(aggregates[a]) :
      LET s == tx.sensor
          rows == tx.start - SensorStart .. tx.end - SensorStart
          finds(operation) == rows \cap get2(s, operation, Value(a, tx)) # {}
          sum == SumFunctionOnSet(Reading[s], rows)
      IN  CASE tx.function = AVG -> sum - (Value(a, tx) * Cardinality(rows))
                                      \in 0 .. Cardinality(rows) - 1
            [] tx.function = MIN -> finds("<=") /\ ~finds("<")
            [] tx.function = MAX -> finds(">=") /\ ~finds(">")

\* get3Agg takes the average of the latest averages, which is what get3Tx gives for
\* the logs behind them (browser/main.go:65-83 prints both), or one less since it
\* rounds down twice, if they stand for equally many logs each.  This needs
\* transactions of one run: after a restart an interval is there twice.
RecentAveragesAgree ==
    \A a \in TimeAccount, s \in Sensor : \A n \in 1 .. Len(Operations(a, s, AVG)) :
      LET rows == Operations(a, s, AVG)
          first == rows[Len(rows) - n + 1]
          last == Last(rows)
          OneRun == \A i \in Len(rows) - n + 1 .. Len(rows) : rows[i].run = last.run
          AlikeLong == \A i \in Len(rows) - n + 1 .. Len(rows) :
                         rows[i].end - rows[i].start = last.end - last.start
          Adjoining == last.end - first.start + 1 = n * (last.end - last.start + 1)
      IN  OneRun /\ AlikeLong /\ Adjoining =>
            get3Tx(s, first.start - SensorStart, last.end - SensorStart)
              - get3Agg(a, s, AVG, n) \in 0 .. 1

\* "GET COUNT(*) WHERE SENSOR = ..." (browser/main.go:85): the count of get4Agg
\* is the number of logs the transaction it finds was calculated from.
CountsEveryLog ==
    \A a \in TimeAccount, s \in Sensor, f \in Function, offset \in 0 .. MaxLedger :
      Answers(a, s, f, offset) =>
        LET tx == Operations(a, s, f)[Len(Operations(a, s, f)) - offset]
        IN  get4Agg(a, s, f, offset)
              = Cardinality({k \in DOMAIN logs[s] : /\ tx.start <= AccountSequence(k)
                                                    /\ AccountSequence(k) <= tx.end})
=============================================================================
