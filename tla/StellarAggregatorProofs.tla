----------------------- MODULE StellarAggregatorProofs ----------------------
(***************************************************************************)
(* The aggregator of StellarAggregator and the answers of Browser, for any *)
(* sensors, time accounts and intervals, and for any number of ledgers,    *)
(* logs, runs and losses, and the memos both of them read.                 *)
(***************************************************************************)
EXTENDS Browser, SumTheorems, SequenceTheorems

-----------------------------------------------------------------------------
(***************************************************************************)
(* What Memo promises to the aggregator and the browser: a memo is read by *)
(* its receiver under its sequence number, and under no other one.         *)
(***************************************************************************)

\* The receiver, who derives the key the other way round, reads the value the
\* sender put in (crypto.go:48, aggregator.go:337, browser/main.go:469).
THEOREM ReceiverReadsTheValue ==
  ASSUME NEW sender, NEW receiver, NEW seqNumber \in Nat, NEW value \in Int
  PROVE  parseMemo(EncryptToMemo(seqNumber, sender, receiver, Plain(value)),
                   seqNumber, receiver, sender) = value
<1> DEFINE key == DeriveDHKey(sender, receiver)
           stream == Stream(seqNumber, key)
<1>1. DeriveDHKey(receiver, sender) = key
  BY DEF DeriveDHKey
<1>2. EncryptToMemo(seqNumber, sender, receiver, Plain(value))
        = [value |-> value, stream |-> stream]
  BY DEF EncryptToMemo, Plain
<1>3. EncryptToMemo(seqNumber, receiver, sender, [value |-> value, stream |-> stream])
        = [value |-> value, stream |-> {}]
  BY <1>1 DEF EncryptToMemo
<1> QED
  BY <1>2, <1>3 DEF parseMemo

\* No block of the key stream is used for two sequence numbers: the counter
\* moves by two from one transaction to the next (crypto.go:70), which is the
\* number of blocks of a memo.
THEOREM StreamsAreDisjoint ==
  ASSUME NEW key, NEW other, NEW s \in Nat, NEW t \in Nat, s # t
  PROVE  Stream(s, key) \cap Stream(t, other) = {}
<1>1. {2 * s, (2 * s) + 1} \cap {2 * t, (2 * t) + 1} = {}
  OBVIOUS
<1> QED
  BY <1>1 DEF Stream

\* Read under another sequence number a memo gives 0 and never a wrong value: at
\* least one block of it stays encrypted.
THEOREM WrongSequenceNumberReadsNothing ==
  ASSUME NEW sender, NEW receiver, NEW s \in Nat, NEW t \in Nat, s # t,
         NEW value \in Int
  PROVE  parseMemo(EncryptToMemo(s, sender, receiver, Plain(value)),
                   t, receiver, sender) = 0
<1> DEFINE key == DeriveDHKey(sender, receiver)
<1>1. EncryptToMemo(s, sender, receiver, Plain(value))
        = [value |-> value, stream |-> Stream(s, key)]
  BY DEF EncryptToMemo, Plain
<1>2. <<key, 2 * s>> \in Stream(s, key) \ Stream(t, DeriveDHKey(receiver, sender))
  <2>1. <<key, 2 * s>> \in Stream(s, key)
    BY DEF Stream
  <2> QED
    BY <2>1, StreamsAreDisjoint
<1>3. EncryptToMemo(t, receiver, sender,
                    [value |-> value, stream |-> Stream(s, key)]).stream # {}
  BY <1>2 DEF EncryptToMemo
<1> QED
  BY <1>1, <1>3 DEF parseMemo

-----------------------------------------------------------------------------
(***************************************************************************)
(* The inductive invariant.                                                *)
(***************************************************************************)

\* What Results can return, and the memos of the transactions.  Nothing here depends on
\* what the values are; that is the subject of Contents.
Outcome == {Results(SubSeq(getLogValue[s], i, j)) : s \in Sensor, i \in Nat, j \in Nat}
             \cup {<<0, 0, 0>>}
Memos == {EncryptToMemo(seq, TimeKey(a), SensorKey(s), Plain(r[f])) :
            seq \in Nat, a \in TimeAccount, s \in Sensor, r \in Outcome, f \in Function}
Sent == [seq : Nat, run : 1 .. MaxRuns, sensor : Sensor, function : Function,
         start : Nat, end : Nat, memo : Memos]

Types ==
  /\ ledger \in Nat
  /\ logs \in [Sensor -> Seq(Nat)]
  /\ process \in {"running", "finished", "refused", "crashed"}
  /\ runs \in 1 .. MaxRuns
  /\ pc \in {"first", "last", "interval", "send"}
  /\ sensor \in Sensor
  /\ index \in TimeAccount
  /\ firstLedger \in Nat /\ lastLedger \in Nat /\ currentLedger \in Nat
  /\ marks \in Nat \X Nat
  /\ results \in Outcome
  /\ function \in Function
  /\ sequence \in [TimeAccount -> Nat]
  /\ queued \in [TimeAccount -> Seq(Sent)]
  /\ account \in [TimeAccount -> Nat]
  /\ aggregates \in [TimeAccount -> Seq(Sent)]
  /\ losses \in Nat

\* The logs of a sensor come in the order of the ledgers, up to the present one.
Chronicle ==
  \A s \in Sensor :
    /\ Len(logs[s]) <= MaxLogs
    /\ \A k \in DOMAIN logs[s] : logs[s][k] <= ledger
    /\ \A j, k \in DOMAIN logs[s] : j <= k => logs[s][j] <= logs[s][k]

\* Two marks of a sensor stand for logs in one interval of a time account, and the
\* intervals begin with the first log.
InOneInterval(a, s, start, end) ==
  /\ start \in SensorStart + 1 .. end
  /\ end <= SensorStart + Len(logs[s])
  /\ \E n \in Nat : \A k \in start - SensorStart .. end - SensorStart :
       /\ logs[s][1] + n * Blocks[a] <= logs[s][k]
       /\ logs[s][k] < logs[s][1] + n * Blocks[a] + Blocks[a]

\* Where the program is in its loops.
Walk ==
  /\ process # "running" => pc = "first"
  /\ pc # "first" => logs[sensor] # <<>> /\ firstLedger = logs[sensor][1]
  /\ lastLedger <= ledger
  /\ pc \in {"interval", "send"} =>
       \E n \in Nat : currentLedger = firstLedger + n * Blocks[index]
  /\ pc = "send" =>
       /\ currentLedger < lastLedger
       /\ marks[1] \in SensorStart + 1 .. marks[2]
       /\ marks[2] <= SensorStart + Len(logs[sensor])
       /\ \A k \in DOMAIN logs[sensor] :
            LET log == logs[sensor][k]
                marked == marks[1] <= AccountSequence(k) /\ AccountSequence(k) <= marks[2]
                inside == currentLedger <= log /\ log < currentLedger + Blocks[index]
            IN  (marked => inside) /\ (inside /\ log < lastLedger => marked)

\* Every transaction that core took in is about one interval.
Filed ==
  \A a \in TimeAccount : \A i \in DOMAIN Accepted(a) :
    LET tx == Accepted(a)[i]
    IN  tx.run <= runs /\ InOneInterval(a, tx.sensor, tx.start, tx.end)

\* No bump moves a young account, so the ledger drops nothing, and the first run
\* counts as core does.
Numbered ==
  Young => \A a \in TimeAccount :
    /\ account[a] = TimeStart + Len(aggregates[a])
    /\ \A i \in DOMAIN Accepted(a) : Accepted(a)[i].seq = TimeStart + i
    /\ runs = 1 /\ losses = 0 /\ process = "running"
         => sequence[a] = TimeStart + Len(Accepted(a))

\* Sensors and time accounts are gone through in order.
InTurn ==
  process = "running" =>
    \A a \in TimeAccount : \A i \in DOMAIN Accepted(a) :
      LET tx == Accepted(a)[i]
      IN  tx.run = runs =>
            \/ tx.sensor < sensor
            \/ tx.sensor = sensor /\ a < index
            \/ tx.sensor = sensor /\ a = index /\ pc \in {"interval", "send"}

\* The i-th transaction of a time account is an average of a sensor in a run.
IsAverage(a, i, s, run) ==
  /\ Accepted(a)[i].function = AVG
  /\ Accepted(a)[i].sensor = s
  /\ Accepted(a)[i].run = run

\* It is the one before this run's next average for the present sensor.
Previous(i) ==
  /\ i \in DOMAIN Accepted(index)
  /\ IsAverage(index, i, sensor, runs)
  /\ \A j \in DOMAIN Accepted(index) : j > i => ~IsAverage(index, j, sensor, runs)

\* The next interval begins where the last average ended.
Adjoining ==
  (Young /\ losses = 0) =>
    \A i \in DOMAIN Accepted(index) : Previous(i) =>
      LET end == Accepted(index)[i].end
      IN  /\ At("interval") /\ currentLedger < lastLedger =>
               \A k \in DOMAIN logs[sensor] :
                 logs[sensor][k] < currentLedger <=> AccountSequence(k) <= end
          /\ At("send") => end = IF function = AVG THEN marks[1] - 1 ELSE marks[2]

\* Minimum and maximum are sent when the average is accepted,
Pending ==
  (Young /\ losses = 0 /\ At("send") /\ function # AVG) =>
    \E i \in DOMAIN Accepted(index) :
      /\ IsAverage(index, i, sensor, runs)
      /\ Accepted(index)[i].start = marks[1] /\ Accepted(index)[i].end = marks[2]

\* and are behind it.
Averaged ==
  (Young /\ losses = 0) =>
    \A a \in TimeAccount : \A i \in DOMAIN Accepted(a) :
      LET tx == Accepted(a)[i]
      IN  tx.function # AVG =>
            \E j \in 1 .. i - 1 :
              /\ IsAverage(a, j, tx.sensor, tx.run)
              /\ Accepted(a)[j].start = tx.start /\ Accepted(a)[j].end = tx.end

\* What lies behind the current interval is in this run's averages.
Covering ==
  (Young /\ losses = 0 /\ process = "running" /\ pc \in {"interval", "send"}) =>
    \A k \in DOMAIN logs[sensor] :
      logs[sensor][k] < currentLedger /\ logs[sensor][k] < lastLedger
        => Covered(index, sensor, k)

IInv == /\ Types /\ Chronicle /\ Walk /\ Filed /\ Numbered /\ InTurn
        /\ Adjoining /\ Pending /\ Averaged /\ Covering
        /\ MarksAdjoin /\ YoungAccountsAreNotRefused

-----------------------------------------------------------------------------
(***************************************************************************)
(* Constants, numbers and sequences.                                       *)
(***************************************************************************)

LEMMA Constants ==
  /\ NumSensors \in Nat \ {0} /\ MaxRuns \in Nat \ {0}
  /\ SensorStart \in Nat /\ TimeStart \in Nat /\ MaxLedger \in Nat
  /\ MaxLogs \in Nat /\ MaxLosses \in Nat
  /\ Len(Blocks) \in Nat \ {0} /\ TimeAccount = 1 .. Len(Blocks)
  /\ \A a \in TimeAccount : a \in Nat /\ Blocks[a] \in Nat \ {0}
  /\ \A s \in Sensor : s \in Nat
  /\ 1 \in Sensor /\ 1 \in TimeAccount
<1>1. Blocks \in Seq(Nat \ {0}) /\ Blocks # <<>>
  BY BlocksAssumption
<1>2. Len(Blocks) \in Nat \ {0} /\ DOMAIN Blocks = 1 .. Len(Blocks)
      /\ \A a \in 1 .. Len(Blocks) : Blocks[a] \in Nat \ {0}
  BY <1>1
<1> QED
  BY <1>2, BoundsAssumption DEF TimeAccount, Sensor

\* Min and Max of some of the first n numbers.
LEMMA LeastAndGreatest ==
  ASSUME NEW n \in Nat, NEW rows \in SUBSET (1 .. n), rows # {}
  PROVE  /\ Min(rows) \in rows /\ Max(rows) \in rows
         /\ \A k \in rows : Min(rows) <= k /\ k <= Max(rows)
<1>1. \E x \in rows : \A y \in rows : x <= y
  BY LeastNumber
<1>2. Min(rows) \in rows /\ \A k \in rows : Min(rows) <= k
  BY <1>1 DEF Min
<1>3. \E x \in rows : \A y \in rows : x >= y
  <2> DEFINE bounds == {m \in Nat : \A k \in rows : k <= m}
  <2>1. n \in bounds
    OBVIOUS
  <2>2. PICK m \in bounds : \A b \in bounds : m <= b
    BY <2>1, LeastNumber
  <2>3. m \in rows
    <3> SUFFICES ASSUME m \notin rows PROVE FALSE
      OBVIOUS
    <3>1. \A k \in rows : k \in 1 .. n /\ k <= m /\ k # m
      BY <2>2
    <3>2. \A k \in rows : k <= m - 1
      BY <2>2, <3>1
    <3>3. PICK k \in rows : k \in 1 .. n
      BY <3>1
    <3>4. m - 1 \in Nat
      BY <2>2, <3>2, <3>3
    <3> QED
      BY <2>2, <3>2, <3>4
  <2> QED
    BY <2>3
<1>4. Max(rows) \in rows /\ \A k \in rows : Max(rows) >= k
  BY <1>3 DEF Max
<1> QED
  BY <1>2, <1>4

\* Bumps to smaller numbers do not count.
LEMMA Largest ==
  ASSUME NEW x \in Nat, NEW y \in Nat, NEW z \in Nat, y <= x, z <= x
  PROVE  Max({x, y, z}) = x
<1> DEFINE best == Max({x, y, z})
<1>1. \E m \in {x, y, z} : \A k \in {x, y, z} : m >= k
  OBVIOUS
<1>2. best \in {x, y, z} /\ \A k \in {x, y, z} : best >= k
  BY <1>1 DEF Max
<1> QED
  BY <1>2

\* What is queued behind a list and a queue is queued behind both.
LEMMA ConcatAppend ==
  ASSUME NEW S, NEW s \in Seq(S), NEW t \in Seq(S), NEW e \in S
  PROVE  s \o Append(t, e) = Append(s \o t, e)
OBVIOUS

\* Moving the first of the queue to the list changes nothing of both together.
LEMMA ConcatMove ==
  ASSUME NEW S, NEW s \in Seq(S), NEW t \in Seq(S), t # <<>>
  PROVE  Append(s, Head(t)) \o Tail(t) = s \o t
<1> DEFINE a == Append(s, Head(t)) \o Tail(t)
           b == s \o t
<1>1. Tail(t) \in Seq(S) /\ Head(t) \in S /\ Len(t) \in Nat \ {0} /\ Len(s) \in Nat
  OBVIOUS
<1>2. Append(s, Head(t)) \in Seq(S) /\ Len(Append(s, Head(t))) = Len(s) + 1
  BY <1>1
<1>3. Len(Tail(t)) = Len(t) - 1 /\ \A i \in 1 .. Len(t) - 1 : Tail(t)[i] = t[i + 1]
  BY <1>1
<1>4. a \in Seq(S) /\ Len(a) = Len(s) + Len(t)
  BY <1>1, <1>2, <1>3
<1>5. b \in Seq(S) /\ Len(b) = Len(s) + Len(t)
  BY <1>1
<1>6. \A i \in 1 .. Len(a) : a[i] = b[i]
  BY <1>1, <1>2, <1>3, <1>4
<1> QED
  BY <1>4, <1>5, <1>6, SeqEqual

\* A list without the first of the queue holds nothing new.
LEMMA ConcatDrop ==
  ASSUME NEW S, NEW s \in Seq(S), NEW t \in Seq(S), t # <<>>
  PROVE  \A i \in 1 .. Len(s \o Tail(t)) : \E j \in 1 .. Len(s \o t) :
           (s \o Tail(t))[i] = (s \o t)[j]
<1>1. Tail(t) \in Seq(S) /\ Len(t) \in Nat \ {0} /\ Len(s) \in Nat
  OBVIOUS
<1>2. Len(Tail(t)) = Len(t) - 1 /\ \A i \in 1 .. Len(t) - 1 : Tail(t)[i] = t[i + 1]
  BY <1>1
<1>3. Len(s \o Tail(t)) = Len(s) + Len(t) - 1 /\ Len(s \o t) = Len(s) + Len(t)
  BY <1>1, <1>2
<1> SUFFICES ASSUME NEW i \in 1 .. Len(s) + Len(t) - 1
             PROVE  \E j \in 1 .. Len(s) + Len(t) : (s \o Tail(t))[i] = (s \o t)[j]
  BY <1>3
<1>4. CASE i <= Len(s)
  <2>1. (s \o Tail(t))[i] = s[i] /\ (s \o t)[i] = s[i]
    BY <1>1, <1>2, <1>4
  <2> QED
    BY <1>1, <1>4, <2>1
<1>5. CASE i > Len(s)
  <2>1. (s \o Tail(t))[i] = t[i - Len(s) + 1] /\ (s \o t)[i + 1] = t[i - Len(s) + 1]
    BY <1>1, <1>2, <1>5
  <2> QED
    BY <1>1, <1>5, <2>1
<1> QED
  BY <1>1, <1>4, <1>5

-----------------------------------------------------------------------------
(***************************************************************************)
(* Types, and what becomes of the transactions core has accepted.          *)
(***************************************************************************)

\* What core has accepted, with the ledger in front.
LEMMA AcceptedType ==
  ASSUME Types, NEW a \in TimeAccount
  PROVE  /\ Accepted(a) \in Seq(Sent)
         /\ Len(Accepted(a)) = Len(aggregates[a]) + Len(queued[a])
         /\ Len(aggregates[a]) \in Nat /\ Len(queued[a]) \in Nat /\ Len(Accepted(a)) \in Nat
         /\ DOMAIN Accepted(a) = 1 .. Len(Accepted(a))
         /\ \A i \in 1 .. Len(aggregates[a]) : Accepted(a)[i] = aggregates[a][i]
         /\ \A i \in 1 .. Len(queued[a]) :
              Accepted(a)[Len(aggregates[a]) + i] = queued[a][i]
<1> DEFINE s == aggregates[a]
           t == queued[a]
<1>1. s \in Seq(Sent) /\ t \in Seq(Sent) /\ Accepted(a) = s \o t
  BY DEF Types, Accepted
<1> HIDE DEF s, t
<1>2. s \o t \in Seq(Sent)
  BY <1>1
<1>3. Len(s) \in Nat /\ Len(t) \in Nat /\ Len(s \o t) = Len(s) + Len(t)
      /\ Len(s \o t) \in Nat /\ DOMAIN (s \o t) = 1 .. Len(s \o t)
  BY <1>1
<1>4. \A k \in 1 .. Len(s) : (s \o t)[k] = s[k]
  BY <1>1
<1>5. \A k \in 1 .. Len(t) : (s \o t)[Len(s) + k] = t[k]
  BY <1>1
<1> QED
  BY <1>1, <1>2, <1>3, <1>4, <1>5 DEF s, t

\* The fields of an accepted transaction.
LEMMA Fields ==
  ASSUME Types, NEW a \in TimeAccount, NEW i \in DOMAIN Accepted(a)
  PROVE  /\ Accepted(a)[i] \in Sent
         /\ Accepted(a)[i].seq \in Nat /\ Accepted(a)[i].run \in Nat
         /\ Accepted(a)[i].sensor \in Sensor /\ Accepted(a)[i].function \in Function
         /\ Accepted(a)[i].start \in Nat /\ Accepted(a)[i].end \in Nat
<1>1. Accepted(a)[i] \in Sent
  <2>1. Accepted(a) \in Seq(Sent)
    BY AcceptedType
  <2> QED
    BY <2>1
<1>2. \A tx \in Sent : /\ tx.seq \in Nat /\ tx.run \in 1 .. MaxRuns /\ tx.sensor \in Sensor
                       /\ tx.function \in Function /\ tx.start \in Nat /\ tx.end \in Nat
  BY DEF Sent
<1> QED
  BY <1>1, <1>2

\* The memo of a message is of its type.
LEMMA MessageType ==
  ASSUME Types
  PROVE  /\ Message \in Sent
         /\ Message.seq = sequence[index] + 1 /\ Message.run = runs
         /\ Message.sensor = sensor /\ Message.function = function
         /\ Message.start = marks[1] /\ Message.end = marks[2]
<1>1. sequence[index] + 1 \in Nat /\ sensor \in Sensor /\ index \in TimeAccount
      /\ results \in Outcome /\ function \in Function
      /\ runs \in 1 .. MaxRuns /\ marks[1] \in Nat /\ marks[2] \in Nat
  BY DEF Types
<1>2. EncryptToMemo(sequence[index] + 1, TimeKey(index), SensorKey(sensor),
                    Plain(results[function])) \in Memos
  BY <1>1 DEF Memos
<1> HIDE DEF Memos
<1> QED
  BY <1>1, <1>2 DEF Message, Sent

\* Core accepts a message.
LEMMA QueueEffect ==
  ASSUME Types, NEW here \in TimeAccount, NEW tx \in Sent,
         queued' = [queued EXCEPT ![here] = Append(@, tx)], UNCHANGED aggregates
  PROVE  /\ queued' \in [TimeAccount -> Seq(Sent)]
         /\ \A a \in TimeAccount : a # here => Accepted(a)' = Accepted(a)
         /\ DOMAIN Accepted(here)' = 1 .. Len(Accepted(here)) + 1
         /\ Len(Accepted(here)') = Len(Accepted(here)) + 1
         /\ \A i \in 1 .. Len(Accepted(here)) : Accepted(here)'[i] = Accepted(here)[i]
         /\ Accepted(here)'[Len(Accepted(here)) + 1] = tx
<1>1. queued \in [TimeAccount -> Seq(Sent)] /\ aggregates \in [TimeAccount -> Seq(Sent)]
  BY DEF Types
<1>2. queued' \in [TimeAccount -> Seq(Sent)] /\ queued'[here] = Append(queued[here], tx)
      /\ \A a \in TimeAccount : a # here => queued'[a] = queued[a]
  BY <1>1
<1>3. \A a \in TimeAccount : a # here => Accepted(a)' = Accepted(a)
  BY <1>2 DEF Accepted
<1>4. aggregates[here] \o Append(queued[here], tx)
        = Append(aggregates[here] \o queued[here], tx)
  BY <1>1, ConcatAppend
<1>5. Accepted(here)' = Append(Accepted(here), tx)
  BY <1>2, <1>4 DEF Accepted
<1>6. Accepted(here) \in Seq(Sent)
  BY AcceptedType
<1>7. /\ Len(Append(Accepted(here), tx)) = Len(Accepted(here)) + 1
      /\ DOMAIN Append(Accepted(here), tx) = 1 .. Len(Accepted(here)) + 1
      /\ \A i \in 1 .. Len(Accepted(here)) :
           Append(Accepted(here), tx)[i] = Accepted(here)[i]
      /\ Append(Accepted(here), tx)[Len(Accepted(here)) + 1] = tx
  BY <1>6
<1> QED
  BY <1>2, <1>3, <1>5, <1>7

\* The ledger applies or drops a transaction, and has nothing that was not accepted.
LEMMA ApplyEffect ==
  ASSUME Types, NEW a \in TimeAccount, Apply(a)
  PROVE  /\ queued' \in [TimeAccount -> Seq(Sent)]
         /\ account' \in [TimeAccount -> Nat]
         /\ aggregates' \in [TimeAccount -> Seq(Sent)]
         /\ \A b \in TimeAccount : b # a => /\ Accepted(b)' = Accepted(b)
                                            /\ account'[b] = account[b]
                                            /\ aggregates'[b] = aggregates[b]
         /\ \A b \in TimeAccount : \A i \in DOMAIN Accepted(b)' :
              \E j \in DOMAIN Accepted(b) : Accepted(b)'[i] = Accepted(b)[j]
         /\ LET tx == Accepted(a)[Len(aggregates[a]) + 1]
            IN  /\ Len(aggregates[a]) + 1 \in DOMAIN Accepted(a)
                /\ tx.seq = account[a] + 1 =>
                     /\ Accepted(a)' = Accepted(a)
                     /\ Len(aggregates'[a]) = Len(aggregates[a]) + 1
                     /\ account'[a] = Max({tx.seq, tx.start, tx.end})
<1> DEFINE tx == Head(queued[a])
           s == aggregates[a]
           t == queued[a]
<1>1. /\ t # <<>> /\ queued' = [queued EXCEPT ![a] = Tail(@)]
      /\ tx.seq = account[a] + 1 =>
           /\ account' = [account EXCEPT ![a] = Max({tx.seq, tx.start, tx.end})]
           /\ aggregates' = [aggregates EXCEPT ![a] = Append(@, tx)]
      /\ tx.seq # account[a] + 1 => UNCHANGED <<account, aggregates>>
  BY DEF Apply
<1>2. /\ queued \in [TimeAccount -> Seq(Sent)] /\ aggregates \in [TimeAccount -> Seq(Sent)]
      /\ account \in [TimeAccount -> Nat] /\ s \in Seq(Sent) /\ t \in Seq(Sent)
  BY DEF Types
<1>3. tx \in Sent /\ Tail(t) \in Seq(Sent) /\ Append(s, tx) \in Seq(Sent)
      /\ Len(t) \in Nat \ {0} /\ Len(s) \in Nat /\ tx = t[1]
      /\ Len(Append(s, tx)) = Len(s) + 1
  BY <1>1, <1>2
<1>4. tx = Accepted(a)[Len(s) + 1] /\ Len(s) + 1 \in DOMAIN Accepted(a)
  <2>1. /\ Len(Accepted(a)) = Len(s) + Len(t)
        /\ DOMAIN Accepted(a) = 1 .. Len(Accepted(a))
        /\ \A i \in 1 .. Len(t) : Accepted(a)[Len(s) + i] = t[i]
    BY AcceptedType
  <2>2. Len(t) \in Nat \ {0} /\ Len(s) \in Nat /\ tx = t[1]
    BY <1>3
  <2> HIDE DEF s, t, tx
  <2>3. 1 \in 1 .. Len(t) /\ Len(s) + 1 \in 1 .. Len(s) + Len(t)
    BY <2>2
  <2> QED
    BY <2>1, <2>2, <2>3
<1>5. tx.seq \in Nat /\ tx.start \in Nat /\ tx.end \in Nat
  BY <1>4, Fields
<1>6. Max({tx.seq, tx.start, tx.end}) \in Nat
  <2>1. \E m \in {tx.seq, tx.start, tx.end} : \A k \in {tx.seq, tx.start, tx.end} : m >= k
    BY <1>5
  <2>2. Max({tx.seq, tx.start, tx.end}) \in {tx.seq, tx.start, tx.end}
    BY <2>1 DEF Max
  <2> QED
    BY <1>5, <2>2
<1> HIDE DEF tx
<1>7. queued' \in [TimeAccount -> Seq(Sent)] /\ queued'[a] = Tail(t)
      /\ \A b \in TimeAccount : b # a => queued'[b] = queued[b]
  BY <1>1, <1>2, <1>3
<1>8. CASE tx.seq = account[a] + 1
  <2>1. /\ account' \in [TimeAccount -> Nat] /\ aggregates' \in [TimeAccount -> Seq(Sent)]
        /\ aggregates'[a] = Append(s, tx)
        /\ account'[a] = Max({tx.seq, tx.start, tx.end})
        /\ \A b \in TimeAccount : b # a => /\ aggregates'[b] = aggregates[b]
                                           /\ account'[b] = account[b]
    <3> DEFINE highest == Max({tx.seq, tx.start, tx.end})
               more == Append(s, tx)
    <3>1. /\ account' = [account EXCEPT ![a] = highest]
          /\ aggregates' = [aggregates EXCEPT ![a] = more]
      BY <1>1, <1>8
    <3>2. highest \in Nat /\ more \in Seq(Sent)
      BY <1>3, <1>6
    <3> HIDE DEF highest, more
    <3>3. /\ account' \in [TimeAccount -> Nat] /\ aggregates' \in [TimeAccount -> Seq(Sent)]
          /\ aggregates'[a] = more /\ account'[a] = highest
          /\ \A b \in TimeAccount : b # a => /\ aggregates'[b] = aggregates[b]
                                             /\ account'[b] = account[b]
      BY <1>2, <3>1, <3>2
    <3> QED
      BY <3>3 DEF highest, more
  <2>2. Append(s, Head(t)) \o Tail(t) = s \o t
    BY <1>1, <1>2, ConcatMove, SMTT(30)
  <2>3. Accepted(a)' = Accepted(a)
    BY <1>7, <2>1, <2>2, Zenon DEF Accepted, tx
  <2>4. \A b \in TimeAccount : Accepted(b)' = Accepted(b)
    BY <1>7, <2>1, <2>3 DEF Accepted
  <2>5. \A b \in TimeAccount : DOMAIN Accepted(b)' = DOMAIN Accepted(b)
    BY <2>4
  <2> QED
    BY <1>3, <1>4, <1>7, <2>1, <2>3, <2>4, <2>5
<1>9. CASE tx.seq # account[a] + 1
  <2>1. UNCHANGED <<account, aggregates>>
    BY <1>1, <1>9
  <2>2. \A b \in TimeAccount : b # a => Accepted(b)' = Accepted(b)
    BY <1>7, <2>1 DEF Accepted
  <2>3. Accepted(a)' = s \o Tail(t) /\ Accepted(a) = s \o t
    BY <1>7, <2>1 DEF Accepted
  <2>4. s \o Tail(t) \in Seq(Sent) /\ s \o t \in Seq(Sent)
    BY <1>2, <1>3
  <2>5. \A i \in 1 .. Len(s \o Tail(t)) : \E j \in 1 .. Len(s \o t) :
           (s \o Tail(t))[i] = (s \o t)[j]
    BY <1>1, <1>2, ConcatDrop
  <2> HIDE DEF s, t
  <2>6. \A i \in DOMAIN Accepted(a)' : \E j \in DOMAIN Accepted(a) :
          Accepted(a)'[i] = Accepted(a)[j]
    <3>1. /\ DOMAIN (s \o Tail(t)) = 1 .. Len(s \o Tail(t))
          /\ DOMAIN (s \o t) = 1 .. Len(s \o t)
      BY <2>4
    <3> QED
      BY <2>3, <2>5, <3>1
  <2>7. \A b \in TimeAccount : \A i \in DOMAIN Accepted(b)' :
          \E j \in DOMAIN Accepted(b) : Accepted(b)'[i] = Accepted(b)[j]
    BY <2>2, <2>6
  <2> QED
    BY <1>2, <1>4, <1>7, <1>9, <2>1, <2>2, <2>7 DEF s
<1> QED
  BY <1>8, <1>9

-----------------------------------------------------------------------------
(***************************************************************************)
(* What several steps have in common.                                      *)
(***************************************************************************)

\* A step that neither sends nor applies leaves what core accepted alone.
LEMMA SameAccepted ==
  ASSUME UNCHANGED <<queued, aggregates>>
  PROVE  /\ \A a : Accepted(a)' = Accepted(a)
         /\ \A a : DOMAIN Accepted(a)' = DOMAIN Accepted(a)
         /\ \A a, i, s, run : IsAverage(a, i, s, run)' <=> IsAverage(a, i, s, run)
         /\ \A a, s, k : runs' = runs => (Covered(a, s, k)' <=> Covered(a, s, k))
<1>1. \A a : Accepted(a)' = Accepted(a)
  BY DEF Accepted
<1>2. \A a : DOMAIN Accepted(a)' = DOMAIN Accepted(a)
  BY <1>1
<1>3. \A a, i, s, run : IsAverage(a, i, s, run)' <=> IsAverage(a, i, s, run)
  BY <1>1 DEF IsAverage
<1>4. \A a, s, k : runs' = runs => (Covered(a, s, k)' <=> Covered(a, s, k))
  BY <1>1 DEF Covered, AccountSequence
<1> QED
  BY <1>1, <1>2, <1>3, <1>4

\* Then what the transactions on the ledger and in the queue say of each other stays.
LEMMA HistoryKept ==
  ASSUME IInv, UNCHANGED <<queued, aggregates, logs>>,
         runs' \in Nat, runs <= runs', losses' = 0 => losses = 0
  PROVE  Filed' /\ Averaged' /\ MarksAdjoin'
<1>1. Filed'
  <2> SUFFICES ASSUME NEW a \in TimeAccount, NEW i \in DOMAIN Accepted(a),
                      NEW tx, tx = Accepted(a)[i]
               PROVE  tx.run <= runs' /\ InOneInterval(a, tx.sensor, tx.start, tx.end)'
    BY SameAccepted DEF Filed
  <2>1. tx.run <= runs /\ tx.run \in Nat /\ InOneInterval(a, tx.sensor, tx.start, tx.end)
    BY Fields DEF IInv, Filed
  <2>2. \A s, m, n : InOneInterval(a, s, m, n)' <=> InOneInterval(a, s, m, n)
    BY DEF InOneInterval
  <2>3. runs \in Nat
    BY DEF IInv, Types
  <2>4. tx.run <= runs'
    BY <2>1, <2>3
  <2> QED
    BY <2>1, <2>2, <2>4
<1>2. Averaged'
  BY SameAccepted DEF IInv, Averaged
<1>3. MarksAdjoin'
  BY SameAccepted DEF IInv, MarksAdjoin
<1> QED
  BY <1>1, <1>2, <1>3

\* Before the intervals of a sensor and a time account there is nothing to say of them.
LEMMA BeforeIntervals ==
  ASSUME pc' \in {"first", "last"}
  PROVE  Adjoining' /\ Pending' /\ Covering'
BY DEF Adjoining, Pending, Covering, At

\* Nor has this run a transaction about them.
LEMMA NothingYet ==
  ASSUME IInv, process = "running", pc \in {"first", "last"}
  PROVE  \A i \in DOMAIN Accepted(index) : ~IsAverage(index, i, sensor, runs)
<1> SUFFICES ASSUME NEW i \in DOMAIN Accepted(index), IsAverage(index, i, sensor, runs)
             PROVE  FALSE
  OBVIOUS
<1>1. Accepted(index)[i].run = runs /\ Accepted(index)[i].sensor = sensor
  BY DEF IsAverage
<1>2. index \in TimeAccount /\ index \in Nat /\ sensor \in Nat
  BY Constants DEF IInv, Types
<1> QED
  BY <1>1, <1>2 DEF IInv, InTurn

\* The sequence number core expects of a young account.
LEMMA YoungExpected ==
  ASSUME Types, Numbered, Young, NEW a \in TimeAccount
  PROVE  Expected(a) = TimeStart + Len(Accepted(a)) + 1
<1>1. /\ Len(Accepted(a)) = Len(aggregates[a]) + Len(queued[a])
      /\ Len(aggregates[a]) \in Nat /\ Len(queued[a]) \in Nat
      /\ DOMAIN Accepted(a) = 1 .. Len(Accepted(a))
      /\ \A i \in 1 .. Len(queued[a]) : Accepted(a)[Len(aggregates[a]) + i] = queued[a][i]
  BY AcceptedType
<1>2. /\ account[a] = TimeStart + Len(aggregates[a])
      /\ \A i \in DOMAIN Accepted(a) : Accepted(a)[i].seq = TimeStart + i
  BY DEF Numbered
<1>3. TimeStart \in Nat
  BY Constants
<1>4. CASE queued[a] = <<>>
  BY <1>1, <1>2, <1>3, <1>4 DEF Expected
<1>5. CASE queued[a] # <<>>
  <2>1. Len(queued[a]) \in 1 .. Len(queued[a])
    BY <1>1, <1>5 DEF Types
  <2>2. Last(queued[a]) = Accepted(a)[Len(Accepted(a))]
    BY <1>1, <2>1 DEF Last
  <2>3. Last(queued[a]).seq = TimeStart + Len(Accepted(a))
    <3> DEFINE m == Len(aggregates[a])
               n == Len(queued[a])
               l == Len(Accepted(a))
    <3>1. m \in Nat /\ n \in Nat /\ l = m + n /\ n \in 1 .. n
      BY <1>1, <2>1
    <3> HIDE DEF m, n, l
    <3>2. l \in 1 .. l
      BY <3>1
    <3>3. Len(Accepted(a)) \in DOMAIN Accepted(a)
      BY <1>1, <3>2 DEF l
    <3> QED
      BY <1>2, <2>2, <3>3
  <2> QED
    BY <1>1, <1>3, <1>5, <2>3 DEF Expected
<1> QED
  BY <1>4, <1>5

\* The marks that are being sent stand for logs in one interval.
LEMMA MarksInOneInterval ==
  ASSUME IInv, pc = "send"
  PROVE  InOneInterval(index, sensor, marks[1], marks[2])
<1>1. /\ marks[1] \in SensorStart + 1 .. marks[2]
      /\ marks[2] <= SensorStart + Len(logs[sensor])
      /\ \A k \in DOMAIN logs[sensor] :
           marks[1] <= AccountSequence(k) /\ AccountSequence(k) <= marks[2] =>
             /\ currentLedger <= logs[sensor][k]
             /\ logs[sensor][k] < currentLedger + Blocks[index]
      /\ firstLedger = logs[sensor][1]
  BY DEF IInv, Walk
<1>2. PICK n \in Nat : currentLedger = firstLedger + n * Blocks[index]
  BY DEF IInv, Walk
<1>3. /\ SensorStart \in Nat /\ marks[1] \in Nat /\ marks[2] \in Nat
      /\ Len(logs[sensor]) \in Nat /\ DOMAIN logs[sensor] = 1 .. Len(logs[sensor])
  BY Constants DEF IInv, Types
<1>4. \A k \in marks[1] - SensorStart .. marks[2] - SensorStart :
         /\ k \in DOMAIN logs[sensor]
         /\ marks[1] <= AccountSequence(k) /\ AccountSequence(k) <= marks[2]
  BY <1>1, <1>3 DEF AccountSequence
<1>5. \A k \in marks[1] - SensorStart .. marks[2] - SensorStart :
         /\ logs[sensor][1] + n * Blocks[index] <= logs[sensor][k]
         /\ logs[sensor][k] < logs[sensor][1] + n * Blocks[index] + Blocks[index]
  BY <1>1, <1>2, <1>4
<1> QED
  BY <1>1, <1>5 DEF InOneInterval

\* If the loop goes on behind the interval, its last mark divides the logs.
LEMMA LastMarkDivides ==
  ASSUME IInv, pc = "send", currentLedger + Blocks[index] < lastLedger
  PROVE  \A k \in DOMAIN logs[sensor] :
           logs[sensor][k] < currentLedger + Blocks[index] <=> AccountSequence(k) <= marks[2]
<1>1. /\ marks[1] \in SensorStart + 1 .. marks[2]
      /\ marks[2] <= SensorStart + Len(logs[sensor])
      /\ \A k \in DOMAIN logs[sensor] :
           LET log == logs[sensor][k]
               marked == marks[1] <= AccountSequence(k) /\ AccountSequence(k) <= marks[2]
               inside == currentLedger <= log /\ log < currentLedger + Blocks[index]
           IN  (marked => inside) /\ (inside /\ log < lastLedger => marked)
  BY DEF IInv, Walk
<1>2. /\ SensorStart \in Nat /\ marks[1] \in Nat /\ marks[2] \in Nat
      /\ Len(logs[sensor]) \in Nat /\ DOMAIN logs[sensor] = 1 .. Len(logs[sensor])
      /\ \A k \in DOMAIN logs[sensor] : logs[sensor][k] \in Nat
      /\ currentLedger \in Nat /\ lastLedger \in Nat
      /\ Blocks[index] \in Nat
  <2>1. logs[sensor] \in Seq(Nat) /\ currentLedger \in Nat /\ lastLedger \in Nat
    BY DEF IInv, Types
  <2>2. marks[1] \in Nat /\ marks[2] \in Nat /\ index \in TimeAccount
    BY DEF IInv, Types
  <2>3. /\ Len(logs[sensor]) \in Nat /\ DOMAIN logs[sensor] = 1 .. Len(logs[sensor])
        /\ \A k \in DOMAIN logs[sensor] : logs[sensor][k] \in Nat
    BY <2>1
  <2>4. SensorStart \in Nat /\ Blocks[index] \in Nat
    BY <2>2, Constants
  <2> QED
    BY <2>1, <2>2, <2>3, <2>4
<1>3. \A j, k \in DOMAIN logs[sensor] : j <= k => logs[sensor][j] <= logs[sensor][k]
  BY DEF IInv, Types, Chronicle
<1> DEFINE m == marks[2] - SensorStart
<1>4. m \in DOMAIN logs[sensor] /\ AccountSequence(m) = marks[2]
      /\ logs[sensor][m] < currentLedger + Blocks[index]
  <2>1. /\ marks[1] \in SensorStart + 1 .. marks[2] /\ marks[2] <= SensorStart + Len(logs[sensor])
        /\ SensorStart \in Nat /\ marks[1] \in Nat /\ marks[2] \in Nat
        /\ Len(logs[sensor]) \in Nat
    BY <1>1, <1>2
  <2>2. m \in 1 .. Len(logs[sensor]) /\ AccountSequence(m) = marks[2] /\ marks[1] <= marks[2]
    BY <2>1 DEF AccountSequence
  <2>3. m \in DOMAIN logs[sensor]
    BY <1>2, <2>2
  <2>4. marks[1] <= AccountSequence(m) /\ AccountSequence(m) <= marks[2]
    BY <2>1, <2>2
  <2>5. logs[sensor][m] < currentLedger + Blocks[index]
    BY <1>1, <2>3, <2>4
  <2> QED
    BY <2>2, <2>3, <2>5
<1> HIDE DEF m
<1> SUFFICES ASSUME NEW k \in DOMAIN logs[sensor]
             PROVE  logs[sensor][k] < currentLedger + Blocks[index]
                      <=> AccountSequence(k) <= marks[2]
  OBVIOUS
<1>5. k \in Nat /\ m \in Nat /\ logs[sensor][k] \in Nat /\ logs[sensor][m] \in Nat
      /\ currentLedger + Blocks[index] \in Nat
  <2>1. \A j \in DOMAIN logs[sensor] : j \in Nat /\ logs[sensor][j] \in Nat
    BY <1>2
  <2>2. currentLedger \in Nat /\ Blocks[index] \in Nat
    BY <1>2
  <2> QED
    BY <1>4, <2>1, <2>2
<1>6. /\ k <= m => logs[sensor][k] <= logs[sensor][m]
      /\ m <= k => logs[sensor][m] <= logs[sensor][k]
  BY <1>3, <1>4
<1>7. AccountSequence(k) <= marks[2] <=> k <= m
  <2>1. SensorStart \in Nat /\ marks[2] \in Nat
    BY <1>2
  <2> QED
    BY <1>5, <2>1 DEF AccountSequence, m
<1>8. k <= m => logs[sensor][k] < currentLedger + Blocks[index]
  BY <1>4, <1>5, <1>6
<1>9. ASSUME k > m PROVE ~(logs[sensor][k] < currentLedger + Blocks[index])
  <2> SUFFICES ASSUME logs[sensor][k] < currentLedger + Blocks[index] PROVE FALSE
    OBVIOUS
  <2>1. logs[sensor][m] <= logs[sensor][k]
    BY <1>5, <1>6, <1>9
  <2>2. currentLedger <= logs[sensor][m]
    BY <1>1, <1>2, <1>4 DEF AccountSequence
  <2>3. currentLedger <= logs[sensor][k] /\ logs[sensor][k] < lastLedger
    <3>1. currentLedger \in Nat /\ lastLedger \in Nat /\ Blocks[index] \in Nat
      BY <1>2
    <3> QED
      BY <1>5, <2>1, <2>2, <3>1
  <2>4. AccountSequence(k) <= marks[2]
    BY <1>1, <2>3
  <2> QED
    BY <1>5, <1>7, <1>9, <2>4
<1> QED
  BY <1>5, <1>7, <1>8, <1>9

-----------------------------------------------------------------------------
(***************************************************************************)
(* One lemma for each action.                                              *)
(***************************************************************************)

Parts == /\ Chronicle /\ Walk /\ Filed /\ Numbered /\ InTurn
         /\ Adjoining /\ Pending /\ Averaged /\ Covering
         /\ MarksAdjoin /\ YoungAccountsAreNotRefused

\* The first ledger with a log is read, or there is none.
LEMMA ReadFirstKeeps ==
  ASSUME IInv, ReadFirst
  PROVE  Types' /\ Parts'
<1>1. /\ process = "running" /\ pc = "first"
      /\ UNCHANGED <<ledger, logs, runs, sensor, index, lastLedger, currentLedger, marks,
                     results, function, sequence, queued, account, aggregates, losses>>
      /\ \/ process' = "crashed" /\ UNCHANGED <<pc, firstLedger>>
         \/ /\ logs[sensor] # <<>> /\ firstLedger' = Head(logs[sensor]) /\ pc' = "last"
            /\ UNCHANGED process
  BY DEF ReadFirst, At, network
<1>2. logs[sensor] \in Seq(Nat)
  BY DEF IInv, Types
<1>3. logs[sensor] # <<>> => Head(logs[sensor]) \in Nat /\ Head(logs[sensor]) = logs[sensor][1]
  BY <1>2
<1>4. Types'
  BY <1>1, <1>3 DEF IInv, Types
<1>5. Chronicle'
  BY <1>1 DEF IInv, Chronicle
<1>6. Walk'
  BY <1>1, <1>3 DEF IInv, Walk
<1>7. Filed' /\ Averaged' /\ MarksAdjoin'
  <2>1. runs' \in Nat /\ runs <= runs' /\ (losses' = 0 => losses = 0)
    BY <1>1 DEF IInv, Types
  <2> QED
    BY <1>1, <2>1, HistoryKept
<1>8. Numbered'
  BY <1>1, SameAccepted DEF IInv, Numbered, Young
<1>9. InTurn'
  BY <1>1, SameAccepted DEF IInv, InTurn
<1>10. Adjoining' /\ Pending' /\ Covering'
  BY <1>1, BeforeIntervals
<1>11. YoungAccountsAreNotRefused'
  BY <1>1 DEF YoungAccountsAreNotRefused
<1> QED
  BY <1>4, <1>5, <1>6, <1>7, <1>8, <1>9, <1>10, <1>11 DEF Parts

\* The last ledger is read, and the first interval begins.
LEMMA ReadLastKeeps ==
  ASSUME IInv, ReadLast
  PROVE  Types' /\ Parts'
<1>1. /\ process = "running" /\ pc = "last" /\ pc' = "interval"
      /\ lastLedger' = Last(logs[sensor]) /\ currentLedger' = firstLedger
      /\ UNCHANGED <<ledger, logs, process, runs, sensor, index, firstLedger, marks,
                     results, function, sequence, queued, account, aggregates, losses>>
  BY DEF ReadLast, At, network
<1>2. /\ logs[sensor] \in Seq(Nat) /\ logs[sensor] # <<>> /\ firstLedger = logs[sensor][1]
      /\ index \in TimeAccount /\ sensor \in Sensor /\ firstLedger \in Nat
  BY <1>1 DEF IInv, Types, Walk
<1>3. Len(logs[sensor]) \in DOMAIN logs[sensor] /\ 1 \in DOMAIN logs[sensor]
      /\ \A k \in DOMAIN logs[sensor] : 1 <= k /\ logs[sensor][k] \in Nat
  BY <1>2
<1>4. lastLedger' \in Nat /\ lastLedger' <= ledger
  BY <1>1, <1>2, <1>3 DEF Last, IInv, Chronicle
<1>5. Types'
  BY <1>1, <1>2, <1>4 DEF IInv, Types
<1>6. Chronicle'
  BY <1>1 DEF IInv, Chronicle
<1>7. Walk'
  <2>1. firstLedger = firstLedger + 0 * Blocks[index]
    BY <1>2, Constants
  <2>2. \E n \in Nat : firstLedger = firstLedger + n * Blocks[index]
    BY <2>1
  <2> QED
    BY <1>1, <1>2, <1>4, <2>2 DEF IInv, Walk
<1>8. Filed' /\ Averaged' /\ MarksAdjoin'
  <2>1. runs' \in Nat /\ runs <= runs' /\ (losses' = 0 => losses = 0)
    BY <1>1 DEF IInv, Types
  <2> QED
    BY <1>1, <2>1, HistoryKept
<1>9. Numbered'
  BY <1>1, SameAccepted DEF IInv, Numbered, Young
<1>10. InTurn'
  BY <1>1, SameAccepted DEF IInv, InTurn
<1>11. Adjoining'
  <2>1. \A i \in DOMAIN Accepted(index) : ~IsAverage(index, i, sensor, runs)
    BY <1>1, NothingYet
  <2>2. \A i \in DOMAIN Accepted(index)' : ~IsAverage(index, i, sensor, runs)'
    BY <1>1, <2>1, SameAccepted
  <2> QED
    BY <1>1, <2>2 DEF Adjoining, Previous
<1>12. Pending'
  BY <1>1 DEF Pending, At
<1>13. Covering'
  <2>1. \A k \in DOMAIN logs[sensor] : ~(logs[sensor][k] < firstLedger)
    BY <1>2, <1>3 DEF IInv, Chronicle
  <2> QED
    BY <1>1, <2>1 DEF Covering
<1>14. YoungAccountsAreNotRefused'
  BY <1>1 DEF YoungAccountsAreNotRefused
<1> QED
  BY <1>5, <1>6, <1>7, <1>8, <1>9, <1>10, <1>11, <1>12, <1>13, <1>14 DEF Parts

\* The loop over the intervals is left.
LEMMA EndKeeps ==
  ASSUME IInv, EndOfIntervals
  PROVE  Types' /\ Parts'
<1>1. /\ process = "running" /\ pc = "interval" /\ pc' = "first"
      /\ firstLedger' = 0 /\ lastLedger' = 0 /\ currentLedger' = 0
      /\ marks' = <<0, 0>> /\ results' = <<0, 0, 0>> /\ function' = AVG
      /\ UNCHANGED <<ledger, logs, runs, sequence, queued, account, aggregates, losses>>
      /\ \/ index < Len(Blocks) /\ index' = index + 1 /\ UNCHANGED <<sensor, process>>
         \/ index' = 1 /\ sensor < NumSensors /\ sensor' = sensor + 1 /\ UNCHANGED process
         \/ index' = 1 /\ process' = "finished" /\ UNCHANGED sensor
  BY DEF EndOfIntervals, LocalsEnd, At, network
<1>2. index \in TimeAccount /\ sensor \in Sensor
  BY DEF IInv, Types
<1>3. index' \in TimeAccount /\ sensor' \in Sensor
  BY <1>1, <1>2, Constants DEF Sensor
<1>4. Types'
  BY <1>1, <1>3, SMTT(30) DEF IInv, Types, Outcome, Function, AVG
<1>5. Chronicle'
  BY <1>1 DEF IInv, Chronicle
<1>6. Walk'
  BY <1>1 DEF IInv, Types, Walk
<1>7. Filed' /\ Averaged' /\ MarksAdjoin'
  <2>1. runs' \in Nat /\ runs <= runs' /\ (losses' = 0 => losses = 0)
    BY <1>1 DEF IInv, Types
  <2> QED
    BY <1>1, <2>1, HistoryKept
<1>8. Numbered'
  BY <1>1, SameAccepted DEF IInv, Numbered, Young
<1>9. InTurn'
  <2> SUFFICES ASSUME process' = "running", NEW a \in TimeAccount, NEW i \in DOMAIN Accepted(a),
                      NEW tx, tx = Accepted(a)[i], tx.run = runs
               PROVE  tx.sensor < sensor' \/ (tx.sensor = sensor' /\ a < index')
    BY <1>1, SameAccepted DEF InTurn
  <2>1. tx.sensor < sensor \/ (tx.sensor = sensor /\ (a < index \/ a = index))
    <3>1. InTurn
      BY DEF IInv
    <3> QED
      BY <1>1, <3>1, Zenon DEF InTurn
  <2>2. tx.sensor \in Nat /\ sensor \in Nat /\ a \in Nat /\ index \in Nat
    BY <1>2, Constants, Fields DEF IInv
  <2>3. CASE index' = index + 1 /\ sensor' = sensor
    BY <2>1, <2>2, <2>3
  <2>4. CASE sensor' = sensor + 1
    BY <2>1, <2>2, <2>4
  <2> QED
    BY <1>1, <2>3, <2>4
<1>10. Adjoining' /\ Pending' /\ Covering'
  BY <1>1, BeforeIntervals
<1>11. YoungAccountsAreNotRefused'
  BY <1>1 DEF YoungAccountsAreNotRefused
<1> QED
  BY <1>4, <1>5, <1>6, <1>7, <1>8, <1>9, <1>10, <1>11 DEF Parts

\* The program is started again.
LEMMA RestartKeeps ==
  ASSUME IInv, Restart
  PROVE  Types' /\ Parts'
<1>1. /\ runs < MaxRuns /\ runs' = runs + 1 /\ process' = "running" /\ pc' = "first"
      /\ firstLedger' = 0 /\ lastLedger' = 0 /\ currentLedger' = 0
      /\ marks' = <<0, 0>> /\ results' = <<0, 0, 0>> /\ function' = AVG
      /\ sensor' = 1 /\ index' = 1 /\ sequence' = account
      /\ UNCHANGED <<ledger, logs, queued, account, aggregates, losses>>
  BY DEF Restart, LocalsEnd, network
<1>2. runs \in Nat \ {0} /\ runs' \in 1 .. MaxRuns /\ runs' \in Nat /\ runs <= runs'
      /\ runs' # 1
  BY <1>1, Constants DEF IInv, Types
<1>3. Types'
  BY <1>1, <1>2, Constants DEF IInv, Types, Outcome, Function, AVG
<1>4. Chronicle'
  BY <1>1 DEF IInv, Chronicle
<1>5. Walk'
  BY <1>1 DEF IInv, Types, Walk
<1>6. Filed' /\ Averaged' /\ MarksAdjoin'
  BY <1>1, <1>2, HistoryKept
<1>7. Numbered'
  BY <1>1, <1>2, SameAccepted DEF IInv, Numbered, Young
<1>8. InTurn'
  <2>1. \A a \in TimeAccount : \A i \in DOMAIN Accepted(a) :
           Accepted(a)[i].run \in Nat /\ Accepted(a)[i].run <= runs
    BY Fields DEF IInv, Filed
  <2>2. \A a \in TimeAccount : \A i \in DOMAIN Accepted(a) : Accepted(a)[i].run # runs'
    BY <1>1, <1>2, <2>1
  <2> QED
    BY <2>2, <1>1, SameAccepted DEF InTurn
<1>9. Adjoining' /\ Pending' /\ Covering'
  BY <1>1, BeforeIntervals
<1>10. YoungAccountsAreNotRefused'
  BY <1>1 DEF YoungAccountsAreNotRefused
<1> QED
  BY <1>3, <1>4, <1>5, <1>6, <1>7, <1>8, <1>9, <1>10 DEF Parts

\* Core refuses a message, which does not happen to a young account.
LEMMA RefusedKeeps ==
  ASSUME IInv, Refused
  PROVE  Types' /\ Parts'
<1>1. /\ process = "running" /\ process' = "refused" /\ pc' = "first"
      /\ firstLedger' = 0 /\ lastLedger' = 0 /\ currentLedger' = 0
      /\ marks' = <<0, 0>> /\ results' = <<0, 0, 0>> /\ function' = AVG
      /\ Message.seq # Expected(index)
      /\ UNCHANGED <<ledger, logs, runs, sensor, index, sequence, queued, account,
                     aggregates, losses>>
  BY DEF Refused, Fatal, LocalsEnd, At, network
<1>2. Types'
  BY <1>1 DEF IInv, Types, Outcome, Function, AVG
<1>3. Chronicle'
  BY <1>1 DEF IInv, Chronicle
<1>4. Walk'
  BY <1>1 DEF IInv, Types, Walk
<1>5. Filed' /\ Averaged' /\ MarksAdjoin'
  <2>1. runs' \in Nat /\ runs <= runs' /\ (losses' = 0 => losses = 0)
    BY <1>1 DEF IInv, Types
  <2> QED
    BY <1>1, <2>1, HistoryKept
<1>6. Numbered'
  BY <1>1, SameAccepted DEF IInv, Numbered, Young
<1>7. InTurn'
  BY <1>1 DEF InTurn
<1>8. Adjoining' /\ Pending' /\ Covering'
  BY <1>1, BeforeIntervals
<1>9. YoungAccountsAreNotRefused'
  <2> SUFFICES ASSUME Young, runs = 1, losses = 0 PROVE FALSE
    BY <1>1 DEF YoungAccountsAreNotRefused, Young
  <2>1. index \in TimeAccount
    BY DEF IInv, Types
  <2>2. sequence[index] = TimeStart + Len(Accepted(index))
    BY <1>1, <2>1 DEF IInv, Numbered
  <2>3. Expected(index) = TimeStart + Len(Accepted(index)) + 1
    BY <2>1, YoungExpected DEF IInv
  <2>4. Message.seq = sequence[index] + 1
    BY MessageType DEF IInv
  <2> QED
    BY <1>1, <2>2, <2>3, <2>4
<1> QED
  BY <1>2, <1>3, <1>4, <1>5, <1>6, <1>7, <1>8, <1>9 DEF Parts

\* An interval without logs is passed over.
LEMMA GapKeeps ==
  ASSUME IInv, CalculateFunctionsForLedgers,
         Rows(sensor, currentLedger, currentLedger + Blocks[index]) = {}
  PROVE  Types' /\ Parts'
<1>1. /\ process = "running" /\ pc = "interval" /\ currentLedger < lastLedger
      /\ currentLedger' = currentLedger + Blocks[index]
      /\ UNCHANGED <<ledger, logs, process, runs, pc, sensor, index, firstLedger, lastLedger,
                     marks, results, function, sequence, queued, account, aggregates, losses>>
  BY DEF CalculateFunctionsForLedgers, AfterGap, NextInterval, At, network
<1>2. /\ index \in TimeAccount /\ sensor \in Sensor /\ Blocks[index] \in Nat \ {0}
      /\ currentLedger \in Nat /\ firstLedger \in Nat /\ lastLedger \in Nat
      /\ \A k \in DOMAIN logs[sensor] : logs[sensor][k] \in Nat
  BY Constants DEF IInv, Types
<1>3. \A k \in DOMAIN logs[sensor] :
        logs[sensor][k] < currentLedger + Blocks[index] <=> logs[sensor][k] < currentLedger
  <2>1. \A k \in DOMAIN logs[sensor] : ~(/\ currentLedger <= logs[sensor][k]
                                         /\ logs[sensor][k] < currentLedger + Blocks[index])
    BY DEF Rows
  <2> QED
    BY <1>2, <2>1
<1>4. Types'
  BY <1>1, <1>2, SMTT(30) DEF IInv, Types
<1>5. Chronicle'
  BY <1>1 DEF IInv, Chronicle
<1>6. Walk'
  <2>1. PICK n \in Nat : currentLedger = firstLedger + n * Blocks[index]
    BY <1>1 DEF IInv, Walk
  <2>2. currentLedger' = firstLedger + (n + 1) * Blocks[index] /\ n + 1 \in Nat
    <3>1. \A x, y \in Nat : (x + 1) * y = x * y + y /\ x * y \in Nat
      OBVIOUS
    <3>2. Blocks[index] \in Nat /\ firstLedger \in Nat
      BY <1>2
    <3>3. (n + 1) * Blocks[index] = n * Blocks[index] + Blocks[index]
          /\ n * Blocks[index] \in Nat
      BY <3>1, <3>2
    <3> QED
      BY <1>1, <2>1, <3>2, <3>3
  <2>3. \E m \in Nat : currentLedger' = firstLedger + m * Blocks[index]
    BY <2>2
  <2> QED
    BY <1>1, <2>3 DEF IInv, Walk
<1>7. Filed' /\ Averaged' /\ MarksAdjoin'
  <2>1. runs' \in Nat /\ runs <= runs' /\ (losses' = 0 => losses = 0)
    BY <1>1 DEF IInv, Types
  <2> QED
    BY <1>1, <2>1, HistoryKept
<1>8. Numbered'
  BY <1>1, SameAccepted DEF IInv, Numbered, Young
<1>9. InTurn'
  BY <1>1, SameAccepted DEF IInv, InTurn
<1>10. Adjoining'
  <2> SUFFICES ASSUME Young, losses = 0, NEW i \in DOMAIN Accepted(index), Previous(i),
                      NEW end, end = Accepted(index)[i].end,
                      currentLedger + Blocks[index] < lastLedger
               PROVE  \A k \in DOMAIN logs[sensor] :
                        logs[sensor][k] < currentLedger + Blocks[index]
                          <=> AccountSequence(k) <= end
    BY <1>1, SameAccepted DEF Adjoining, Previous, At, Young, AccountSequence
  <2>1. \A k \in DOMAIN logs[sensor] :
          logs[sensor][k] < currentLedger <=> AccountSequence(k) <= end
    BY <1>1 DEF IInv, Adjoining, At
  <2> QED
    BY <1>3, <2>1
<1>11. Pending'
  BY <1>1 DEF Pending, At
<1>12. Covering'
  <2>1. Covering
    BY DEF IInv
  <2> QED
    BY <1>1, <1>3, <2>1, SameAccepted DEF Covering, Young
<1>13. YoungAccountsAreNotRefused'
  BY <1>1 DEF IInv, YoungAccountsAreNotRefused, Young
<1> QED
  BY <1>4, <1>5, <1>6, <1>7, <1>8, <1>9, <1>10, <1>11, <1>12, <1>13 DEF Parts

\* The marks of an interval with logs.
LEMMA RowsEffect ==
  ASSUME IInv, NEW rows, rows = Rows(sensor, currentLedger, currentLedger + Blocks[index]),
         rows # {}
  PROVE  /\ Min(rows) \in 1 .. Max(rows) /\ Max(rows) \in 1 .. Len(logs[sensor])
         /\ \A k \in DOMAIN logs[sensor] :
              (Min(rows) <= k /\ k <= Max(rows)) <=>
                 (/\ currentLedger <= logs[sensor][k]
                  /\ logs[sensor][k] < currentLedger + Blocks[index])
         /\ \A k \in DOMAIN logs[sensor] : logs[sensor][k] < currentLedger <=> k < Min(rows)
<1>1. /\ logs[sensor] \in Seq(Nat) /\ DOMAIN logs[sensor] = 1 .. Len(logs[sensor])
      /\ Len(logs[sensor]) \in Nat /\ currentLedger \in Nat /\ Blocks[index] \in Nat
      /\ \A k \in DOMAIN logs[sensor] : logs[sensor][k] \in Nat
  BY Constants DEF IInv, Types
<1>2. \A j, k \in DOMAIN logs[sensor] : j <= k => logs[sensor][j] <= logs[sensor][k]
  BY DEF IInv, Types, Chronicle
<1>3. \A k : k \in rows <=> /\ k \in DOMAIN logs[sensor]
                            /\ currentLedger <= logs[sensor][k]
                            /\ logs[sensor][k] < currentLedger + Blocks[index]
  BY DEF Rows
<1>4. rows \in SUBSET (1 .. Len(logs[sensor]))
  BY <1>1, <1>3
<1>5. /\ Min(rows) \in rows /\ Max(rows) \in rows
      /\ \A k \in rows : Min(rows) <= k /\ k <= Max(rows)
  BY <1>1, <1>4, LeastAndGreatest
<1> DEFINE m == Min(rows)
           n == Max(rows)
<1>6. m \in rows /\ n \in rows /\ \A k \in rows : m <= k /\ k <= n
  BY <1>5
<1> HIDE DEF m, n
<1>7. m \in 1 .. Len(logs[sensor]) /\ n \in 1 .. Len(logs[sensor]) /\ m <= n
  BY <1>4, <1>6
<1>8. \A k \in DOMAIN logs[sensor] : m <= k /\ k <= n => k \in rows
  <2> SUFFICES ASSUME NEW k \in DOMAIN logs[sensor], m <= k, k <= n PROVE k \in rows
    OBVIOUS
  <2>1. m \in DOMAIN logs[sensor] /\ n \in DOMAIN logs[sensor]
    BY <1>1, <1>7
  <2>2. logs[sensor][m] <= logs[sensor][k] /\ logs[sensor][k] <= logs[sensor][n]
    BY <1>2, <2>1
  <2>3. currentLedger <= logs[sensor][m] /\ logs[sensor][n] < currentLedger + Blocks[index]
    BY <1>3, <1>6
  <2>4. currentLedger <= logs[sensor][k] /\ logs[sensor][k] < currentLedger + Blocks[index]
    <3>1. /\ logs[sensor][m] \in Nat /\ logs[sensor][k] \in Nat /\ logs[sensor][n] \in Nat
          /\ currentLedger \in Nat /\ Blocks[index] \in Nat
      BY <1>1, <2>1
    <3> QED
      BY <2>2, <2>3, <3>1
  <2> QED
    BY <1>3, <2>4
<1>9. \A k \in DOMAIN logs[sensor] : logs[sensor][k] < currentLedger <=> k < m
  <2> SUFFICES ASSUME NEW k \in DOMAIN logs[sensor]
               PROVE  logs[sensor][k] < currentLedger <=> k < m
    OBVIOUS
  <2>1. /\ m \in DOMAIN logs[sensor] /\ currentLedger <= logs[sensor][m]
        /\ logs[sensor][m] < currentLedger + Blocks[index]
        /\ logs[sensor][k] \in Nat /\ logs[sensor][m] \in Nat /\ k \in Nat /\ m \in Nat
        /\ currentLedger \in Nat /\ Blocks[index] \in Nat
    BY <1>1, <1>3, <1>6, <1>7
  <2>2. CASE k < m
    <3>1. logs[sensor][k] <= logs[sensor][m] /\ k \notin rows
      BY <1>2, <1>6, <2>1, <2>2
    <3>2. ~(/\ currentLedger <= logs[sensor][k]
            /\ logs[sensor][k] < currentLedger + Blocks[index])
      BY <1>3, <3>1
    <3> QED
      BY <2>1, <2>2, <3>1, <3>2
  <2>3. CASE m <= k
    <3>1. logs[sensor][m] <= logs[sensor][k]
      BY <1>2, <2>1, <2>3
    <3> QED
      BY <2>1, <2>3, <3>1
  <2> QED
    BY <2>1, <2>2, <2>3
<1>10. m \in 1 .. n
  BY <1>7
<1>11. \A k \in DOMAIN logs[sensor] :
         (m <= k /\ k <= n) <=> (/\ currentLedger <= logs[sensor][k]
                                 /\ logs[sensor][k] < currentLedger + Blocks[index])
  BY <1>3, <1>6, <1>8
<1> QED
  BY <1>7, <1>9, <1>10, <1>11 DEF m, n

\* The logs of an interval are read.
LEMMA IntervalKeeps ==
  ASSUME IInv, CalculateFunctionsForLedgers,
         Rows(sensor, currentLedger, currentLedger + Blocks[index]) # {}
  PROVE  Types' /\ Parts'
<1> DEFINE rows == Rows(sensor, currentLedger, currentLedger + Blocks[index])
           m == Min(rows)
           n == Max(rows)
<1>1. /\ process = "running" /\ pc = "interval" /\ currentLedger < lastLedger
      /\ marks' = <<AccountSequence(m), AccountSequence(n)>>
      /\ results' = Results(SubSeq(getLogValue[sensor], m, n))
      /\ function' = AVG /\ pc' = "send"
      /\ UNCHANGED <<ledger, logs, process, runs, sensor, index, firstLedger, lastLedger,
                     currentLedger, sequence, queued, account, aggregates, losses>>
  BY DEF CalculateFunctionsForLedgers, At, network
<1>2. /\ m \in 1 .. n /\ n \in 1 .. Len(logs[sensor])
      /\ \A k \in DOMAIN logs[sensor] :
           (m <= k /\ k <= n) <=> (/\ currentLedger <= logs[sensor][k]
                                   /\ logs[sensor][k] < currentLedger + Blocks[index])
      /\ \A k \in DOMAIN logs[sensor] : logs[sensor][k] < currentLedger <=> k < m
  BY RowsEffect
<1> HIDE DEF rows, m, n
<1>3. /\ SensorStart \in Nat /\ sensor \in Sensor /\ index \in TimeAccount
      /\ Len(logs[sensor]) \in Nat /\ DOMAIN logs[sensor] = 1 .. Len(logs[sensor])
  BY Constants DEF IInv, Types
<1>4. m \in Nat /\ n \in Nat /\ AccountSequence(m) \in Nat /\ AccountSequence(n) \in Nat
      /\ AccountSequence(m) = SensorStart + m /\ AccountSequence(n) = SensorStart + n
  BY <1>2, <1>3 DEF AccountSequence
<1>5. Types'
  <2>1. results' \in Outcome
    BY <1>1, <1>3, <1>4 DEF Outcome
  <2> HIDE DEF Outcome
  <2>2. marks' \in Nat \X Nat
    BY <1>1, <1>4
  <2> QED
    BY <1>1, <2>1, <2>2 DEF IInv, Types, Function, AVG
<1>6. Chronicle'
  BY <1>1 DEF IInv, Chronicle
<1>7. Walk'
  <2>1. /\ marks'[1] = SensorStart + m /\ marks'[2] = SensorStart + n
        /\ marks'[1] \in SensorStart + 1 .. marks'[2]
        /\ marks'[2] <= SensorStart + Len(logs[sensor])
    BY <1>1, <1>2, <1>3, <1>4
  <2>2. \A k \in DOMAIN logs[sensor] :
          marks'[1] <= AccountSequence(k) /\ AccountSequence(k) <= marks'[2]
            <=> m <= k /\ k <= n
    BY <1>3, <1>4, <2>1 DEF AccountSequence
  <2>3. \A k \in DOMAIN logs[sensor] :
          marks'[1] <= AccountSequence(k) /\ AccountSequence(k) <= marks'[2]
            <=> /\ currentLedger <= logs[sensor][k]
                /\ logs[sensor][k] < currentLedger + Blocks[index]
    BY <1>2, <2>2
  <2> QED
    BY <1>1, <2>1, <2>3 DEF IInv, Walk, AccountSequence
<1>8. Filed' /\ Averaged' /\ MarksAdjoin'
  <2>1. runs' \in Nat /\ runs <= runs' /\ (losses' = 0 => losses = 0)
    BY <1>1 DEF IInv, Types
  <2> QED
    BY <1>1, <2>1, HistoryKept
<1>9. Numbered'
  BY <1>1, SameAccepted DEF IInv, Numbered, Young
<1>10. InTurn'
  BY <1>1, SameAccepted DEF IInv, InTurn
<1>11. Adjoining'
  <2> SUFFICES ASSUME Young, losses = 0, NEW i \in DOMAIN Accepted(index), Previous(i),
                      NEW tx, tx = Accepted(index)[i]
               PROVE  tx.end = marks'[1] - 1
    BY <1>1, SameAccepted DEF Adjoining, Previous, At, Young
  <2>1. \A k \in DOMAIN logs[sensor] :
          logs[sensor][k] < currentLedger <=> AccountSequence(k) <= tx.end
    BY <1>1 DEF IInv, Adjoining, At
  <2>2. InOneInterval(index, sensor, tx.start, tx.end)
    BY <1>3 DEF IInv, Filed, Previous, IsAverage
  <2>3. tx.end \in Nat /\ tx.start \in Nat
    BY <1>3, Fields DEF IInv
  <2>4. tx.end >= SensorStart + 1 /\ tx.end <= SensorStart + Len(logs[sensor])
    BY <1>3, <2>2, <2>3 DEF InOneInterval
  <2>5. \A k \in DOMAIN logs[sensor] : k < m <=> SensorStart + k <= tx.end
    BY <1>2, <2>1 DEF AccountSequence
  <2>6. ~(SensorStart + m <= tx.end)
    <3>1. m \in DOMAIN logs[sensor] /\ ~(m < m)
      BY <1>2, <1>3, <1>4
    <3> QED
      BY <2>5, <3>1
  <2>7. tx.end - SensorStart \in DOMAIN logs[sensor]
    BY <1>3, <2>3, <2>4
  <2>8. m > 1
    BY <1>3, <1>4, <2>3, <2>4, <2>6
  <2>9. SensorStart + (m - 1) <= tx.end
    <3>1. m - 1 \in DOMAIN logs[sensor] /\ m - 1 < m
      BY <1>2, <1>3, <1>4, <2>8
    <3> QED
      BY <2>5, <3>1
  <2> QED
    BY <1>1, <1>3, <1>4, <2>3, <2>6, <2>9
<1>12. Pending'
  BY <1>1 DEF Pending
<1>13. Covering'
  <2>1. Covering
    BY DEF IInv
  <2> QED
    BY <1>1, <2>1, SameAccepted DEF Covering, Young
<1>14. YoungAccountsAreNotRefused'
  BY <1>1 DEF IInv, YoungAccountsAreNotRefused, Young
<1> QED
  BY <1>5, <1>6, <1>7, <1>8, <1>9, <1>10, <1>11, <1>12, <1>13, <1>14 DEF Parts

\* The next function, or the next interval.
LEMMA AdvanceEffect ==
  ASSUME IInv, At("send"), Advance
  PROVE  /\ sequence' = [sequence EXCEPT ![index] = @ + 1]
         /\ \/ /\ function \in {AVG, MIN} /\ function' = function + 1
               /\ UNCHANGED <<pc, currentLedger>>
            \/ /\ function = MAX /\ function' = AVG
               /\ pc' = "interval" /\ currentLedger' = currentLedger + Blocks[index]
         /\ sequence' \in [TimeAccount -> Nat]
         /\ function' \in Function /\ currentLedger' \in Nat
         /\ pc' \in {"interval", "send"}
<1>1. function \in 1 .. 3 /\ currentLedger \in Nat /\ index \in TimeAccount
      /\ sequence \in [TimeAccount -> Nat] /\ pc = "send"
  BY DEF IInv, Types, Function, At
<1>2. Blocks[index] \in Nat
  BY <1>1, Constants
<1>3. sequence' = [sequence EXCEPT ![index] = @ + 1]
  BY DEF Advance, Counted
<1>4. sequence' \in [TimeAccount -> Nat]
  BY <1>1, <1>3
<1>5. CASE function < 3
  <2>1. function' = function + 1 /\ UNCHANGED <<pc, currentLedger>>
    BY <1>5 DEF Advance, LastFunction, MAX
  <2> QED
    BY <1>1, <1>3, <1>4, <1>5, <2>1 DEF AVG, MIN, Function
<1>6. CASE function = 3
  <2>1. function' = AVG /\ pc' = "interval" /\ currentLedger' = currentLedger + Blocks[index]
    BY <1>6 DEF Advance, LastFunction, MAX, NextInterval
  <2> QED
    BY <1>1, <1>2, <1>3, <1>4, <1>6, <2>1 DEF AVG, MAX, Function
<1> QED
  BY <1>1, <1>5, <1>6

LEMMA AdvanceKeepsWalk ==
  ASSUME IInv, At("send"), Advance,
         UNCHANGED <<ledger, logs, process, sensor, index, firstLedger, lastLedger, marks>>
  PROVE  Walk'
<1>1. process = "running" /\ pc = "send"
  BY DEF At
<1>2. CASE UNCHANGED <<pc, currentLedger>>
  BY <1>2 DEF IInv, Walk, AccountSequence
<1>3. CASE pc' = "interval" /\ currentLedger' = currentLedger + Blocks[index]
  <2>1. PICK n \in Nat : currentLedger = firstLedger + n * Blocks[index]
    BY <1>1 DEF IInv, Walk
  <2>2. \A x, y \in Nat : (x + 1) * y = x * y + y /\ x * y \in Nat
    OBVIOUS
  <2>3. Blocks[index] \in Nat /\ firstLedger \in Nat
    BY Constants DEF IInv, Types
  <2>4. (n + 1) * Blocks[index] = n * Blocks[index] + Blocks[index]
        /\ n * Blocks[index] \in Nat
    BY <2>2, <2>3
  <2>5. currentLedger' = firstLedger + (n + 1) * Blocks[index] /\ n + 1 \in Nat
    BY <1>3, <2>1, <2>3, <2>4
  <2>6. \E m \in Nat : currentLedger' = firstLedger + m * Blocks[index]
    BY <2>5
  <2> QED
    BY <1>1, <1>3, <2>6 DEF IInv, Walk
<1> QED
  BY <1>2, <1>3, AdvanceEffect

\* Core has taken the message in.
LEMMA SentEffect ==
  ASSUME IInv, At("send"), NEW here, here = index, NEW tx, tx = Message,
         NEW n, n = Len(Accepted(here)),
         queued' = [queued EXCEPT ![index] = Append(@, Message)], UNCHANGED aggregates
  PROVE  /\ here \in TimeAccount /\ tx \in Sent
         /\ tx.seq = sequence[here] + 1 /\ tx.run = runs /\ tx.sensor = sensor
         /\ tx.function = function /\ tx.start = marks[1] /\ tx.end = marks[2]
         /\ queued' \in [TimeAccount -> Seq(Sent)]
         /\ n \in Nat
         /\ DOMAIN Accepted(here) = 1 .. n
         /\ DOMAIN Accepted(here)' = 1 .. n + 1
         /\ Len(Accepted(here)') = n + 1
         /\ \A a \in TimeAccount : a # here => Accepted(a)' = Accepted(a)
         /\ \A a \in TimeAccount : \A i \in DOMAIN Accepted(a) :
              Accepted(a)'[i] = Accepted(a)[i] /\ i \in DOMAIN Accepted(a)'
         /\ Accepted(here)'[n + 1] = tx
         /\ \A a \in TimeAccount : \A i \in DOMAIN Accepted(a) : \A s, run :
              IsAverage(a, i, s, run)' <=> IsAverage(a, i, s, run)
         /\ \A s, run : IsAverage(here, n + 1, s, run)'
                          <=> tx.function = AVG /\ tx.sensor = s /\ tx.run = run
<1>1. Types /\ here \in TimeAccount
  BY DEF IInv, Types
<1>2. /\ tx \in Sent /\ tx.seq = sequence[here] + 1 /\ tx.run = runs /\ tx.sensor = sensor
      /\ tx.function = function /\ tx.start = marks[1] /\ tx.end = marks[2]
  BY <1>1, MessageType
<1>3. queued' = [queued EXCEPT ![here] = Append(@, tx)]
  OBVIOUS
<1>4. /\ queued' \in [TimeAccount -> Seq(Sent)]
      /\ \A a \in TimeAccount : a # here => Accepted(a)' = Accepted(a)
      /\ DOMAIN Accepted(here)' = 1 .. Len(Accepted(here)) + 1
      /\ Len(Accepted(here)') = Len(Accepted(here)) + 1
      /\ \A i \in 1 .. Len(Accepted(here)) : Accepted(here)'[i] = Accepted(here)[i]
      /\ Accepted(here)'[Len(Accepted(here)) + 1] = tx
  BY <1>1, <1>2, <1>3, QueueEffect, ZenonT(60)
<1>5. Len(Accepted(here)) \in Nat /\ DOMAIN Accepted(here) = 1 .. Len(Accepted(here))
  BY <1>1, AcceptedType
<1>6. \A a \in TimeAccount : \A i \in DOMAIN Accepted(a) :
        Accepted(a)'[i] = Accepted(a)[i] /\ i \in DOMAIN Accepted(a)'
  <2> SUFFICES ASSUME NEW a \in TimeAccount, NEW i \in DOMAIN Accepted(a)
               PROVE  Accepted(a)'[i] = Accepted(a)[i] /\ i \in DOMAIN Accepted(a)'
    OBVIOUS
  <2>1. CASE a # here
    BY <1>4, <2>1
  <2>2. CASE a = here
    BY <1>4, <1>5, <2>2
  <2> QED
    BY <2>1, <2>2
<1>7. \A a \in TimeAccount : \A i \in DOMAIN Accepted(a) : \A s, run :
        IsAverage(a, i, s, run)' <=> IsAverage(a, i, s, run)
  BY <1>6 DEF IsAverage
<1>8. \A s, run : IsAverage(here, n + 1, s, run)'
                    <=> tx.function = AVG /\ tx.sensor = s /\ tx.run = run
  <2>1. Accepted(here)'[n + 1] = tx
    BY <1>4
  <2>2. \A s, run : IsAverage(here, n + 1, s, run)'
           <=> /\ Accepted(here)'[n + 1].function = AVG
               /\ Accepted(here)'[n + 1].sensor = s /\ Accepted(here)'[n + 1].run = run
    BY DEF IsAverage, AVG
  <2> QED
    BY <2>1, <2>2
<1> QED
  BY <1>1, <1>2, <1>4, <1>5, <1>6, <1>7, <1>8

\* It adjoins the averages before it, and comes behind the average of its interval.
LEMMA SendHistory ==
  ASSUME IInv, At("send"), Message.seq = Expected(index),
         queued' = [queued EXCEPT ![index] = Append(@, Message)],
         UNCHANGED <<logs, runs, account, aggregates, losses>>
  PROVE  /\ Filed' /\ Averaged' /\ MarksAdjoin'
         /\ Young => \A a \in TimeAccount :
              /\ account'[a] = TimeStart + Len(aggregates'[a])
              /\ \A i \in DOMAIN Accepted(a)' : Accepted(a)'[i].seq = TimeStart + i
<1> SUFFICES ASSUME NEW here, here = index, NEW tx, tx = Message,
                    NEW n, n = Len(Accepted(here))
             PROVE  /\ Filed' /\ Averaged' /\ MarksAdjoin'
                    /\ Young => \A a \in TimeAccount :
                         /\ account'[a] = TimeStart + Len(aggregates'[a])
                         /\ \A i \in DOMAIN Accepted(a)' : Accepted(a)'[i].seq = TimeStart + i
  OBVIOUS
<1>1. /\ here \in TimeAccount /\ tx \in Sent
      /\ tx.seq = sequence[here] + 1 /\ tx.run = runs /\ tx.sensor = sensor
      /\ tx.function = function /\ tx.start = marks[1] /\ tx.end = marks[2]
      /\ n \in Nat /\ DOMAIN Accepted(here) = 1 .. n /\ DOMAIN Accepted(here)' = 1 .. n + 1
      /\ \A a \in TimeAccount : a # here => Accepted(a)' = Accepted(a)
      /\ \A a \in TimeAccount : \A i \in DOMAIN Accepted(a) :
           Accepted(a)'[i] = Accepted(a)[i] /\ i \in DOMAIN Accepted(a)'
      /\ Accepted(here)'[n + 1] = tx
      /\ \A a \in TimeAccount : \A i \in DOMAIN Accepted(a) : \A s, run :
           IsAverage(a, i, s, run)' <=> IsAverage(a, i, s, run)
      /\ \A s, run : IsAverage(here, n + 1, s, run)'
                       <=> tx.function = AVG /\ tx.sensor = s /\ tx.run = run
  BY SentEffect
<1>2. \A a \in TimeAccount : \A i \in DOMAIN Accepted(a)' :
        i \in DOMAIN Accepted(a) \/ (a = here /\ i = n + 1)
  <2> SUFFICES ASSUME NEW a \in TimeAccount, NEW i \in DOMAIN Accepted(a)'
               PROVE  i \in DOMAIN Accepted(a) \/ (a = here /\ i = n + 1)
    OBVIOUS
  <2>1. CASE a # here
    BY <1>1, <2>1
  <2>2. CASE a = here
    BY <1>1, <2>2
  <2> QED
    BY <2>1, <2>2
<1>3. pc = "send" /\ process = "running"
  BY DEF At
<1>4. Filed'
  <2> SUFFICES ASSUME NEW a \in TimeAccount, NEW i \in DOMAIN Accepted(a)',
                      NEW t, t = Accepted(a)'[i]
               PROVE  t.run <= runs /\ InOneInterval(a, t.sensor, t.start, t.end)
    BY DEF Filed, InOneInterval
  <2>1. CASE i \in DOMAIN Accepted(a)
    BY <1>1, <2>1 DEF IInv, Filed
  <2>2. CASE a = here /\ i = n + 1
    <3>1. t = tx
      BY <1>1, <2>2
    <3>2. InOneInterval(here, tx.sensor, tx.start, tx.end)
      BY <1>1, <1>3, MarksInOneInterval
    <3>3. tx.run <= runs
      BY <1>1 DEF IInv, Types
    <3> QED
      BY <2>2, <3>1, <3>2, <3>3
  <2> QED
    BY <1>2, <2>1, <2>2
<1>5. Averaged'
  <2> SUFFICES ASSUME Young, losses = 0, NEW a \in TimeAccount, NEW i \in DOMAIN Accepted(a)',
                      NEW t, t = Accepted(a)'[i], t.function # AVG
               PROVE  \E j \in 1 .. i - 1 :
                        /\ IsAverage(a, j, t.sensor, t.run)'
                        /\ Accepted(a)'[j].start = t.start /\ Accepted(a)'[j].end = t.end
    BY DEF Averaged, Young, AVG, IsAverage
  <2>1. CASE i \in DOMAIN Accepted(a)
    <3>1. PICK j \in 1 .. i - 1 :
             /\ IsAverage(a, j, t.sensor, t.run)
             /\ Accepted(a)[j].start = t.start /\ Accepted(a)[j].end = t.end
      BY <1>1, <2>1 DEF IInv, Averaged
    <3>2. DOMAIN Accepted(a) = 1 .. Len(Accepted(a)) /\ Len(Accepted(a)) \in Nat
      BY AcceptedType DEF IInv
    <3>3. j \in DOMAIN Accepted(a)
      BY <2>1, <3>1, <3>2
    <3> QED
      BY <1>1, <3>1, <3>3
  <2>2. CASE a = here /\ i = n + 1
    <3>1. t = tx
      BY <1>1, <2>2
    <3>2. PICK j \in DOMAIN Accepted(here) :
             /\ IsAverage(here, j, sensor, runs)
             /\ Accepted(here)[j].start = marks[1] /\ Accepted(here)[j].end = marks[2]
      BY <1>1, <1>3, <3>1 DEF IInv, Pending, At
    <3>3. j \in 1 .. i - 1
      BY <1>1, <2>2, <3>2
    <3>4. /\ IsAverage(here, j, tx.sensor, tx.run)'
          /\ Accepted(here)'[j].start = tx.start /\ Accepted(here)'[j].end = tx.end
      BY <1>1, <3>2
    <3> QED
      BY <2>2, <3>1, <3>3, <3>4
  <2> QED
    BY <1>2, <2>1, <2>2
<1>6. MarksAdjoin'
  <2> SUFFICES ASSUME Young, losses = 0, NEW a \in TimeAccount, NEW s \in Sensor,
                      NEW i \in DOMAIN Accepted(a)', NEW j \in DOMAIN Accepted(a)', i < j,
                      Accepted(a)'[i].sensor = s, Accepted(a)'[i].function = AVG,
                      Accepted(a)'[j].sensor = s, Accepted(a)'[j].function = AVG,
                      ~ \E k \in i + 1 .. j - 1 : /\ Accepted(a)'[k].sensor = s
                                                  /\ Accepted(a)'[k].function = AVG,
                      Accepted(a)'[i].run = Accepted(a)'[j].run
               PROVE  Accepted(a)'[i].end + 1 = Accepted(a)'[j].start
    BY DEF MarksAdjoin, Young, AVG
  <2>1. DOMAIN Accepted(a) = 1 .. Len(Accepted(a)) /\ Len(Accepted(a)) \in Nat
    BY AcceptedType DEF IInv
  <2>2. i \in Nat /\ j \in Nat /\ i >= 1
    <3>1. CASE j \in DOMAIN Accepted(a) /\ i \in DOMAIN Accepted(a)
      BY <2>1, <3>1
    <3>2. CASE a = here
      BY <1>1, <3>2
    <3> QED
      BY <1>2, <3>1, <3>2
  <2>3. CASE j \in DOMAIN Accepted(a)
    <3>1. i \in DOMAIN Accepted(a) /\ \A k \in i + 1 .. j - 1 : k \in DOMAIN Accepted(a)
      BY <2>1, <2>2, <2>3
    <3>2. ~ \E k \in i + 1 .. j - 1 : /\ Accepted(a)[k].sensor = s
                                      /\ Accepted(a)[k].function = AVG
      BY <1>1, <3>1
    <3>3. Accepted(a)'[i] = Accepted(a)[i] /\ Accepted(a)'[j] = Accepted(a)[j]
      BY <1>1, <2>3, <3>1
    <3> QED
      BY <2>3, <3>1, <3>2, <3>3 DEF IInv, MarksAdjoin
  <2>4. CASE a = here /\ j = n + 1
    <3>1. Accepted(a)'[j] = tx /\ i \in DOMAIN Accepted(here)
      BY <1>1, <2>2, <2>4
    <3>2. function = AVG /\ s = sensor /\ Accepted(here)[i].run = runs
          /\ Accepted(a)'[i] = Accepted(here)[i]
      BY <1>1, <2>4, <3>1
    <3>3. IsAverage(here, i, sensor, runs)
      BY <2>4, <3>1, <3>2 DEF IsAverage
    <3>4. \A k \in DOMAIN Accepted(here) : k > i => ~IsAverage(here, k, sensor, runs)
      <4> SUFFICES ASSUME NEW k \in DOMAIN Accepted(here), k > i
                   PROVE  ~IsAverage(here, k, sensor, runs)
        OBVIOUS
      <4>1. k \in i + 1 .. j - 1 /\ Accepted(a)'[k] = Accepted(here)[k]
        BY <1>1, <2>2, <2>4
      <4> QED
        BY <3>2, <4>1 DEF IsAverage
    <3>5. Previous(i)
      BY <3>1, <3>3, <3>4 DEF Previous
    <3>6. Accepted(here)[i].end = marks[1] - 1
      BY <1>3, <3>1, <3>2, <3>5 DEF IInv, Adjoining, At
    <3>7. marks[1] \in Nat
      BY DEF IInv, Types
    <3> QED
      BY <1>1, <3>1, <3>2, <3>6, <3>7
  <2> QED
    BY <1>2, <2>3, <2>4
<1>7. ASSUME Young, NEW a \in TimeAccount
      PROVE  /\ account'[a] = TimeStart + Len(aggregates'[a])
             /\ \A i \in DOMAIN Accepted(a)' : Accepted(a)'[i].seq = TimeStart + i
  <2>1. account[a] = TimeStart + Len(aggregates[a])
        /\ \A i \in DOMAIN Accepted(a) : Accepted(a)[i].seq = TimeStart + i
    BY <1>7 DEF IInv, Numbered
  <2>2. tx.seq = TimeStart + n + 1
    BY <1>1, <1>7, YoungExpected DEF IInv
  <2>3. TimeStart \in Nat
    BY Constants
  <2>4. ASSUME NEW i \in DOMAIN Accepted(a)' PROVE Accepted(a)'[i].seq = TimeStart + i
    <3>1. CASE i \in DOMAIN Accepted(a)
      BY <1>1, <2>1, <3>1
    <3>2. CASE a = here /\ i = n + 1
      BY <1>1, <2>2, <2>3, <3>2
    <3> QED
      BY <1>2, <2>4, <3>1, <3>2
  <2> QED
    BY <2>1, <2>4
<1> QED
  BY <1>4, <1>5, <1>6, <1>7

\* A message is answered for and lost: from then on less is claimed.
LEMMA TryAgainLaterKeeps ==
  ASSUME IInv, TryAgainLater
  PROVE  Types' /\ Parts'
<1>1. /\ process = "running" /\ pc = "send" /\ At("send") /\ Advance /\ losses' = losses + 1
      /\ UNCHANGED <<ledger, logs, process, runs, sensor, index, firstLedger, lastLedger,
                     marks, results, queued, account, aggregates>>
  BY DEF TryAgainLater, At, network
<1>2. losses' \in Nat /\ losses' # 0
  BY <1>1 DEF IInv, Types
<1>3. /\ sequence' \in [TimeAccount -> Nat] /\ function' \in Function
      /\ currentLedger' \in Nat /\ pc' \in {"interval", "send"}
  BY <1>1, AdvanceEffect
<1>4. Types'
  BY <1>1, <1>2, <1>3 DEF IInv, Types
<1>5. Chronicle'
  BY <1>1 DEF IInv, Chronicle
<1>6. Walk'
  BY <1>1, AdvanceKeepsWalk
<1>7. Filed' /\ Averaged' /\ MarksAdjoin'
  <2>1. runs' \in Nat /\ runs <= runs'
    BY <1>1 DEF IInv, Types
  <2> QED
    BY <1>1, <1>2, <2>1, HistoryKept
<1>8. Numbered'
  BY <1>1, <1>2, SameAccepted DEF IInv, Numbered, Young
<1>9. InTurn'
  BY <1>1, <1>3, SameAccepted DEF IInv, InTurn
<1>10. Adjoining' /\ Pending' /\ Covering'
  BY <1>2 DEF Adjoining, Pending, Covering
<1>11. YoungAccountsAreNotRefused'
  BY <1>2 DEF YoungAccountsAreNotRefused
<1> QED
  BY <1>4, <1>5, <1>6, <1>7, <1>8, <1>9, <1>10, <1>11 DEF Parts

\* A message is accepted, and the next one or the next interval follows.
LEMMA SendKeeps ==
  ASSUME IInv, SendTransaction
  PROVE  Types' /\ Parts'
<1> SUFFICES ASSUME NEW here, here = index, NEW tx, tx = Message,
                    NEW n, n = Len(Accepted(here))
             PROVE  Types' /\ Parts'
  OBVIOUS
<1>1. /\ process = "running" /\ pc = "send" /\ At("send") /\ Advance
      /\ Message.seq = Expected(index)
      /\ queued' = [queued EXCEPT ![index] = Append(@, Message)]
      /\ UNCHANGED <<ledger, logs, process, runs, sensor, index, firstLedger, lastLedger,
                     marks, results, account, aggregates, losses>>
  BY DEF SendTransaction, At
<1>2. /\ here \in TimeAccount /\ tx \in Sent
      /\ tx.seq = sequence[here] + 1 /\ tx.run = runs /\ tx.sensor = sensor
      /\ tx.function = function /\ tx.start = marks[1] /\ tx.end = marks[2]
      /\ queued' \in [TimeAccount -> Seq(Sent)]
      /\ n \in Nat /\ DOMAIN Accepted(here) = 1 .. n /\ DOMAIN Accepted(here)' = 1 .. n + 1
      /\ Len(Accepted(here)') = n + 1
      /\ \A a \in TimeAccount : a # here => Accepted(a)' = Accepted(a)
      /\ \A a \in TimeAccount : \A i \in DOMAIN Accepted(a) :
           Accepted(a)'[i] = Accepted(a)[i] /\ i \in DOMAIN Accepted(a)'
      /\ Accepted(here)'[n + 1] = tx
      /\ \A a \in TimeAccount : \A i \in DOMAIN Accepted(a) : \A s, run :
           IsAverage(a, i, s, run)' <=> IsAverage(a, i, s, run)
      /\ \A s, run : IsAverage(here, n + 1, s, run)'
                       <=> tx.function = AVG /\ tx.sensor = s /\ tx.run = run
  BY <1>1, SentEffect, SMTT(30)
<1>3. /\ sequence' = [sequence EXCEPT ![here] = @ + 1]
      /\ \/ /\ function \in {AVG, MIN} /\ function' = function + 1
            /\ UNCHANGED <<pc, currentLedger>>
         \/ /\ function = MAX /\ function' = AVG
            /\ pc' = "interval" /\ currentLedger' = currentLedger + Blocks[here]
      /\ sequence' \in [TimeAccount -> Nat] /\ function' \in Function
      /\ currentLedger' \in Nat /\ pc' \in {"interval", "send"}
  BY <1>1, AdvanceEffect
<1>4. Types'
  BY <1>1, <1>2, <1>3 DEF IInv, Types
<1>5. Chronicle'
  BY <1>1 DEF IInv, Chronicle
<1>6. Walk'
  BY <1>1, AdvanceKeepsWalk
<1>7. /\ Filed' /\ Averaged' /\ MarksAdjoin'
      /\ Young => \A a \in TimeAccount :
           /\ account'[a] = TimeStart + Len(aggregates'[a])
           /\ \A i \in DOMAIN Accepted(a)' : Accepted(a)'[i].seq = TimeStart + i
  BY <1>1, SendHistory
<1>8. Numbered'
  <2>1. ASSUME Young, runs = 1, losses = 0, NEW a \in TimeAccount
        PROVE  sequence'[a] = TimeStart + Len(Accepted(a)')
    <3>1. sequence[a] = TimeStart + Len(Accepted(a)) /\ sequence \in [TimeAccount -> Nat]
      BY <1>1, <2>1 DEF IInv, Types, Numbered
    <3>2. CASE a = here
      <4>1. sequence'[here] = sequence[here] + 1
        BY <1>2, <1>3, <3>1
      <4>2. sequence[here] = TimeStart + n
        BY <3>1, <3>2
      <4>3. Len(Accepted(a)') = n + 1
        BY <1>2, <3>2
      <4>4. sequence'[here] = TimeStart + (n + 1)
        BY <1>2, <4>1, <4>2, Constants
      <4> QED
        BY <3>2, <4>3, <4>4
    <3>3. CASE a # here
      BY <1>2, <1>3, <3>1, <3>3
    <3> QED
      BY <3>2, <3>3
  <2> QED
    BY <1>1, <1>7, <2>1 DEF Numbered, Young
<1>9. \A i \in DOMAIN Accepted(here)' : i \in DOMAIN Accepted(here) \/ i = n + 1
  BY <1>2
<1>10. InTurn'
  <2> SUFFICES ASSUME NEW a \in TimeAccount, NEW i \in DOMAIN Accepted(a)',
                      NEW t, t = Accepted(a)'[i], t.run = runs
               PROVE  \/ t.sensor < sensor
                      \/ t.sensor = sensor /\ a < here
                      \/ t.sensor = sensor /\ a = here
    BY <1>1, <1>3 DEF InTurn
  <2>1. CASE i \in DOMAIN Accepted(a)
    <3>1. InTurn /\ t = Accepted(a)[i]
      BY <1>2, <2>1 DEF IInv
    <3> QED
      BY <1>1, <2>1, <3>1 DEF InTurn
  <2>2. CASE a = here /\ i = n + 1
    BY <1>2, <2>2
  <2>3. CASE a # here
    BY <1>2, <2>1, <2>3
  <2> QED
    BY <1>9, <2>1, <2>2, <2>3
<1>11. Adjoining'
  <2> SUFFICES ASSUME Young, losses = 0, NEW i \in DOMAIN Accepted(here)',
                      IsAverage(here, i, sensor, runs)',
                      \A j \in DOMAIN Accepted(here)' :
                         j > i => ~IsAverage(here, j, sensor, runs)',
                      NEW t, t = Accepted(here)'[i]
               PROVE  /\ pc' = "interval" /\ currentLedger' < lastLedger =>
                           \A k \in DOMAIN logs[sensor] :
                             logs[sensor][k] < currentLedger' <=> AccountSequence(k) <= t.end
                      /\ pc' = "send" =>
                           t.end = IF function' = AVG THEN marks[1] - 1 ELSE marks[2]
    <3>1. /\ here = index' /\ sensor = sensor' /\ runs = runs' /\ losses = losses'
      BY <1>1
    <3> QED
      BY <1>1, <3>1 DEF Adjoining, Previous, At, Young, AccountSequence, IsAverage
  <2>1. t.end = marks[2]
    <3>1. CASE function = AVG
      <4>1. IsAverage(here, n + 1, sensor, runs)' /\ n + 1 \in DOMAIN Accepted(here)'
        BY <1>1, <1>2, <3>1
      <4>2. i = n + 1
        BY <1>2, <1>9, <4>1
      <4> QED
        BY <1>2, <4>2
    <3>2. CASE function # AVG
      <4>1. ~IsAverage(here, n + 1, sensor, runs)'
        BY <1>1, <1>2, <3>2
      <4>2. i \in DOMAIN Accepted(here)
        BY <1>9, <4>1
      <4>3. Previous(i)
        <5>1. index \in TimeAccount /\ here = index
          BY <1>2
        <5>2. \A j \in DOMAIN Accepted(here) :
                IsAverage(here, j, sensor, runs)' <=> IsAverage(here, j, sensor, runs)
          <6>1. here \in TimeAccount /\ sensor' = sensor /\ runs' = runs
            BY <1>1, <1>2
          <6>2. \A j \in DOMAIN Accepted(here) : Accepted(here)'[j] = Accepted(here)[j]
            BY <1>2, <6>1
          <6> QED
            BY <6>1, <6>2 DEF IsAverage
        <5>3. IsAverage(index, i, sensor, runs)
          BY <4>2, <5>1, <5>2
        <5>4. ASSUME NEW j \in DOMAIN Accepted(index), j > i
              PROVE  ~IsAverage(index, j, sensor, runs)
          <6>1. j \in DOMAIN Accepted(here)
            BY <5>1, <5>4
          <6>2. j \in DOMAIN Accepted(here)'
            BY <1>2, <6>1
          <6>3. ~IsAverage(here, j, sensor, runs)'
            BY <5>4, <6>2
          <6> QED
            BY <5>1, <5>2, <6>1, <6>3
        <5> QED
          BY <4>2, <5>1, <5>3, <5>4 DEF Previous
      <4>4. Accepted(here)[i].end = marks[2]
        BY <1>1, <3>2, <4>2, <4>3 DEF IInv, Adjoining
      <4> QED
        BY <1>2, <4>2, <4>4
    <3> QED
      BY <3>1, <3>2
  <2>2. pc' = "interval" => currentLedger' = currentLedger + Blocks[here]
    BY <1>1, <1>3
  <2>3. pc' = "send" => function' # AVG
    BY <1>1, <1>3 DEF AVG, MIN, MAX
  <2> QED
    BY <1>1, <2>1, <2>2, <2>3, LastMarkDivides
<1>12. PICK average \in DOMAIN Accepted(here)' :
          Young /\ losses = 0 =>
            /\ IsAverage(here, average, sensor, runs)'
            /\ Accepted(here)'[average].start = marks[1]
            /\ Accepted(here)'[average].end = marks[2]
  <2>1. CASE function = AVG \/ ~Young \/ losses # 0
    <3>1. function = AVG => IsAverage(here, n + 1, sensor, runs)'
      BY <1>1, <1>2
    <3>2. n + 1 \in DOMAIN Accepted(here)'
      BY <1>2
    <3> QED
      BY <1>2, <2>1, <3>1, <3>2
  <2>2. CASE function # AVG /\ Young /\ losses = 0
    <3>1. PICK i \in DOMAIN Accepted(here) :
             /\ IsAverage(here, i, sensor, runs)
             /\ Accepted(here)[i].start = marks[1] /\ Accepted(here)[i].end = marks[2]
      BY <1>1, <2>2 DEF IInv, Pending
    <3>2. i \in DOMAIN Accepted(here)' /\ Accepted(here)'[i] = Accepted(here)[i]
          /\ IsAverage(here, i, sensor, runs)'
      BY <1>1, <1>2, <3>1
    <3> QED
      BY <3>1, <3>2
  <2> QED
    BY <2>1, <2>2
<1>13. Pending'
  <2> SUFFICES ASSUME Young, losses = 0
               PROVE  \E i \in DOMAIN Accepted(here)' :
                        /\ IsAverage(here, i, sensor, runs)'
                        /\ Accepted(here)'[i].start = marks[1]
                        /\ Accepted(here)'[i].end = marks[2]
    <3>1. /\ here = index' /\ sensor = sensor' /\ runs = runs' /\ losses = losses'
      BY <1>1
    <3> QED
      BY <1>1, <3>1 DEF Pending, Young, IsAverage
  <2> QED
    BY <1>12
<1>14. Covering'
  <2>1. \A k : Covered(here, sensor, k) => Covered(here, sensor, k)'
    <3> SUFFICES ASSUME NEW k, Covered(here, sensor, k) PROVE Covered(here, sensor, k)'
      OBVIOUS
    <3>1. PICK t \in ToSet(Accepted(here)) :
             /\ t.run = runs /\ t.sensor = sensor /\ t.function = AVG
             /\ t.start <= AccountSequence(k) /\ AccountSequence(k) <= t.end
      BY DEF Covered
    <3>2. t \in ToSet(Accepted(here))'
      BY <1>2 DEF ToSet
    <3> QED
      BY <1>1, <3>1, <3>2 DEF Covered, AccountSequence, AVG
  <2>2. ASSUME Young, losses = 0, NEW k \in DOMAIN logs[sensor],
               marks[1] <= AccountSequence(k), AccountSequence(k) <= marks[2]
        PROVE  Covered(here, sensor, k)'
    <3>1. Accepted(here)'[average] \in ToSet(Accepted(here))'
      BY DEF ToSet
    <3>2. /\ Accepted(here)'[average].function = AVG
          /\ Accepted(here)'[average].sensor = sensor
          /\ Accepted(here)'[average].run = runs
          /\ Accepted(here)'[average].start = marks[1]
          /\ Accepted(here)'[average].end = marks[2]
      BY <1>1, <1>12, <2>2 DEF IsAverage, AVG
    <3> QED
      BY <1>1, <2>2, <3>1, <3>2 DEF Covered, AccountSequence, AVG
  <2> SUFFICES ASSUME Young, losses = 0, NEW k \in DOMAIN logs[sensor],
                      logs[sensor][k] < currentLedger', logs[sensor][k] < lastLedger
               PROVE  Covered(here, sensor, k)'
    <3>1. /\ here = index' /\ sensor = sensor' /\ losses = losses'
      BY <1>1
    <3> QED
      BY <1>1, <3>1 DEF Covering, Young, Covered, AccountSequence
  <2>3. /\ here \in TimeAccount /\ Blocks[here] \in Nat /\ currentLedger \in Nat
        /\ logs[sensor][k] \in Nat
    <3>1. logs[sensor] \in Seq(Nat)
      BY DEF IInv, Types
    <3>2. currentLedger \in Nat
      BY DEF IInv, Types
    <3> QED
      BY <1>2, <3>1, <3>2, Constants, SMTT(30)
  <2>4. CASE logs[sensor][k] < currentLedger
    <3>1. Covered(here, sensor, k)
      BY <1>1, <2>4 DEF IInv, Covering
    <3> QED
      BY <2>1, <3>1
  <2>5. CASE currentLedger <= logs[sensor][k]
    <3>1. logs[sensor][k] < currentLedger + Blocks[here]
      BY <1>3, <2>3, <2>5
    <3>2. marks[1] <= AccountSequence(k) /\ AccountSequence(k) <= marks[2]
      BY <1>1, <2>5, <3>1 DEF IInv, Walk
    <3> QED
      BY <2>2, <3>2
  <2> QED
    BY <2>3, <2>4, <2>5
<1>15. YoungAccountsAreNotRefused'
  BY <1>1 DEF IInv, YoungAccountsAreNotRefused, Young
<1> QED
  BY <1>4, <1>5, <1>6, <1>7, <1>8, <1>10, <1>11, <1>13, <1>14, <1>15 DEF Parts

\* The request fails, with or without the message in the queue, and the program ends.
LEMMA SendFailsKeeps ==
  ASSUME IInv, SendFails
  PROVE  Types' /\ Parts'
<1>1. /\ At("send") /\ process' = "crashed" /\ pc' = "first"
      /\ firstLedger' = 0 /\ lastLedger' = 0 /\ currentLedger' = 0
      /\ marks' = <<0, 0>> /\ results' = <<0, 0, 0>> /\ function' = AVG
      /\ \/ UNCHANGED queued
         \/ /\ Message.seq = Expected(index)
            /\ queued' = [queued EXCEPT ![index] = Append(@, Message)]
      /\ UNCHANGED <<ledger, logs, runs, sensor, index, sequence, account, aggregates, losses>>
  BY DEF SendFails, LocalsEnd, network
<1>2. /\ queued' \in [TimeAccount -> Seq(Sent)]
      /\ Filed' /\ Averaged' /\ MarksAdjoin'
      /\ Young => \A a \in TimeAccount :
           /\ account'[a] = TimeStart + Len(aggregates'[a])
           /\ \A i \in DOMAIN Accepted(a)' : Accepted(a)'[i].seq = TimeStart + i
  <2>1. CASE UNCHANGED queued
    <3>1. runs' \in Nat /\ runs <= runs' /\ (losses' = 0 => losses = 0)
      BY <1>1 DEF IInv, Types
    <3>2. Filed' /\ Averaged' /\ MarksAdjoin'
      BY <1>1, <2>1, <3>1, HistoryKept
    <3>3. queued' \in [TimeAccount -> Seq(Sent)]
      BY <2>1 DEF IInv, Types
    <3>4. Young => \A a \in TimeAccount :
            /\ account'[a] = TimeStart + Len(aggregates'[a])
            /\ \A i \in DOMAIN Accepted(a)' : Accepted(a)'[i].seq = TimeStart + i
      BY <1>1, <2>1, SameAccepted DEF IInv, Numbered
    <3> QED
      BY <3>2, <3>3, <3>4
  <2>2. CASE /\ Message.seq = Expected(index)
             /\ queued' = [queued EXCEPT ![index] = Append(@, Message)]
    <3>1. queued' \in [TimeAccount -> Seq(Sent)]
      BY <1>1, <2>2, SentEffect
    <3> QED
      BY <1>1, <2>2, <3>1, SendHistory
  <2> QED
    BY <1>1, <2>1, <2>2
<1>3. Types'
  BY <1>1, <1>2 DEF IInv, Types, Outcome, Function, AVG
<1>4. Chronicle'
  BY <1>1 DEF IInv, Chronicle
<1>5. Walk'
  BY <1>1 DEF IInv, Types, Walk
<1>6. Numbered'
  BY <1>1, <1>2 DEF Numbered, Young
<1>7. InTurn'
  BY <1>1 DEF InTurn
<1>8. Adjoining' /\ Pending' /\ Covering'
  BY <1>1, BeforeIntervals
<1>9. YoungAccountsAreNotRefused'
  BY <1>1 DEF YoungAccountsAreNotRefused
<1> QED
  BY <1>2, <1>3, <1>4, <1>5, <1>6, <1>7, <1>8, <1>9 DEF Parts

-----------------------------------------------------------------------------
(***************************************************************************)
(* The sensors and the ledger.                                             *)
(***************************************************************************)

\* No sensor has more logs than all of them together.
LEMMA EachIsBounded ==
  ASSUME NEW m \in Nat, NEW d \in [1 .. m -> Nat], NEW bound \in Nat,
         Cardinality(UNION {{s} \X (1 .. d[s]) : s \in 1 .. m}) <= bound
  PROVE  \A s \in 1 .. m : d[s] <= bound
<1> DEFINE pairs(s) == {s} \X (1 .. d[s])
           parts == {pairs(s) : s \in 1 .. m}
           f == [s \in 1 .. m |-> pairs(s)]
<1>1. \A s \in 1 .. m : IsFiniteSet(pairs(s)) /\ Cardinality(pairs(s)) = d[s]
  <2> SUFFICES ASSUME NEW s \in 1 .. m
               PROVE  IsFiniteSet(pairs(s)) /\ Cardinality(pairs(s)) = d[s]
    OBVIOUS
  <2>1. IsFiniteSet({s}) /\ Cardinality({s}) = 1
    BY FS_Singleton
  <2>2. d[s] \in Nat /\ 1 \in Int /\ d[s] \in Int
    OBVIOUS
  <2>3. IsFiniteSet(1 .. d[s]) /\ Cardinality(1 .. d[s]) = d[s]
    <3> DEFINE e == d[s]
    <3>1. e \in Nat
      BY <2>2
    <3> HIDE DEF e
    <3>2. /\ IsFiniteSet(1 .. e)
          /\ Cardinality(1 .. e) = IF 1 > e THEN 0 ELSE e - 1 + 1
      BY <3>1, FS_Interval
    <3>3. Cardinality(1 .. e) = e
      BY <3>1, <3>2
    <3> QED
      BY <3>2, <3>3 DEF e
  <2>4. /\ IsFiniteSet({s} \X (1 .. d[s]))
        /\ Cardinality({s} \X (1 .. d[s])) = Cardinality({s}) * Cardinality(1 .. d[s])
    BY <2>1, <2>3, FS_Product
  <2>5. 1 * d[s] = d[s]
    BY <2>2
  <2> QED
    BY <2>1, <2>3, <2>4, <2>5
<1> HIDE DEF pairs
<1>2. IsFiniteSet(parts)
  <2>1. IsFiniteSet(1 .. m)
    BY FS_Interval
  <2>2. f \in [1 .. m -> parts] /\ \A t \in parts : \E s \in 1 .. m : f[s] = t
    OBVIOUS
  <2>3. f \in Surjection(1 .. m, parts)
    BY <2>2 DEF Surjection
  <2> HIDE DEF f, parts
  <2> QED
    BY <2>1, <2>3, FS_Surjection
<1>3. \A t \in parts : IsFiniteSet(t)
  BY <1>1
<1>4. IsFiniteSet(UNION parts)
  <2> HIDE DEF parts
  <2> QED
    BY <1>2, <1>3, FS_UNION
<1>5. Cardinality(UNION parts) <= bound
  BY DEF pairs
<1> TAKE s \in 1 .. m
<1>6. pairs(s) \in SUBSET (UNION parts)
  OBVIOUS
<1>7. Cardinality(pairs(s)) <= Cardinality(UNION parts) /\ Cardinality(UNION parts) \in Nat
  <2> HIDE DEF parts
  <2> QED
    BY <1>4, <1>6, FS_Subset, FS_CardinalityType
<1>8. Cardinality(pairs(s)) = d[s] /\ d[s] \in Nat
  BY <1>1
<1> HIDE DEF parts
<1> QED
  BY <1>5, <1>7, <1>8

\* The ledger that closes is on the new logs, and the old ones stay.
LEMMA CloseEffect ==
  ASSUME IInv, CloseLedger
  PROVE  /\ ledger' = ledger + 1 /\ ledger \in Nat
         /\ logs' \in [Sensor -> Seq(Nat)]
         /\ UNCHANGED <<process, runs, pc, sensor, index, firstLedger, lastLedger,
                        currentLedger, marks, results, function, sequence, queued,
                        account, aggregates, losses>>
         /\ \A s \in Sensor :
              /\ Len(logs[s]) \in Nat /\ Len(logs'[s]) \in Nat
              /\ Len(logs[s]) <= Len(logs'[s]) /\ Len(logs'[s]) <= MaxLogs
              /\ DOMAIN logs[s] = 1 .. Len(logs[s]) /\ DOMAIN logs'[s] = 1 .. Len(logs'[s])
              /\ \A k \in DOMAIN logs[s] :
                   k \in DOMAIN logs'[s] /\ logs'[s][k] = logs[s][k] /\ logs[s][k] \in Nat
              /\ \A k \in DOMAIN logs'[s] : k \notin DOMAIN logs[s] =>
                   k > Len(logs[s]) /\ logs'[s][k] = ledger + 1
<1>1. PICK n \in [Sensor -> 0 .. 2] :
         logs' = [s \in Sensor |-> logs[s] \o [k \in 1 .. n[s] |-> ledger + 1]]
  BY DEF CloseLedger
<1>2. ledger' = ledger + 1 /\ ledger \in Nat /\ logs \in [Sensor -> Seq(Nat)]
      /\ Cardinality(AllLogs') <= MaxLogs
  BY DEF CloseLedger, IInv, Types
<1>3. \A s \in Sensor :
        /\ logs'[s] \in Seq(Nat)
        /\ Len(logs[s]) \in Nat /\ n[s] \in Nat /\ Len(logs'[s]) = Len(logs[s]) + n[s]
        /\ \A k \in 1 .. Len(logs[s]) : logs'[s][k] = logs[s][k] /\ logs[s][k] \in Nat
        /\ \A k \in Len(logs[s]) + 1 .. Len(logs'[s]) : logs'[s][k] = ledger + 1
  <2> TAKE s \in Sensor
  <2> DEFINE old == logs[s]
             new == [k \in 1 .. n[s] |-> ledger + 1]
  <2>5. logs'[s] = old \o new
    BY <1>1
  <2>1. old \in Seq(Nat) /\ n[s] \in Nat /\ ledger + 1 \in Nat
    BY <1>2
  <2>2. new \in Seq(Nat) /\ Len(new) = n[s] /\ \A k \in 1 .. n[s] : new[k] = ledger + 1
    BY <2>1
  <2>3. old \o new \in Seq(Nat) /\ Len(old) \in Nat /\ Len(old \o new) = Len(old) + n[s]
        /\ \A k \in 1 .. Len(old) : (old \o new)[k] = old[k] /\ old[k] \in Nat
    BY <2>1, <2>2
  <2>4. \A k \in Len(old) + 1 .. Len(old) + n[s] :
           (old \o new)[k] = new[k - Len(old)] /\ k - Len(old) \in 1 .. n[s]
    BY <2>1, <2>2
  <2> HIDE DEF new
  <2> QED
    BY <2>1, <2>2, <2>3, <2>4, <2>5
<1>4. \A s \in Sensor : DOMAIN logs[s] = 1 .. Len(logs[s]) /\ DOMAIN logs'[s] = 1 .. Len(logs'[s])
  BY <1>2, <1>3
<1>5. logs' \in [Sensor -> Seq(Nat)]
  BY <1>1, <1>3
<1>6. \A s \in Sensor : Len(logs'[s]) <= MaxLogs
  <2> DEFINE d == [s \in 1 .. NumSensors |-> Len(logs'[s])]
  <2>1. d \in [1 .. NumSensors -> Nat] /\ NumSensors \in Nat /\ MaxLogs \in Nat
    BY <1>3, Constants DEF Sensor
  <2>2. AllLogs' = UNION {{s} \X (1 .. d[s]) : s \in 1 .. NumSensors}
    <3>1. AllLogs' = UNION {{s} \X DOMAIN logs'[s] : s \in Sensor}
      BY DEF AllLogs
    <3>2. \A s \in 1 .. NumSensors : DOMAIN logs'[s] = 1 .. d[s]
      BY <1>4 DEF Sensor
    <3> HIDE DEF d
    <3> QED
      BY <3>1, <3>2 DEF Sensor
  <2> HIDE DEF d
  <2>3. \A s \in 1 .. NumSensors : d[s] <= MaxLogs
    BY <1>2, <2>1, <2>2, EachIsBounded
  <2> QED
    BY <2>3 DEF d, Sensor
<1>7. UNCHANGED <<process, runs, pc, sensor, index, firstLedger, lastLedger,
                  currentLedger, marks, results, function, sequence, queued,
                  account, aggregates, losses>>
  BY DEF CloseLedger, loop, network
<1>8. \A s \in Sensor : Len(logs'[s]) \in Nat /\ Len(logs[s]) <= Len(logs'[s])
  BY <1>3
<1>9. \A s \in Sensor :
        /\ \A k \in DOMAIN logs[s] :
             k \in DOMAIN logs'[s] /\ logs'[s][k] = logs[s][k] /\ logs[s][k] \in Nat
        /\ \A k \in DOMAIN logs'[s] : k \notin DOMAIN logs[s] =>
             k > Len(logs[s]) /\ logs'[s][k] = ledger + 1
  <2> TAKE s \in Sensor
  <2>1. \A k \in DOMAIN logs[s] :
          k \in DOMAIN logs'[s] /\ logs'[s][k] = logs[s][k] /\ logs[s][k] \in Nat
    <3>1. \A k \in 1 .. Len(logs[s]) : k \in 1 .. Len(logs'[s])
      BY <1>3, <1>8
    <3> QED
      BY <1>3, <1>4, <3>1
  <2>2. \A k \in 1 .. Len(logs'[s]) : k \notin 1 .. Len(logs[s]) =>
          k > Len(logs[s]) /\ k \in Len(logs[s]) + 1 .. Len(logs'[s])
    BY <1>3, <1>8
  <2>3. \A k \in DOMAIN logs'[s] : k \notin DOMAIN logs[s] =>
          k > Len(logs[s]) /\ logs'[s][k] = ledger + 1
    BY <1>3, <1>4, <2>2
  <2> QED
    BY <2>1, <2>3
<1> QED
  BY <1>2, <1>3, <1>4, <1>5, <1>6, <1>7, <1>8, <1>9

\* New logs lie behind all that the aggregator has read and sent.
LEMMA CloseLedgerKeeps ==
  ASSUME IInv, CloseLedger
  PROVE  Types' /\ Parts'
<1>1. /\ ledger' = ledger + 1 /\ ledger \in Nat
      /\ logs' \in [Sensor -> Seq(Nat)]
      /\ UNCHANGED <<process, runs, pc, sensor, index, firstLedger, lastLedger,
                     currentLedger, marks, results, function, sequence, queued,
                     account, aggregates, losses>>
  BY CloseEffect
<1>2. \A s \in Sensor :
        /\ Len(logs[s]) \in Nat /\ Len(logs'[s]) \in Nat
        /\ Len(logs[s]) <= Len(logs'[s]) /\ Len(logs'[s]) <= MaxLogs
        /\ DOMAIN logs[s] = 1 .. Len(logs[s]) /\ DOMAIN logs'[s] = 1 .. Len(logs'[s])
        /\ \A k \in DOMAIN logs[s] :
             k \in DOMAIN logs'[s] /\ logs'[s][k] = logs[s][k] /\ logs[s][k] \in Nat
        /\ \A k \in DOMAIN logs'[s] : k \notin DOMAIN logs[s] =>
             k > Len(logs[s]) /\ logs'[s][k] = ledger + 1
  BY CloseEffect
<1>3. /\ sensor \in Sensor /\ index \in TimeAccount /\ lastLedger \in Nat
      /\ currentLedger \in Nat /\ marks[1] \in Nat /\ marks[2] \in Nat
      /\ SensorStart \in Nat /\ lastLedger <= ledger
  BY Constants DEF IInv, Types, Walk
<1>4. Types'
  BY <1>1 DEF IInv, Types
<1>5. Chronicle'
  <2> SUFFICES ASSUME NEW s \in Sensor
               PROVE  /\ Len(logs'[s]) <= MaxLogs
                      /\ \A k \in DOMAIN logs'[s] : logs'[s][k] <= ledger + 1
                      /\ \A j, k \in DOMAIN logs'[s] : j <= k => logs'[s][j] <= logs'[s][k]
    BY <1>1 DEF Chronicle
  <2>1. /\ \A k \in DOMAIN logs[s] : logs[s][k] <= ledger
        /\ \A j, k \in DOMAIN logs[s] : j <= k => logs[s][j] <= logs[s][k]
    BY DEF IInv, Chronicle
  <2>2. \A k \in DOMAIN logs'[s] : logs'[s][k] <= ledger + 1
    <3> TAKE k \in DOMAIN logs'[s]
    <3>1. ledger \in Nat
      BY <1>1
    <3>2. CASE k \in DOMAIN logs[s]
      <4>1. logs'[s][k] = logs[s][k] /\ logs[s][k] \in Nat /\ logs[s][k] <= ledger
        BY <1>2, <2>1, <3>2
      <4> QED
        BY <3>1, <4>1
    <3>3. CASE k \notin DOMAIN logs[s]
      <4>1. logs'[s][k] = ledger + 1
        BY <1>2, <3>3
      <4> QED
        BY <3>1, <4>1
    <3> QED
      BY <3>2, <3>3
  <2>3. ASSUME NEW j \in DOMAIN logs'[s], NEW k \in DOMAIN logs'[s], j <= k
        PROVE  logs'[s][j] <= logs'[s][k]
    <3>1. CASE k \in DOMAIN logs[s]
      <4>1. j \in DOMAIN logs[s]
        BY <1>2, <2>3, <3>1
      <4> QED
        BY <1>2, <2>1, <2>3, <3>1, <4>1
    <3>2. CASE k \notin DOMAIN logs[s]
      <4>1. logs'[s][k] = ledger + 1
        BY <1>2, <3>2
      <4> QED
        BY <2>2, <4>1
    <3> QED
      BY <3>1, <3>2
  <2> QED
    BY <1>2, <2>2, <2>3
<1>6. Walk'
  <2>1. pc # "first" => logs'[sensor] # <<>> /\ firstLedger = logs'[sensor][1]
    <3> SUFFICES ASSUME pc # "first"
                 PROVE  logs'[sensor] # <<>> /\ firstLedger = logs'[sensor][1]
      OBVIOUS
    <3>1. logs[sensor] # <<>> /\ firstLedger = logs[sensor][1]
      BY DEF IInv, Walk
    <3>2. logs[sensor] \in Seq(Nat)
      BY <1>3 DEF IInv, Types
    <3>3. 1 \in DOMAIN logs[sensor]
      BY <3>1, <3>2
    <3> QED
      BY <1>2, <1>3, <3>1, <3>3
  <2>2. lastLedger' <= ledger'
    BY <1>1, <1>3
  <2>3. pc = "send" =>
          /\ currentLedger < lastLedger
          /\ marks[1] \in SensorStart + 1 .. marks[2]
          /\ marks[2] <= SensorStart + Len(logs'[sensor])
          /\ \A k \in DOMAIN logs'[sensor] :
               LET log == logs'[sensor][k]
                   marked == marks[1] <= SensorStart + k /\ SensorStart + k <= marks[2]
                   inside == currentLedger <= log /\ log < currentLedger + Blocks[index]
               IN  (marked => inside) /\ (inside /\ log < lastLedger => marked)
    <3> SUFFICES ASSUME pc = "send"
                 PROVE  /\ currentLedger < lastLedger
                        /\ marks[1] \in SensorStart + 1 .. marks[2]
                        /\ marks[2] <= SensorStart + Len(logs'[sensor])
                        /\ \A k \in DOMAIN logs'[sensor] :
                             LET log == logs'[sensor][k]
                                 marked == /\ marks[1] <= SensorStart + k
                                           /\ SensorStart + k <= marks[2]
                                 inside == /\ currentLedger <= log
                                           /\ log < currentLedger + Blocks[index]
                             IN  (marked => inside) /\ (inside /\ log < lastLedger => marked)
      OBVIOUS
    <3>1. /\ currentLedger < lastLedger
          /\ marks[1] \in SensorStart + 1 .. marks[2]
          /\ marks[2] <= SensorStart + Len(logs[sensor])
          /\ \A k \in DOMAIN logs[sensor] :
               LET log == logs[sensor][k]
                   marked == marks[1] <= SensorStart + k /\ SensorStart + k <= marks[2]
                   inside == currentLedger <= log /\ log < currentLedger + Blocks[index]
               IN  (marked => inside) /\ (inside /\ log < lastLedger => marked)
      BY DEF IInv, Walk, AccountSequence
    <3>2. marks[2] <= SensorStart + Len(logs'[sensor])
      BY <1>2, <1>3, <3>1, SMTT(30)
    <3>3. ASSUME NEW k \in DOMAIN logs'[sensor], k \notin DOMAIN logs[sensor]
          PROVE  ~(SensorStart + k <= marks[2]) /\ ~(logs'[sensor][k] < lastLedger)
      <4>1. k > Len(logs[sensor]) /\ logs'[sensor][k] = ledger + 1 /\ k \in Nat
            /\ Len(logs[sensor]) \in Nat
        BY <1>2, <1>3, <3>3
      <4> QED
        BY <1>1, <1>3, <3>1, <4>1, SMTT(30)
    <3>4. \A k \in DOMAIN logs[sensor] : logs'[sensor][k] = logs[sensor][k]
      BY <1>2, <1>3
    <3> QED
      BY <3>1, <3>2, <3>3, <3>4
  <2>4. /\ process' # "running" => pc' = "first"
        /\ pc' \in {"interval", "send"} =>
             \E n \in Nat : currentLedger' = firstLedger' + n * Blocks[index']
    BY <1>1 DEF IInv, Walk
  <2> QED
    BY <1>1, <2>1, <2>2, <2>3, <2>4 DEF Walk, AccountSequence
<1>7. Filed'
  <2> SUFFICES ASSUME NEW a \in TimeAccount, NEW i \in DOMAIN Accepted(a),
                      NEW tx, tx = Accepted(a)[i]
               PROVE  tx.run <= runs /\ InOneInterval(a, tx.sensor, tx.start, tx.end)'
    BY <1>1, SameAccepted DEF Filed
  <2>1. /\ tx.run <= runs /\ InOneInterval(a, tx.sensor, tx.start, tx.end)
        /\ tx.sensor \in Sensor /\ tx.start \in Nat /\ tx.end \in Nat
    BY Fields DEF IInv, Filed
  <2>2. PICK n \in Nat : \A k \in tx.start - SensorStart .. tx.end - SensorStart :
           /\ logs[tx.sensor][1] + n * Blocks[a] <= logs[tx.sensor][k]
           /\ logs[tx.sensor][k] < logs[tx.sensor][1] + n * Blocks[a] + Blocks[a]
    BY <2>1 DEF InOneInterval
  <2>3. tx.start \in SensorStart + 1 .. tx.end /\ tx.end <= SensorStart + Len(logs[tx.sensor])
    BY <2>1 DEF InOneInterval
  <2>4. 1 \in DOMAIN logs[tx.sensor]
        /\ \A k \in tx.start - SensorStart .. tx.end - SensorStart : k \in DOMAIN logs[tx.sensor]
    <3>1. /\ Len(logs[tx.sensor]) \in Nat
          /\ DOMAIN logs[tx.sensor] = 1 .. Len(logs[tx.sensor])
      BY <1>2, <2>1
    <3>2. SensorStart \in Nat
      BY <1>3
    <3> QED
      BY <2>1, <2>3, <3>1, <3>2
  <2>5. \A k \in DOMAIN logs[tx.sensor] : logs'[tx.sensor][k] = logs[tx.sensor][k]
    BY <1>2, <2>1
  <2>6. \A k \in tx.start - SensorStart .. tx.end - SensorStart :
           /\ logs'[tx.sensor][1] + n * Blocks[a] <= logs'[tx.sensor][k]
           /\ logs'[tx.sensor][k] < logs'[tx.sensor][1] + n * Blocks[a] + Blocks[a]
    BY <2>2, <2>4, <2>5
  <2>7. tx.end <= SensorStart + Len(logs'[tx.sensor])
    BY <1>2, <1>3, <2>1, <2>3
  <2> QED
    BY <2>1, <2>3, <2>6, <2>7 DEF InOneInterval
<1>8. Numbered'
  BY <1>1, SameAccepted DEF IInv, Numbered, Young
<1>9. InTurn'
  BY <1>1, SameAccepted DEF IInv, InTurn
<1>10. Adjoining'
  <2> SUFFICES ASSUME Young, losses = 0, NEW i \in DOMAIN Accepted(index), Previous(i),
                      NEW t, t = Accepted(index)[i]
               PROVE  /\ At("interval") /\ currentLedger < lastLedger =>
                           \A k \in DOMAIN logs'[sensor] :
                             logs'[sensor][k] < currentLedger <=> SensorStart + k <= t.end
                      /\ At("send") => t.end = IF function = AVG THEN marks[1] - 1 ELSE marks[2]
    <3>1. \A i \in DOMAIN Accepted(index) : Previous(i)' <=> Previous(i)
      BY <1>1, SameAccepted DEF Previous
    <3> QED
      BY <1>1, <3>1, SameAccepted DEF Adjoining, At, Young, AccountSequence
  <2>1. /\ At("interval") /\ currentLedger < lastLedger =>
             \A k \in DOMAIN logs[sensor] :
               logs[sensor][k] < currentLedger <=> SensorStart + k <= t.end
        /\ At("send") => t.end = IF function = AVG THEN marks[1] - 1 ELSE marks[2]
    BY DEF IInv, Adjoining, AccountSequence
  <2>2. t.end <= SensorStart + Len(logs[sensor]) /\ t.end \in Nat
    <3>1. InOneInterval(index, t.sensor, t.start, t.end) /\ t.end \in Nat
      BY <1>3, Fields DEF IInv, Filed
    <3>2. t.sensor = sensor
      BY DEF Previous, IsAverage
    <3> QED
      BY <3>1, <3>2 DEF InOneInterval
  <2>3. ASSUME currentLedger < lastLedger,
               NEW k \in DOMAIN logs'[sensor], k \notin DOMAIN logs[sensor]
        PROVE  ~(SensorStart + k <= t.end) /\ ~(logs'[sensor][k] < currentLedger)
    <3>1. k > Len(logs[sensor]) /\ logs'[sensor][k] = ledger + 1 /\ k \in Nat
          /\ Len(logs[sensor]) \in Nat
      BY <1>2, <1>3, <2>3
    <3>2. ledger \in Nat /\ currentLedger \in Nat /\ lastLedger \in Nat
          /\ lastLedger <= ledger /\ SensorStart \in Nat
      BY <1>1, <1>3
    <3> QED
      BY <2>2, <2>3, <3>1, <3>2
  <2>4. \A k \in DOMAIN logs[sensor] : logs'[sensor][k] = logs[sensor][k]
    BY <1>2, <1>3
  <2> QED
    BY <2>1, <2>3, <2>4
<1>11. Pending'
  BY <1>1, SameAccepted DEF IInv, Pending, Young, At
<1>12. Averaged' /\ MarksAdjoin'
  <2>1. Averaged'
    BY <1>1, SameAccepted DEF IInv, Averaged, Young
  <2>2. MarksAdjoin'
    BY <1>1, SameAccepted DEF IInv, MarksAdjoin, Young
  <2> QED
    BY <2>1, <2>2
<1>13. Covering'
  <2> SUFFICES ASSUME Young, losses = 0, process = "running", pc \in {"interval", "send"},
                      NEW k \in DOMAIN logs'[sensor],
                      logs'[sensor][k] < currentLedger, logs'[sensor][k] < lastLedger
               PROVE  Covered(index, sensor, k)'
    BY <1>1 DEF Covering, Young, Covered, AccountSequence
  <2>1. k \in DOMAIN logs[sensor] /\ logs'[sensor][k] = logs[sensor][k]
    <3>1. k \notin DOMAIN logs[sensor] => logs'[sensor][k] = ledger + 1
      BY <1>2, <1>3
    <3>2. ledger \in Nat
      BY <1>1
    <3>3. k \in DOMAIN logs[sensor]
      BY <1>3, <3>1, <3>2
    <3> QED
      BY <1>2, <1>3, <3>3
  <2>2. Covered(index, sensor, k)
    BY <2>1 DEF IInv, Covering
  <2> QED
    BY <1>1, <2>2, SameAccepted DEF Covered
<1>14. YoungAccountsAreNotRefused'
  BY <1>1 DEF IInv, YoungAccountsAreNotRefused, Young
<1> QED
  BY <1>4, <1>5, <1>6, <1>7, <1>8, <1>9, <1>10, <1>11, <1>12, <1>13, <1>14 DEF Parts

\* The ledger applies a transaction; of a young account it drops none and bumps nothing.
LEMMA ApplyKeeps ==
  ASSUME IInv, NEW a \in TimeAccount, Apply(a)
  PROVE  Types' /\ Parts'
<1>1. /\ queued' \in [TimeAccount -> Seq(Sent)]
      /\ account' \in [TimeAccount -> Nat]
      /\ aggregates' \in [TimeAccount -> Seq(Sent)]
      /\ \A b \in TimeAccount : b # a => /\ Accepted(b)' = Accepted(b)
                                         /\ account'[b] = account[b]
                                         /\ aggregates'[b] = aggregates[b]
      /\ \A b \in TimeAccount : \A i \in DOMAIN Accepted(b)' :
           \E j \in DOMAIN Accepted(b) : Accepted(b)'[i] = Accepted(b)[j]
  BY ApplyEffect DEF IInv
<1>2. UNCHANGED <<ledger, logs, process, runs, pc, sensor, index, firstLedger, lastLedger,
                  currentLedger, marks, results, function, sequence, losses>>
  BY DEF Apply, loop
<1>3. Young => /\ \A b \in TimeAccount : Accepted(b)' = Accepted(b)
               /\ \A b \in TimeAccount : account'[b] = TimeStart + Len(aggregates'[b])
  <2> SUFFICES ASSUME Young
               PROVE  /\ Accepted(a)' = Accepted(a)
                      /\ account'[a] = TimeStart + Len(aggregates'[a])
    BY <1>1 DEF IInv, Numbered
  <2> DEFINE i == Len(aggregates[a]) + 1
             tx == Accepted(a)[i]
  <2>1. /\ i \in DOMAIN Accepted(a)
        /\ tx.seq = account[a] + 1 =>
             /\ Accepted(a)' = Accepted(a)
             /\ Len(aggregates'[a]) = i
             /\ account'[a] = Max({tx.seq, tx.start, tx.end})
    BY ApplyEffect DEF IInv
  <2>2. Len(aggregates[a]) \in Nat /\ TimeStart \in Nat
    BY AcceptedType, Constants DEF IInv
  <2>3. tx.seq = TimeStart + i /\ account[a] = TimeStart + Len(aggregates[a])
    BY <2>1 DEF IInv, Numbered
  <2>4. tx.seq = account[a] + 1
    BY <2>2, <2>3
  <2>5. /\ tx.sensor \in Sensor /\ tx.start \in Nat /\ tx.end \in Nat /\ tx.seq \in Nat
        /\ InOneInterval(a, tx.sensor, tx.start, tx.end)
    BY <2>1, Fields DEF IInv, Filed
  <2> HIDE DEF tx
  <2>6. /\ tx.start \in SensorStart + 1 .. tx.end
        /\ tx.end <= SensorStart + Len(logs[tx.sensor])
    BY <2>5 DEF InOneInterval
  <2>7. Len(logs[tx.sensor]) <= MaxLogs /\ Len(logs[tx.sensor]) \in Nat
        /\ SensorStart \in Nat /\ MaxLogs \in Nat /\ TimeStart > SensorStart + MaxLogs
    BY <2>5, Constants DEF IInv, Types, Chronicle, Young
  <2>8. tx.start <= tx.seq /\ tx.end <= tx.seq
    BY <2>2, <2>3, <2>5, <2>6, <2>7
  <2>9. Max({tx.seq, tx.start, tx.end}) = tx.seq
    BY <2>5, <2>8, Largest
  <2> QED
    BY <2>1, <2>3, <2>4, <2>9
<1>4. Young => /\ \A b \in TimeAccount : DOMAIN Accepted(b)' = DOMAIN Accepted(b)
               /\ \A b \in TimeAccount : \A i, s, run :
                    IsAverage(b, i, s, run)' <=> IsAverage(b, i, s, run)
  BY <1>3 DEF IsAverage
<1>5. index \in TimeAccount
  BY DEF IInv, Types
<1>6. Types'
  BY <1>1, <1>2 DEF IInv, Types
<1>7. Chronicle'
  BY <1>2 DEF IInv, Chronicle
<1>8. Walk'
  BY <1>2 DEF IInv, Walk, AccountSequence
<1>9. Filed'
  <2> SUFFICES ASSUME NEW b \in TimeAccount, NEW i \in DOMAIN Accepted(b)',
                      NEW t, t = Accepted(b)'[i]
               PROVE  t.run <= runs /\ InOneInterval(b, t.sensor, t.start, t.end)'
    BY <1>2 DEF Filed
  <2>1. PICK j \in DOMAIN Accepted(b) : t = Accepted(b)[j]
    BY <1>1
  <2>2. t.run <= runs /\ InOneInterval(b, t.sensor, t.start, t.end)
    BY <2>1 DEF IInv, Filed
  <2> QED
    BY <1>2, <2>2 DEF InOneInterval
<1>10. Numbered'
  BY <1>2, <1>3, <1>4 DEF IInv, Numbered, Young
<1>11. InTurn'
  <2> SUFFICES ASSUME process = "running", NEW b \in TimeAccount,
                      NEW i \in DOMAIN Accepted(b)',
                      NEW t, t = Accepted(b)'[i], t.run = runs
               PROVE  \/ t.sensor < sensor
                      \/ t.sensor = sensor /\ b < index
                      \/ t.sensor = sensor /\ b = index /\ pc \in {"interval", "send"}
    BY <1>2 DEF InTurn
  <2>1. PICK j \in DOMAIN Accepted(b) : t = Accepted(b)[j]
    BY <1>1
  <2>2. InTurn
    BY DEF IInv
  <2> QED
    BY <2>1, <2>2 DEF InTurn
<1>12. Adjoining'
  <2> SUFFICES ASSUME Young, losses = 0 PROVE Adjoining'
    BY <1>2 DEF Adjoining, Young
  <2>1. \A i \in DOMAIN Accepted(index) : Previous(i)' <=> Previous(i)
    BY <1>2, <1>4, <1>5 DEF Previous
  <2> QED
    BY <1>2, <1>3, <1>4, <1>5, <2>1 DEF IInv, Adjoining, At, AccountSequence
<1>13. Pending'
  <2> SUFFICES ASSUME Young, losses = 0 PROVE Pending'
    BY <1>2 DEF Pending, Young
  <2> QED
    BY <1>2, <1>3, <1>4, <1>5 DEF IInv, Pending, At
<1>14. Averaged' /\ MarksAdjoin'
  <2> SUFFICES ASSUME Young, losses = 0 PROVE Averaged' /\ MarksAdjoin'
    BY <1>2 DEF Averaged, MarksAdjoin, Young
  <2>1. Averaged'
    BY <1>3, <1>4 DEF IInv, Averaged
  <2>2. MarksAdjoin'
    BY <1>3, <1>4 DEF IInv, MarksAdjoin
  <2> QED
    BY <2>1, <2>2
<1>15. Covering'
  <2> SUFFICES ASSUME Young, losses = 0 PROVE Covering'
    BY <1>2 DEF Covering, Young
  <2>1. \A k : Covered(index, sensor, k)' <=> Covered(index, sensor, k)
    BY <1>2, <1>3, <1>5 DEF Covered, AccountSequence
  <2> QED
    BY <1>2, <2>1 DEF IInv, Covering
<1>16. YoungAccountsAreNotRefused'
  BY <1>2 DEF IInv, YoungAccountsAreNotRefused, Young
<1> QED
  BY <1>6, <1>7, <1>8, <1>9, <1>10, <1>11, <1>12, <1>13, <1>14, <1>15, <1>16 DEF Parts

-----------------------------------------------------------------------------
(***************************************************************************)
(* The inductive invariant holds in every state.                           *)
(***************************************************************************)

\* Nothing is sent and nothing is logged in the beginning.
LEMMA IInvInit == Init => IInv
<1> SUFFICES ASSUME Init PROVE IInv
  OBVIOUS
<1>1. Types
  BY Constants DEF Init, Types, Outcome, Function, AVG
<1>2. \A a \in TimeAccount : DOMAIN Accepted(a) = {}
  <2> TAKE a \in TimeAccount
  <2>1. aggregates[a] = <<>> /\ queued[a] = <<>>
    BY DEF Init
  <2>2. Len(Accepted(a)) = 0
    <3>1. Len(aggregates[a]) = 0 /\ Len(queued[a]) = 0
      BY <2>1
    <3>2. Len(Accepted(a)) = Len(aggregates[a]) + Len(queued[a])
      BY <1>1, AcceptedType
    <3> QED
      BY <3>1, <3>2
  <2> QED
    BY <1>1, <2>2, AcceptedType
<1>3. 1 \in TimeAccount /\ index = 1 /\ process = "running" /\ pc = "first"
      /\ \A s \in Sensor : logs[s] = <<>>
  BY Constants DEF Init
<1>4. Chronicle
  <2>1. Len(<<>>) = 0 /\ DOMAIN <<>> = {}
    OBVIOUS
  <2> QED
    BY <1>3, <2>1, Constants DEF Chronicle
<1>5. Walk
  BY <1>3 DEF Init, Walk
<1>6. Filed /\ InTurn /\ Averaged
  BY <1>2 DEF Filed, InTurn, Averaged
<1>7. Numbered
  <2> SUFFICES ASSUME NEW a \in TimeAccount
               PROVE  /\ account[a] = TimeStart + Len(aggregates[a])
                      /\ sequence[a] = TimeStart + Len(Accepted(a))
    BY <1>2 DEF Numbered
  <2>1. /\ account[a] = TimeStart /\ sequence[a] = TimeStart
        /\ aggregates[a] = <<>> /\ queued[a] = <<>> /\ TimeStart \in Nat
    BY Constants DEF Init
  <2>2. Len(aggregates[a]) = 0 /\ Len(queued[a]) = 0
    BY <2>1
  <2>3. Len(Accepted(a)) = Len(aggregates[a]) + Len(queued[a])
    BY <1>1, AcceptedType
  <2> QED
    BY <2>1, <2>2, <2>3
<1>8. Adjoining /\ Pending /\ Covering
  BY <1>3 DEF Adjoining, Pending, Covering, At
<1>9. MarksAdjoin
  BY <1>2 DEF MarksAdjoin
<1>10. YoungAccountsAreNotRefused
  BY <1>3 DEF YoungAccountsAreNotRefused
<1> QED
  BY <1>1, <1>4, <1>5, <1>6, <1>7, <1>8, <1>9, <1>10 DEF IInv

\* A step that changes nothing.
LEMMA StutterKeeps ==
  ASSUME IInv, UNCHANGED vars
  PROVE  Types' /\ Parts'
<1>1. UNCHANGED <<ledger, logs, process, runs, pc, sensor, index, firstLedger, lastLedger,
                  currentLedger, marks, results, function, sequence, queued,
                  account, aggregates, losses>>
  BY DEF vars, loop, network
<1>2. Types' /\ Chronicle' /\ Walk'
  BY <1>1 DEF IInv, Types, Chronicle, Walk, AccountSequence
<1>3. Filed' /\ Averaged' /\ MarksAdjoin'
  <2>1. runs' \in Nat /\ runs <= runs' /\ (losses' = 0 => losses = 0)
    BY <1>1 DEF IInv, Types
  <2> QED
    BY <1>1, <2>1, HistoryKept
<1>4. Numbered' /\ InTurn'
  BY <1>1, SameAccepted DEF IInv, Numbered, InTurn, Young
<1>5. Adjoining'
  <2>1. \A i \in DOMAIN Accepted(index) : Previous(i)' <=> Previous(i)
    BY <1>1, SameAccepted DEF Previous
  <2> QED
    BY <1>1, <2>1, SameAccepted DEF IInv, Adjoining, At, Young, AccountSequence
<1>6. Pending' /\ Covering'
  BY <1>1, SameAccepted DEF IInv, Pending, Covering, At, Young
<1>7. YoungAccountsAreNotRefused'
  BY <1>1 DEF IInv, YoungAccountsAreNotRefused, Young
<1> QED
  BY <1>2, <1>3, <1>4, <1>5, <1>6, <1>7 DEF Parts

\* Every step of the aggregator, of the sensors and of the ledger keeps it.
LEMMA IInvStep == IInv /\ [Next]_vars => IInv'
<1> SUFFICES ASSUME IInv, [Next]_vars PROVE Types' /\ Parts'
  BY DEF IInv, Parts
<1>1. CASE Aggregator
  <2>1. CASE ReadFirst
    BY <2>1, ReadFirstKeeps
  <2>2. CASE ReadLast
    BY <2>2, ReadLastKeeps
  <2>3. CASE CalculateFunctionsForLedgers
    BY <2>3, GapKeeps, IntervalKeeps
  <2>4. CASE EndOfIntervals
    BY <2>4, EndKeeps
  <2>5. CASE SendTransaction
    BY <2>5, SendKeeps
  <2>6. CASE Refused
    BY <2>6, RefusedKeeps
  <2> QED
    BY <1>1, <2>1, <2>2, <2>3, <2>4, <2>5, <2>6 DEF Aggregator
<1>2. CASE TryAgainLater
  BY <1>2, TryAgainLaterKeeps
<1>3. CASE SendFails
  BY <1>3, SendFailsKeeps
<1>4. CASE Restart
  BY <1>4, RestartKeeps
<1>5. CASE CloseLedger
  BY <1>5, CloseLedgerKeeps
<1>6. ASSUME NEW a \in TimeAccount, Apply(a) PROVE Types' /\ Parts'
  BY <1>6, ApplyKeeps
<1>7. CASE UNCHANGED vars
  BY <1>7, StutterKeeps
<1> QED
  BY <1>1, <1>2, <1>3, <1>4, <1>5, <1>6, <1>7 DEF Next

\* The parts of the invariant hold in every state of the aggregator, whichever ledgers
\* close, whichever messages are lost or fail, and however often it is started.
THEOREM Invariance == Spec => []IInv
<1> QED
  BY IInvInit, IInvStep, PTL DEF Spec

-----------------------------------------------------------------------------
(***************************************************************************)
(* What the runs check of the aggregator.                                  *)
(***************************************************************************)

\* One run covers the logs of a sensor without a gap and without an overlap, for
\* accounts younger than the logs and without lost messages (aggregator.go:368-371).
THEOREM AdjoinCorrect == Spec => []MarksAdjoin
<1>1. IInv => MarksAdjoin
  BY DEF IInv
<1> QED
  BY <1>1, Invariance, PTL

\* Core refuses no transaction of the first run to an account younger than the logs,
\* so counting the sequence number locally is right (aggregator.go:354).
THEOREM NotRefusedCorrect == Spec => []YoungAccountsAreNotRefused
<1>1. IInv => YoungAccountsAreNotRefused
  BY DEF IInv
<1> QED
  BY <1>1, Invariance, PTL

\* When the loop over the intervals ends, every log before the last ledger it read is
\* in an average of this run (main.go:135).
THEOREM CoversCorrect == Spec => []CoversBeforeTheLastLedger
<1>1. IInv => CoversBeforeTheLastLedger
  <2> SUFFICES ASSUME IInv, Young, losses = 0, At("interval"), currentLedger >= lastLedger,
                      NEW k \in DOMAIN logs[sensor], logs[sensor][k] < lastLedger
               PROVE  Covered(index, sensor, k)
    BY DEF CoversBeforeTheLastLedger
  <2>1. logs[sensor][k] \in Nat /\ currentLedger \in Nat /\ lastLedger \in Nat
    BY DEF IInv, Types
  <2>2. logs[sensor][k] < currentLedger
    BY <2>1
  <2> QED
    BY <2>2 DEF IInv, Covering, At
<1> QED
  BY <1>1, Invariance, PTL

\* A minimum or a maximum of a young account is never on the ledger without the average
\* of the same interval before it, whatever fails and is started again (main.go:143).
THEOREM AverageFirstCorrect == Spec => []AverageComesFirst
<1>1. IInv => AverageComesFirst
  <2> SUFFICES ASSUME IInv, Young, losses = 0, NEW a \in TimeAccount,
                      NEW i \in DOMAIN aggregates[a], aggregates[a][i].function # AVG
               PROVE  \E average \in ToSet(SubSeq(aggregates[a], 1, i - 1)) :
                        /\ average.function = AVG
                        /\ <<average.run, average.sensor, average.start, average.end>>
                             = <<aggregates[a][i].run, aggregates[a][i].sensor,
                                 aggregates[a][i].start, aggregates[a][i].end>>
    BY DEF AverageComesFirst
  <2> DEFINE s == aggregates[a]
  <2>1. s \in Seq(Sent) /\ Len(s) \in Nat /\ DOMAIN s = 1 .. Len(s)
    BY DEF IInv, Types
  <2>2. i \in DOMAIN Accepted(a) /\ \A j \in 1 .. Len(s) : Accepted(a)[j] = s[j]
    <3>1. /\ DOMAIN Accepted(a) = 1 .. Len(Accepted(a))
          /\ Len(Accepted(a)) = Len(s) + Len(queued[a]) /\ Len(queued[a]) \in Nat
          /\ \A j \in 1 .. Len(s) : Accepted(a)[j] = s[j]
      BY AcceptedType DEF IInv
    <3>2. i \in 1 .. Len(s)
      BY <2>1
    <3> HIDE DEF s
    <3> QED
      BY <2>1, <3>1, <3>2
  <2>3. i \in 1 .. Len(s) /\ Accepted(a)[i] = s[i]
    BY <2>1, <2>2
  <2>4. PICK j \in 1 .. i - 1 :
           /\ IsAverage(a, j, s[i].sensor, s[i].run)
           /\ Accepted(a)[j].start = s[i].start /\ Accepted(a)[j].end = s[i].end
    <3>1. Averaged
      BY DEF IInv
    <3> DEFINE tx == Accepted(a)[i]
    <3>2. tx = s[i] /\ tx.function # AVG
      BY <2>3
    <3>3. \E j \in 1 .. i - 1 :
            /\ IsAverage(a, j, tx.sensor, tx.run)
            /\ Accepted(a)[j].start = tx.start /\ Accepted(a)[j].end = tx.end
      BY <2>2, <3>1, <3>2 DEF Averaged
    <3> HIDE DEF tx
    <3> QED
      BY <3>2, <3>3
  <2>5. j \in 1 .. Len(s) /\ Accepted(a)[j] = s[j]
    BY <2>1, <2>2, <2>3, <2>4
  <2>6. s[j] \in ToSet(SubSeq(s, 1, i - 1))
    <3> HIDE DEF s
    <3>1. DOMAIN SubSeq(s, 1, i - 1) = 1 .. i - 1 /\ SubSeq(s, 1, i - 1)[j] = s[j]
      BY <2>1, <2>3, <2>4
    <3> QED
      BY <3>1 DEF ToSet
  <2> QED
    BY <2>4, <2>5, <2>6 DEF IsAverage
<1> QED
  BY <1>1, Invariance, PTL

-----------------------------------------------------------------------------
(***************************************************************************)
(* What they check of the browser.                                         *)
(***************************************************************************)

\* The number of the interval a ledger is in.
LEMMA IntervalNumber ==
  ASSUME NEW b \in Nat \ {0}, NEW n \in Nat, NEW x \in Nat,
         n * b <= x, x < n * b + b
  PROVE  x \div b = n
<1> DEFINE q == x \div b
           r == x % b
<1>1. q \in Nat /\ r \in Nat /\ r < b /\ x = q * b + r
  OBVIOUS
<1> HIDE DEF q, r
<1>2. ASSUME NEW c \in Nat, NEW d \in Nat, c < d PROVE c * b + b <= d * b
  <2>1. PICK e \in Nat : d = c + 1 + e
    <3>1. d - c - 1 \in Nat /\ d = c + 1 + (d - c - 1)
      BY <1>2
    <3> QED
      BY <3>1
  <2>2. d * b = c * b + b + e * b /\ e * b \in Nat /\ c * b \in Nat
    BY <2>1
  <2> QED
    BY <2>2
<1>3. q * b \in Nat /\ n * b \in Nat
  BY <1>1
<1>4. ~(q < n) /\ ~(n < q)
  BY <1>1, <1>2, <1>3
<1> QED
  BY <1>1, <1>4 DEF q

\* All the logs a transaction's marks stand for are in one interval.
LEMMA OneIntervalNumber ==
  ASSUME IInv, NEW a \in TimeAccount, NEW s \in Sensor, NEW start \in Nat, NEW end \in Nat,
         InOneInterval(a, s, start, end)
  PROVE  \E n \in Nat : \A k \in start - SensorStart .. end - SensorStart :
           (logs[s][k] - Head(logs[s])) \div Blocks[a] = n
<1>1. PICK n \in Nat : \A k \in start - SensorStart .. end - SensorStart :
         /\ logs[s][1] + n * Blocks[a] <= logs[s][k]
         /\ logs[s][k] < logs[s][1] + n * Blocks[a] + Blocks[a]
  BY DEF InOneInterval
<1>2. /\ SensorStart \in Nat /\ Blocks[a] \in Nat \ {0}
      /\ logs[s] \in Seq(Nat) /\ Len(logs[s]) \in Nat /\ DOMAIN logs[s] = 1 .. Len(logs[s])
      /\ start \in SensorStart + 1 .. end /\ end <= SensorStart + Len(logs[s])
  BY Constants DEF IInv, Types, InOneInterval
<1> SUFFICES ASSUME NEW k \in start - SensorStart .. end - SensorStart
             PROVE  (logs[s][k] - Head(logs[s])) \div Blocks[a] = n
  OBVIOUS
<1>3. k \in 1 .. Len(logs[s]) /\ 1 \in 1 .. Len(logs[s])
  BY <1>2
<1>4. logs[s][k] \in Nat /\ logs[s][1] \in Nat /\ Head(logs[s]) = logs[s][1]
  <2> DEFINE t == logs[s]
  <2>1. t \in Seq(Nat)
    BY <1>2
  <2> HIDE DEF t
  <2>2. \A j \in 1 .. Len(t) : t[j] \in Nat
    BY <2>1
  <2> QED
    BY <1>3, <2>2 DEF t
<1> DEFINE x == logs[s][k] - Head(logs[s])
           b == Blocks[a]
<1>5. n * b \in Nat
  BY <1>2
<1>6. x \in Nat /\ n * b <= x /\ x < n * b + b
  <2> DEFINE m == n * b
             v == logs[s][k]
             w == Head(logs[s])
  <2>1. /\ m \in Nat /\ b \in Nat /\ v \in Nat /\ w \in Nat
        /\ w + m <= v /\ v < w + m + b
    BY <1>1, <1>2, <1>4, <1>5
  <2> HIDE DEF m, v, w, b
  <2>2. v - w \in Nat /\ m <= v - w /\ v - w < m + b
    BY <2>1
  <2> QED
    BY <2>2 DEF m, v, w, b
<1> HIDE DEF x, b
<1>7. b \in Nat \ {0}
  BY <1>2 DEF b
<1>8. x \div b = n
  BY <1>6, <1>7, IntervalNumber
<1> QED
  BY <1>8 DEF x, b

\* What get1Agg returns for one interval it never returns for another, and it returns no
\* log of a ledger outside of the interval of the transaction (browser/main.go:308).
THEOREM DisjointCorrect == Spec => []AnswersDoNotOverlap
<1>1. IInv => AnswersDoNotOverlap
  <2> SUFFICES ASSUME IInv, NEW a \in TimeAccount
               PROVE  \A tx, u \in ToSet(aggregates[a]) :
                        LET Interval(s, k) == (logs[s][k] - Head(logs[s])) \div Blocks[a]
                            interval(t) == Interval(t.sensor, t.start - SensorStart)
                        IN  /\ tx.sensor = u.sensor /\ interval(tx) # interval(u)
                                 => get1Agg(tx) \cap get1Agg(u) = {}
                            /\ \A k \in get1Agg(tx) : Interval(tx.sensor, k) = interval(tx)
    BY DEF AnswersDoNotOverlap
  <2> DEFINE Interval(s, k) == (logs[s][k] - Head(logs[s])) \div Blocks[a]
             interval(t) == Interval(t.sensor, t.start - SensorStart)
  <2>1. ASSUME NEW tx \in ToSet(aggregates[a]), NEW k \in get1Agg(tx)
        PROVE  Interval(tx.sensor, k) = interval(tx)
    <3>1. PICK i \in DOMAIN aggregates[a] : tx = aggregates[a][i]
      BY DEF ToSet
    <3>2. i \in DOMAIN Accepted(a) /\ tx = Accepted(a)[i]
      <4>1. DOMAIN aggregates[a] = 1 .. Len(aggregates[a])
        BY DEF IInv, Types
      <4>2. /\ DOMAIN Accepted(a) = 1 .. Len(Accepted(a))
            /\ \A j \in 1 .. Len(aggregates[a]) : Accepted(a)[j] = aggregates[a][j]
        BY AcceptedType DEF IInv
      <4>3. \A j \in 1 .. Len(aggregates[a]) : j \in 1 .. Len(Accepted(a))
        <5> DEFINE m == Len(aggregates[a])
                   n == Len(Accepted(a))
                   q == Len(queued[a])
        <5>1. m \in Nat /\ q \in Nat /\ n = m + q
          BY AcceptedType DEF IInv
        <5> HIDE DEF m, n, q
        <5>2. \A j \in 1 .. m : j \in 1 .. n
          BY <5>1
        <5> QED
          BY <5>2 DEF m, n
      <4> QED
        BY <3>1, <4>1, <4>2, <4>3
    <3>3. /\ tx.sensor \in Sensor /\ tx.start \in Nat /\ tx.end \in Nat
          /\ InOneInterval(a, tx.sensor, tx.start, tx.end)
      BY <3>2, Fields DEF IInv, Filed
    <3>4. PICK n \in Nat : \A j \in tx.start - SensorStart .. tx.end - SensorStart :
             Interval(tx.sensor, j) = n
      BY <3>3, OneIntervalNumber
    <3>5. /\ k \in DOMAIN logs[tx.sensor] /\ tx.start <= SensorStart + k
          /\ SensorStart + k < tx.end
      BY DEF get1Agg, LogsBetween, AccountSequence
    <3>6. k \in Nat /\ SensorStart \in Nat
      <4>1. DOMAIN logs[tx.sensor] = 1 .. Len(logs[tx.sensor])
        BY <3>3, SMTT(30) DEF IInv, Types
      <4> QED
        BY <3>5, <4>1, Constants
    <3>7. /\ k \in tx.start - SensorStart .. tx.end - SensorStart
          /\ tx.start - SensorStart \in tx.start - SensorStart .. tx.end - SensorStart
      BY <3>3, <3>5, <3>6
    <3> HIDE DEF Interval
    <3> QED
      BY <3>4, <3>7
  <2>2. ASSUME NEW tx \in ToSet(aggregates[a]), NEW u \in ToSet(aggregates[a]),
               tx.sensor = u.sensor, interval(tx) # interval(u)
        PROVE  get1Agg(tx) \cap get1Agg(u) = {}
    <3> SUFFICES ASSUME NEW k \in get1Agg(tx), k \in get1Agg(u) PROVE FALSE
      OBVIOUS
    <3>1. Interval(tx.sensor, k) = interval(tx) /\ Interval(u.sensor, k) = interval(u)
      BY <2>1
    <3> QED
      BY <2>2, <3>1
  <2> QED
    BY <2>1, <2>2
<1> QED
  BY <1>1, Invariance, PTL

-----------------------------------------------------------------------------
(***************************************************************************)
(* What the browser reads of the memos.                                    *)
(***************************************************************************)

\* The results for the logs two marks stand for.
ResultOf(s, start, end) ==
  Results(SubSeq(Reading[s], start - SensorStart, end - SensorStart))

\* The memo of a transaction holds the result for its marks.
Tells(a, tx) ==
  tx.memo = EncryptToMemo(tx.seq, TimeKey(a), SensorKey(tx.sensor),
                          Plain(ResultOf(tx.sensor, tx.start, tx.end)[tx.function]))

Told == \A a \in TimeAccount : \A i \in DOMAIN Accepted(a) : Tells(a, Accepted(a)[i])

\* So do the results the program is about to send.
InHand == pc = "send" => results = ResultOf(sensor, marks[1], marks[2])

\* The averages of one run for a sensor ascend, whatever is lost between them,
Ascending ==
  \A a \in TimeAccount : \A i, j \in DOMAIN Accepted(a) :
    LET tx == Accepted(a)[i]
        u == Accepted(a)[j]
    IN  /\ i < j /\ tx.function = AVG /\ u.function = AVG
        /\ tx.sensor = u.sensor /\ tx.run = u.run
        => tx.end < u.start

\* and the interval the program is at lies behind them.
Behind ==
  process = "running" =>
    \A i \in DOMAIN Accepted(index) : IsAverage(index, i, sensor, runs) =>
      LET end == Accepted(index)[i].end
      IN  /\ pc = "interval" => \A k \in DOMAIN logs[sensor] :
               AccountSequence(k) <= end => logs[sensor][k] < currentLedger
          /\ pc = "send" => end <= IF function = AVG THEN marks[1] - 1 ELSE marks[2]

Contents == Told /\ InHand /\ Ascending /\ Behind

-----------------------------------------------------------------------------
\* The aggregator reads of the memos of the logs what the sensors put in.
LEMMA LogsAreRead ==
  ASSUME NEW s \in Sensor
  PROVE  getLogValue[s] = Reading[s] /\ Reading[s] \in Seq(Nat) /\ Len(Reading[s]) >= MaxLogs
         /\ DOMAIN Reading[s] = 1 .. Len(Reading[s]) /\ Len(Reading[s]) \in Nat
         /\ \A k \in 1 .. Len(Reading[s]) :
              /\ Reading[s][k] \in Nat
              /\ parseMemo(LogMemo[s][k], AccountSequence(k), SensorKey(s), BatchKey)
                   = Reading[s][k]
<1>1. Reading[s] \in Seq(Nat) /\ Len(Reading[s]) >= MaxLogs
  BY ReadingAssumption DEF Sensor
<1>2. /\ DOMAIN Reading[s] = 1 .. Len(Reading[s]) /\ Len(Reading[s]) \in Nat
      /\ \A k \in 1 .. Len(Reading[s]) : Reading[s][k] \in Nat
  BY <1>1
<1>3. ASSUME NEW k \in 1 .. Len(Reading[s])
      PROVE  /\ parseMemo(LogMemo[s][k], AccountSequence(k), BatchKey, SensorKey(s))
                  = Reading[s][k]
             /\ parseMemo(LogMemo[s][k], AccountSequence(k), SensorKey(s), BatchKey)
                  = Reading[s][k]
  <2>1. AccountSequence(k) \in Nat /\ Reading[s][k] \in Int
    BY <1>2, Constants DEF AccountSequence
  <2>2. LogMemo[s][k] = EncryptToMemo(AccountSequence(k), SensorKey(s), BatchKey,
                                      Plain(Reading[s][k]))
    BY <1>2 DEF LogMemo
  <2>3. LogMemo[s][k] = EncryptToMemo(AccountSequence(k), BatchKey, SensorKey(s),
                                      Plain(Reading[s][k]))
    BY <2>2 DEF EncryptToMemo, DeriveDHKey
  <2>4. parseMemo(LogMemo[s][k], AccountSequence(k), BatchKey, SensorKey(s)) = Reading[s][k]
    BY <2>1, <2>2, ReceiverReadsTheValue
  <2>5. parseMemo(LogMemo[s][k], AccountSequence(k), SensorKey(s), BatchKey) = Reading[s][k]
    BY <2>1, <2>3, ReceiverReadsTheValue
  <2> QED
    BY <2>4, <2>5
<1>4. getLogValue[s] = [k \in 1 .. Len(Reading[s]) |-> Reading[s][k]]
  BY <1>2, <1>3 DEF getLogValue
<1>5. Reading[s] = [k \in 1 .. Len(Reading[s]) |-> Reading[s][k]]
  BY <1>1, SMTT(30)
<1> QED
  BY <1>1, <1>2, <1>3, <1>4, <1>5

\* What was told of the accepted transactions stays told.
LEMMA SameContents ==
  ASSUME Contents, UNCHANGED <<queued, aggregates>>
  PROVE  Told' /\ Ascending'
<1>1. \A a : Accepted(a)' = Accepted(a)
  BY SameAccepted
<1>2. Told'
  BY <1>1 DEF Contents, Told, Tells, ResultOf
<1>3. Ascending'
  BY <1>1 DEF Contents, Ascending
<1> QED
  BY <1>2, <1>3

\* The ledger takes or drops the transactions in their order.
LEMMA ApplyOrder ==
  ASSUME Types, NEW a \in TimeAccount, Apply(a)
  PROVE  \A b \in TimeAccount : \A i, j \in DOMAIN Accepted(b)' : i < j =>
           \E k, l \in DOMAIN Accepted(b) :
             k < l /\ Accepted(b)'[i] = Accepted(b)[k] /\ Accepted(b)'[j] = Accepted(b)[l]
<1> DEFINE s == aggregates[a]
           t == queued[a]
<1>1. /\ s \in Seq(Sent) /\ t \in Seq(Sent) /\ t # <<>>
      /\ \A b \in TimeAccount : b # a => Accepted(b)' = Accepted(b)
  BY ApplyEffect DEF Types, Apply
<1>2. /\ Accepted(a) = s \o t
      /\ Accepted(a)' = Accepted(a) \/ Accepted(a)' = s \o Tail(t)
  <2>1. queued' = [queued EXCEPT ![a] = Tail(t)] /\ queued \in [TimeAccount -> Seq(Sent)]
    BY DEF Apply, Types
  <2>2. queued'[a] = Tail(t)
    BY <2>1
  <2>3. CASE Head(queued[a]).seq = account[a] + 1
    <3>1. aggregates' = [aggregates EXCEPT ![a] = Append(@, Head(queued[a]))]
          /\ aggregates \in [TimeAccount -> Seq(Sent)]
      BY <2>3 DEF Apply, Types
    <3>2. aggregates'[a] = Append(s, Head(t))
      BY <3>1
    <3>3. Append(s, Head(t)) \o Tail(t) = s \o t
      BY <1>1, ConcatMove
    <3> QED
      BY <2>2, <3>2, <3>3 DEF Accepted
  <2>4. CASE Head(queued[a]).seq # account[a] + 1
    <3>1. aggregates' = aggregates
      BY <2>4 DEF Apply
    <3> QED
      BY <2>2, <3>1 DEF Accepted
  <2> QED
    BY <2>3, <2>4 DEF Accepted
<1> HIDE DEF s, t
<1> SUFFICES ASSUME NEW b \in TimeAccount, NEW i \in DOMAIN Accepted(b)',
                    NEW j \in DOMAIN Accepted(b)', i < j
             PROVE  \E k, l \in DOMAIN Accepted(b) :
                      /\ k < l
                      /\ Accepted(b)'[i] = Accepted(b)[k] /\ Accepted(b)'[j] = Accepted(b)[l]
  OBVIOUS
<1>3. CASE Accepted(b)' = Accepted(b)
  BY <1>3
<1>4. CASE b = a /\ Accepted(a)' = s \o Tail(t)
  <2> DEFINE place(x) == IF x <= Len(s) THEN x ELSE x + 1
  <2>1. /\ Tail(t) \in Seq(Sent) /\ Len(t) \in Nat \ {0} /\ Len(s) \in Nat
        /\ Len(Tail(t)) = Len(t) - 1 /\ \A x \in 1 .. Len(t) - 1 : Tail(t)[x] = t[x + 1]
    BY <1>1
  <2>2. /\ DOMAIN (s \o Tail(t)) = 1 .. Len(s) + Len(t) - 1
        /\ DOMAIN (s \o t) = 1 .. Len(s) + Len(t)
    BY <1>1, <2>1
  <2>3. ASSUME NEW x \in 1 .. Len(s) + Len(t) - 1
        PROVE  (s \o Tail(t))[x] = (s \o t)[place(x)] /\ place(x) \in 1 .. Len(s) + Len(t)
    <3>1. CASE x <= Len(s)
      BY <1>1, <2>1, <3>1
    <3>2. CASE x > Len(s)
      <4>1. (s \o Tail(t))[x] = t[x - Len(s) + 1] /\ (s \o t)[x + 1] = t[x - Len(s) + 1]
        BY <1>1, <2>1, <3>2
      <4> QED
        BY <1>1, <2>1, <3>2, <4>1
    <3> QED
      BY <2>1, <3>1, <3>2
  <2>4. i \in 1 .. Len(s) + Len(t) - 1 /\ j \in 1 .. Len(s) + Len(t) - 1
    BY <1>4, <2>2
  <2>5. place(i) < place(j)
    BY <2>1, <2>4
  <2>6. /\ (s \o Tail(t))[i] = (s \o t)[place(i)] /\ place(i) \in 1 .. Len(s) + Len(t)
        /\ (s \o Tail(t))[j] = (s \o t)[place(j)] /\ place(j) \in 1 .. Len(s) + Len(t)
    BY <2>3, <2>4
  <2>7. place(i) \in DOMAIN Accepted(b) /\ place(j) \in DOMAIN Accepted(b)
    BY <1>2, <1>4, <2>2, <2>6
  <2>8. /\ Accepted(b)'[i] = Accepted(b)[place(i)] /\ Accepted(b)'[j] = Accepted(b)[place(j)]
    BY <1>2, <1>4, <2>6
  <2> HIDE DEF place
  <2> QED
    BY <2>5, <2>7, <2>8
<1> QED
  BY <1>1, <1>2, <1>3, <1>4

\* A message that core accepts tells the result for its marks, and lies behind the
\* averages before it.
LEMMA SentContents ==
  ASSUME IInv, Contents, At("send"),
         queued' = [queued EXCEPT ![index] = Append(@, Message)],
         UNCHANGED aggregates
  PROVE  Told' /\ Ascending'
<1> SUFFICES ASSUME NEW here, here = index, NEW tx, tx = Message,
                    NEW n, n = Len(Accepted(here))
             PROVE  Told' /\ Ascending'
  OBVIOUS
<1>1. /\ here \in TimeAccount
      /\ tx.seq = sequence[here] + 1 /\ tx.run = runs /\ tx.sensor = sensor
      /\ tx.function = function /\ tx.start = marks[1] /\ tx.end = marks[2]
      /\ n \in Nat /\ DOMAIN Accepted(here) = 1 .. n /\ DOMAIN Accepted(here)' = 1 .. n + 1
      /\ \A a \in TimeAccount : a # here => Accepted(a)' = Accepted(a)
      /\ \A a \in TimeAccount : \A i \in DOMAIN Accepted(a) :
           Accepted(a)'[i] = Accepted(a)[i] /\ i \in DOMAIN Accepted(a)'
      /\ Accepted(here)'[n + 1] = tx
  BY SentEffect, SMTT(30)
<1>2. \A a \in TimeAccount : \A i \in DOMAIN Accepted(a)' :
        i \in DOMAIN Accepted(a) \/ (a = here /\ i = n + 1)
  <2> SUFFICES ASSUME NEW a \in TimeAccount, NEW i \in DOMAIN Accepted(a)'
               PROVE  i \in DOMAIN Accepted(a) \/ (a = here /\ i = n + 1)
    OBVIOUS
  <2>1. CASE a # here
    BY <1>1, <2>1
  <2>2. CASE a = here
    BY <1>1, <2>2
  <2> QED
    BY <2>1, <2>2
<1>3. pc = "send" /\ process = "running"
  BY DEF At
<1>4. Tells(here, tx)
  <2>1. tx.memo = EncryptToMemo(sequence[index] + 1, TimeKey(index), SensorKey(sensor),
                                Plain(results[function]))
    BY DEF Message
  <2>2. results = ResultOf(sensor, marks[1], marks[2])
    BY <1>3 DEF Contents, InHand
  <2> QED
    BY <1>1, <2>1, <2>2 DEF Tells
<1>5. Told'
  <2> SUFFICES ASSUME NEW a \in TimeAccount, NEW i \in DOMAIN Accepted(a)'
               PROVE  Tells(a, Accepted(a)'[i])
    BY DEF Told, Tells, ResultOf
  <2>1. CASE i \in DOMAIN Accepted(a)
    BY <1>1, <2>1 DEF Contents, Told
  <2>2. CASE a = here /\ i = n + 1
    BY <1>1, <1>4, <2>2
  <2> QED
    BY <1>2, <2>1, <2>2
<1>6. Ascending'
  <2> SUFFICES ASSUME NEW a \in TimeAccount, NEW i \in DOMAIN Accepted(a)',
                      NEW j \in DOMAIN Accepted(a)', NEW t, t = Accepted(a)'[i],
                      NEW u, u = Accepted(a)'[j],
                      i < j, t.function = AVG, u.function = AVG, t.sensor = u.sensor,
                      t.run = u.run
               PROVE  t.end < u.start
    BY DEF Ascending, AVG
  <2>1. DOMAIN Accepted(a) = 1 .. Len(Accepted(a)) /\ Len(Accepted(a)) \in Nat
    BY AcceptedType DEF IInv
  <2>2. CASE j \in DOMAIN Accepted(a)
    <3>1. i \in DOMAIN Accepted(a)
      <4>1. i \in Nat /\ i >= 1
        BY <1>1, <1>2, <2>1
      <4> QED
        BY <2>1, <2>2, <4>1
    <3>2. t = Accepted(a)[i] /\ u = Accepted(a)[j]
      BY <1>1, <2>2, <3>1
    <3> QED
      BY <2>2, <3>1, <3>2 DEF Contents, Ascending
  <2>3. CASE a = here /\ j = n + 1
    <3>1. u = tx /\ i \in DOMAIN Accepted(here)
      BY <1>1, <2>3
    <3>2. t = Accepted(here)[i]
      BY <1>1, <2>3, <3>1
    <3>3. IsAverage(here, i, sensor, runs) /\ function = AVG
      BY <1>1, <3>1, <3>2 DEF IsAverage
    <3>4. t.end <= marks[1] - 1
      BY <1>3, <3>1, <3>2, <3>3 DEF Contents, Behind
    <3>5. t.end \in Nat /\ marks[1] \in Nat
      <4>1. t.end \in Nat
        BY <1>1, <3>1, <3>2, Fields DEF IInv
      <4> QED
        BY <4>1 DEF IInv, Types
    <3> QED
      BY <1>1, <3>1, <3>4, <3>5
  <2> QED
    BY <1>2, <2>2, <2>3
<1> QED
  BY <1>5, <1>6

\* When the loop goes on, all the averages lie behind the next interval.
LEMMA AdvanceKeepsBehind ==
  ASSUME IInv, At("send"), Advance, UNCHANGED <<logs, process, runs, sensor, index, marks>>,
         \A i \in DOMAIN Accepted(index)' : IsAverage(index, i, sensor, runs)' =>
           Accepted(index)'[i].end \in Nat /\ Accepted(index)'[i].end <= marks[2]
  PROVE  Behind'
<1>1. /\ \/ /\ function \in {AVG, MIN} /\ function' = function + 1
            /\ UNCHANGED <<pc, currentLedger>>
         \/ /\ function = MAX /\ function' = AVG
            /\ pc' = "interval" /\ currentLedger' = currentLedger + Blocks[index]
      /\ pc = "send"
  BY AdvanceEffect DEF At
<1> SUFFICES ASSUME NEW i \in DOMAIN Accepted(index)', IsAverage(index, i, sensor, runs)',
                    NEW end, end = Accepted(index)'[i].end
             PROVE  /\ pc' = "interval" => \A k \in DOMAIN logs[sensor] :
                         AccountSequence(k) <= end => logs[sensor][k] < currentLedger'
                    /\ pc' = "send" =>
                         end <= IF function' = AVG THEN marks[1] - 1 ELSE marks[2]
  BY DEF Behind, AccountSequence, AVG
<1>2. end \in Nat /\ end <= marks[2]
  OBVIOUS
<1>3. pc' = "send" => function' # AVG
  BY <1>1 DEF AVG, MIN, MAX
<1>4. ASSUME pc' = "interval", NEW k \in DOMAIN logs[sensor], AccountSequence(k) <= end
      PROVE  logs[sensor][k] < currentLedger'
  <2>1. currentLedger' = currentLedger + Blocks[index]
    BY <1>1, <1>4
  <2>2. /\ marks[1] \in SensorStart + 1 .. marks[2]
        /\ marks[2] <= SensorStart + Len(logs[sensor])
        /\ \A j \in DOMAIN logs[sensor] :
             marks[1] <= AccountSequence(j) /\ AccountSequence(j) <= marks[2]
               => logs[sensor][j] < currentLedger + Blocks[index]
    BY <1>1 DEF IInv, Walk
  <2>3. /\ SensorStart \in Nat /\ marks[1] \in Nat /\ marks[2] \in Nat
        /\ Len(logs[sensor]) \in Nat /\ DOMAIN logs[sensor] = 1 .. Len(logs[sensor])
        /\ \A j \in DOMAIN logs[sensor] : logs[sensor][j] \in Nat
    <3>1. marks \in Nat \X Nat /\ logs[sensor] \in Seq(Nat)
      BY DEF IInv, Types
    <3>2. /\ Len(logs[sensor]) \in Nat /\ DOMAIN logs[sensor] = 1 .. Len(logs[sensor])
          /\ \A j \in DOMAIN logs[sensor] : logs[sensor][j] \in Nat
      BY <3>1
    <3> QED
      BY <3>1, <3>2, Constants
  <2>4. currentLedger + Blocks[index] \in Nat
    <3>1. currentLedger \in Nat /\ index \in TimeAccount
      BY DEF IInv, Types
    <3> QED
      BY <3>1, Constants
  <2>5. /\ \A j, m \in DOMAIN logs[sensor] : j <= m => logs[sensor][j] <= logs[sensor][m]
    BY DEF IInv, Types, Chronicle
  <2> DEFINE m == marks[2] - SensorStart
  <2>6. m \in DOMAIN logs[sensor] /\ AccountSequence(m) = marks[2] /\ marks[1] <= marks[2]
    <3>1. /\ marks[1] \in SensorStart + 1 .. marks[2] /\ SensorStart \in Nat
          /\ marks[2] <= SensorStart + Len(logs[sensor])
          /\ marks[1] \in Nat /\ marks[2] \in Nat /\ Len(logs[sensor]) \in Nat
      BY <2>2, <2>3
    <3>2. m \in 1 .. Len(logs[sensor]) /\ AccountSequence(m) = marks[2] /\ marks[1] <= marks[2]
      BY <3>1, SMTT(30) DEF AccountSequence
    <3> QED
      BY <2>3, <3>2
  <2>7. k <= m
    <3>1. k \in 1 .. Len(logs[sensor])
      BY <1>4, <2>3
    <3>2. k \in Nat /\ SensorStart + k <= end
      BY <1>4, <2>3, <3>1 DEF AccountSequence
    <3>3. SensorStart \in Nat /\ marks[2] \in Nat /\ end \in Nat /\ end <= marks[2]
      BY <1>2, <2>3
    <3> QED
      BY <3>2, <3>3
  <2> HIDE DEF m
  <2>8. logs[sensor][m] < currentLedger + Blocks[index]
    BY <2>2, <2>3, <2>6
  <2>9. logs[sensor][k] <= logs[sensor][m] /\ logs[sensor][k] \in Nat /\ logs[sensor][m] \in Nat
    BY <1>4, <2>3, <2>5, <2>6, <2>7
  <2> DEFINE x == currentLedger + Blocks[index]
             v == logs[sensor][k]
             w == logs[sensor][m]
  <2>10. v \in Nat /\ w \in Nat /\ x \in Nat /\ v <= w /\ w < x
    BY <2>4, <2>8, <2>9
  <2> HIDE DEF x, v, w
  <2>11. v < x
    BY <2>10
  <2> QED
    BY <2>1, <2>11 DEF x, v
<1> QED
  BY <1>1, <1>2, <1>3, <1>4

\* The steps of the program that send nothing.
LEMMA QuietContents ==
  ASSUME IInv, Contents, ReadFirst \/ ReadLast \/ EndOfIntervals \/ Refused \/ Restart
  PROVE  Contents'
<1>1. /\ UNCHANGED <<queued, aggregates>>
      /\ \/ pc' \in {"first", "last"} 
         \/ ReadLast
      /\ pc' # "send"
  BY DEF ReadFirst, ReadLast, EndOfIntervals, Refused, Restart, network, LocalsEnd, Fatal, At
<1>2. Told' /\ Ascending'
  BY <1>1, SameContents
<1>3. InHand'
  BY <1>1 DEF InHand
<1>4. Behind'
  <2>1. CASE pc' \in {"first", "last"}
    BY <2>1 DEF Behind
  <2>2. CASE ReadLast
    <3>1. process = "running" /\ pc = "last"
          /\ UNCHANGED <<runs, sensor, index, queued, aggregates>>
      BY <2>2 DEF ReadLast, At, network
    <3>2. \A i \in DOMAIN Accepted(index) : ~IsAverage(index, i, sensor, runs)
      BY <3>1, NothingYet
    <3>3. \A i \in DOMAIN Accepted(index)' : ~IsAverage(index, i, sensor, runs)'
      BY <3>1, <3>2, SameAccepted
    <3> QED
      BY <3>1, <3>3 DEF Behind
  <2> QED
    BY <1>1, <2>1, <2>2
<1> QED
  BY <1>2, <1>3, <1>4 DEF Contents

\* An interval without logs.
LEMMA GapContents ==
  ASSUME IInv, Contents, CalculateFunctionsForLedgers,
         Rows(sensor, currentLedger, currentLedger + Blocks[index]) = {}
  PROVE  Contents'
<1>1. /\ process = "running" /\ pc = "interval"
      /\ currentLedger' = currentLedger + Blocks[index]
      /\ UNCHANGED <<logs, process, runs, pc, sensor, index, queued, aggregates>>
  BY DEF CalculateFunctionsForLedgers, AfterGap, NextInterval, At, network
<1>2. Told' /\ Ascending'
  BY <1>1, SameContents
<1>3. InHand'
  BY <1>1 DEF InHand
<1>4. currentLedger \in Nat /\ currentLedger' \in Nat /\ currentLedger <= currentLedger'
      /\ \A k \in DOMAIN logs[sensor] : logs[sensor][k] \in Nat
  BY <1>1, Constants, SMTT(30) DEF IInv, Types
<1>5. Behind'
  <2> SUFFICES ASSUME NEW i \in DOMAIN Accepted(index), IsAverage(index, i, sensor, runs),
                      NEW k \in DOMAIN logs[sensor],
                      AccountSequence(k) <= Accepted(index)[i].end
               PROVE  logs[sensor][k] < currentLedger'
    BY <1>1, SameAccepted DEF Behind, AccountSequence
  <2>1. logs[sensor][k] < currentLedger
    BY <1>1 DEF Contents, Behind
  <2> QED
    BY <1>4, <2>1
<1> QED
  BY <1>2, <1>3, <1>5 DEF Contents

\* An interval with logs: the results are those for its marks, which lie behind the
\* averages.
LEMMA IntervalContents ==
  ASSUME IInv, Contents, CalculateFunctionsForLedgers,
         Rows(sensor, currentLedger, currentLedger + Blocks[index]) # {}
  PROVE  Contents'
<1> DEFINE rows == Rows(sensor, currentLedger, currentLedger + Blocks[index])
           m == Min(rows)
           n == Max(rows)
<1>1. /\ process = "running" /\ pc = "interval" /\ pc' = "send" /\ function' = AVG
      /\ marks' = <<AccountSequence(m), AccountSequence(n)>>
      /\ results' = Results(SubSeq(getLogValue[sensor], m, n))
      /\ UNCHANGED <<logs, process, runs, sensor, index, queued, aggregates>>
  BY DEF CalculateFunctionsForLedgers, At, network
<1>2. /\ m \in 1 .. n /\ n \in 1 .. Len(logs[sensor])
      /\ \A k \in DOMAIN logs[sensor] : logs[sensor][k] < currentLedger <=> k < m
  BY RowsEffect
<1> HIDE DEF rows, m, n
<1>3. /\ SensorStart \in Nat /\ sensor \in Sensor /\ index \in TimeAccount
      /\ Len(logs[sensor]) \in Nat /\ DOMAIN logs[sensor] = 1 .. Len(logs[sensor])
  BY Constants DEF IInv, Types
<1>4. m \in Nat /\ n \in Nat /\ AccountSequence(m) - SensorStart = m
      /\ AccountSequence(n) - SensorStart = n
  BY <1>2, <1>3 DEF AccountSequence
<1>5. Told' /\ Ascending'
  BY <1>1, SameContents
<1>6. InHand'
  <2>1. results' = ResultOf(sensor, AccountSequence(m), AccountSequence(n))
    BY <1>1, <1>3, <1>4, LogsAreRead DEF ResultOf
  <2>2. results' = ResultOf(sensor', marks'[1], marks'[2])
    BY <1>1, <2>1
  <2> QED
    BY <2>2 DEF InHand, ResultOf
<1>7. Behind'
  <2> SUFFICES ASSUME NEW i \in DOMAIN Accepted(index), IsAverage(index, i, sensor, runs),
                      NEW end, end = Accepted(index)[i].end
               PROVE  end <= AccountSequence(m) - 1
    BY <1>1, SameAccepted DEF Behind, AVG, AccountSequence
  <2>1. end \in Nat /\ InOneInterval(index, sensor, Accepted(index)[i].start, end)
    BY <1>3, Fields DEF IInv, Filed, IsAverage
  <2>2. end \in SensorStart + 1 .. SensorStart + Len(logs[sensor])
    <3>1. Accepted(index)[i].start \in Nat
      BY <1>3, Fields DEF IInv
    <3> QED
      BY <1>3, <2>1, <3>1 DEF InOneInterval
  <2>3. end - SensorStart \in DOMAIN logs[sensor] /\ AccountSequence(end - SensorStart) <= end
    BY <1>3, <2>1, <2>2 DEF AccountSequence
  <2>4. logs[sensor][end - SensorStart] < currentLedger
    BY <1>1, <2>3 DEF Contents, Behind
  <2>5. end - SensorStart < m
    BY <1>2, <2>3, <2>4
  <2> QED
    BY <1>3, <1>4, <2>1, <2>5 DEF AccountSequence
<1> QED
  BY <1>5, <1>6, <1>7 DEF Contents

\* The steps that send, or may have.
LEMMA SendingContents ==
  ASSUME IInv, Contents, SendTransaction \/ TryAgainLater \/ SendFails
  PROVE  Contents'
<1>1. /\ At("send") /\ UNCHANGED <<logs, runs, sensor, index, aggregates>>
      /\ \/ UNCHANGED queued
         \/ queued' = [queued EXCEPT ![index] = Append(@, Message)]
  BY DEF SendTransaction, TryAgainLater, SendFails, network
<1>2. Told' /\ Ascending'
  BY <1>1, SameContents, SentContents
<1>3. pc = "send" /\ process = "running" /\ index \in TimeAccount
      /\ marks[1] \in Nat /\ marks[2] \in Nat /\ marks[1] <= marks[2]
  <2>1. pc = "send" /\ process = "running"
    BY <1>1 DEF At
  <2>2. index \in TimeAccount /\ marks \in Nat \X Nat
    BY DEF IInv, Types
  <2>3. marks[1] \in SensorStart + 1 .. marks[2]
    BY <2>1 DEF IInv, Walk
  <2> QED
    BY <2>1, <2>2, <2>3, Constants
<1>4. ASSUME NEW i \in DOMAIN Accepted(index), IsAverage(index, i, sensor, runs)
      PROVE  Accepted(index)[i].end \in Nat /\ Accepted(index)[i].end <= marks[2]
  <2>1. Accepted(index)[i].end \in Nat
    BY <1>3, Fields DEF IInv
  <2>2. \/ Accepted(index)[i].end <= marks[1] - 1
        \/ Accepted(index)[i].end <= marks[2]
    BY <1>3, <1>4 DEF Contents, Behind
  <2> QED
    BY <1>3, <2>1, <2>2
<1>5. CASE SendFails
  <2>1. pc' = "first" /\ process' = "crashed"
    BY <1>5 DEF SendFails, LocalsEnd
  <2> QED
    BY <1>2, <2>1 DEF Contents, InHand, Behind
<1>6. CASE SendTransaction \/ TryAgainLater
  <2>1. /\ Advance /\ UNCHANGED <<process, marks, results>>
    BY <1>6 DEF SendTransaction, TryAgainLater
  <2>2. InHand'
    BY <1>1, <1>3, <2>1 DEF Contents, InHand, ResultOf
  <2>3. ASSUME NEW i \in DOMAIN Accepted(index)', IsAverage(index, i, sensor, runs)'
        PROVE  Accepted(index)'[i].end \in Nat /\ Accepted(index)'[i].end <= marks[2]
    <3>1. CASE UNCHANGED queued
      <4>1. i \in DOMAIN Accepted(index) /\ Accepted(index)' = Accepted(index)
            /\ IsAverage(index, i, sensor, runs)
        BY <1>1, <2>3, <3>1, SameAccepted
      <4> QED
        BY <1>4, <4>1
    <3>2. CASE queued' = [queued EXCEPT ![index] = Append(@, Message)]
      <4> SUFFICES ASSUME NEW here, here = index, NEW tx, tx = Message,
                          NEW n, n = Len(Accepted(here))
                   PROVE  /\ Accepted(index)'[i].end \in Nat
                          /\ Accepted(index)'[i].end <= marks[2]
        OBVIOUS
      <4>1. /\ here \in TimeAccount /\ tx.end = marks[2]
            /\ n \in Nat /\ DOMAIN Accepted(here) = 1 .. n
            /\ DOMAIN Accepted(here)' = 1 .. n + 1
            /\ \A a \in TimeAccount : \A j \in DOMAIN Accepted(a) :
                 Accepted(a)'[j] = Accepted(a)[j] /\ j \in DOMAIN Accepted(a)'
            /\ Accepted(here)'[n + 1] = tx
        BY <1>1, <3>2, SentEffect, SMTT(30)
      <4>2. CASE i = n + 1
        <5>1. Accepted(index)' = Accepted(here)'
          BY <1>1 DEF Accepted
        <5>2. Accepted(here)'[i] = tx
          BY <4>1, <4>2
        <5>3. Accepted(index)'[i] = tx
          BY <5>1, <5>2
        <5>4. tx.end \in Nat /\ tx.end <= marks[2]
          BY <1>3, <4>1
        <5> QED
          BY <5>3, <5>4
      <4>3. CASE i # n + 1
        <5>1. i \in DOMAIN Accepted(here)
          <6>1. Accepted(index)' = Accepted(here)'
            BY <1>1 DEF Accepted
          <6> QED
            BY <2>3, <4>1, <4>3, <6>1
        <5>2. Accepted(index)'[i] = Accepted(index)[i] /\ i \in DOMAIN Accepted(index)
          <6>1. Accepted(index)' = Accepted(here)'
            BY <1>1 DEF Accepted
          <6>2. Accepted(here)'[i] = Accepted(here)[i]
            BY <4>1, <5>1
          <6> QED
            BY <5>1, <6>1, <6>2
        <5>3. IsAverage(index, i, sensor, runs)
          BY <1>1, <2>3, <5>2 DEF IsAverage, AVG
        <5> QED
          BY <1>4, <5>2, <5>3
      <4> QED
        BY <4>2, <4>3
    <3> QED
      BY <1>1, <3>1, <3>2
  <2>4. Behind'
    BY <1>1, <2>1, <2>3, AdvanceKeepsBehind
  <2> QED
    BY <1>2, <2>2, <2>4 DEF Contents
<1> QED
  BY <1>5, <1>6

\* A ledger closes: the new logs come behind all the marks.
LEMMA CloseContents ==
  ASSUME IInv, Contents, CloseLedger
  PROVE  Contents'
<1>1. /\ UNCHANGED <<process, runs, pc, sensor, index, currentLedger, marks, results,
                     function, queued, aggregates>>
      /\ \A s \in Sensor :
           /\ Len(logs[s]) \in Nat
           /\ DOMAIN logs[s] = 1 .. Len(logs[s]) /\ DOMAIN logs'[s] = 1 .. Len(logs'[s])
           /\ \A k \in DOMAIN logs[s] : logs'[s][k] = logs[s][k]
           /\ \A k \in DOMAIN logs'[s] : k \notin DOMAIN logs[s] => k > Len(logs[s])
  BY CloseEffect
<1>2. Told' /\ Ascending'
  BY <1>1, SameContents
<1>3. InHand'
  BY <1>1 DEF Contents, InHand, ResultOf
<1>4. Behind'
  <2> SUFFICES ASSUME process = "running",
                      NEW i \in DOMAIN Accepted(index), IsAverage(index, i, sensor, runs),
                      NEW end, end = Accepted(index)[i].end
               PROVE  /\ pc = "interval" => \A k \in DOMAIN logs'[sensor] :
                            AccountSequence(k) <= end => logs'[sensor][k] < currentLedger
                      /\ pc = "send" => end <= IF function = AVG THEN marks[1] - 1 ELSE marks[2]
    BY <1>1, SameAccepted DEF Behind, AccountSequence, AVG
  <2>1. /\ index \in TimeAccount /\ sensor \in Sensor /\ SensorStart \in Nat
        /\ end \in Nat /\ Accepted(index)[i].start \in Nat
    <3>1. index \in TimeAccount /\ sensor \in Sensor
      BY DEF IInv, Types
    <3> QED
      BY <3>1, Fields, Constants DEF IInv
  <2>2. InOneInterval(index, sensor, Accepted(index)[i].start, end)
    BY <2>1 DEF IInv, Filed, IsAverage
  <2>3. end <= SensorStart + Len(logs[sensor])
    BY <2>2 DEF InOneInterval
  <2>4. ASSUME pc = "interval", NEW k \in DOMAIN logs'[sensor], AccountSequence(k) <= end
        PROVE  logs'[sensor][k] < currentLedger
    <3>1. k \in DOMAIN logs[sensor]
      <4> SUFFICES ASSUME k \notin DOMAIN logs[sensor] PROVE FALSE
        OBVIOUS
      <4>1. k > Len(logs[sensor]) /\ Len(logs[sensor]) \in Nat /\ k \in Nat
        BY <1>1, <2>1, <2>4
      <4>2. SensorStart + k <= end
        BY <2>4 DEF AccountSequence
      <4> QED
        BY <2>1, <2>3, <4>1, <4>2
    <3>2. logs[sensor][k] < currentLedger
      BY <2>4, <3>1 DEF Contents, Behind
    <3> QED
      BY <1>1, <2>1, <3>1, <3>2
  <2>5. pc = "send" => end <= IF function = AVG THEN marks[1] - 1 ELSE marks[2]
    BY DEF Contents, Behind
  <2> QED
    BY <2>4, <2>5
<1> QED
  BY <1>2, <1>3, <1>4 DEF Contents

\* The ledger takes or drops a transaction.
LEMMA ApplyContents ==
  ASSUME IInv, Contents, NEW a \in TimeAccount, Apply(a)
  PROVE  Contents'
<1>1. /\ UNCHANGED <<logs, process, runs, pc, sensor, index, currentLedger, marks, results,
                     function>>
  BY DEF Apply, loop
<1>2. \A b \in TimeAccount : \A i \in DOMAIN Accepted(b)' :
        \E j \in DOMAIN Accepted(b) : Accepted(b)'[i] = Accepted(b)[j]
  BY ApplyEffect DEF IInv
<1>3. Told'
  <2> SUFFICES ASSUME NEW b \in TimeAccount, NEW i \in DOMAIN Accepted(b)'
               PROVE  Tells(b, Accepted(b)'[i])
    BY DEF Told, Tells, ResultOf
  <2> QED
    BY <1>2 DEF Contents, Told
<1>4. Ascending'
  <2> SUFFICES ASSUME NEW b \in TimeAccount, NEW i \in DOMAIN Accepted(b)',
                      NEW j \in DOMAIN Accepted(b)', NEW t, t = Accepted(b)'[i],
                      NEW u, u = Accepted(b)'[j],
                      i < j, t.function = AVG, u.function = AVG, t.sensor = u.sensor,
                      t.run = u.run
               PROVE  t.end < u.start
    BY DEF Ascending, AVG
  <2>1. PICK k \in DOMAIN Accepted(b), l \in DOMAIN Accepted(b) :
          k < l /\ t = Accepted(b)[k] /\ u = Accepted(b)[l]
    BY ApplyOrder DEF IInv
  <2> QED
    BY <2>1 DEF Contents, Ascending
<1>5. InHand'
  BY <1>1 DEF Contents, InHand, ResultOf
<1>6. Behind'
  <2> SUFFICES ASSUME process = "running", NEW i \in DOMAIN Accepted(index)',
                      IsAverage(index, i, sensor, runs)',
                      NEW end, end = Accepted(index)'[i].end
               PROVE  /\ pc = "interval" => \A k \in DOMAIN logs[sensor] :
                            AccountSequence(k) <= end => logs[sensor][k] < currentLedger
                      /\ pc = "send" => end <= IF function = AVG THEN marks[1] - 1 ELSE marks[2]
    BY <1>1 DEF Behind, AccountSequence, AVG
  <2>1. index \in TimeAccount /\ index' = index /\ sensor' = sensor /\ runs' = runs
    BY <1>1 DEF IInv, Types
  <2>2. PICK j \in DOMAIN Accepted(index) : Accepted(index)'[i] = Accepted(index)[j]
    BY <1>2, <2>1
  <2>3. IsAverage(index, j, sensor, runs) /\ end = Accepted(index)[j].end
    BY <2>1, <2>2 DEF IsAverage, AVG
  <2>4. /\ pc = "interval" => \A k \in DOMAIN logs[sensor] :
               AccountSequence(k) <= Accepted(index)[j].end => logs[sensor][k] < currentLedger
        /\ pc = "send" => Accepted(index)[j].end
                            <= IF function = AVG THEN marks[1] - 1 ELSE marks[2]
    BY <2>3 DEF Contents, Behind
  <2> QED
    BY <2>3, <2>4
<1> QED
  BY <1>3, <1>4, <1>5, <1>6 DEF Contents

\* Nothing is told and nothing is in hand in the beginning.
LEMMA ContentsInit == Init => Contents
<1> SUFFICES ASSUME Init PROVE Contents
  OBVIOUS
<1>1. \A a \in TimeAccount : DOMAIN Accepted(a) = {}
  <2> TAKE a \in TimeAccount
  <2>1. aggregates[a] = <<>> /\ queued[a] = <<>>
    BY DEF Init
  <2>2. Types
    BY IInvInit DEF IInv
  <2>3. Len(aggregates[a]) = 0 /\ Len(queued[a]) = 0
    BY <2>1
  <2>4. Len(Accepted(a)) = 0
    <3>1. Len(Accepted(a)) = Len(aggregates[a]) + Len(queued[a])
      BY <2>2, AcceptedType
    <3> QED
      BY <2>3, <3>1
  <2> QED
    BY <2>2, <2>4, AcceptedType
<1>2. pc = "first" /\ 1 \in TimeAccount /\ index = 1
  BY Constants DEF Init
<1> QED
  BY <1>1, <1>2 DEF Contents, Told, InHand, Ascending, Behind

\* Every step keeps what the transactions tell.
LEMMA ContentsStep == IInv /\ Contents /\ [Next]_vars => Contents'
<1> SUFFICES ASSUME IInv, Contents, [Next]_vars PROVE Contents'
  OBVIOUS
<1>1. CASE ReadFirst \/ ReadLast \/ EndOfIntervals \/ Refused \/ Restart
  BY <1>1, QuietContents
<1>2. CASE CalculateFunctionsForLedgers
  BY <1>2, GapContents, IntervalContents
<1>3. CASE SendTransaction \/ TryAgainLater \/ SendFails
  BY <1>3, SendingContents
<1>4. CASE CloseLedger
  BY <1>4, CloseContents
<1>5. ASSUME NEW a \in TimeAccount, Apply(a) PROVE Contents'
  BY <1>5, ApplyContents
<1>6. CASE UNCHANGED vars
  <2>1. UNCHANGED <<logs, process, runs, pc, sensor, index, currentLedger, marks, results,
                    function, queued, aggregates>>
    BY <1>6 DEF vars, loop, network
  <2>2. Told' /\ Ascending'
    BY <2>1, SameContents
  <2>3. InHand'
    BY <2>1 DEF Contents, InHand, ResultOf
  <2>4. Behind'
    BY <2>1, SameAccepted DEF Contents, Behind, AccountSequence, AVG
  <2> QED
    BY <2>2, <2>3, <2>4 DEF Contents
<1> QED
  BY <1>1, <1>2, <1>3, <1>4, <1>5, <1>6 DEF Next, Aggregator

\* Beside the inductive invariant, the contents of the transactions are as they should be.
THEOREM ContentsInvariance == Spec => [](IInv /\ Contents)
<1>1. Init => IInv /\ Contents
  BY IInvInit, ContentsInit
<1>2. (IInv /\ Contents) /\ [Next]_vars => (IInv /\ Contents)'
  BY IInvStep, ContentsStep
<1> QED
  BY <1>1, <1>2, PTL DEF Spec

\* One of the first values of a function is the greatest.
LEMMA GreatestValue ==
  ASSUME NEW fun, NEW n \in Nat \ {0}, \A k \in 1 .. n : fun[k] \in Nat
  PROVE  \E k \in 1 .. n : \A j \in 1 .. n : fun[j] <= fun[k]
<1> DEFINE Right(m) == \E k \in 1 .. m : \A j \in 1 .. m : fun[j] <= fun[k]
           Wrong == {m \in 1 .. n : ~Right(m)}
<1> SUFFICES Wrong = {}
  OBVIOUS
<1> SUFFICES ASSUME Wrong # {} PROVE FALSE
  OBVIOUS
<1>1. PICK m \in Wrong : \A k \in Wrong : m <= k
  <2>1. Wrong \in SUBSET Nat
    OBVIOUS
  <2> HIDE DEF Wrong
  <2> QED
    BY <2>1, LeastNumber
<1>2. m # 1
  <2>1. Right(1)
    OBVIOUS
  <2> QED
    BY <2>1
<1>3. m \in 2 .. n /\ m - 1 \in 1 .. n /\ ~(m <= m - 1)
  BY <1>2
<1>4. Right(m - 1)
  <2> HIDE DEF Right
  <2>1. ~Right(m - 1) => m - 1 \in Wrong
    BY <1>3
  <2> QED
    BY <1>1, <1>3, <2>1
<1>5. PICK k \in 1 .. m - 1 : \A j \in 1 .. m - 1 : fun[j] <= fun[k]
  BY <1>4
<1>6. \A j \in 1 .. m : j \in 1 .. m - 1 \/ j = m
  BY <1>3
<1>7. fun[m] \in Nat /\ k \in 1 .. m /\ m \in 1 .. m /\ \A j \in 1 .. m : fun[j] \in Nat
  BY <1>3
<1>8. CASE fun[m] <= fun[k]
  <2>1. \A j \in 1 .. m : fun[j] <= fun[k]
    BY <1>5, <1>6, <1>8
  <2> QED
    BY <1>7, <2>1
<1>9. CASE ~(fun[m] <= fun[k])
  <2>1. ASSUME NEW j \in 1 .. m PROVE fun[j] <= fun[m]
    <3>1. CASE j \in 1 .. m - 1
      <4>1. fun[j] <= fun[k] /\ fun[j] \in Nat /\ fun[k] \in Nat /\ fun[m] \in Nat
        BY <1>5, <1>7, <3>1
      <4> QED
        BY <1>9, <4>1
    <3>2. CASE j = m
      BY <1>7, <3>2
    <3> QED
      BY <1>6, <3>1, <3>2
  <2> QED
    BY <1>7, <2>1
<1> QED
  BY <1>8, <1>9

\* The sum of a part of a list of numbers.
LEMMA SumOfPart ==
  ASSUME NEW full \in Seq(Nat), NEW n \in Nat, n <= Len(full), NEW m \in 1 .. n
  PROVE  LET N == n - m + 1
             list == SubSeq(full, m, n)
         IN
         /\ N \in Nat \ {0} /\ Len(list) = N /\ DOMAIN list = 1 .. N
         /\ \A k \in 1 .. N : list[k] \in Nat /\ m - 1 + k \in m .. n
                             /\ list[k] = full[m - 1 + k]
         /\ \A k \in m .. n : \E j \in 1 .. N : list[j] = full[k]
         /\ SumFunction(list) = SumFunctionOnSet(full, m .. n)
         /\ SumFunctionOnSet(full, m .. n) \in Nat
<1> DEFINE N == n - m + 1
           list == SubSeq(full, m, n)
<1>1. /\ Len(full) \in Nat /\ \A k \in 1 .. Len(full) : full[k] \in Nat
  OBVIOUS
<1>2. N \in Nat \ {0} /\ m \in Nat
      /\ \A k \in 1 .. N : m - 1 + k \in m .. n /\ m - 1 + k \in 1 .. Len(full)
  BY <1>1
<1>3. /\ list \in Seq(Nat) /\ Len(list) = N /\ DOMAIN list = 1 .. N
      /\ \A k \in 1 .. N : list[k] = full[m - 1 + k]
  BY <1>1, <1>2
<1>4. \A k \in 1 .. N : list[k] \in Nat /\ list[k] = full[m - 1 + k]
  BY <1>1, <1>2, <1>3
<1> HIDE DEF list
<1>5. ASSUME NEW k \in m .. n PROVE \E j \in 1 .. N : list[j] = full[k]
  <2>1. k - m + 1 \in 1 .. N /\ m - 1 + (k - m + 1) = k
    BY <1>2
  <2>2. list[k - m + 1] = full[m - 1 + (k - m + 1)]
    BY <1>4, <2>1
  <2> QED
    BY <2>1, <2>2
<1>6. SumFunction(list) = SumFunctionOnSet(full, m .. n)
  <2> DEFINE d == m - 1
  <2>1. d \in Int /\ d + 1 = m /\ d + N = n
    BY <1>2
  <2>2. \A k \in 1 .. N : list[k] = full[d + k] /\ list[k] \in Int
    BY <1>4
  <2> HIDE DEF d, N
  <2>3. SumFunctionOnSet(list, 1 .. N) = SumFunctionOnSet(full, d + 1 .. d + N)
    BY <1>2, <2>1, <2>2, SumShifted
  <2> QED
    BY <1>3, <2>1, <2>3 DEF SumFunction
<1> HIDE DEF N
<1>7. SumFunction(list) \in Nat
  <2>1. IsFiniteSet(1 .. N)
    BY <1>2, FS_Interval
  <2> QED
    BY <1>3, <1>4, <2>1, SumIsNatural DEF SumFunction
<1> QED
  BY <1>2, <1>3, <1>4, <1>5, <1>6, <1>7 DEF N, list

\* The average, the minimum and the maximum of the logs from the m-th to the n-th.
Describes(r, s, m, n) ==
  /\ SumFunctionOnSet(Reading[s], m .. n) \in Nat
  /\ r[AVG] = SumFunctionOnSet(Reading[s], m .. n) \div (n - m + 1)
  /\ r[MIN] \in Nat /\ \E k \in m .. n : Reading[s][k] = r[MIN]
  /\ \A k \in m .. n : r[MIN] <= Reading[s][k]
  /\ r[MAX] \in Nat /\ \E k \in m .. n : Reading[s][k] = r[MAX]
  /\ \A k \in m .. n : Reading[s][k] <= r[MAX]

\* Results calculates them.
LEMMA ResultsDescribe ==
  ASSUME NEW s \in Sensor, NEW n \in Nat, n <= Len(Reading[s]), NEW m \in 1 .. n
  PROVE  Describes(Results(SubSeq(Reading[s], m, n)), s, m, n)
<1> DEFINE full == Reading[s]
           list == SubSeq(full, m, n)
           N == n - m + 1
           sum == SumFunctionOnSet(full, m .. n)
           r == Results(list)
<1>1. full \in Seq(Nat) /\ n <= Len(full)
  BY LogsAreRead
<1> HIDE DEF full, r
<1>3. /\ N \in Nat \ {0} /\ Len(list) = N /\ DOMAIN list = 1 .. N
      /\ \A k \in 1 .. N : list[k] \in Nat /\ m - 1 + k \in m .. n
                          /\ list[k] = full[m - 1 + k]
      /\ \A k \in m .. n : \E j \in 1 .. N : list[j] = full[k]
      /\ SumFunction(list) = sum /\ sum \in Nat
  <2> HIDE DEF list, N, sum
  <2>1. LET k == n - m + 1
            part == SubSeq(full, m, n)
        IN  /\ k \in Nat \ {0} /\ Len(part) = k /\ DOMAIN part = 1 .. k
            /\ \A i \in 1 .. k : part[i] \in Nat /\ m - 1 + i \in m .. n
                                /\ part[i] = full[m - 1 + i]
            /\ \A i \in m .. n : \E j \in 1 .. k : part[j] = full[i]
            /\ SumFunction(part) = SumFunctionOnSet(full, m .. n)
            /\ SumFunctionOnSet(full, m .. n) \in Nat
    BY <1>1, SumOfPart
  <2> QED
    BY <2>1 DEF list, N, sum
<1> HIDE DEF list, N, sum
<1>4. r[AVG] = sum \div N /\ r[MIN] = Min(ToSet(list)) /\ r[MAX] = Max(ToSet(list) \cup {0})
  <2>1. Quotient(sum, N) = sum \div N
    BY <1>3 DEF Quotient
  <2>2. r = <<sum \div N, Min(ToSet(list)), Max(ToSet(list) \cup {0})>>
    BY <1>3, <2>1 DEF Results, r
  <2> QED
    BY <2>2 DEF AVG, MIN, MAX
<1>5. \A v : v \in ToSet(list) <=> \E k \in 1 .. N : v = list[k]
  BY <1>3 DEF ToSet
<1>6. Min(ToSet(list)) \in ToSet(list) /\ \A k \in 1 .. N : Min(ToSet(list)) <= list[k]
  <2>1. ToSet(list) \in SUBSET Nat
    BY <1>3, <1>5
  <2>2. 1 \in 1 .. N
    BY <1>3
  <2>3. ToSet(list) # {}
    BY <1>5, <2>2
  <2>4. \E x \in ToSet(list) : \A y \in ToSet(list) : x <= y
    BY <2>1, <2>3, LeastNumber
  <2>5. /\ Min(ToSet(list)) \in ToSet(list)
        /\ \A y \in ToSet(list) : Min(ToSet(list)) <= y
    BY <2>4 DEF Min
  <2> QED
    BY <1>5, <2>5
<1>7. /\ Max(ToSet(list) \cup {0}) \in ToSet(list)
      /\ \A k \in 1 .. N : list[k] <= Max(ToSet(list) \cup {0})
  <2> DEFINE T == ToSet(list) \cup {0}
  <2>1. PICK k \in 1 .. N : \A j \in 1 .. N : list[j] <= list[k]
    BY <1>3, GreatestValue
  <2>2. list[k] \in T /\ list[k] \in Nat /\ T \in SUBSET Nat
    <3>1. \A j \in 1 .. N : list[j] \in Nat
      BY <1>3
    <3>2. ToSet(list) \in SUBSET Nat
      BY <1>5, <3>1
    <3>3. list[k] \in ToSet(list)
      BY <1>5
    <3> QED
      BY <3>1, <3>2, <3>3
  <2>3. ASSUME NEW y \in T PROVE list[k] >= y
    <3>1. CASE y \in ToSet(list)
      <4>1. PICK j \in 1 .. N : y = list[j]
        BY <1>5, <3>1
      <4> QED
        BY <1>3, <2>1, <4>1
    <3>2. CASE y = 0
      BY <2>2, <3>2
    <3> QED
      BY <3>1, <3>2
  <2> HIDE DEF T
  <2>4. \E x \in T : \A y \in T : x >= y
    BY <2>2, <2>3
  <2>5. Max(T) = list[k]
    <3>1. Max(T) \in T /\ \A y \in T : Max(T) >= y
      BY <2>4 DEF Max
    <3>2. Max(T) >= list[k] /\ list[k] >= Max(T) /\ list[k] \in Nat /\ Max(T) \in Nat
      BY <2>2, <2>3, <3>1
    <3> QED
      BY <3>2
  <2> HIDE DEF T
  <2> QED
    BY <1>5, <2>1, <2>5 DEF T
<1>8. r[MIN] \in Nat /\ (\E k \in m .. n : full[k] = r[MIN])
      /\ \A k \in m .. n : r[MIN] <= full[k]
  <2>1. PICK k \in 1 .. N : r[MIN] = list[k]
    BY <1>4, <1>5, <1>6
  <2>2. m - 1 + k \in m .. n /\ full[m - 1 + k] = r[MIN] /\ r[MIN] \in Nat
    BY <1>3, <2>1
  <2>3. ASSUME NEW j \in m .. n PROVE r[MIN] <= full[j]
    <3>1. PICK i \in 1 .. N : list[i] = full[j]
      BY <1>3
    <3> QED
      BY <1>4, <1>6, <3>1
  <2> QED
    BY <2>2, <2>3
<1>9. r[MAX] \in Nat /\ (\E k \in m .. n : full[k] = r[MAX])
      /\ \A k \in m .. n : full[k] <= r[MAX]
  <2>1. PICK k \in 1 .. N : r[MAX] = list[k]
    BY <1>4, <1>5, <1>7
  <2>2. m - 1 + k \in m .. n /\ full[m - 1 + k] = r[MAX] /\ r[MAX] \in Nat
    BY <1>3, <2>1
  <2>3. ASSUME NEW j \in m .. n PROVE full[j] <= r[MAX]
    <3>1. PICK i \in 1 .. N : list[i] = full[j]
      BY <1>3
    <3> QED
      BY <1>4, <1>7, <3>1
  <2> QED
    BY <2>2, <2>3
<1> QED
  BY <1>3, <1>4, <1>8, <1>9 DEF Describes, full, list, N, sum, r

\* What is left of a division.
LEMMA Remainder ==
  ASSUME NEW x \in Nat, NEW y \in Nat \ {0}
  PROVE  /\ x \div y \in Nat /\ x - ((x \div y) * y) \in 0 .. y - 1
<1> DEFINE q == x \div y
           r == x % y
<1>1. q \in Nat /\ r \in Nat /\ r < y /\ x = q * y + r
  OBVIOUS
<1>2. q * y \in Nat
  BY <1>1
<1> HIDE DEF q, r
<1> DEFINE p == q * y
<1>3. p \in Nat /\ x = p + r
  BY <1>1, <1>2
<1> HIDE DEF p
<1>4. x - p \in 0 .. y - 1
  BY <1>1, <1>3
<1> QED
  BY <1>1, <1>4 DEF p, q

\* A transaction on the ledger is about logs of its sensor, and the browser reads the
\* result for them.
LEMMA OnTheLedger ==
  ASSUME IInv, Contents, NEW a \in TimeAccount, NEW i \in DOMAIN aggregates[a],
         NEW tx, tx = aggregates[a][i], NEW m, m = tx.start - SensorStart,
         NEW n, n = tx.end - SensorStart
  PROVE  /\ tx.sensor \in Sensor /\ tx.function \in Function
         /\ i \in DOMAIN Accepted(a) /\ tx = Accepted(a)[i]
         /\ m \in 1 .. n /\ n \in Nat /\ n <= Len(logs[tx.sensor])
         /\ tx.start = SensorStart + m /\ tx.end = SensorStart + n
         /\ n \in 1 .. Len(Reading[tx.sensor])
         /\ DOMAIN logs[tx.sensor] = 1 .. Len(logs[tx.sensor])
         /\ Len(logs[tx.sensor]) \in Nat
         /\ Value(a, tx) = Results(SubSeq(Reading[tx.sensor], m, n))[tx.function]
         /\ Value(a, tx) \in Nat
<1>1. i \in DOMAIN Accepted(a) /\ tx = Accepted(a)[i]
  <2>1. DOMAIN aggregates[a] = 1 .. Len(aggregates[a])
    BY DEF IInv, Types
  <2>2. /\ DOMAIN Accepted(a) = 1 .. Len(Accepted(a))
        /\ \A j \in 1 .. Len(aggregates[a]) : Accepted(a)[j] = aggregates[a][j]
    BY AcceptedType DEF IInv
  <2>3. \A j \in 1 .. Len(aggregates[a]) : j \in 1 .. Len(Accepted(a))
    <3> DEFINE k == Len(aggregates[a])
               l == Len(Accepted(a))
               q == Len(queued[a])
    <3>1. k \in Nat /\ q \in Nat /\ l = k + q
      BY AcceptedType DEF IInv
    <3> HIDE DEF k, l, q
    <3>2. \A j \in 1 .. k : j \in 1 .. l
      BY <3>1
    <3> QED
      BY <3>2 DEF k, l
  <2> QED
    BY <2>1, <2>2, <2>3
<1>2. /\ tx.sensor \in Sensor /\ tx.function \in Function
      /\ tx.seq \in Nat /\ tx.start \in Nat /\ tx.end \in Nat
      /\ InOneInterval(a, tx.sensor, tx.start, tx.end) /\ Tells(a, tx)
  BY <1>1, Fields DEF IInv, Filed, Contents, Told
<1>3. /\ SensorStart \in Nat /\ Len(logs[tx.sensor]) \in Nat
      /\ DOMAIN logs[tx.sensor] = 1 .. Len(logs[tx.sensor])
      /\ Len(logs[tx.sensor]) <= MaxLogs /\ MaxLogs \in Nat
      /\ tx.start \in SensorStart + 1 .. tx.end
      /\ tx.end <= SensorStart + Len(logs[tx.sensor])
  <2>1. logs[tx.sensor] \in Seq(Nat) /\ Len(logs[tx.sensor]) <= MaxLogs
    BY <1>2 DEF IInv, Types, Chronicle
  <2>2. /\ Len(logs[tx.sensor]) \in Nat /\ DOMAIN logs[tx.sensor] = 1 .. Len(logs[tx.sensor])
    BY <2>1
  <2>3. /\ tx.start \in SensorStart + 1 .. tx.end
        /\ tx.end <= SensorStart + Len(logs[tx.sensor])
    BY <1>2 DEF InOneInterval
  <2> QED
    BY <2>1, <2>2, <2>3, Constants
<1>4. /\ m \in 1 .. n /\ n \in Nat /\ n <= Len(logs[tx.sensor])
      /\ tx.start = SensorStart + m /\ tx.end = SensorStart + n
  <2> DEFINE x == tx.start
             y == tx.end
             l == Len(logs[tx.sensor])
  <2>1. /\ x \in Nat /\ y \in Nat /\ l \in Nat /\ SensorStart \in Nat
        /\ x \in SensorStart + 1 .. y /\ y <= SensorStart + l
        /\ m = x - SensorStart /\ n = y - SensorStart
    BY <1>2, <1>3
  <2> HIDE DEF x, y, l
  <2>2. m \in 1 .. n /\ n \in Nat /\ n <= l /\ x = SensorStart + m /\ y = SensorStart + n
    BY <2>1
  <2> QED
    BY <2>2 DEF x, y, l
<1>5. n \in 1 .. Len(Reading[tx.sensor])
  <2> DEFINE l == Len(logs[tx.sensor])
             k == Len(Reading[tx.sensor])
  <2>1. k \in Nat /\ k >= MaxLogs /\ l \in Nat /\ l <= MaxLogs /\ MaxLogs \in Nat
        /\ m \in 1 .. n /\ n \in Nat /\ n <= l
    BY <1>2, <1>3, <1>4, LogsAreRead
  <2> HIDE DEF k, l
  <2>2. n \in 1 .. k
    BY <2>1
  <2> QED
    BY <2>2 DEF k
<1> DEFINE r == Results(SubSeq(Reading[tx.sensor], m, n))
<1>6. r[tx.function] \in Nat
  <2>1. Describes(r, tx.sensor, m, n)
    BY <1>2, <1>4, <1>5, ResultsDescribe
  <2> HIDE DEF r
  <2>2. r[AVG] \in Nat
    <3>1. n - m + 1 \in Nat \ {0}
      BY <1>4
    <3> DEFINE sum == SumFunctionOnSet(Reading[tx.sensor], m .. n)
    <3>2. sum \in Nat /\ r[AVG] = sum \div (n - m + 1)
      BY <2>1 DEF Describes
    <3> HIDE DEF sum
    <3> QED
      BY <3>1, <3>2, Remainder
  <2>3. r[MIN] \in Nat /\ r[MAX] \in Nat
    BY <2>1 DEF Describes
  <2> QED
    BY <1>2, <2>2, <2>3 DEF Function, AVG, MIN, MAX
<1>7. Value(a, tx) = r[tx.function]
  <2>1. tx.memo = EncryptToMemo(tx.seq, TimeKey(a), SensorKey(tx.sensor),
                                Plain(r[tx.function]))
    BY <1>2 DEF Tells, ResultOf
  <2> HIDE DEF r
  <2>2. tx.memo = EncryptToMemo(tx.seq, SensorKey(tx.sensor), TimeKey(a),
                                Plain(r[tx.function]))
    BY <2>1 DEF EncryptToMemo, DeriveDHKey
  <2>3. r[tx.function] \in Int
    BY <1>6
  <2> QED
    BY <1>2, <2>2, <2>3, ReceiverReadsTheValue DEF Value
<1> QED
  BY <1>1, <1>2, <1>3, <1>4, <1>5, <1>6, <1>7

\* The average, minimum or maximum the browser reads of a transaction is that of exactly
\* the logs its marks stand for (aggregator.go:353, browser/main.go:388).
THEOREM MarksMatchCorrect == Spec => []AggregatesMatchTheirMarks
<1>1. IInv /\ Contents => AggregatesMatchTheirMarks
  <2> SUFFICES ASSUME IInv, Contents, NEW a \in TimeAccount, NEW tx \in ToSet(aggregates[a]),
                      NEW s, s = tx.sensor, NEW rows,
                      rows = tx.start - SensorStart .. tx.end - SensorStart
               PROVE  CASE tx.function = AVG ->
                             SumFunctionOnSet(Reading[s], rows)
                               - (Value(a, tx) * Cardinality(rows)) \in 0 .. Cardinality(rows) - 1
                        [] tx.function = MIN ->
                             /\ rows \cap get2(s, "<=", Value(a, tx)) # {}
                             /\ ~(rows \cap get2(s, "<", Value(a, tx)) # {})
                        [] tx.function = MAX ->
                             /\ rows \cap get2(s, ">=", Value(a, tx)) # {}
                             /\ ~(rows \cap get2(s, ">", Value(a, tx)) # {})
    BY DEF AggregatesMatchTheirMarks
  <2> DEFINE m == tx.start - SensorStart
             n == tx.end - SensorStart
             r == Results(SubSeq(Reading[s], m, n))
             sum == SumFunctionOnSet(Reading[s], m .. n)
             v == Value(a, tx)
  <2>1. PICK i \in DOMAIN aggregates[a] : tx = aggregates[a][i]
    BY DEF ToSet
  <2>2. /\ s \in Sensor /\ tx.function \in Function
        /\ m \in 1 .. n /\ n \in Nat /\ n <= Len(logs[s]) /\ n \in 1 .. Len(Reading[s])
        /\ DOMAIN logs[s] = 1 .. Len(logs[s]) /\ Len(logs[s]) \in Nat
        /\ v = r[tx.function] /\ v \in Nat
    <3> HIDE DEF m, n
    <3>1. m = tx.start - SensorStart /\ n = tx.end - SensorStart
      BY DEF m, n
    <3> QED
      BY <2>1, <3>1, OnTheLedger, SMTT(30)
  <2> HIDE DEF m, n, r, sum, v
  <2>3. rows = m .. n
    BY DEF m, n
  <2>4. r = Results(SubSeq(Reading[s], m, n)) /\ sum = SumFunctionOnSet(Reading[s], m .. n)
    BY DEF r, sum
  <2>5. /\ sum \in Nat
        /\ r[AVG] = sum \div (n - m + 1)
        /\ r[MIN] \in Nat /\ \E k \in m .. n : Reading[s][k] = r[MIN]
        /\ \A k \in m .. n : r[MIN] <= Reading[s][k]
        /\ r[MAX] \in Nat /\ \E k \in m .. n : Reading[s][k] = r[MAX]
        /\ \A k \in m .. n : Reading[s][k] <= r[MAX]
    <3>1. s \in Sensor /\ n \in Nat /\ n <= Len(Reading[s]) /\ m \in 1 .. n
      BY <2>2
    <3>2. Describes(r, s, m, n)
      BY <2>4, <3>1, ResultsDescribe
    <3> QED
      BY <2>4, <3>2 DEF Describes
  <2>6. ASSUME NEW k \in m .. n
        PROVE  /\ k \in DOMAIN logs[s] /\ Reading[s][k] \in Nat
               /\ parseMemo(LogMemo[s][k], AccountSequence(k), SensorKey(s), BatchKey)
                    = Reading[s][k]
    <3>1. k \in 1 .. Len(logs[s]) /\ k \in 1 .. Len(Reading[s])
      BY <2>2
    <3> QED
      BY <2>2, <3>1, LogsAreRead
  <2>7. ASSUME NEW k \in m .. n
        PROVE  /\ k \in get2(s, "<=", v) <=> Reading[s][k] <= v
               /\ k \in get2(s, "<", v) <=> Reading[s][k] < v
               /\ k \in get2(s, ">=", v) <=> Reading[s][k] >= v
               /\ k \in get2(s, ">", v) <=> Reading[s][k] > v
    <3>1. /\ k \in DOMAIN logs[s]
          /\ parseMemo(LogMemo[s][k], AccountSequence(k), SensorKey(s), BatchKey)
               = Reading[s][k]
      BY <2>6
    <3>2. k \in get2(s, "<=", v) <=> Reading[s][k] <= v
      BY <3>1 DEF get2
    <3>3. k \in get2(s, "<", v) <=> Reading[s][k] < v
      BY <3>1 DEF get2
    <3>4. k \in get2(s, ">=", v) <=> Reading[s][k] >= v
      BY <3>1 DEF get2
    <3>5. k \in get2(s, ">", v) <=> Reading[s][k] > v
      BY <3>1 DEF get2
    <3> QED
      BY <3>2, <3>3, <3>4, <3>5
  <2>8. tx.function = AVG => sum - (v * Cardinality(rows)) \in 0 .. Cardinality(rows) - 1
    <3> SUFFICES ASSUME tx.function = AVG
                 PROVE  sum - (v * Cardinality(rows)) \in 0 .. Cardinality(rows) - 1
      OBVIOUS
    <3> DEFINE N == n - m + 1
    <3>1. N \in Nat \ {0} /\ m <= n /\ m \in Int /\ n \in Int
      BY <2>2
    <3>2. Cardinality(rows) = N
      <4>1. Cardinality(m .. n) = IF m > n THEN 0 ELSE n - m + 1
        BY <3>1, FS_Interval
      <4> QED
        BY <2>3, <3>1, <4>1
    <3>3. v = sum \div N
      BY <2>2, <2>5
    <3> HIDE DEF N
    <3>4. sum - ((sum \div N) * N) \in 0 .. N - 1
      BY <2>5, <3>1, Remainder
    <3> QED
      BY <3>2, <3>3, <3>4
  <2>9. tx.function = MIN => /\ rows \cap get2(s, "<=", v) # {}
                             /\ ~(rows \cap get2(s, "<", v) # {})
    <3> SUFFICES ASSUME tx.function = MIN
                 PROVE  /\ rows \cap get2(s, "<=", v) # {}
                        /\ rows \cap get2(s, "<", v) = {}
      OBVIOUS
    <3>1. v = r[MIN]
      BY <2>2
    <3>2. PICK k \in m .. n : Reading[s][k] = v
      BY <2>5, <3>1
    <3>3. k \in get2(s, "<=", v)
      BY <2>2, <2>7, <3>2
    <3>4. ASSUME NEW j \in m .. n PROVE j \notin get2(s, "<", v)
      <4>1. v <= Reading[s][j] /\ Reading[s][j] \in Nat
        BY <2>5, <2>6, <3>1
      <4> QED
        BY <2>2, <2>7, <4>1
    <3> QED
      BY <2>3, <3>2, <3>3, <3>4
  <2>10. tx.function = MAX => /\ rows \cap get2(s, ">=", v) # {}
                              /\ ~(rows \cap get2(s, ">", v) # {})
    <3> SUFFICES ASSUME tx.function = MAX
                 PROVE  /\ rows \cap get2(s, ">=", v) # {}
                        /\ rows \cap get2(s, ">", v) = {}
      OBVIOUS
    <3>1. v = r[MAX]
      BY <2>2
    <3>2. PICK k \in m .. n : Reading[s][k] = v
      BY <2>5, <3>1
    <3>3. k \in get2(s, ">=", v)
      BY <2>2, <2>7, <3>2
    <3>4. ASSUME NEW j \in m .. n PROVE j \notin get2(s, ">", v)
      <4>1. Reading[s][j] <= v /\ Reading[s][j] \in Nat
        BY <2>5, <2>6, <3>1
      <4> QED
        BY <2>2, <2>7, <4>1
    <3> QED
      BY <2>3, <3>2, <3>3, <3>4
  <2>11. tx.function \in {1, 2, 3}
    BY <2>2 DEF Function
  <2>12. sum = SumFunctionOnSet(Reading[s], rows) /\ v = Value(a, tx)
    BY <2>3 DEF sum, v
  <2> QED
    BY <2>8, <2>9, <2>10, <2>11, <2>12 DEF AVG, MIN, MAX
<1> QED
  BY <1>1, ContentsInvariance, PTL

-----------------------------------------------------------------------------
(***************************************************************************)
(* The rows a query reads, in their order, and averages of averages.       *)
(***************************************************************************)

\* Every rank is taken, by exactly one number, and they rise together.
LEMMA RanksAreAll ==
  ASSUME NEW n \in Nat, NEW P \in SUBSET (1 .. n)
  PROVE  /\ IsFiniteSet(P) /\ Cardinality(P) \in Nat
         /\ \A i, j \in P : i < j => Rank(P, i) < Rank(P, j)
         /\ \A i \in P : Rank(P, i) \in 1 .. Cardinality(P)
         /\ \A k \in 1 .. Cardinality(P) : \E i \in P : Rank(P, i) = k
<1> DEFINE UpTo(i) == {j \in P : j <= i}
           c == Cardinality(P)
<1>1. IsFiniteSet(P) /\ c \in Nat
  <2>1. IsFiniteSet(1 .. n)
    BY FS_Interval
  <2>2. IsFiniteSet(P)
    BY <2>1, FS_Subset
  <2> QED
    BY <2>2, FS_CardinalityType
<1>2. ASSUME NEW i \in P
      PROVE  /\ IsFiniteSet(UpTo(i)) /\ Cardinality(UpTo(i)) \in Nat
             /\ Rank(P, i) = Cardinality(UpTo(i)) /\ Cardinality(UpTo(i)) <= c
  <2>1. UpTo(i) \in SUBSET P
    OBVIOUS
  <2>2. Rank(P, i) = Cardinality(UpTo(i))
    BY DEF Rank
  <2> HIDE DEF UpTo
  <2>3. IsFiniteSet(UpTo(i)) /\ Cardinality(UpTo(i)) <= c
    BY <1>1, <2>1, FS_Subset
  <2>4. Cardinality(UpTo(i)) \in Nat
    BY <2>3, FS_CardinalityType
  <2> QED
    BY <2>2, <2>3, <2>4
<1>3. ASSUME NEW i \in P, NEW j \in P, i < j PROVE Rank(P, i) < Rank(P, j)
  <2>1. UpTo(i) \in SUBSET UpTo(j) /\ j \in UpTo(j) /\ j \notin UpTo(i)
    <3>1. \A k \in P : k \in Nat
      OBVIOUS
    <3>2. i \in Nat /\ j \in Nat /\ i < j
      BY <1>3, <3>1
    <3>3. ASSUME NEW k \in P, k <= i PROVE k <= j
      BY <3>1, <3>2, <3>3
    <3>4. UpTo(i) \in SUBSET UpTo(j)
      BY <3>3
    <3>5. j \in UpTo(j) /\ j \notin UpTo(i)
      BY <3>2
    <3> QED
      BY <3>4, <3>5
  <2>2. /\ IsFiniteSet(UpTo(j)) /\ Cardinality(UpTo(i)) \in Nat /\ Cardinality(UpTo(j)) \in Nat
        /\ Rank(P, i) = Cardinality(UpTo(i)) /\ Rank(P, j) = Cardinality(UpTo(j))
    BY <1>2
  <2> HIDE DEF UpTo
  <2>3. /\ Cardinality(UpTo(i)) <= Cardinality(UpTo(j))
        /\ Cardinality(UpTo(j)) = Cardinality(UpTo(i)) => UpTo(j) = UpTo(i)
    BY <2>1, <2>2, FS_Subset
  <2> QED
    BY <2>1, <2>2, <2>3
<1>4. ASSUME NEW i \in P PROVE Rank(P, i) \in 1 .. c
  <2>1. i \in UpTo(i)
    OBVIOUS
  <2>2. IsFiniteSet(UpTo(i)) /\ Cardinality(UpTo(i)) \in Nat
        /\ Rank(P, i) = Cardinality(UpTo(i)) /\ Cardinality(UpTo(i)) <= c
    BY <1>2
  <2> HIDE DEF UpTo, c
  <2>3. Cardinality(UpTo(i)) # 0
    BY <2>1, <2>2, FS_EmptySet
  <2> QED
    BY <1>1, <2>2, <2>3
<1> DEFINE rank == [i \in P |-> Rank(P, i)]
<1>5. rank \in Injection(P, 1 .. c)
  <2>1. rank \in [P -> 1 .. c]
    BY <1>4
  <2>2. ASSUME NEW i \in P, NEW j \in P, rank[i] = rank[j] PROVE i = j
    <3>1. Rank(P, i) = Rank(P, j) /\ Rank(P, i) \in Int /\ i \in Int /\ j \in Int
      BY <1>4, <2>2
    <3> QED
      BY <1>3, <3>1
  <2> HIDE DEF rank, c
  <2> QED
    BY <2>1, <2>2 DEF Injection, IsInjective
<1>6. rank \in Surjection(P, 1 .. c)
  <2> HIDE DEF rank, c
  <2>1. IsFiniteSet(1 .. c) /\ Cardinality(1 .. c) = c
    BY <1>1, FS_Interval
  <2>2. Cardinality(P) = c
    BY DEF c
  <2> QED
    BY <1>5, <2>1, <2>2, FS_Injection
<1>7. \A k \in 1 .. c : \E i \in P : Rank(P, i) = k
  <2> HIDE DEF c
  <2> QED
    BY <1>6 DEF Surjection
<1> QED
  BY <1>1, <1>3, <1>4, <1>7

\* The rows of a sensor and a function stand on the ledger at places that rise.
RowsAt(a, s, f, rows, place) ==
  /\ Len(rows) \in Nat /\ DOMAIN rows = 1 .. Len(rows)
  /\ \A n \in 1 .. Len(rows) :
       /\ place[n] \in DOMAIN aggregates[a] /\ rows[n] = aggregates[a][place[n]]
       /\ rows[n].sensor = s /\ rows[n].function = f
  /\ \A n, k \in 1 .. Len(rows) : n < k => place[n] < place[k]

\* The rows of Operations do.
LEMMA OperationsRise ==
  ASSUME Types, NEW a \in TimeAccount, NEW s, NEW f
  PROVE  \E place : RowsAt(a, s, f, Operations(a, s, f), place)
<1> DEFINE P == Places(a, s, f)
           c == Cardinality(P)
           place == [n \in 1 .. c |-> CHOOSE i \in P : Rank(P, i) = n]
           rows == Operations(a, s, f)
<1>1. Len(aggregates[a]) \in Nat /\ DOMAIN aggregates[a] = 1 .. Len(aggregates[a])
  BY DEF Types
<1>2. P \in SUBSET (1 .. Len(aggregates[a]))
  BY <1>1 DEF Places
<1>3. \A i \in P : i \in DOMAIN aggregates[a] /\ i \in Int /\ aggregates[a][i].sensor = s
                  /\ aggregates[a][i].function = f
  BY <1>1 DEF Places
<1>4. rows = [n \in 1 .. c |-> aggregates[a][CHOOSE i \in P : Rank(P, i) = n]]
  BY DEF Operations
<1> HIDE DEF P, c, rows
<1>5. /\ c \in Nat /\ \A i, j \in P : i < j => Rank(P, i) < Rank(P, j)
      /\ \A i \in P : Rank(P, i) \in 1 .. c
      /\ \A k \in 1 .. c : \E i \in P : Rank(P, i) = k
  BY <1>1, <1>2, RanksAreAll DEF c
<1>6. ASSUME NEW n \in 1 .. c
      PROVE  place[n] \in P /\ Rank(P, place[n]) = n /\ rows[n] = aggregates[a][place[n]]
  <2>1. \E i \in P : Rank(P, i) = n
    BY <1>5
  <2> DEFINE i == CHOOSE i \in P : Rank(P, i) = n
  <2>2. i \in P /\ Rank(P, i) = n
    BY <2>1
  <2>3. place[n] = i /\ rows[n] = aggregates[a][i]
    BY <1>4
  <2> QED
    BY <2>2, <2>3
<1>7. Len(rows) = c /\ DOMAIN rows = 1 .. c
  <2>1. DOMAIN rows = 1 .. c
    BY <1>4
  <2>2. rows \in Seq({rows[n] : n \in 1 .. c})
    <3> DEFINE R == {rows[n] : n \in 1 .. c}
    <3>1. rows = [n \in 1 .. c |-> rows[n]]
      BY <1>4
    <3>2. \A n \in 1 .. c : rows[n] \in R
      OBVIOUS
    <3> HIDE DEF R
    <3>3. rows \in [1 .. c -> R]
      BY <3>1, <3>2
    <3>4. rows \in Seq(R)
      BY <1>5, <3>3, SeqDef
    <3> QED
      BY <3>4 DEF R
  <2>3. Len(rows) \in Nat /\ DOMAIN rows = 1 .. Len(rows)
    BY <2>2, LenProperties
  <2>4. Len(rows) = c
    <3> DEFINE l == Len(rows)
    <3>1. l \in Nat /\ 1 .. l = 1 .. c
      BY <2>1, <2>3
    <3> HIDE DEF l
    <3>2. \A k \in Nat : k \in 1 .. l <=> k \in 1 .. c
      BY <3>1
    <3>3. ~(l < c) /\ ~(c < l)
      BY <1>5, <3>1, <3>2
    <3> QED
      BY <1>5, <3>1, <3>3 DEF l
  <2> QED
    BY <2>1, <2>4
<1> HIDE DEF place
<1>8. ASSUME NEW n \in 1 .. c, NEW k \in 1 .. c, n < k PROVE place[n] < place[k]
  <2>1. /\ place[n] \in P /\ place[k] \in P /\ place[n] \in Int /\ place[k] \in Int
        /\ Rank(P, place[n]) = n /\ Rank(P, place[k]) = k
    BY <1>3, <1>6
  <2>2. place[k] < place[n] => k < n
    BY <1>5, <2>1
  <2> QED
    BY <1>8, <2>1, <2>2
<1>9. RowsAt(a, s, f, rows, place)
  BY <1>3, <1>5, <1>6, <1>7, <1>8 DEF RowsAt
<1> QED
  BY <1>9 DEF rows

\* What never falls from one to the next lies between the first and the last.
LEMMA NeverFalls ==
  ASSUME NEW n \in Nat \ {0}, NEW e, \A i \in 1 .. n : e[i] \in Int,
         \A i \in 1 .. n - 1 : e[i] <= e[i + 1]
  PROVE  \A i \in 1 .. n : e[1] <= e[i] /\ e[i] <= e[n]
<1> DEFINE Wrong == {k \in Nat : \E i \in 1 .. n : i + k \in 1 .. n /\ ~(e[i] <= e[i + k])}
<1>1. Wrong = {}
  <2> SUFFICES ASSUME Wrong # {} PROVE FALSE
    OBVIOUS
  <2>1. PICK k \in Wrong : \A j \in Wrong : k <= j
    <3>1. Wrong \in SUBSET Nat
      OBVIOUS
    <3> HIDE DEF Wrong
    <3> QED
      BY <3>1, LeastNumber
  <2>2. PICK i \in 1 .. n : i + k \in 1 .. n /\ ~(e[i] <= e[i + k])
    BY <2>1
  <2>3. k # 0
    BY <2>2
  <2>4. k - 1 \in Nat /\ ~(k <= k - 1) /\ i + (k - 1) \in 1 .. n - 1
        /\ (i + (k - 1)) + 1 = i + k
    BY <2>1, <2>2, <2>3
  <2>5. e[i] <= e[i + (k - 1)]
    <3>1. i + (k - 1) \in 1 .. n
      BY <2>4
    <3>2. ~(e[i] <= e[i + (k - 1)]) => k - 1 \in Wrong
      BY <2>4, <3>1
    <3> HIDE DEF Wrong
    <3> QED
      BY <2>1, <2>4, <3>2
  <2>6. e[i + (k - 1)] <= e[i + k]
    BY <2>4
  <2>7. e[i] \in Int /\ e[i + (k - 1)] \in Int /\ e[i + k] \in Int
    BY <2>2, <2>4
  <2> QED
    BY <2>2, <2>5, <2>6, <2>7
<1>2. ASSUME NEW i \in 1 .. n, NEW j \in 1 .. n, i <= j PROVE e[i] <= e[j]
  <2>1. j - i \in Nat /\ i + (j - i) = j
    BY <1>2
  <2> QED
    BY <1>1, <2>1
<1> QED
  BY <1>2

\* Intervals of the same length that follow each other and have room for no more than
\* themselves leave no gap.
LEMMA NoGaps ==
  ASSUME NEW n \in Nat \ {0}, NEW L \in Nat \ {0}, NEW start,
         \A i \in 1 .. n : start[i] \in Int,
         \A i \in 1 .. n - 1 : start[i] + L <= start[i + 1],
         (start[n] - start[1]) + L = n * L
  PROVE  \A i \in 1 .. n : start[i] = start[1] + ((i - 1) * L)
<1> DEFINE P(i) == (i - 1) * L
           e == [i \in 1 .. n |-> (start[i] - start[1]) - P(i)]
<1>1. /\ P(1) = 0 /\ P(n) + L = n * L
      /\ \A i \in 1 .. n : P(i) \in Int
      /\ \A i \in 1 .. n - 1 : P(i + 1) = P(i) + L
  <2>1. \A i \in 1 .. n : P(i) \in Int
    OBVIOUS
  <2>2. P(1) = 0
    OBVIOUS
  <2>3. P(n) + L = n * L
    OBVIOUS
  <2>4. ASSUME NEW i \in 1 .. n - 1 PROVE P(i + 1) = P(i) + L
    OBVIOUS
  <2> QED
    BY <2>1, <2>2, <2>3, <2>4
<1> HIDE DEF P
<1>2. /\ 1 \in 1 .. n /\ n \in 1 .. n
      /\ \A i \in 1 .. n - 1 : i \in 1 .. n /\ i + 1 \in 1 .. n
  OBVIOUS
<1>3. \A i \in 1 .. n : e[i] = (start[i] - start[1]) - P(i) /\ e[i] \in Int
  BY <1>1, <1>2
<1> HIDE DEF e
<1>4. ASSUME NEW i \in 1 .. n - 1 PROVE e[i] <= e[i + 1]
  <2> DEFINE x == start[i]
             y == start[i + 1]
             z == start[1]
             p == P(i)
             q == P(i + 1)
  <2>1. /\ x \in Int /\ y \in Int /\ z \in Int /\ p \in Int /\ q = p + L /\ x + L <= y
        /\ e[i] = (x - z) - p /\ e[i + 1] = (y - z) - q
    BY <1>1, <1>2, <1>3
  <2> HIDE DEF x, y, z, p, q
  <2> QED
    BY <2>1
<1>5. e[1] = 0 /\ e[n] = 0
  <2> DEFINE x == start[n]
             z == start[1]
             p == P(n)
             t == n * L
  <2>1. /\ x \in Int /\ z \in Int /\ p \in Int /\ t \in Int /\ p + L = t /\ (x - z) + L = t
        /\ e[n] = (x - z) - p /\ e[1] = (z - z) - P(1) /\ P(1) = 0
    BY <1>1, <1>2, <1>3
  <2> HIDE DEF x, z, p, t
  <2> QED
    BY <2>1
<1>6. \A i \in 1 .. n : e[1] <= e[i] /\ e[i] <= e[n]
  BY <1>3, <1>4, NeverFalls
<1>7. ASSUME NEW i \in 1 .. n PROVE start[i] = start[1] + P(i)
  <2> DEFINE x == start[i]
             z == start[1]
             p == P(i)
  <2>1. e[i] = 0
    BY <1>3, <1>5, <1>6
  <2>2. x \in Int /\ z \in Int /\ p \in Int /\ e[i] = (x - z) - p
    BY <1>1, <1>2, <1>3
  <2> HIDE DEF x, z, p
  <2>3. x = z + p
    BY <2>1, <2>2
  <2> QED
    BY <2>3 DEF x, z, p
<1> QED
  BY <1>7 DEF P

\* Rounding down loses less than one of every summand of an average.
LEMMA SumOfAverages ==
  ASSUME NEW n \in Nat, NEW L \in Nat \ {0}, NEW b \in Nat, NEW full, NEW average,
         \A k \in b .. (b + (n * L)) - 1 : full[k] \in Nat,
         \A i \in 1 .. n :
           average[i] = SumFunctionOnSet(full, b + ((i - 1) * L) .. (b + (i * L)) - 1) \div L
  PROVE  /\ SumFunctionOnSet(average, 1 .. n) \in Nat
         /\ SumFunctionOnSet(full, b .. (b + (n * L)) - 1) \in Nat
         /\ SumFunctionOnSet(full, b .. (b + (n * L)) - 1)
              - (SumFunctionOnSet(average, 1 .. n) * L) \in 0 .. (n * L) - n
<1> DEFINE P(i) == i * L
           Part(i) == SumFunctionOnSet(full, b + P(i - 1) .. (b + P(i)) - 1)
           S(i) == SumFunctionOnSet(full, b .. (b + P(i)) - 1)
           Q(i) == SumFunctionOnSet(average, 1 .. i)
           Right(i) == Q(i) \in Nat /\ S(i) \in Nat /\ S(i) - (Q(i) * L) \in 0 .. P(i) - i
           Wrong == {i \in 0 .. n : ~Right(i)}
<1>1. /\ P(0) = 0 /\ \A i \in 0 .. n : P(i) \in Nat
      /\ \A i \in 1 .. n : i - 1 \in 0 .. n /\ P(i) = P(i - 1) + L
      /\ \A i \in 0 .. n : P(i) <= P(n)
  <2>1. P(0) = 0
    OBVIOUS
  <2>2. ASSUME NEW i \in 0 .. n PROVE P(i) \in Nat
    OBVIOUS
  <2>3. ASSUME NEW i \in 1 .. n PROVE i - 1 \in 0 .. n /\ P(i) = P(i - 1) + L
    OBVIOUS
  <2>4. ASSUME NEW i \in 0 .. n PROVE P(i) <= P(n)
    <3> DEFINE j == n - i
    <3>1. j \in Nat /\ n = i + j
      OBVIOUS
    <3> HIDE DEF j
    <3>2. P(n) = P(i) + P(j) /\ P(j) \in Nat /\ P(i) \in Nat
      BY <3>1
    <3> HIDE DEF P
    <3> QED
      BY <3>2
  <2> QED
    BY <2>1, <2>2, <2>3, <2>4
<1>2. \A k \in b .. (b + P(n)) - 1 : full[k] \in Nat
  OBVIOUS
<1>3. \A i \in 1 .. n : average[i] = Part(i) \div L
  OBVIOUS
<1> SUFFICES Wrong = {}
  <2>1. n \in 0 .. n
    OBVIOUS
  <2> HIDE DEF Right
  <2>2. Wrong = {} => Right(n)
    BY <2>1
  <2>3. Right(n) <=> /\ SumFunctionOnSet(average, 1 .. n) \in Nat
                     /\ SumFunctionOnSet(full, b .. (b + (n * L)) - 1) \in Nat
                     /\ SumFunctionOnSet(full, b .. (b + (n * L)) - 1)
                          - (SumFunctionOnSet(average, 1 .. n) * L) \in 0 .. (n * L) - n
    BY DEF Right
  <2> QED
    BY <2>2, <2>3
<1> HIDE DEF P
<1> SUFFICES ASSUME Wrong # {} PROVE FALSE
  OBVIOUS
<1>4. PICK m \in Wrong : \A i \in Wrong : m <= i
  <2>1. Wrong \in SUBSET Nat
    OBVIOUS
  <2> HIDE DEF Wrong
  <2> QED
    BY <2>1, LeastNumber
<1>5. m \in 0 .. n /\ ~Right(m)
  BY <1>4
<1>6. m # 0
  <2> SUFFICES ASSUME m = 0 PROVE Right(0)
    BY <1>5
  <2>1. b .. (b + P(0)) - 1 = {} /\ 1 .. 0 = {}
    BY <1>1
  <2>2. S(0) = 0 /\ Q(0) = 0
    BY <2>1, SumOfNone
  <2> HIDE DEF S, Q
  <2> QED
    BY <1>1, <2>2
<1>7. m \in 1 .. n /\ m - 1 \in 0 .. n /\ ~(m <= m - 1)
  BY <1>5, <1>6
<1>8. Right(m - 1)
  <2> HIDE DEF Right
  <2>1. ~Right(m - 1) => m - 1 \in Wrong
    BY <1>7
  <2> HIDE DEF Wrong
  <2> QED
    BY <1>4, <1>7, <2>1
<1> DEFINE x == b + P(m - 1)
           y == b + P(m)
<1>9. /\ x \in Nat /\ y = x + L /\ b <= x /\ y <= b + P(n) /\ P(n) \in Nat
  <2> DEFINE p == P(m - 1)
             q == P(m)
             z == P(n)
  <2>1. p \in Nat /\ q \in Nat /\ z \in Nat /\ q = p + L /\ q <= z
    BY <1>1, <1>5, <1>7
  <2> HIDE DEF p, q, z
  <2>2. x = b + p /\ y = b + q
    BY DEF p, q
  <2> HIDE DEF x, y
  <2>3. x \in Nat /\ y = x + L /\ b <= x /\ y <= b + z /\ z \in Nat
    BY <2>1, <2>2
  <2> QED
    BY <2>3 DEF z
<1>10. S(m - 1) \in Nat /\ Part(m) \in Nat /\ S(m) = S(m - 1) + Part(m)
  <2> DEFINE T == b .. x - 1
             U == x .. y - 1
  <2>1. /\ IsFiniteSet(T) /\ IsFiniteSet(U)
    <3>1. x - 1 \in Int /\ y - 1 \in Int /\ b \in Int /\ x \in Int
      BY <1>9
    <3> QED
      BY <3>1, FS_Interval
  <2>2. T \cap U = {} /\ T \cup U = b .. y - 1
    BY <1>9
  <2>3. \A k \in T \cup U : full[k] \in Nat
    <3>1. \A k \in b .. y - 1 : k \in b .. (b + P(n)) - 1
      BY <1>9
    <3> QED
      BY <1>2, <2>2, <3>1
  <2>4. /\ S(m - 1) = SumFunctionOnSet(full, T) /\ Part(m) = SumFunctionOnSet(full, U)
        /\ S(m) = SumFunctionOnSet(full, T \cup U)
    <3>1. S(m - 1) = SumFunctionOnSet(full, T) /\ Part(m) = SumFunctionOnSet(full, U)
      OBVIOUS
    <3>2. S(m) = SumFunctionOnSet(full, b .. y - 1)
      OBVIOUS
    <3> QED
      BY <2>2, <3>1, <3>2
  <2> HIDE DEF T, U, S, Part
  <2>5. SumFunctionOnSet(full, T) \in Nat /\ SumFunctionOnSet(full, U) \in Nat
    BY <2>1, <2>3, SumIsNatural
  <2>6. SumFunctionOnSet(full, T \cup U)
          = SumFunctionOnSet(full, T) + SumFunctionOnSet(full, U)
    <3>1. \A k \in T \cup U : full[k] \in Int
      BY <2>3
    <3> QED
      BY <2>1, <2>2, <3>1, SumOfUnion
  <2> QED
    BY <2>4, <2>5, <2>6
<1> HIDE DEF S, Part, x, y
<1>11. /\ average[m] = Part(m) \div L /\ average[m] \in Nat
       /\ Part(m) - (average[m] * L) \in 0 .. L - 1
  <2>1. average[m] = Part(m) \div L
    BY <1>3, <1>7
  <2> QED
    BY <1>10, <2>1, Remainder
<1>12. Q(m - 1) \in Nat /\ Q(m) = Q(m - 1) + average[m]
  <2>1. \A i \in 1 .. m : average[i] \in Int
    <3> SUFFICES ASSUME NEW i \in 1 .. m PROVE average[i] \in Int
      OBVIOUS
    <3>1. i \in 1 .. n /\ i - 1 \in 0 .. n /\ i \in 0 .. n
      BY <1>7
    <3> DEFINE lo == b + P(i - 1)
               hi == (b + P(i)) - 1
    <3>2. lo \in Nat /\ hi \in Int /\ b <= lo /\ hi <= (b + P(n)) - 1
      <4> DEFINE p == P(i - 1)
                 q == P(i)
                 z == P(n)
      <4>1. p \in Nat /\ q \in Nat /\ z \in Nat /\ q <= z
        BY <1>1, <3>1, SMTT(30)
      <4>2. lo = b + p /\ hi = (b + q) - 1
        OBVIOUS
      <4> HIDE DEF p, q, z, lo, hi
      <4>3. lo \in Nat /\ hi \in Int /\ b <= lo /\ hi <= (b + z) - 1
        BY <4>1, <4>2
      <4> QED
        BY <4>3 DEF z
    <3>3. \A k \in lo .. hi : k \in b .. (b + P(n)) - 1
      <4> DEFINE z == P(n)
      <4>1. z \in Nat
        BY <1>1
      <4> HIDE DEF z, lo, hi
      <4>2. \A k \in lo .. hi : k \in b .. (b + z) - 1
        BY <3>2, <4>1 DEF z
      <4> QED
        BY <4>2 DEF z
    <3>4. Part(i) = SumFunctionOnSet(full, lo .. hi)
      BY ZenonT(10) DEF Part
    <3> HIDE DEF lo, hi
    <3>5. Part(i) \in Nat
      <4>1. IsFiniteSet(lo .. hi)
        BY <3>2, FS_Interval
      <4>2. \A k \in lo .. hi : full[k] \in Nat
        BY <1>2, <3>3
      <4> QED
        BY <3>4, <4>1, <4>2, SumIsNatural
    <3>6. average[i] = Part(i) \div L
      BY <1>3, <3>1
    <3> QED
      BY <3>5, <3>6, Remainder
  <2>2. Q(m - 1) \in Nat
    BY <1>8
  <2>3. m - 1 \in Int /\ 1 <= (m - 1) + 1 /\ (m - 1) + 1 = m
    BY <1>7
  <2>4. SumFunctionOnSet(average, 1 .. (m - 1) + 1)
          = SumFunctionOnSet(average, 1 .. m - 1) + average[(m - 1) + 1]
    BY <2>1, <2>3, SumToNext
  <2> QED
    BY <2>2, <2>3, <2>4
<1> HIDE DEF Q
<1>13. Right(m)
  <2> DEFINE v == average[m]
             p == Part(m)
             s == S(m - 1)
             q == Q(m - 1)
             ql == q * L
             vl == v * L
             d == P(m - 1)
  <2>1. /\ s \in Nat /\ p \in Nat /\ q \in Nat /\ v \in Nat /\ d \in Nat
        /\ S(m) = s + p /\ Q(m) = q + v /\ P(m) = d + L
    BY <1>1, <1>7, <1>10, <1>11, <1>12
  <2>2. /\ s - ql \in 0 .. d - (m - 1) /\ p - vl \in 0 .. L - 1
    BY <1>8, <1>11
  <2> HIDE DEF v, p, s, q, d
  <2>3. ql \in Nat /\ vl \in Nat /\ (q + v) * L = ql + vl
    BY <2>1
  <2> HIDE DEF ql, vl
  <2>4. (s + p) - (ql + vl) \in 0 .. (d + L) - m
    BY <1>7, <2>1, <2>2, <2>3
  <2> QED
    BY <2>1, <2>3, <2>4
<1> QED
  BY <1>5, <1>13

\* Larger factors make a larger product.
LEMMA Products ==
  ASSUME NEW x \in Nat, NEW y \in Nat, NEW z \in Nat, x <= y
  PROVE  x * z \in Nat /\ y * z \in Nat /\ x * z <= y * z
<1> DEFINE d == y - x
<1>1. d \in Nat /\ y = x + d
  OBVIOUS
<1> HIDE DEF d
<1>2. (x + d) * z = x * z + d * z /\ x * z \in Nat /\ d * z \in Nat
  BY <1>1
<1> DEFINE p == x * z
           q == d * z
<1>3. p \in Nat /\ q \in Nat /\ y * z = p + q
  BY <1>1, <1>2
<1> HIDE DEF p, q
<1>4. p + q \in Nat /\ p <= p + q
  BY <1>3
<1> QED
  BY <1>3, <1>4 DEF p

\* The average of averages over equally many is the average over all, or one less.
LEMMA AverageOfAverages ==
  ASSUME NEW n \in Nat \ {0}, NEW L \in Nat \ {0}, NEW S \in Nat, NEW Q \in Nat,
         S - (Q * L) \in 0 .. (n * L) - n
  PROVE  (S \div (n * L)) - (Q \div n) \in 0 .. 1
<1> DEFINE K == n * L
           a == Q \div n
           r == Q % n
           t == S \div K
           u == S % K
<1>1. K \in Nat \ {0}
  OBVIOUS
<1>2. a \in Nat /\ r \in Nat /\ r < n /\ Q = (a * n) + r
  OBVIOUS
<1> HIDE DEF K
<1>3. t \in Nat /\ u \in Nat /\ u < K /\ S = (t * K) + u
  BY <1>1
<1> HIDE DEF a, r, t, u
<1> DEFINE aK == a * K
           rL == r * L
           tK == t * K
<1>4. Q * L = aK + rL /\ aK \in Nat /\ rL \in Nat /\ tK \in Nat
  <2>1. a * K = (a * n) * L
    BY <1>2 DEF K
  <2>2. ((a * n) + r) * L = ((a * n) * L) + (r * L)
    BY <1>2
  <2>3. aK \in Nat /\ rL \in Nat /\ tK \in Nat
    BY <1>1, <1>2, <1>3
  <2> QED
    BY <1>2, <2>1, <2>2, <2>3
<1>5. rL + L <= K
  <2>1. (r + 1) * L <= n * L
    <3>1. r + 1 \in Nat /\ r + 1 <= n
      BY <1>2
    <3> QED
      BY <3>1, Products
  <2>2. (r + 1) * L = rL + L
    BY <1>2
  <2> QED
    BY <2>1, <2>2 DEF K
<1>6. S - (aK + rL) \in 0 .. K - n
  BY <1>4 DEF K
<1> HIDE DEF aK, rL, tK
<1>7. aK <= S /\ S < (aK + K) + K /\ tK <= S /\ S < tK + K
  BY <1>1, <1>3, <1>4, <1>5, <1>6 DEF tK
<1>8. a <= t
  <2> SUFFICES ASSUME ~(a <= t) PROVE FALSE
    OBVIOUS
  <2>1. t + 1 \in Nat /\ t + 1 <= a
    BY <1>2, <1>3
  <2>2. (t + 1) * K <= a * K
    BY <1>1, <1>2, <2>1, Products
  <2>3. (t + 1) * K = tK + K
    BY <1>1, <1>3 DEF tK
  <2> QED
    BY <1>1, <1>4, <1>7, <2>2, <2>3 DEF aK
<1>9. t <= a + 1
  <2> SUFFICES ASSUME ~(t <= a + 1) PROVE FALSE
    OBVIOUS
  <2>1. a + 2 \in Nat /\ a + 2 <= t
    BY <1>2, <1>3
  <2>2. (a + 2) * K <= t * K
    BY <1>1, <1>3, <2>1, Products
  <2>3. (a + 2) * K = (aK + K) + K
    BY <1>1, <1>2 DEF aK
  <2> QED
    BY <1>1, <1>4, <1>7, <2>2, <2>3 DEF tK
<1>10. t - a \in 0 .. 1
  BY <1>2, <1>3, <1>8, <1>9
<1> QED
  BY <1>10 DEF t, a, K

\* What a row says of the readings of its sensor.
AveragesItsLogs(a, s, tx) ==
  /\ s \in Sensor /\ tx.start - SensorStart \in Nat \ {0} /\ tx.end - SensorStart \in Nat
  /\ tx.start <= tx.end /\ tx.start \in Nat /\ tx.end \in Nat
  /\ tx.end - SensorStart <= Len(Reading[s])
  /\ Value(a, tx)
       = SumFunctionOnSet(Reading[s], tx.start - SensorStart .. tx.end - SensorStart)
           \div ((tx.end - tx.start) + 1)

\* Every row of averages says that.
LEMMA RowsAverage ==
  ASSUME IInv, Contents, NEW a \in TimeAccount, NEW s, NEW rows, NEW place,
         RowsAt(a, s, AVG, rows, place), NEW k \in 1 .. Len(rows)
  PROVE  AveragesItsLogs(a, s, rows[k])
<1> DEFINE tx == rows[k]
           m == tx.start - SensorStart
           n == tx.end - SensorStart
<1>1. /\ place[k] \in DOMAIN aggregates[a] /\ tx = aggregates[a][place[k]]
      /\ tx.sensor = s /\ tx.function = AVG
  BY DEF RowsAt
<1>2. m = tx.start - SensorStart /\ n = tx.end - SensorStart
  OBVIOUS
<1> HIDE DEF tx, m, n
<1>3. /\ s \in Sensor /\ m \in 1 .. n /\ n \in Nat /\ n \in 1 .. Len(Reading[s])
      /\ tx.start = SensorStart + m /\ tx.end = SensorStart + n
      /\ Value(a, tx) = Results(SubSeq(Reading[s], m, n))[AVG]
  <2>1. /\ tx.sensor \in Sensor /\ m \in 1 .. n /\ n \in Nat
        /\ n \in 1 .. Len(Reading[tx.sensor])
        /\ tx.start = SensorStart + m /\ tx.end = SensorStart + n
        /\ Value(a, tx) = Results(SubSeq(Reading[tx.sensor], m, n))[tx.function]
    <3>1. PICK i \in DOMAIN aggregates[a] : tx = aggregates[a][i]
      BY <1>1
    <3> QED
      BY <1>2, <3>1, OnTheLedger, SMTT(30)
  <2> QED
    BY <1>1, <2>1
<1>4. Len(Reading[s]) \in Nat /\ SensorStart \in Nat
  BY <1>3, LogsAreRead, Constants
<1> DEFINE l == Len(Reading[s])
<1>5. m \in Nat \ {0} /\ m <= n /\ n <= Len(Reading[s])
  <2>1. l \in Nat /\ n \in 1 .. l /\ m \in 1 .. n
    BY <1>3, <1>4
  <2> HIDE DEF l
  <2>2. m \in Nat \ {0} /\ m <= n /\ n <= l
    BY <2>1
  <2> QED
    BY <2>2 DEF l
<1>6. Describes(Results(SubSeq(Reading[s], m, n)), s, m, n)
  BY <1>3, <1>5, ResultsDescribe
<1>7. Value(a, tx) = SumFunctionOnSet(Reading[s], m .. n) \div ((n - m) + 1)
  BY <1>3, <1>6 DEF Describes
<1>8. /\ n - m = tx.end - tx.start /\ tx.start <= tx.end /\ tx.start \in Nat /\ tx.end \in Nat
  <2> DEFINE x == tx.start
             y == tx.end
  <2>1. x = SensorStart + m /\ y = SensorStart + n /\ m \in Nat /\ n \in Nat /\ m <= n
    BY <1>3, <1>5
  <2> HIDE DEF x, y
  <2>2. n - m = y - x /\ x <= y /\ x \in Nat /\ y \in Nat
    BY <1>4, <2>1
  <2> QED
    BY <2>2 DEF x, y
<1>9. AveragesItsLogs(a, s, tx)
  BY <1>2, <1>3, <1>5, <1>7, <1>8 DEF AveragesItsLogs
<1> QED
  BY <1>9 DEF tx

\* The averages of one run come one after the other.
LEMMA RowsAscend ==
  ASSUME IInv, Contents, NEW a \in TimeAccount, NEW s, NEW rows, NEW place,
         RowsAt(a, s, AVG, rows, place), NEW i \in 1 .. Len(rows), NEW j \in 1 .. Len(rows),
         i < j, rows[i].run = rows[j].run
  PROVE  rows[i].end < rows[j].start
<1>1. /\ place[i] \in DOMAIN aggregates[a] /\ rows[i] = aggregates[a][place[i]]
      /\ place[j] \in DOMAIN aggregates[a] /\ rows[j] = aggregates[a][place[j]]
      /\ place[i] < place[j] /\ rows[i].sensor = s /\ rows[j].sensor = s
      /\ rows[i].function = AVG /\ rows[j].function = AVG
  BY DEF RowsAt
<1>2. /\ place[i] \in DOMAIN Accepted(a) /\ rows[i] = Accepted(a)[place[i]]
      /\ place[j] \in DOMAIN Accepted(a) /\ rows[j] = Accepted(a)[place[j]]
  BY <1>1, OnTheLedger
<1> QED
  BY <1>1, <1>2 DEF Contents, Ascending

\* The latest n rows of a run, when they stand for equally many logs and leave no gap,
\* average what get3Tx averages.
LEMMA RecentRows ==
  ASSUME IInv, Contents, NEW a \in TimeAccount, NEW s, NEW place,
         RowsAt(a, s, AVG, Operations(a, s, AVG), place),
         NEW n \in 1 .. Len(Operations(a, s, AVG))
  PROVE  LET rows == Operations(a, s, AVG)
             d == Len(rows) - n
             last == rows[Len(rows)]
             first == rows[d + 1]
         IN  /\ \A i \in d + 1 .. Len(rows) : rows[i].run = last.run
             /\ \A i \in d + 1 .. Len(rows) : rows[i].end - rows[i].start = last.end - last.start
             /\ (last.end - first.start) + 1 = n * ((last.end - last.start) + 1)
             => get3Tx(s, first.start - SensorStart, last.end - SensorStart)
                  - get3Agg(a, s, AVG, n) \in 0 .. 1
<1> DEFINE rows == Operations(a, s, AVG)
           N == Len(rows)
           d == N - n
           last == rows[N]
           first == rows[d + 1]
           L == (last.end - last.start) + 1
<1> SUFFICES ASSUME \A i \in d + 1 .. N : rows[i].run = last.run,
                    \A i \in d + 1 .. N : rows[i].end - rows[i].start = last.end - last.start,
                    (last.end - first.start) + 1 = n * L
             PROVE  get3Tx(s, first.start - SensorStart, last.end - SensorStart)
                      - get3Agg(a, s, AVG, n) \in 0 .. 1
  OBVIOUS
<1>1. N \in Nat /\ DOMAIN rows = 1 .. N /\ RowsAt(a, s, AVG, rows, place)
  BY DEF RowsAt
<1>2. rows = Operations(a, s, AVG) /\ N = Len(rows)
  OBVIOUS
<1> HIDE DEF rows, N
<1>3. /\ n \in Nat \ {0} /\ n <= N /\ d \in Nat /\ d + n = N
      /\ \A i \in 1 .. n : d + i \in d + 1 .. N /\ d + i \in 1 .. N
  BY <1>1, <1>2
<1> DEFINE start == [i \in 1 .. n |-> rows[d + i].start - SensorStart]
           average == [i \in 1 .. n |-> Value(a, rows[d + i])]
           full == Reading[s]
           b == start[1]
<1> HIDE DEF d
<1>4. ASSUME NEW i \in 1 .. n
      PROVE  /\ AveragesItsLogs(a, s, rows[d + i])
             /\ rows[d + i].run = last.run
             /\ (rows[d + i].end - rows[d + i].start) + 1 = L
  <2>1. d + i \in d + 1 .. N /\ d + i \in 1 .. N
    BY <1>3
  <2>2. AveragesItsLogs(a, s, rows[d + i])
    BY <1>1, <1>2, <2>1, RowsAverage
  <2> QED
    BY <2>1, <2>2
<1> HIDE DEF L
<1>5. L \in Nat \ {0}
  <2>1. n \in 1 .. n
    BY <1>3
  <2> DEFINE x == rows[d + n].start
             y == rows[d + n].end
  <2>2. x \in Nat /\ y \in Nat /\ x <= y /\ (y - x) + 1 = L
    BY <1>4, <2>1 DEF AveragesItsLogs
  <2> HIDE DEF x, y
  <2> QED
    BY <2>2
<1>6. ASSUME NEW i \in 1 .. n
      PROVE  /\ start[i] \in Nat \ {0}
             /\ start[i] = rows[d + i].start - SensorStart
             /\ rows[d + i].end - SensorStart = (start[i] + L) - 1
             /\ (start[i] + L) - 1 <= Len(full)
             /\ average[i] = SumFunctionOnSet(full, start[i] .. (start[i] + L) - 1) \div L
  <2> DEFINE tx == rows[d + i]
             x == tx.start
             y == tx.end
             v == Value(a, tx)
  <2>1. AveragesItsLogs(a, s, tx) /\ (y - x) + 1 = L
    BY <1>4
  <2>2. /\ x - SensorStart \in Nat \ {0} /\ x \in Nat /\ y \in Nat /\ SensorStart \in Nat
        /\ y - SensorStart <= Len(full)
        /\ v = SumFunctionOnSet(full, x - SensorStart .. y - SensorStart) \div L
    BY <2>1, Constants DEF AveragesItsLogs
  <2>3. start[i] = x - SensorStart /\ average[i] = v
    OBVIOUS
  <2> HIDE DEF x, y, v, start, average, full, tx
  <2>4. y - SensorStart = (start[i] + L) - 1
    <3> DEFINE z == start[i]
    <3>1. x \in Nat /\ y \in Nat /\ SensorStart \in Nat /\ z = x - SensorStart
      BY <2>2, <2>3
    <3>2. (y - x) + 1 = L
      BY <2>1
    <3> HIDE DEF z
    <3>3. y - SensorStart = (z + L) - 1
      BY <1>5, <3>1, <3>2
    <3> QED
      BY <3>3 DEF z
  <2>5. average[i] = SumFunctionOnSet(full, start[i] .. (start[i] + L) - 1) \div L
    BY <2>2, <2>3, <2>4
  <2> QED
    BY <2>2, <2>3, <2>4, <2>5 DEF x, y, tx
<1>7. ASSUME NEW i \in 1 .. n - 1 PROVE start[i] + L <= start[i + 1]
  <2>1. /\ i \in 1 .. n /\ i + 1 \in 1 .. n /\ d + i \in 1 .. N /\ d + (i + 1) \in 1 .. N
        /\ d + i < d + (i + 1)
    BY <1>3
  <2>2. rows[d + i].run = rows[d + (i + 1)].run
    BY <1>4, <2>1
  <2>3. rows[d + i].end < rows[d + (i + 1)].start
    BY <1>1, <1>2, <2>1, <2>2, RowsAscend
  <2> DEFINE x == rows[d + i].end
             y == rows[d + (i + 1)].start
             z == start[i]
             w == start[i + 1]
  <2>4. /\ x < y /\ x \in Nat /\ y \in Nat /\ SensorStart \in Nat
        /\ x - SensorStart = (z + L) - 1 /\ w = y - SensorStart /\ z \in Nat /\ w \in Nat
    BY <1>4, <1>6, <2>1, <2>3, Constants DEF AveragesItsLogs
  <2> HIDE DEF x, y, z, w
  <2>5. z + L <= w
    BY <1>5, <2>4
  <2> QED
    BY <2>5 DEF z, w
<1>8. /\ first.start - SensorStart = b /\ b \in Nat \ {0}
      /\ last.end - SensorStart = (b + (n * L)) - 1
      /\ (start[n] - b) + L = n * L
      /\ (b + (n * L)) - 1 <= Len(full)
  <2>1. 1 \in 1 .. n /\ n \in 1 .. n /\ d + n = N
    BY <1>3
  <2> DEFINE x == first.start
             y == last.end
             z == start[n]
             K == n * L
  <2>2. (y - x) + 1 = K
    BY DEF L
  <2>3. /\ x \in Nat /\ y \in Nat /\ SensorStart \in Nat /\ b \in Nat \ {0} /\ z \in Nat
        /\ b = x - SensorStart /\ y - SensorStart = (z + L) - 1
        /\ (z + L) - 1 <= Len(full)
    BY <1>4, <1>6, <2>1, Constants DEF AveragesItsLogs
  <2>4. K \in Nat
    BY <1>3, <1>5
  <2> HIDE DEF x, y, z, K, b, full
  <2>5. /\ x - SensorStart = b /\ y - SensorStart = (b + K) - 1 /\ (z - b) + L = K
        /\ (b + K) - 1 <= Len(full)
    BY <1>5, <2>2, <2>3, <2>4
  <2> QED
    BY <2>3, <2>5 DEF x, y, z, K
<1>9. \A i \in 1 .. n : start[i] = b + ((i - 1) * L)
  <2>1. \A i \in 1 .. n : start[i] \in Int
    BY <1>6
  <2>2. (start[n] - start[1]) + L = n * L
    BY <1>8
  <2> HIDE DEF start
  <2> QED
    BY <1>3, <1>5, <1>7, <2>1, <2>2, NoGaps
<1> DEFINE all == SumFunctionOnSet(full, b .. (b + (n * L)) - 1)
           sum == SumFunctionOnSet(average, 1 .. n)
<1>10. s \in Sensor /\ full \in Seq(Nat) /\ getLogValue[s] = full /\ Len(full) \in Nat
       /\ \A k \in 1 .. Len(full) : full[k] \in Nat
  <2>1. s \in Sensor
    BY <1>3, <1>4 DEF AveragesItsLogs
  <2> QED
    BY <2>1, LogsAreRead
<1>11. sum \in Nat /\ all \in Nat /\ all - (sum * L) \in 0 .. (n * L) - n
  <2>1. \A k \in b .. (b + (n * L)) - 1 : full[k] \in Nat
    <3> DEFINE K == n * L
    <3>1. K \in Nat
      BY <1>3, <1>5
    <3> HIDE DEF K, b, full
    <3>2. \A k \in b .. (b + K) - 1 : k \in 1 .. Len(full)
      BY <1>8, <1>10, <3>1 DEF K
    <3> QED
      BY <1>10, <3>2 DEF K
  <2>2. ASSUME NEW i \in 1 .. n
        PROVE  average[i] = SumFunctionOnSet(full, b + ((i - 1) * L) .. (b + (i * L)) - 1) \div L
    <3>1. start[i] = b + ((i - 1) * L)
      BY <1>9
    <3> DEFINE P == (i - 1) * L
               R == i * L
    <3>2. P \in Int /\ R = P + L
      BY <1>5
    <3>3. average[i] = SumFunctionOnSet(full, start[i] .. (start[i] + L) - 1) \div L
      BY <1>6
    <3> HIDE DEF P, R, b, start, average, full
    <3>4. (start[i] + L) - 1 = (b + R) - 1
      BY <1>5, <1>8, <3>1, <3>2 DEF P
    <3> QED
      BY <3>1, <3>3, <3>4 DEF P, R
  <2>3. n \in Nat /\ L \in Nat \ {0} /\ b \in Nat
    BY <1>3, <1>5, <1>8
  <2> HIDE DEF b, average, full
  <2> QED
    BY <2>1, <2>2, <2>3, SumOfAverages, ZenonT(30)
<1>12. get3Tx(s, first.start - SensorStart, last.end - SensorStart) = all \div (n * L)
  <2> DEFINE K == n * L
             z == (b + K) - 1
  <2>1. K \in Nat \ {0}
    BY <1>3, <1>5
  <2>2. z \in Nat /\ b \in 1 .. z /\ (z - b) + 1 = K /\ z <= Len(full)
    <3> HIDE DEF K, b, full
    <3> QED
      BY <1>8, <2>1 DEF K
  <2>3. all = SumFunctionOnSet(full, b .. z)
    OBVIOUS
  <2>4. get3Tx(s, b, z) = Quotient(SumFunction(SubSeq(getLogValue[s], b, z)), (z - b) + 1)
    BY DEF get3Tx
  <2> HIDE DEF K, z, b, full, all
  <2>5. SumFunction(SubSeq(full, b, z)) = SumFunctionOnSet(full, b .. z)
    <3>1. LET k == z - b + 1
              list == SubSeq(full, b, z)
          IN  SumFunction(list) = SumFunctionOnSet(full, b .. z)
      BY <1>10, <2>2, SumOfPart
    <3> QED
      BY <3>1
  <2>6. get3Tx(s, b, z) = Quotient(all, K)
    BY <1>10, <2>2, <2>3, <2>4, <2>5
  <2>7. Quotient(all, K) = all \div K
    BY <1>11 DEF Quotient
  <2>8. first.start - SensorStart = b /\ last.end - SensorStart = z
    BY <1>8 DEF z, K
  <2> QED
    BY <2>6, <2>7, <2>8 DEF K
<1>13. get3Agg(a, s, AVG, n) = sum \div n
  <2> DEFINE latest == Latest(a, s, AVG, n)
             values == [i \in DOMAIN latest |-> Value(a, latest[i])]
  <2>1. Max({1, N - n + 1}) = d + 1
    <3> DEFINE S == {1, N - n + 1}
    <3>1. N - n + 1 = d + 1 /\ d + 1 >= 1 /\ d + 1 \in Nat
      BY <1>1, <1>3 DEF d
    <3>2. d + 1 \in S /\ \A y \in S : d + 1 >= y /\ y \in Nat
      BY <3>1
    <3> HIDE DEF S
    <3>3. Max(S) \in S /\ \A y \in S : Max(S) >= y
      <4>1. \E x \in S : \A y \in S : x >= y
        BY <3>2
      <4> QED
        BY <4>1 DEF Max
    <3>4. Max(S) >= d + 1 /\ d + 1 >= Max(S) /\ Max(S) \in Nat
      BY <3>2, <3>3
    <3>5. Max(S) = d + 1
      BY <3>1, <3>4
    <3> QED
      BY <3>5 DEF S
  <2>2. latest = SubSeq(rows, d + 1, N)
    BY <1>2, <2>1 DEF Latest
  <2> HIDE DEF latest
  <2>3. rows \in Seq({rows[k] : k \in 1 .. N})
    <3>1. rows = [k \in 1 .. N |-> rows[k]]
      <4>1. \E e : rows = [k \in 1 .. Cardinality(Places(a, s, AVG)) |->
               aggregates[a][CHOOSE i \in Places(a, s, AVG) : Rank(Places(a, s, AVG), i) = k]]
        BY <1>2 DEF Operations
      <4>2. rows = [k \in DOMAIN rows |-> rows[k]]
        BY <4>1
      <4> QED
        BY <1>1, <4>2
    <3> DEFINE R == {rows[k] : k \in 1 .. N}
    <3>2. \A k \in 1 .. N : rows[k] \in R
      OBVIOUS
    <3> HIDE DEF R
    <3>3. rows \in [1 .. N -> R]
      BY <3>1, <3>2
    <3>4. rows \in Seq(R)
      BY <1>1, <3>3, SeqDef
    <3> QED
      BY <3>4 DEF R
  <2>4. /\ DOMAIN latest = 1 .. n
        /\ \A i \in 1 .. n : latest[i] = rows[d + i]
    <3>1. \A i \in 1 .. n : (d + 1) + i - 1 = d + i /\ N - (d + 1) + 1 = n
      BY <1>3
    <3> DEFINE c == d + 1
    <3>2. c \in 1 .. N + 1 /\ (N - c) + 1 = n /\ N = Len(rows)
      BY <1>2, <1>3
    <3>3. latest = SubSeq(rows, c, N)
      BY <2>2
    <3> HIDE DEF c
    <3>4. /\ DOMAIN latest = 1 .. n
          /\ \A i \in 1 .. n : latest[i] = rows[(c + i) - 1]
      BY <1>1, <1>3, <2>3, <3>2, <3>3
    <3>5. \A i \in 1 .. n : (c + i) - 1 = d + i
      BY <1>3 DEF c
    <3> QED
      BY <3>4, <3>5
  <2>5. values = average
    BY <2>4
  <2>6. get3Agg(a, s, AVG, n) = Quotient(SumFunction(average), Len(average))
    <3>1. get3Agg(a, s, AVG, n) = Quotient(SumFunction(values), Len(values))
      BY DEF get3Agg, latest
    <3> HIDE DEF values, average
    <3> QED
      BY <2>5, <3>1
  <2>7. Len(average) = n /\ SumFunction(average) = sum
    <3>1. \A i \in 1 .. n : average[i] \in {Value(a, rows[d + k]) : k \in 1 .. n}
      OBVIOUS
    <3> DEFINE R == {Value(a, rows[d + i]) : i \in 1 .. n}
    <3>2. DOMAIN average = 1 .. n /\ average = [i \in 1 .. n |-> average[i]]
      OBVIOUS
    <3> HIDE DEF average, R
    <3>3. average \in [1 .. n -> R]
      BY <3>1, <3>2 DEF R
    <3>4. average \in Seq(R)
      BY <1>3, <3>3, SeqDef
    <3>5. Len(average) \in Nat /\ DOMAIN average = 1 .. Len(average)
      BY <3>4, LenProperties
    <3>6. Len(average) = n
      <4> DEFINE l == Len(average)
      <4>1. l \in Nat /\ 1 .. l = 1 .. n /\ n \in Nat
        BY <1>3, <3>2, <3>5
      <4> HIDE DEF l
      <4>2. \A k \in Nat : k \in 1 .. l <=> k \in 1 .. n
        BY <4>1
      <4>3. ~(l < n) /\ ~(n < l)
        BY <4>1, <4>2
      <4> QED
        BY <4>1, <4>3 DEF l
    <3> QED
      BY <3>2, <3>6 DEF SumFunction
  <2>8. Quotient(sum, n) = sum \div n
    BY <1>11 DEF Quotient
  <2> HIDE DEF average, sum
  <2> QED
    BY <2>6, <2>7, <2>8
<1> HIDE DEF all, sum
<1>14. (all \div (n * L)) - (sum \div n) \in 0 .. 1
  BY <1>3, <1>5, <1>11, AverageOfAverages
<1> QED
  BY <1>12, <1>13, <1>14

\* The average of the latest averages is the average of the logs behind them, or one
\* less, when they stand for equally many logs (browser/main.go:65).
THEOREM RecentAveragesCorrect == Spec => []RecentAveragesAgree
<1>1. IInv /\ Contents => RecentAveragesAgree
  <2> SUFFICES ASSUME IInv, Contents, NEW a \in TimeAccount, NEW s \in Sensor,
                      NEW n \in 1 .. Len(Operations(a, s, AVG))
               PROVE  LET rows == Operations(a, s, AVG)
                          first == rows[Len(rows) - n + 1]
                          last == Last(rows)
                          OneRun == \A i \in Len(rows) - n + 1 .. Len(rows) :
                                      rows[i].run = last.run
                          AlikeLong == \A i \in Len(rows) - n + 1 .. Len(rows) :
                                         rows[i].end - rows[i].start = last.end - last.start
                          Adjoining_1 == last.end - first.start + 1
                                         = n * (last.end - last.start + 1)
                      IN  OneRun /\ AlikeLong /\ Adjoining_1 =>
                            get3Tx(s, first.start - SensorStart, last.end - SensorStart)
                              - get3Agg(a, s, AVG, n) \in 0 .. 1
    BY DEF RecentAveragesAgree
  <2>1. PICK place : RowsAt(a, s, AVG, Operations(a, s, AVG), place)
    BY OperationsRise DEF IInv
  <2> QED
    BY <2>1, RecentRows DEF Last
<1> QED
  BY <1>1, ContentsInvariance, PTL
=============================================================================
