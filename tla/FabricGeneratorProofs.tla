------------------------ MODULE FabricGeneratorProofs ------------------------
(***************************************************************************)
(* The generator of FabricGenerator for any devices, readings, runs and    *)
(* instants of the clock, on the chain of SensorChaincodeProofs.           *)
(***************************************************************************)
EXTENDS FabricGenerator, FiniteSetTheorems, SequenceTheorems, TLAPS

ChainProofs == INSTANCE SensorChaincodeProofs WITH MaxFaults <- 0

-----------------------------------------------------------------------------
(***************************************************************************)
(* The inductive invariant.                                                *)
(***************************************************************************)

\* Every log that is or may still get on the chain, and those of one device.
Logs == committed \cup {tx.log : tx \in endorsed}
LogsOf(device) == {log \in Logs : log.sensor = device}

\* The readings of this run on the chain; and whether the one the goroutine waits
\* for is there.
Recorded(device) == {log \in Chaincode!GetHistoryForKey(device) : log.id > runStart}
Arrived(device) == pc[device] = "wait" /\ \E log \in committed : log.id = submitted[device]

\* Ids are handed out in order; a transaction reads and writes all its frames.
Ids ==
  /\ runStart <= proposals /\ (runs = 1 => runStart = 0)
  /\ \A id \in invalid : id <= proposals
  /\ \A log \in Logs : log.done = Frames(log.time)
  /\ \A tx \in endorsed : DOMAIN tx.reads = Frames(tx.log.time) /\ tx.log.id \notin invalid
  /\ \A device \in Device : /\ submitted[device] <= proposals
                            /\ \A log \in Logs : log.id = submitted[device] =>
                                                   log.sensor = device

\* A goroutine counts to LogsNumber, and the process dies once in a run.
Loops ==
  /\ failures <= runs /\ (process = "running" => failures < runs)
  /\ process = "completed" => \A device \in Device : pc[device] = "done"
  /\ \A device \in Device : /\ pc[device] \in {"submit", "wait"} => sent[device] < LogsNumber
                            /\ pc[device] = "done" => sent[device] = LogsNumber

\* In a run a device has one transaction in flight, the one it waits for; what it
\* has counted is on the chain.
OneInFlight ==
  \A device \in Device :
    /\ pc[device] = "wait" => /\ submitted[device] > runStart
                              /\ \A log \in LogsOf(device) : log.id <= submitted[device]
    /\ \A tx \in endorsed : tx.log.sensor = device /\ tx.log.id > runStart =>
                              pc[device] = "wait" /\ tx.log.id = submitted[device]
    /\ Cardinality(Recorded(device)) = sent[device] + IF Arrived(device) THEN 1 ELSE 0

\* The readings of a device carry the times at which its goroutine looked at the
\* clock, in the order of their ids.
SeenBy(log, j) == \E i \in 1 .. j : Clock[i] = log.time
Clocked ==
  \A device \in Device :
    /\ \A a, b \in LogsOf(device) : a.id < b.id => NotBefore(a, b)
    /\ \A log \in LogsOf(device) : SeenBy(log, clock)
    /\ pc[device] = "submit" =>
         \E j \in 1 .. clock : /\ Clock[j] = creation[device]
                               /\ \A log \in LogsOf(device) : SeenBy(log, j)

IInv == /\ TypeOK /\ ChainProofs!IInv
        /\ Ids /\ Loops /\ OneInFlight /\ Clocked /\ FirstRunNeverConflicts

-----------------------------------------------------------------------------
(***************************************************************************)
(* The chain is that of SensorChaincodeProofs.                             *)
(***************************************************************************)

\* The time frames of an instant mean the same everywhere.
LEMMA SameFrames ==
  /\ \A time : Chaincode!Frames(time) = Frames(time) /\ ChainProofs!Frames(time) = Frames(time)
  /\ Chaincode!TimeFrame = TimeFrame /\ ChainProofs!TimeFrame = TimeFrame
  /\ Chaincode!Key = Sensor \X TimeFrame /\ ChainProofs!Key = Sensor \X TimeFrame
<1>1. \A time : Chaincode!Frames(time) = Frames(time) /\ ChainProofs!Frames(time) = Frames(time)
  BY DEF Chaincode!Frames, ChainProofs!Frames, Frames, Chaincode!Granularity,
         ChainProofs!Granularity, Granularity
<1>2. Chaincode!TimeFrame = TimeFrame /\ ChainProofs!TimeFrame = TimeFrame
  BY <1>1 DEF Chaincode!TimeFrame, ChainProofs!TimeFrame, TimeFrame
<1> QED
  BY <1>1, <1>2 DEF Chaincode!Key, ChainProofs!Key

\* So do the contract's simulation and the peers' validation.
LEMMA SameSteps ==
  /\ \A sensor, value, time, read, done :
       Chaincode!SetSensorState(sensor, value, time, read, done)
         <=> ChainProofs!SetSensorState(sensor, value, time, read, done)
  /\ \A tx : Chaincode!Fresh(tx) <=> ChainProofs!Fresh(tx)
  /\ \A tx : Chaincode!Commit(tx) <=> ChainProofs!Commit(tx)
  /\ \A tx : Chaincode!Invalidate(tx) <=> ChainProofs!Invalidate(tx)
<1>1. ASSUME NEW sensor, NEW value, NEW time, NEW read, NEW done
      PROVE  Chaincode!SetSensorState(sensor, value, time, read, done)
               <=> ChainProofs!SetSensorState(sensor, value, time, read, done)
  BY SameFrames DEF Chaincode!SetSensorState, ChainProofs!SetSensorState, Chaincode!Simulated,
     ChainProofs!Simulated, Chaincode!updateAggregation, ChainProofs!updateAggregation,
     Chaincode!Updated, ChainProofs!Updated
<1>2. \A tx : Chaincode!Fresh(tx) <=> ChainProofs!Fresh(tx)
  BY DEF Chaincode!Fresh, ChainProofs!Fresh
<1>3. ASSUME NEW tx PROVE Chaincode!Commit(tx) <=> ChainProofs!Commit(tx)
  BY <1>2, SameFrames DEF Chaincode!Commit, ChainProofs!Commit, Chaincode!Apply,
     ChainProofs!Apply, Chaincode!BumpVersions, ChainProofs!BumpVersions, Chaincode!Written,
     ChainProofs!Written
<1>4. ASSUME NEW tx PROVE Chaincode!Invalidate(tx) <=> ChainProofs!Invalidate(tx)
  BY <1>2 DEF Chaincode!Invalidate, ChainProofs!Invalidate
<1> QED
  BY <1>1, <1>2, <1>3, <1>4

\* And so do the states.
LEMMA SameStates ==
  /\ Chaincode!Init <=> ChainProofs!Init
  /\ Chaincode!TypeOK <=> ChainProofs!TypeOK
<1>1. Chaincode!Init <=> ChainProofs!Init
  BY SameFrames DEF Chaincode!Init, ChainProofs!Init, Chaincode!NoAggregation,
     ChainProofs!NoAggregation
<1>2. Chaincode!Log = ChainProofs!Log /\ Chaincode!Aggregation = ChainProofs!Aggregation
  BY SameFrames DEF Chaincode!Log, ChainProofs!Log, Chaincode!Aggregation,
     ChainProofs!Aggregation
<1>3. \A tx : Chaincode!Transaction(tx) <=> ChainProofs!Transaction(tx)
  BY <1>2, SameFrames DEF Chaincode!Transaction, ChainProofs!Transaction
<1>4. IsFiniteSet(committed) = Chaincode!IsFiniteSet(committed)
      /\ IsFiniteSet(committed) = ChainProofs!IsFiniteSet(committed)
  BY DEF IsFiniteSet, Chaincode!IsFiniteSet, ChainProofs!IsFiniteSet
<1>5. Chaincode!TypeOK <=> ChainProofs!TypeOK
  BY <1>2, <1>3, <1>4, SameFrames DEF Chaincode!TypeOK, ChainProofs!TypeOK
<1> QED
  BY <1>1, <1>5

\* What is known of transactions and logs.
LEMMA ChainTypes ==
  ASSUME ChainProofs!IInv
  PROVE  /\ proposals \in 0 .. MaxProposals
         /\ invalid \subseteq 1 .. MaxProposals
         /\ IsFiniteSet(committed)
         /\ version \in [Sensor \X TimeFrame -> Nat]
         /\ latest \in [Sensor -> ChainProofs!Log \cup {NoLog}]
         /\ \A log \in Logs : /\ log \in ChainProofs!Log
                              /\ log.id \in 1 .. MaxProposals /\ log.id <= proposals
                              /\ log.sensor \in Sensor /\ log.time \in Instant
         /\ \A tx \in endorsed : DOMAIN tx.reads \subseteq TimeFrame
         /\ \A tx \in endorsed, log \in committed : log.id # tx.log.id
         /\ \A tx, other \in endorsed : tx.log.id = other.log.id => tx = other
         /\ \A sensor \in Sensor : latest[sensor] # NoLog =>
              latest[sensor] \in committed /\ latest[sensor].sensor = sensor
<1>1. ChainProofs!TypeOK /\ ChainProofs!IdsAreUsedOnce /\ ChainProofs!LatestIsCommitted
  BY DEF ChainProofs!IInv
<1>2. IsFiniteSet(committed)
  BY <1>1 DEF ChainProofs!TypeOK, ChainProofs!IsFiniteSet, IsFiniteSet
<1>3. \A tx \in endorsed : tx.log \in ChainProofs!Log /\ DOMAIN tx.reads \subseteq TimeFrame
  BY <1>1, SameFrames DEF ChainProofs!TypeOK, ChainProofs!Transaction
<1>4. \A log \in Logs : log \in ChainProofs!Log
  BY <1>1, <1>3 DEF ChainProofs!TypeOK, Logs
<1>5. \A log \in ChainProofs!Log :
        log.id \in 1 .. MaxProposals /\ log.sensor \in Sensor /\ log.time \in Instant
  BY DEF ChainProofs!Log
<1>6. \A log \in Logs : log.id <= proposals
  BY <1>1 DEF ChainProofs!IdsAreUsedOnce, Logs
<1> QED
  BY <1>1, <1>2, <1>3, <1>4, <1>5, <1>6, SameFrames
     DEF ChainProofs!TypeOK, ChainProofs!IdsAreUsedOnce, ChainProofs!LatestIsCommitted

\* A simulation hands out the next id, and reads the versions of the moment.
LEMMA SubmitEffect ==
  ASSUME NEW sensor, NEW value, NEW time,
         Chaincode!SetSensorState(sensor, value, time, Frames(time), Frames(time))
  PROVE  /\ UNCHANGED <<worldState, version, latest, committed, invalid>>
         /\ proposals < MaxProposals /\ proposals' = proposals + 1
         /\ \E new : /\ endorsed' = endorsed \cup {new}
                     /\ new.log.id = proposals + 1 /\ new.log.sensor = sensor
                     /\ new.log.time = time /\ new.log.done = Frames(time)
                     /\ DOMAIN new.reads = Frames(time)
                     /\ \A frame \in Frames(time) : new.reads[frame] = version[<<sensor, frame>>]
<1> DEFINE log == [id |-> proposals + 1, sensor |-> sensor, time |-> time,
                   value |-> value, done |-> Frames(time)]
           new == Chaincode!Simulated(log, Frames(time))
<1>1. /\ endorsed' = endorsed \cup {new} /\ proposals' = proposals + 1
      /\ proposals < MaxProposals
      /\ UNCHANGED <<worldState, version, latest, committed, invalid>>
  BY DEF Chaincode!SetSensorState
<1>2. /\ new.log = log
      /\ new.reads = [frame \in Frames(time) |-> version[<<sensor, frame>>]]
  BY DEF Chaincode!Simulated
<1>3. /\ log.id = proposals + 1 /\ log.sensor = sensor /\ log.time = time
      /\ log.done = Frames(time)
  OBVIOUS
<1> HIDE DEF new, log
<1> QED
  BY <1>1, <1>2, <1>3

\* A commit puts the log on the chain; another device's versions stay.
LEMMA CommitEffect ==
  ASSUME ChainProofs!IInv, NEW tx \in endorsed, Chaincode!Commit(tx)
  PROVE  /\ endorsed' = endorsed \ {tx} /\ committed' = committed \cup {tx.log}
         /\ latest' = [latest EXCEPT ![tx.log.sensor] = tx.log]
         /\ UNCHANGED <<invalid, proposals>>
         /\ tx.log \notin committed
         /\ \A sensor \in Sensor \ {tx.log.sensor}, frame \in TimeFrame :
              version'[<<sensor, frame>>] = version[<<sensor, frame>>]
<1>1. tx.log \notin committed
  BY ChainTypes
<1>2. ASSUME NEW sensor \in Sensor \ {tx.log.sensor}, NEW frame \in TimeFrame
      PROVE  version'[<<sensor, frame>>] = version[<<sensor, frame>>]
  <2>1. <<sensor, frame>> \in Chaincode!Key /\ <<sensor, frame>> \notin Chaincode!Written(tx)
    BY <1>2, SameFrames DEF Chaincode!Written
  <2> QED
    BY <2>1 DEF Chaincode!Commit, Chaincode!BumpVersions
<1> QED
  BY <1>1, <1>2 DEF Chaincode!Commit, Chaincode!Apply

\* A rejected transaction leaves nothing but its id.
LEMMA InvalidateEffect ==
  ASSUME NEW tx \in endorsed, Chaincode!Invalidate(tx)
  PROVE  /\ endorsed' = endorsed \ {tx} /\ invalid' = invalid \cup {tx.log.id}
         /\ ~Chaincode!Fresh(tx)
         /\ UNCHANGED <<worldState, version, latest, committed, proposals, faults>>
BY DEF Chaincode!Invalidate

\* Every step of the generator is one of the contract, or leaves the chain alone.
LEMMA ChainStep ==
  ASSUME TypeOK, [Next]_vars
  PROVE  [ChainProofs!Next]_(ChainProofs!vars)
<1>1. ASSUME NEW sensor \in Sensor, NEW value \in Value, NEW time \in Instant,
             Chaincode!SetSensorState(sensor, value, time, Frames(time), Frames(time))
      PROVE  ChainProofs!Next
  <2>1. ChainProofs!SetSensorState(sensor, value, time, Frames(time), Frames(time))
    BY <1>1, SameSteps
  <2>2. Frames(time) \in SUBSET ChainProofs!Frames(time)
    BY SameFrames
  <2> QED
    BY <2>1, <2>2 DEF ChainProofs!Next
<1>2. ASSUME NEW device \in Device, SubmitTransaction(device) PROVE ChainProofs!Next
  BY <1>1, <1>2, DeviceAssumption DEF SubmitTransaction, TypeOK
<1>3. CASE Visit
  <2>1. Clock[1] \in Instant
    BY ClockAssumption
  <2> QED
    BY <1>1, <1>3, <2>1 DEF Visit
<1>4. ASSUME NEW tx \in endorsed, Validate(tx) PROVE ChainProofs!Next
  BY <1>4, SameSteps DEF Validate, ChainProofs!Next
<1>5. ASSUME NEW device \in Device,
             \/ ReadClock(device) \/ Submitted(device) \/ Rejected(device) \/ Done(device)
             \/ SubmissionFails(device)
      PROVE  UNCHANGED chain
  BY <1>5 DEF ReadClock, Submitted, Rejected, Done, SubmissionFails
<1>6. CASE Completed \/ StartAgain \/ Tick
  BY <1>6 DEF Completed, StartAgain, Tick, chain, ChainProofs!vars
<1>7. CASE UNCHANGED vars
  BY <1>7 DEF vars, chain, ChainProofs!vars
<1>8. UNCHANGED chain => UNCHANGED ChainProofs!vars
  BY DEF chain, ChainProofs!vars
<1> QED
  BY <1>2, <1>3, <1>4, <1>5, <1>6, <1>7, <1>8 DEF Next, Goroutine

\* The contract's invariant holds of the generator's chain.
LEMMA ChainInit == Init => ChainProofs!IInv
BY SameStates, ChainProofs!IInvInit, ValueAssumption, InstantAssumption, BoundsAssumption
   DEF Init

LEMMA ChainKeeps ==
  ASSUME TypeOK, ChainProofs!IInv, [Next]_vars
  PROVE  ChainProofs!IInv'
BY ChainStep, ChainProofs!IInvStep, ValueAssumption, InstantAssumption, BoundsAssumption

-----------------------------------------------------------------------------
(***************************************************************************)
(* Types.                                                                  *)
(***************************************************************************)

\* The generator's own variables keep their types.
LEMMA TypeStep ==
  ASSUME TypeOK, Loops, ChainProofs!IInv, [Next]_vars
  PROVE  TypeOK'
<1> USE BoundsAssumption
<1>1. Chaincode!TypeOK'
  <2>1. ChainProofs!TypeOK'
    BY ChainKeeps DEF ChainProofs!IInv
  <2>2. (Chaincode!TypeOK <=> ChainProofs!TypeOK)'
    BY SameStates, PTL
  <2> QED
    BY <2>1, <2>2
<1>2. \A i \in 1 .. Len(Clock) : Clock[i] \in Instant
  BY ClockAssumption
<1>3. Len(Clock) \in Nat \ {0}
  BY ClockAssumption
<1>4. ASSUME NEW device \in Device, ReadClock(device) PROVE TypeOK'
  <2>1. Clock[clock] \in Instant
    BY <1>2 DEF TypeOK
  <2> QED
    BY <1>1, <1>4, <2>1 DEF TypeOK, ReadClock, At
<1>5. ASSUME NEW device \in Device, SubmitTransaction(device) PROVE TypeOK'
  <2>1. proposals + 1 \in 0 .. MaxProposals
    BY <1>5, ChainTypes, SubmitEffect DEF SubmitTransaction
  <2> QED
    BY <1>1, <1>5, <2>1 DEF TypeOK, SubmitTransaction, At
<1>6. ASSUME NEW device \in Device, Submitted(device) PROVE TypeOK'
  <2>1. sent[device] + 1 \in 0 .. LogsNumber
    BY <1>6 DEF TypeOK, Loops, Submitted, At
  <2> QED
    BY <1>1, <1>6, <2>1 DEF TypeOK, Submitted, At
<1>7. ASSUME NEW device \in Device, Rejected(device) \/ Done(device) PROVE TypeOK'
  BY <1>1, <1>7 DEF TypeOK, Rejected, Done, At
<1>8. ASSUME NEW device \in Device, SubmissionFails(device) PROVE TypeOK'
  <2>1. failures' \in 0 .. MaxRuns
    BY <1>8 DEF TypeOK, Loops, SubmissionFails, At
  <2> QED
    BY <1>1, <1>8, <2>1 DEF TypeOK, SubmissionFails, At
<1>9. CASE Completed
  BY <1>1, <1>9 DEF TypeOK, Completed
<1>10. CASE StartAgain
  <2>1. Clock[1] \in Instant /\ proposals \in 0 .. MaxProposals
    BY <1>2, <1>3, ChainTypes
  <2>2. runs' \in 1 .. MaxRuns
    BY <1>10 DEF TypeOK, StartAgain
  <2> QED
    BY <1>1, <1>10, <2>1, <2>2 DEF TypeOK, StartAgain, Started
<1>11. CASE Visit
  <2>1. visits' \in 0 .. MaxVisits
    BY <1>11 DEF TypeOK, Visit
  <2> QED
    BY <1>1, <1>11, <2>1 DEF TypeOK, Visit, generator
<1>12. ASSUME NEW tx \in endorsed, Validate(tx) PROVE TypeOK'
  BY <1>1, <1>12 DEF TypeOK, Validate, generator
<1>13. CASE Tick
  <2>1. clock' \in 1 .. Len(Clock)
    BY <1>3, <1>13 DEF TypeOK, Tick
  <2> QED
    BY <1>1, <1>13, <2>1 DEF TypeOK, Tick, generator
<1>14. CASE UNCHANGED vars
  BY <1>1, <1>14 DEF TypeOK, vars, generator
<1> QED
  BY <1>4, <1>5, <1>6, <1>7, <1>8, <1>9, <1>10, <1>11, <1>12, <1>13, <1>14
     DEF Next, Goroutine

-----------------------------------------------------------------------------
(***************************************************************************)
(* Steps of the program that leave the chain alone.                        *)
(***************************************************************************)
Parts == Ids /\ Loops /\ OneInFlight /\ Clocked /\ FirstRunNeverConflicts

\* What the chain then says stays as it is.
LEMMA SameChain ==
  ASSUME UNCHANGED chain
  PROVE  /\ Logs' = Logs /\ \A device : LogsOf(device)' = LogsOf(device)
         /\ \A tx : Chaincode!Fresh(tx)' = Chaincode!Fresh(tx)
         /\ runStart' = runStart => \A device : Recorded(device)' = Recorded(device)
BY DEF chain, Logs, LogsOf, Recorded, Chaincode!GetHistoryForKey, Chaincode!Fresh

\* The first run's transactions stay fresh while the chain does not change and no
\* run begins.
LEMMA SameFreshness ==
  ASSUME UNCHANGED <<chain, submitted>>, runs' = 1 => runs = 1, FirstRunNeverConflicts
  PROVE  FirstRunNeverConflicts'
<1>1. \A tx : Chaincode!Fresh(tx)' = Chaincode!Fresh(tx)
  BY SameChain
<1> QED
  BY <1>1 DEF FirstRunNeverConflicts, chain

\* A goroutine looks at the clock: the time is not before that of any reading so far.
LEMMA ReadClockKeeps ==
  ASSUME IInv, NEW actor \in Device, ReadClock(actor)
  PROVE  Parts'
<1>1. /\ pc[actor] = "loop" /\ sent[actor] < LogsNumber
      /\ creation' = [creation EXCEPT ![actor] = Clock[clock]]
      /\ pc' = [pc EXCEPT ![actor] = "submit"]
      /\ UNCHANGED <<chain, process, sent, submitted, runs, failures, runStart, clock, visits>>
      /\ process = "running"
  BY DEF ReadClock, At
<1>2. /\ Logs' = Logs /\ \A device : LogsOf(device)' = LogsOf(device)
      /\ \A device : Recorded(device)' = Recorded(device)
  BY <1>1, SameChain
<1>3. \A device \in Device : \/ pc'[device] = pc[device] /\ creation'[device] = creation[device]
                             \/ device = actor /\ pc'[device] = "submit"
                                /\ creation'[device] = Clock[clock]
  BY <1>1 DEF IInv, TypeOK
<1>4. \A device \in Device : Arrived(device)' = Arrived(device)
  BY <1>1, <1>3 DEF Arrived, chain
<1>5. Ids'
  BY <1>1, <1>2 DEF IInv, Ids, chain
<1>6. Loops'
  BY <1>1, <1>3 DEF IInv, Loops
<1>7. OneInFlight'
  BY <1>1, <1>2, <1>3, <1>4 DEF IInv, OneInFlight, chain
<1>8. Clocked'
  <2>1. clock \in 1 .. clock
    BY DEF IInv, TypeOK
  <2> QED
    BY <1>1, <1>2, <1>3, <2>1, SMTT(30) DEF IInv, Clocked, SeenBy, NotBefore
<1> QED
  BY <1>1, <1>5, <1>6, <1>7, <1>8, SameFreshness DEF IInv, Parts

\* The transaction is on the chain: the reading counts.
LEMMA SubmittedKeeps ==
  ASSUME IInv, NEW actor \in Device, Submitted(actor)
  PROVE  Parts'
<1>1. /\ pc[actor] = "wait" /\ process = "running"
      /\ \E log \in committed : log.id = submitted[actor]
      /\ sent' = [sent EXCEPT ![actor] = sent[actor] + 1]
      /\ pc' = [pc EXCEPT ![actor] = "loop"]
      /\ UNCHANGED <<chain, process, creation, submitted, runs, failures, runStart,
                     clock, visits>>
  BY DEF Submitted, At
<1>2. /\ Logs' = Logs /\ \A device : LogsOf(device)' = LogsOf(device)
      /\ \A device : Recorded(device)' = Recorded(device)
  BY <1>1, SameChain
<1>3. /\ \A device \in Device \ {actor} :
           pc'[device] = pc[device] /\ sent'[device] = sent[device]
      /\ pc'[actor] = "loop" /\ sent'[actor] = sent[actor] + 1 /\ sent[actor] \in Nat
  BY <1>1 DEF IInv, TypeOK
<1>4. Ids'
  BY <1>1, <1>2 DEF IInv, Ids, chain
<1>5. Loops'
  BY <1>1, <1>3 DEF IInv, Loops
<1>6. OneInFlight'
  <2>1. Arrived(actor) /\ ~Arrived(actor)'
    BY <1>1, <1>3 DEF Arrived
  <2>2. Cardinality(Recorded(actor)') = sent'[actor] + IF Arrived(actor)' THEN 1 ELSE 0
    BY <1>2, <1>3, <2>1 DEF IInv, OneInFlight
  <2>3. \A device \in Device \ {actor} : Arrived(device)' = Arrived(device)
    BY <1>1, <1>3 DEF Arrived, chain
  <2>4. \A tx \in endorsed : ~(tx.log.sensor = actor /\ tx.log.id > runStart)
    BY <1>1, ChainTypes DEF IInv, OneInFlight
  <2> QED
    BY <1>1, <1>2, <1>3, <2>2, <2>3, <2>4 DEF IInv, OneInFlight, chain
<1>7. Clocked'
  BY <1>1, <1>2, <1>3 DEF IInv, Clocked, SeenBy, NotBefore
<1> QED
  BY <1>1, <1>4, <1>5, <1>6, <1>7, SameFreshness DEF IInv, Parts

\* A goroutine has sent its readings, or kills the process; the process completes.
LEMMA EndKeeps ==
  ASSUME IInv, \/ Completed
               \/ \E device \in Device : \/ Rejected(device) \/ SubmissionFails(device)
                                         \/ Done(device)
  PROVE  Parts'
<1>1. UNCHANGED <<chain, sent, creation, submitted, runs, runStart, clock, visits>>
  BY DEF Completed, Rejected, SubmissionFails, Done
<1>2. /\ Logs' = Logs /\ \A device : LogsOf(device)' = LogsOf(device)
      /\ \A device : Recorded(device)' = Recorded(device)
  BY <1>1, SameChain
<1>3. \A device \in Device :
        \/ pc'[device] = pc[device]
        \/ pc[device] = "loop" /\ pc'[device] = "done" /\ sent[device] = LogsNumber
  BY DEF Completed, Rejected, SubmissionFails, Done, At, IInv, TypeOK
<1>4. \A device \in Device : Arrived(device)' = Arrived(device)
  BY <1>1, <1>3 DEF Arrived, chain
<1>5. Ids'
  BY <1>1, <1>2 DEF IInv, Ids, chain
<1>6. Loops'
  <2>1. failures' <= runs /\ (process' = "running" => failures' < runs)
    BY DEF Completed, Rejected, SubmissionFails, Done, At, IInv, TypeOK, Loops
  <2>2. process' = "completed" => \A device \in Device : pc'[device] = "done"
    BY <1>3 DEF Completed, Rejected, SubmissionFails, Done, At, IInv, TypeOK, Loops
  <2> QED
    BY <1>1, <1>3, <2>1, <2>2 DEF IInv, Loops
<1>7. OneInFlight'
  BY <1>1, <1>2, <1>3, <1>4 DEF IInv, OneInFlight, chain
<1>8. Clocked'
  BY <1>1, <1>2, <1>3 DEF IInv, Clocked, SeenBy, NotBefore
<1> QED
  BY <1>1, <1>5, <1>6, <1>7, <1>8, SameFreshness DEF IInv, Parts

\* The program is started again: what was left behind does not count.
LEMMA StartKeeps ==
  ASSUME IInv, StartAgain
  PROVE  Parts'
<1>1. /\ process' = "running" /\ runs' = runs + 1 /\ runStart' = proposals
      /\ pc' = [device \in Device |-> "loop"] /\ sent' = [device \in Device |-> 0]
      /\ submitted' = [device \in Device |-> 0]
      /\ UNCHANGED <<chain, failures, clock, visits>> /\ process # "running"
      /\ runs \in Nat \ {0} /\ failures \in Nat /\ proposals \in Nat
  BY ChainTypes DEF StartAgain, Started, IInv, TypeOK
<1>2. Logs' = Logs /\ \A device : LogsOf(device)' = LogsOf(device)
  BY <1>1, SameChain
<1>3. \A log \in Logs : log.id \in Nat /\ log.id > 0 /\ log.id <= proposals
  BY ChainTypes DEF IInv
<1>4. \A device : Recorded(device)' = {}
  BY <1>1, <1>3 DEF Recorded, Chaincode!GetHistoryForKey, Logs, chain
<1>5. Ids'
  BY <1>1, <1>2, <1>3 DEF IInv, Ids, chain
<1>6. Loops'
  BY <1>1 DEF IInv, Loops
<1>7. OneInFlight'
  <2>1. \A tx \in endorsed : ~(tx.log.id > proposals)
    BY <1>1, <1>3 DEF Logs
  <2>2. \A device \in Device : ~Arrived(device)'
    BY <1>1 DEF Arrived
  <2>3. \A device \in Device :
          Cardinality(Recorded(device)') = sent'[device] + IF Arrived(device)' THEN 1 ELSE 0
    <3>1. Cardinality({}) = 0
      BY FS_EmptySet
    <3> QED
      BY <1>1, <1>4, <2>2, <3>1
  <2> QED
    BY <1>1, <2>1, <2>3 DEF OneInFlight, chain
<1>8. Clocked'
  BY <1>1, <1>2 DEF IInv, Clocked, SeenBy, NotBefore
<1>9. FirstRunNeverConflicts'
  BY <1>1 DEF FirstRunNeverConflicts
<1> QED
  BY <1>5, <1>6, <1>7, <1>8, <1>9 DEF Parts

\* The clock goes on.
LEMMA TickKeeps ==
  ASSUME IInv, Tick \/ UNCHANGED vars
  PROVE  Parts'
<1>1. UNCHANGED <<chain, generator>> /\ clock' \in {clock, clock + 1} /\ clock \in Nat
  BY DEF Tick, vars, IInv, TypeOK
<1>2. /\ Logs' = Logs /\ \A device : LogsOf(device)' = LogsOf(device)
      /\ \A device : Recorded(device)' = Recorded(device)
  BY <1>1, SameChain DEF generator
<1>3. \A device \in Device : Arrived(device)' = Arrived(device)
  BY <1>1 DEF Arrived, chain, generator
<1>4. Ids' /\ Loops' /\ OneInFlight'
  BY <1>1, <1>2, <1>3 DEF IInv, Ids, Loops, OneInFlight, chain, generator
<1>5. Clocked'
  <2>1. 1 .. clock \subseteq 1 .. clock'
    BY <1>1
  <2>2. \A log : SeenBy(log, clock) => SeenBy(log, clock)'
    BY <2>1 DEF SeenBy
  <2> QED
    BY <1>1, <1>2, <2>1, <2>2 DEF IInv, Clocked, SeenBy, NotBefore, generator
<1> QED
  BY <1>1, <1>4, <1>5, SameFreshness DEF IInv, Parts, generator

-----------------------------------------------------------------------------
(***************************************************************************)
(* Steps that change the chain.                                            *)
(***************************************************************************)

\* A simulation adds one log, with the next id, and nothing else.
LEMMA SimulationEffect ==
  ASSUME IInv, NEW sensor \in Sensor, NEW value, NEW time,
         Chaincode!SetSensorState(sensor, value, time, Frames(time), Frames(time))
  PROVE  /\ UNCHANGED <<worldState, version, latest, committed, invalid>>
         /\ proposals' = proposals + 1 /\ proposals \in Nat
         /\ \A log \in Logs : log.id \in Nat /\ log.id > 0 /\ log.id <= proposals
         /\ \E new :
              /\ endorsed' = endorsed \cup {new} /\ Logs' = Logs \cup {new.log}
              /\ LogsOf(sensor)' = LogsOf(sensor) \cup {new.log}
              /\ \A other \in Sensor \ {sensor} : LogsOf(other)' = LogsOf(other)
              /\ new.log.id = proposals + 1 /\ new.log.sensor = sensor
              /\ new.log.time = time /\ new.log.done = Frames(time)
              /\ DOMAIN new.reads = Frames(time)
              /\ Chaincode!Fresh(new)'
         /\ \A tx : Chaincode!Fresh(tx)' = Chaincode!Fresh(tx)
<1>1. /\ UNCHANGED <<worldState, version, latest, committed, invalid>>
      /\ proposals' = proposals + 1
  BY SubmitEffect
<1>2. proposals \in Nat /\ \A log \in Logs : log.id \in Nat /\ log.id > 0 /\ log.id <= proposals
  BY ChainTypes DEF IInv
<1>3. PICK new : /\ endorsed' = endorsed \cup {new}
                 /\ new.log.id = proposals + 1 /\ new.log.sensor = sensor
                 /\ new.log.time = time /\ new.log.done = Frames(time)
                 /\ DOMAIN new.reads = Frames(time)
                 /\ \A frame \in Frames(time) : new.reads[frame] = version[<<sensor, frame>>]
  BY SubmitEffect
<1>4. Logs' = Logs \cup {new.log}
  BY <1>1, <1>3 DEF Logs
<1>5. /\ LogsOf(sensor)' = LogsOf(sensor) \cup {new.log}
      /\ \A other \in Sensor \ {sensor} : LogsOf(other)' = LogsOf(other)
  BY <1>3, <1>4 DEF LogsOf
<1>6. \A tx : Chaincode!Fresh(tx)' = Chaincode!Fresh(tx)
  BY <1>1 DEF Chaincode!Fresh
<1>7. Chaincode!Fresh(new)'
  BY <1>1, <1>3 DEF Chaincode!Fresh
<1> QED
  BY <1>1, <1>2, <1>3, <1>4, <1>5, <1>6, <1>7

\* A goroutine hands in the transaction it then waits for.
LEMMA SubmitKeeps ==
  ASSUME IInv, NEW actor \in Device, SubmitTransaction(actor)
  PROVE  Parts'
<1>1. /\ pc[actor] = "submit" /\ process = "running"
      /\ submitted' = [submitted EXCEPT ![actor] = proposals + 1]
      /\ pc' = [pc EXCEPT ![actor] = "wait"]
      /\ UNCHANGED <<process, sent, creation, runs, failures, runStart, clock, visits>>
  BY DEF SubmitTransaction, At
<1>2. actor \in Sensor /\ \A device \in Device : device \in Sensor
  BY DeviceAssumption
<1>3. PICK value \in Value :
             Chaincode!SetSensorState(actor, value, creation[actor],
                                      Frames(creation[actor]), Frames(creation[actor]))
  BY DEF SubmitTransaction
<1>4. /\ UNCHANGED <<version, latest, committed, invalid>>
      /\ proposals' = proposals + 1 /\ proposals \in Nat
      /\ \A log \in Logs : log.id \in Nat /\ log.id > 0 /\ log.id <= proposals
      /\ \A tx : Chaincode!Fresh(tx)' = Chaincode!Fresh(tx)
  BY <1>2, <1>3, SimulationEffect
<1>5. PICK new :
        /\ endorsed' = endorsed \cup {new} /\ Logs' = Logs \cup {new.log}
        /\ LogsOf(actor)' = LogsOf(actor) \cup {new.log}
        /\ \A other \in Sensor \ {actor} : LogsOf(other)' = LogsOf(other)
        /\ new.log.id = proposals + 1 /\ new.log.sensor = actor
        /\ new.log.time = creation[actor] /\ new.log.done = Frames(creation[actor])
        /\ DOMAIN new.reads = Frames(creation[actor])
        /\ Chaincode!Fresh(new)'
  BY <1>2, <1>3, SimulationEffect
<1>6. /\ \A device \in Device \ {actor} :
           pc'[device] = pc[device] /\ submitted'[device] = submitted[device]
      /\ pc'[actor] = "wait" /\ submitted'[actor] = proposals + 1
      /\ \A device \in Device : submitted[device] \in Nat /\ runStart \in Nat
  BY <1>1 DEF IInv, TypeOK
<1>7. \A id \in invalid : id \in Nat /\ id <= proposals
  BY ChainTypes DEF IInv, Ids
<1>8. \A device : Recorded(device)' = Recorded(device)
  BY <1>1, <1>4 DEF Recorded, Chaincode!GetHistoryForKey
<1>9. Ids'
  <2>1. \A device \in Device \ {actor} : submitted'[device] # new.log.id
    BY <1>4, <1>5, <1>6 DEF IInv, Ids
  <2>2. \A device \in Device : /\ submitted'[device] <= proposals'
                               /\ \A log \in Logs' : log.id = submitted'[device] =>
                                                       log.sensor = device
    BY <1>4, <1>5, <1>6, <2>1 DEF IInv, Ids
  <2>3. \A tx \in endorsed' : DOMAIN tx.reads = Frames(tx.log.time) /\ tx.log.id \notin invalid'
    BY <1>4, <1>5, <1>7 DEF IInv, Ids
  <2>4. /\ \A log \in Logs' : log.done = Frames(log.time)
        /\ runStart' <= proposals' /\ (runs' = 1 => runStart' = 0)
        /\ \A id \in invalid' : id <= proposals'
    BY <1>1, <1>4, <1>5, <1>6, <1>7 DEF IInv, Ids
  <2> QED
    BY <2>2, <2>3, <2>4 DEF Ids
<1>10. Loops'
  BY <1>1, <1>6 DEF IInv, Loops
<1>11. OneInFlight'
  <2>1. \A device \in Device \ {actor} : Arrived(device)' = Arrived(device)
    BY <1>4, <1>6 DEF Arrived
  <2>2. ~Arrived(actor)' /\ ~Arrived(actor)
    BY <1>1, <1>4, <1>6 DEF Arrived, Logs
  <2>3. submitted'[actor] > runStart /\ \A log \in LogsOf(actor)' : log.id <= submitted'[actor]
    BY <1>4, <1>5, <1>6 DEF IInv, Ids, LogsOf
  <2>4. \A tx \in endorsed' : tx.log.sensor = actor /\ tx.log.id > runStart =>
          tx.log.id = submitted'[actor]
    BY <1>1, <1>5, <1>6 DEF IInv, OneInFlight
  <2>5. \A device \in Device \ {actor} : \A tx \in endorsed' :
          tx.log.sensor = device /\ tx.log.id > runStart =>
            pc'[device] = "wait" /\ tx.log.id = submitted'[device]
    BY <1>5, <1>6 DEF IInv, OneInFlight
  <2>6. \A device \in Device :
          Cardinality(Recorded(device)') = sent'[device] + IF Arrived(device)' THEN 1 ELSE 0
    BY <1>1, <1>8, <2>1, <2>2 DEF IInv, OneInFlight
  <2>7. \A device \in Device : pc'[device] = "wait" =>
          submitted'[device] > runStart' /\ \A log \in LogsOf(device)' : log.id <= submitted'[device]
    BY <1>1, <1>2, <1>5, <1>6, <2>3 DEF IInv, OneInFlight
  <2> QED
    BY <1>1, <1>6, <2>4, <2>5, <2>6, <2>7 DEF OneInFlight
<1>12. Clocked'
  <2>1. PICK j \in 1 .. clock : /\ Clock[j] = creation[actor]
                                /\ \A log \in LogsOf(actor) : SeenBy(log, j)
    BY <1>1 DEF IInv, Clocked
  <2>2. j \in 1 .. Len(Clock) /\ Len(Clock) \in Nat
    BY <2>1, ClockAssumption DEF IInv, TypeOK
  <2>3. \A log \in LogsOf(actor) : NotBefore(log, new.log)
    <3> SUFFICES ASSUME NEW log \in LogsOf(actor) PROVE NotBefore(log, new.log)
      OBVIOUS
    <3>1. PICK i \in 1 .. j : Clock[i] = log.time
      BY <2>1 DEF SeenBy
    <3>2. i \in 1 .. Len(Clock) /\ i <= j
      BY <2>2, <3>1
    <3> QED
      BY <1>5, <2>1, <2>2, <3>1, <3>2 DEF NotBefore
  <2>4. \A a, b \in LogsOf(actor)' : a.id < b.id => NotBefore(a, b)
    <3>1. \A log \in LogsOf(actor)' : ~(new.log.id < log.id)
      BY <1>4, <1>5 DEF LogsOf
    <3> QED
      BY <1>5, <2>3, <3>1 DEF IInv, Clocked
  <2>5. \A log \in LogsOf(actor)' : SeenBy(log, clock)
    BY <1>5, <2>1 DEF IInv, Clocked, SeenBy
  <2>6. \A device \in Device :
          /\ \A a, b \in LogsOf(device)' : a.id < b.id => NotBefore(a, b)
          /\ \A log \in LogsOf(device)' : SeenBy(log, clock)
    BY <1>2, <1>5, <2>4, <2>5 DEF IInv, Clocked
  <2>7. \A device \in Device : pc'[device] = "submit" =>
          \E i \in 1 .. clock : /\ Clock[i] = creation[device]
                                /\ \A log \in LogsOf(device)' : SeenBy(log, i)
    BY <1>2, <1>5, <1>6 DEF IInv, Clocked
  <2> QED
    BY <1>1, <2>6, <2>7 DEF Clocked, SeenBy, NotBefore
<1>13. FirstRunNeverConflicts'
  <2>1. \A tx \in endorsed' : Chaincode!Fresh(tx)' <=> tx = new \/ Chaincode!Fresh(tx)
    BY <1>4, <1>5
  <2>2. \A device \in Device : runs = 1 => submitted'[device] \notin invalid
    BY <1>4, <1>6, <1>7 DEF IInv, FirstRunNeverConflicts
  <2> QED
    BY <1>1, <1>4, <1>5, <2>1, <2>2 DEF IInv, FirstRunNeverConflicts
<1> QED
  BY <1>9, <1>10, <1>11, <1>12, <1>13 DEF Parts

\* The script writes for a device the generator does not have.
LEMMA VisitKeeps ==
  ASSUME IInv, Visit
  PROVE  Parts'
<1>1. UNCHANGED <<generator, clock>>
  BY DEF Visit
<1>2. PICK sensor \in Sensor \ Device, value \in Value :
             Chaincode!SetSensorState(sensor, value, Clock[1], Frames(Clock[1]), Frames(Clock[1]))
  BY DEF Visit
<1>3. /\ UNCHANGED <<version, latest, committed, invalid>>
      /\ proposals' = proposals + 1 /\ proposals \in Nat
      /\ \A log \in Logs : log.id \in Nat /\ log.id > 0 /\ log.id <= proposals
      /\ \A tx : Chaincode!Fresh(tx)' = Chaincode!Fresh(tx)
  BY <1>2, SimulationEffect
<1>4. PICK new :
        /\ endorsed' = endorsed \cup {new} /\ Logs' = Logs \cup {new.log}
        /\ \A other \in Sensor \ {sensor} : LogsOf(other)' = LogsOf(other)
        /\ new.log.id = proposals + 1 /\ new.log.sensor = sensor
        /\ new.log.time = Clock[1] /\ new.log.done = Frames(Clock[1])
        /\ DOMAIN new.reads = Frames(Clock[1])
  BY <1>2, SimulationEffect
<1>5. \A device \in Device : /\ device # sensor /\ device \in Sensor
                             /\ LogsOf(device)' = LogsOf(device)
                             /\ Recorded(device)' = Recorded(device)
                             /\ Arrived(device)' = Arrived(device)
                             /\ submitted[device] \in Nat
  BY <1>1, <1>2, <1>3, <1>4, DeviceAssumption
     DEF Recorded, Chaincode!GetHistoryForKey, Arrived, generator, IInv, TypeOK
<1>6. \A id \in invalid : id \in Nat /\ id <= proposals
  BY ChainTypes DEF IInv, Ids
<1>7. Ids'
  <2>1. \A device \in Device : submitted[device] # new.log.id
    BY <1>3, <1>4, <1>5 DEF IInv, Ids
  <2>2. \A device \in Device : /\ submitted[device] <= proposals'
                               /\ \A log \in Logs' : log.id = submitted[device] =>
                                                       log.sensor = device
    BY <1>3, <1>4, <1>5, <2>1 DEF IInv, Ids
  <2>3. \A tx \in endorsed' : DOMAIN tx.reads = Frames(tx.log.time) /\ tx.log.id \notin invalid'
    BY <1>3, <1>4, <1>6 DEF IInv, Ids
  <2>4. /\ \A log \in Logs' : log.done = Frames(log.time)
        /\ runStart <= proposals' /\ (runs = 1 => runStart = 0)
        /\ \A id \in invalid' : id <= proposals'
    BY <1>3, <1>4, <1>6 DEF IInv, Ids, TypeOK
  <2> QED
    BY <1>1, <2>2, <2>3, <2>4 DEF Ids, generator
<1>8. Loops'
  BY <1>1 DEF IInv, Loops, generator
<1>9. OneInFlight'
  BY <1>1, <1>4, <1>5 DEF IInv, OneInFlight, generator
<1>10. Clocked'
  BY <1>1, <1>5, SMTT(30) DEF IInv, Clocked, SeenBy, NotBefore, generator
<1>11. FirstRunNeverConflicts'
  BY <1>1, <1>3, <1>4, <1>5 DEF IInv, FirstRunNeverConflicts, generator
<1> QED
  BY <1>7, <1>8, <1>9, <1>10, <1>11 DEF Parts

\* A transaction is found valid: its log is on the chain.
LEMMA CommitKeeps ==
  ASSUME IInv, NEW tx \in endorsed, Chaincode!Commit(tx), UNCHANGED <<generator, clock, visits>>
  PROVE  Parts'
<1>1. /\ endorsed' = endorsed \ {tx} /\ committed' = committed \cup {tx.log}
      /\ UNCHANGED <<invalid, proposals>> /\ tx.log \notin committed
      /\ \A sensor \in Sensor \ {tx.log.sensor}, frame \in TimeFrame :
           version'[<<sensor, frame>>] = version[<<sensor, frame>>]
  BY CommitEffect DEF IInv
<1>2. /\ tx.log \in Logs /\ tx.log.sensor \in Sensor /\ tx.log.id \in Nat
      /\ IsFiniteSet(committed)
      /\ \A log \in committed : log.id # tx.log.id
      /\ \A other \in endorsed : other.log.id = tx.log.id => other = tx
      /\ \A other \in endorsed : other.log.sensor \in Sensor /\ DOMAIN other.reads \subseteq TimeFrame
  BY ChainTypes DEF IInv, Logs
<1>3. Logs' = Logs /\ \A device : LogsOf(device)' = LogsOf(device)
  <2>1. Logs' = Logs
    BY <1>1, <1>2 DEF Logs
  <2> QED
    BY <2>1 DEF LogsOf
<1>4. Ids'
  BY <1>1, <1>3 DEF IInv, Ids, generator
<1>5. Loops'
  BY DEF IInv, Loops, generator
<1>6. \A device \in Device :
        Cardinality(Recorded(device)') = sent[device] + IF Arrived(device)' THEN 1 ELSE 0
  <2> SUFFICES ASSUME NEW device \in Device
               PROVE  Cardinality(Recorded(device)')
                        = sent[device] + IF Arrived(device)' THEN 1 ELSE 0
    OBVIOUS
  <2>1. Cardinality(Recorded(device)) = sent[device] + IF Arrived(device) THEN 1 ELSE 0
    BY DEF IInv, OneInFlight
  <2>2. CASE tx.log.sensor = device /\ tx.log.id > runStart
    <3>1. pc[device] = "wait" /\ tx.log.id = submitted[device]
      BY <2>2 DEF IInv, OneInFlight
    <3>2. ~Arrived(device) /\ Arrived(device)'
      BY <1>1, <1>2, <3>1 DEF Arrived, generator
    <3>3. Recorded(device)' = Recorded(device) \cup {tx.log} /\ tx.log \notin Recorded(device)
      BY <1>1, <2>2 DEF Recorded, Chaincode!GetHistoryForKey, generator
    <3>4. IsFiniteSet(Recorded(device))
      <4>1. Recorded(device) \subseteq committed
        BY DEF Recorded, Chaincode!GetHistoryForKey
      <4> QED
        BY <1>2, <4>1, FS_Subset
    <3>5. Cardinality(Recorded(device)') = Cardinality(Recorded(device)) + 1
      BY <3>3, <3>4, FS_AddElement
    <3>6. sent[device] \in Nat
      BY DEF IInv, TypeOK
    <3> QED
      BY <2>1, <3>2, <3>5, <3>6
  <2>3. CASE ~(tx.log.sensor = device /\ tx.log.id > runStart)
    <3>1. Recorded(device)' = Recorded(device)
      BY <1>1, <2>3 DEF Recorded, Chaincode!GetHistoryForKey, generator
    <3>2. Arrived(device)' <=> Arrived(device)
      <4>1. ASSUME pc[device] = "wait" PROVE tx.log.id # submitted[device]
        BY <1>2, <2>3, <4>1 DEF IInv, OneInFlight, Ids
      <4> QED
        BY <1>1, <4>1 DEF Arrived, generator
    <3> QED
      BY <2>1, <3>1, <3>2
  <2> QED
    BY <2>2, <2>3
<1>7. OneInFlight'
  BY <1>1, <1>3, <1>6 DEF IInv, OneInFlight, generator
<1>8. Clocked'
  BY <1>3 DEF IInv, Clocked, SeenBy, NotBefore, generator
<1>9. FirstRunNeverConflicts'
  <2> SUFFICES ASSUME runs = 1 PROVE FirstRunNeverConflicts'
    BY DEF FirstRunNeverConflicts, generator
  <2>1. runStart = 0 /\ \A log \in Logs : log.id > 0
    BY ChainTypes DEF IInv, Ids
  <2>2. ASSUME NEW other \in endorsed', other.log.sensor \in Device
        PROVE  Chaincode!Fresh(other)'
    <3>1. other \in endorsed /\ other # tx /\ other.log \in Logs
      BY <1>1, <2>2 DEF Logs
    <3>2. other.log.sensor # tx.log.sensor
      BY <1>2, <2>1, <2>2, <3>1 DEF IInv, OneInFlight
    <3>3. Chaincode!Fresh(other)
      BY <2>2, <3>1 DEF IInv, FirstRunNeverConflicts
    <3> QED
      BY <1>1, <1>2, <3>1, <3>2, <3>3 DEF Chaincode!Fresh
  <2> QED
    BY <1>1, <2>2 DEF IInv, FirstRunNeverConflicts, generator
<1> QED
  BY <1>4, <1>5, <1>7, <1>8, <1>9 DEF Parts

\* A transaction is found invalid: in the first run it is not the generator's.
LEMMA InvalidateKeeps ==
  ASSUME IInv, NEW tx \in endorsed, Chaincode!Invalidate(tx),
         UNCHANGED <<generator, clock, visits>>
  PROVE  Parts'
<1>1. /\ endorsed' = endorsed \ {tx} /\ invalid' = invalid \cup {tx.log.id}
      /\ ~Chaincode!Fresh(tx)
      /\ UNCHANGED <<worldState, version, latest, committed, proposals, faults>>
  BY InvalidateEffect
<1>2. /\ tx.log \in Logs /\ tx.log.id \in Nat /\ tx.log.id <= proposals
      /\ \A other \in endorsed : other.log.id = tx.log.id => other = tx
  BY ChainTypes DEF IInv, Logs
<1>3. Logs' \subseteq Logs /\ \A device : LogsOf(device)' \subseteq LogsOf(device)
  <2>1. Logs' \subseteq Logs
    BY <1>1 DEF Logs
  <2> QED
    BY <2>1 DEF LogsOf
<1>4. \A device : Recorded(device)' = Recorded(device) /\ Arrived(device)' = Arrived(device)
  BY <1>1 DEF Recorded, Chaincode!GetHistoryForKey, Arrived, generator
<1>5. Ids'
  BY <1>1, <1>2, <1>3 DEF IInv, Ids, generator
<1>6. Loops'
  BY DEF IInv, Loops, generator
<1>7. OneInFlight'
  BY <1>1, <1>3, <1>4 DEF IInv, OneInFlight, generator
<1>8. Clocked'
  BY <1>3 DEF IInv, Clocked, SeenBy, NotBefore, generator
<1>9. FirstRunNeverConflicts'
  <2> SUFFICES ASSUME runs = 1 PROVE FirstRunNeverConflicts'
    BY DEF FirstRunNeverConflicts, generator
  <2>1. tx.log.sensor \notin Device
    BY <1>1 DEF IInv, FirstRunNeverConflicts
  <2>2. \A device \in Device : submitted[device] # tx.log.id
    BY <1>2, <2>1 DEF IInv, Ids
  <2>3. \A other : Chaincode!Fresh(other)' = Chaincode!Fresh(other)
    BY <1>1 DEF Chaincode!Fresh
  <2> QED
    BY <1>1, <2>2, <2>3 DEF IInv, FirstRunNeverConflicts, generator
<1> QED
  BY <1>5, <1>6, <1>7, <1>8, <1>9 DEF Parts

-----------------------------------------------------------------------------
(***************************************************************************)
(* The theorems.                                                           *)
(***************************************************************************)

\* A program started on an empty chain satisfies the invariant.
LEMMA IInvInit == Init => IInv
<1> SUFFICES ASSUME Init PROVE IInv
  OBVIOUS
<1>1. ChainProofs!IInv
  BY ChainInit
<1>2. /\ committed = {} /\ endorsed = {} /\ invalid = {} /\ proposals = 0
      /\ process = "running" /\ clock = 1 /\ runs = 1 /\ failures = 0 /\ runStart = 0
      /\ visits = 0
      /\ pc = [device \in Device |-> "loop"] /\ sent = [device \in Device |-> 0]
      /\ creation = [device \in Device |-> Clock[1]]
      /\ submitted = [device \in Device |-> 0]
  BY DEF Init, Chaincode!Init
<1>3. TypeOK
  <2>1. Chaincode!TypeOK
    BY <1>1, SameStates DEF ChainProofs!IInv
  <2>2. Len(Clock) \in Nat \ {0} /\ Clock[1] \in Instant
    BY ClockAssumption
  <2>3. /\ 0 \in 0 .. LogsNumber /\ 0 \in 0 .. MaxProposals /\ 1 \in 1 .. Len(Clock)
        /\ 1 \in 1 .. MaxRuns /\ 0 \in 0 .. MaxRuns /\ 0 \in 0 .. MaxVisits
    BY <2>2, BoundsAssumption
  <2> QED
    BY <1>2, <2>1, <2>2, <2>3 DEF TypeOK
<1>4. Logs = {} /\ \A device : LogsOf(device) = {} /\ Recorded(device) = {}
  BY <1>2 DEF Logs, LogsOf, Recorded, Chaincode!GetHistoryForKey
<1>5. Ids /\ Loops /\ Clocked /\ FirstRunNeverConflicts
  BY <1>2, <1>4 DEF Ids, Loops, Clocked, FirstRunNeverConflicts
<1>6. OneInFlight
  <2>1. \A device \in Device : ~Arrived(device)
    BY <1>2 DEF Arrived
  <2>2. Cardinality({}) = 0
    BY FS_EmptySet
  <2> QED
    BY <1>2, <1>4, <2>1, <2>2 DEF OneInFlight
<1> QED
  BY <1>1, <1>3, <1>5, <1>6 DEF IInv

\* Every step of the program, of the peers and of the script keeps it.
LEMMA IInvStep == IInv /\ [Next]_vars => IInv'
<1> SUFFICES ASSUME IInv, [Next]_vars PROVE Parts'
  BY TypeStep, ChainKeeps DEF IInv, Parts
<1>1. CASE \E device \in Device : Goroutine(device)
  BY <1>1, ReadClockKeeps, SubmitKeeps, SubmittedKeeps, EndKeeps DEF Goroutine
<1>2. CASE Completed \/ \E device \in Device : SubmissionFails(device)
  BY <1>2, EndKeeps
<1>3. CASE StartAgain
  BY <1>3, StartKeeps
<1>4. CASE Visit
  BY <1>4, VisitKeeps
<1>5. CASE \E tx \in endorsed : Validate(tx)
  BY <1>5, CommitKeeps, InvalidateKeeps DEF Validate
<1>6. CASE Tick \/ UNCHANGED vars
  BY <1>6, TickKeeps
<1> QED
  BY <1>1, <1>2, <1>3, <1>4, <1>5, <1>6 DEF Next

\* The inductive invariant, for any devices, readings, runs and clock.
THEOREM Invariance == Spec => []IInv
BY IInvInit, IInvStep, PTL DEF Spec

\* The types of the generator's variables and of the chain's.
THEOREM TypeCorrect == Spec => []TypeOK
<1>1. IInv => TypeOK
  BY DEF IInv
<1> QED
  BY <1>1, Invariance, PTL

\* Until the program is started a second time, no transaction of a device fails
\* validation (chaincode.go:70, generator-fabric/main.go:188-195).
THEOREM FirstRunCorrect == Spec => []FirstRunNeverConflicts
<1>1. IInv => FirstRunNeverConflicts
  BY DEF IInv
<1> QED
  BY <1>1, Invariance, PTL

\* When the program says "Completed" (generator-fabric/main.go:180), the chain has
\* exactly LogsNumber readings of this run for every device.
THEOREM CompletedCorrect == Spec => []CompletedMeansLogged
<1>1. ASSUME IInv PROVE CompletedMeansLogged
  <2> SUFFICES ASSUME process = "completed", NEW device \in Device
               PROVE  LogsNumber = Cardinality({log \in Chaincode!GetHistoryForKey(device) :
                                                  log.id > runStart})
    BY DEF CompletedMeansLogged
  <2>1. pc[device] = "done" /\ sent[device] = LogsNumber
    BY <1>1 DEF IInv, Loops
  <2>2. ~Arrived(device)
    BY <2>1 DEF Arrived
  <2>3. LogsNumber = Cardinality(Recorded(device))
    BY <1>1, <2>1, <2>2, BoundsAssumption DEF IInv, OneInFlight
  <2> QED
    BY <2>3 DEF Recorded
<1> QED
  BY <1>1, Invariance, PTL

\* The generator's chain is a contract's: whatever holds of the contract holds here.
THEOREM ChainIsTheContract == Spec => ChainProofs!Spec
<1>1. Init => ChainProofs!Init
  BY SameStates DEF Init
<1>2. IInv /\ [Next]_vars => [ChainProofs!Next]_(ChainProofs!vars)
  BY ChainStep DEF IInv
<1> QED
  BY <1>1, <1>2, Invariance, PTL DEF Spec, ChainProofs!Spec

\* Frames of two instants of one month have the month in common.
LEMMA SameMonth ==
  ASSUME NEW s \in Instant, NEW t \in Instant, s[1] = t[1]
  PROVE  Frames(s) \cap Frames(t) # {}
<1>1. s \in Seq(Int) /\ t \in Seq(Int) /\ Len(s) = 5 /\ Len(t) = 5
  BY InstantAssumption
<1>2. SubSeq(s, 1, 1) = SubSeq(t, 1, 1)
  <2>1. /\ SubSeq(s, 1, 1) \in Seq(Int) /\ Len(SubSeq(s, 1, 1)) = 1 /\ SubSeq(s, 1, 1)[1] = s[1]
        /\ SubSeq(t, 1, 1) \in Seq(Int) /\ Len(SubSeq(t, 1, 1)) = 1 /\ SubSeq(t, 1, 1)[1] = t[1]
    BY <1>1
  <2> HIDE <1>1
  <2>2. \A i \in 1 .. Len(SubSeq(s, 1, 1)) : SubSeq(s, 1, 1)[i] = SubSeq(t, 1, 1)[i]
    BY <2>1
  <2> QED
    BY <2>1, <2>2, SeqEqual
<1>3. SubSeq(s, 1, 1) \in Frames(s) /\ SubSeq(t, 1, 1) \in Frames(t)
  BY DEF Frames, Granularity
<1> QED
  BY <1>2, <1>3

\* The reading under a device id is not replaced by one created earlier in the first
\* run, nor by one of the same month after a restart (chaincode.go:61).
THEOREM LatestCorrect == Spec => LatestNeverGoesBackInTime
<1> DEFINE Forward ==
      \A device \in Device :
         (/\ latest[device] # NoLog
          /\ latest'[device] # latest[device]
          /\ runs = 1 \/ latest[device].time[1] = latest'[device].time[1])
         => NotBefore(latest[device], latest'[device])
<1>1. IInv /\ [Next]_vars => [Forward]_vars
  <2> SUFFICES ASSUME IInv, Next, NEW device \in Device,
                      latest[device] # NoLog, latest'[device] # latest[device],
                      runs = 1 \/ latest[device].time[1] = latest'[device].time[1]
               PROVE  NotBefore(latest[device], latest'[device])
    OBVIOUS
  <2> DEFINE old == latest[device]
  <2>1. PICK tx \in endorsed : Chaincode!Commit(tx)
    <3>1. \A sensor, value, time :
            Chaincode!SetSensorState(sensor, value, time, Frames(time), Frames(time))
              => latest' = latest
      BY SubmitEffect
    <3>2. \A tx \in endorsed : Chaincode!Invalidate(tx) => latest' = latest
      BY InvalidateEffect
    <3> QED
      BY <3>1, <3>2 DEF Next, Goroutine, ReadClock, SubmitTransaction, Submitted, Rejected,
         Done, SubmissionFails, Completed, StartAgain, Visit, Validate, Tick, chain
  <2>2. latest \in [Sensor -> ChainProofs!Log \cup {NoLog}] /\ device \in Sensor
    BY ChainTypes, DeviceAssumption DEF IInv
  <2>3. device = tx.log.sensor /\ latest'[device] = tx.log
    BY <2>1, <2>2, CommitEffect DEF IInv
  <2>4. /\ old \in committed /\ old.sensor = device
        /\ tx.log \in Logs /\ old \in Logs /\ old.id # tx.log.id
        /\ old.id \in Nat /\ tx.log.id \in Nat /\ tx.log.id > 0
        /\ old.time \in Instant /\ tx.log.time \in Instant
    BY <2>2, ChainTypes DEF IInv, Logs
  <2>5. old \in LogsOf(device) /\ tx.log \in LogsOf(device)
    BY <2>3, <2>4 DEF LogsOf
  <2>6. old.id < tx.log.id
    <3>1. CASE runs = 1
      <4>1. runStart = 0
        BY <3>1 DEF IInv, Ids
      <4>2. pc[device] = "wait" /\ tx.log.id = submitted[device]
        BY <2>3, <2>4, <4>1 DEF IInv, OneInFlight
      <4> QED
        BY <2>4, <2>5, <4>2 DEF IInv, OneInFlight
    <3>2. CASE old.time[1] = tx.log.time[1]
      <4>1. old.done = Frames(old.time) /\ tx.log.done = Frames(tx.log.time)
        BY <2>4 DEF IInv, Ids
      <4>2. old.done \cap tx.log.done # {}
        BY <2>4, <3>2, <4>1, SameMonth
      <4>3. ChainProofs!Commit(tx)
        BY <2>1, SameSteps
      <4> QED
        BY <2>3, <2>4, <4>2, <4>3, ChainProofs!CommitIsNewer, ValueAssumption,
           InstantAssumption, BoundsAssumption DEF IInv
    <3> QED
      BY <2>3, <3>1, <3>2
  <2> QED
    BY <2>3, <2>5, <2>6 DEF IInv, Clocked
<1> QED
  BY <1>1, Invariance, PTL DEF Spec, LatestNeverGoesBackInTime
=============================================================================
