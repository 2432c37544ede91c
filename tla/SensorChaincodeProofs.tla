------------------------ MODULE SensorChaincodeProofs -----------------------
(***************************************************************************)
(* Proofs about the smart contract under Fabric's validation, for every    *)
(* set of sensors, instants and values and every number of transactions:   *)
(*   - every variable keeps its type,                                      *)
(*   - a transaction that passes validation writes what a simulation on    *)
(*     the current state would write (the inductive invariant),            *)
(*   - the contract therefore implements the atomic AggregationStore,      *)
(*   - and inherits that counts, sums, minima and maxima are those of the  *)
(*     recorded readings,                                                  *)
(*   - the aggregates and the history of a device id count the same logs,  *)
(*   - the log under a device id never steps back.                         *)
(***************************************************************************)
EXTENDS SensorChaincode, SumTheorems

USE ValueAssumption, MaxProposalsAssumption

-----------------------------------------------------------------------------
(***************************************************************************)
(* Types.                                                                  *)
(***************************************************************************)

\* One reading's frames are time frames of the model.
LEMMA FramesAreTimeFrames ==
    ASSUME NEW time \in Instant
    PROVE  Frames(time) \subseteq TimeFrame
BY DEF TimeFrame

\* Updating an aggregate keeps its type, and counts one value more.
LEMMA UpdatedType ==
    ASSUME NEW aggregation \in Aggregation, NEW value \in Int
    PROVE  /\ Updated(aggregation, value) \in Aggregation
           /\ Updated(aggregation, value).count = aggregation.count + 1
BY DEF Updated, Aggregation

\* The aggregates an empty chain starts with.
LEMMA NoAggregationType == NoAggregation \in Aggregation /\ NoAggregation.count = 0
BY DEF NoAggregation, Aggregation

\* A key of the world state, for a sensor and a frame of the model.
LEMMA KeyOf ==
    ASSUME NEW sensor \in Sensor, NEW frame \in TimeFrame
    PROVE  <<sensor, frame>> \in Key
BY DEF Key

\* What a simulation leaves behind is a well-formed transaction.
LEMMA SimulatedType ==
    ASSUME TypeOK, NEW log \in Log, NEW read \in SUBSET TimeFrame, log.done \subseteq read
    PROVE  Transaction(Simulated(log, read))
<1> DEFINE tx == Simulated(log, read)
<1>1. /\ tx.log = log
      /\ tx.reads = [frame \in read |-> version[<<log.sensor, frame>>]]
      /\ tx.writes = [frame \in log.done |->
                        Updated(worldState[<<log.sensor, frame>>], log.value)]
  BY DEF Simulated, updateAggregation
<1>2. log.sensor \in Sensor /\ log.value \in Int
  BY DEF Log
<1>3. ASSUME NEW frame \in read PROVE tx.reads[frame] \in Nat
  BY <1>1, <1>2, KeyOf DEF TypeOK
<1>4. ASSUME NEW frame \in log.done PROVE tx.writes[frame] \in Aggregation
  <2>1. worldState[<<log.sensor, frame>>] \in Aggregation
    BY <1>2, KeyOf DEF TypeOK
  <2> QED BY <1>1, <1>2, <2>1, UpdatedType
<1>5. DOMAIN tx.reads = read /\ DOMAIN tx.writes = log.done
  BY <1>1
<1> QED BY <1>1, <1>3, <1>4, <1>5 DEF Transaction

\* The log a simulation stores is a log of the model.
LEMMA ProposedLog ==
    ASSUME TypeOK, NEW sensor \in Sensor, NEW value \in Value, NEW time \in Instant,
           NEW done \in SUBSET Frames(time), proposals < MaxProposals
    PROVE  [id |-> proposals + 1, sensor |-> sensor, time |-> time,
            value |-> value, done |-> done] \in Log
<1>1. proposals + 1 \in 1 .. MaxProposals
  BY DEF TypeOK
<1>2. done \subseteq TimeFrame
  BY FramesAreTimeFrames
<1> QED BY <1>1, <1>2 DEF Log

\* The contract starts well typed.
LEMMA TypeInit == Init => TypeOK
<1> SUFFICES ASSUME Init PROVE TypeOK
  OBVIOUS
<1>1. NoAggregation \in Aggregation
  BY DEF NoAggregation, Aggregation
<1> QED BY <1>1, FS_EmptySet DEF Init, TypeOK

\* Every step keeps the types.
LEMMA TypeStep == TypeOK /\ [Next]_vars => TypeOK'
<1> SUFFICES ASSUME TypeOK, [Next]_vars PROVE TypeOK'
  OBVIOUS
<1>1. ASSUME NEW sensor \in Sensor, NEW value \in Value, NEW time \in Instant,
             NEW read \in SUBSET Frames(time), NEW done \in SUBSET read,
             SetSensorState(sensor, value, time, read, done)
      PROVE  TypeOK'
  <2> DEFINE log == [id |-> proposals + 1, sensor |-> sensor, time |-> time,
                     value |-> value, done |-> done]
  <2>1. log \in Log
    BY <1>1, ProposedLog DEF SetSensorState
  <2>2. read \subseteq TimeFrame
    BY FramesAreTimeFrames
  <2>3. Transaction(Simulated(log, read))
    BY <2>1, <2>2, SimulatedType
  <2>4. \A tx \in endorsed' : Transaction(tx)
    BY <1>1, <2>3 DEF SetSensorState, TypeOK
  <2>5. proposals' \in 0 .. MaxProposals /\ faults' \in Nat
    BY <1>1 DEF SetSensorState, TypeOK
  <2> QED BY <1>1, <2>4, <2>5 DEF SetSensorState, TypeOK
<1>2. ASSUME NEW tx \in endorsed, Commit(tx) PROVE TypeOK'
  <2>1. Transaction(tx)
    BY DEF TypeOK
  <2>2. worldState' \in [Key -> Aggregation]
    <3>1. ASSUME NEW key \in Written(tx) PROVE tx.writes[key[2]] \in Aggregation
      BY <2>1 DEF Written, Transaction
    <3> QED BY <1>2, <3>1 DEF Commit, Apply, BumpVersions, TypeOK
  <2>3. version' \in [Key -> Nat]
    BY <1>2 DEF Commit, Apply, BumpVersions, TypeOK
  <2>4. latest' \in [Sensor -> Log \cup {NoLog}]
    BY <1>2, <2>1 DEF Commit, Apply, BumpVersions, TypeOK, Transaction
  <2>5. committed' \subseteq Log /\ IsFiniteSet(committed')
    BY <1>2, <2>1, FS_AddElement DEF Commit, Apply, BumpVersions, TypeOK, Transaction
  <2> QED BY <1>2, <2>2, <2>3, <2>4, <2>5 DEF Commit, Apply, BumpVersions, TypeOK
<1>3. ASSUME NEW tx \in endorsed, Invalidate(tx) PROVE TypeOK'
  <2>1. tx.log.id \in 1 .. MaxProposals
    BY DEF TypeOK, Transaction, Log
  <2> QED BY <1>3, <2>1 DEF Invalidate, TypeOK
<1>4. CASE UNCHANGED vars
  BY <1>4 DEF TypeOK, vars
<1> QED BY <1>1, <1>2, <1>3, <1>4 DEF Next

\* Every variable keeps its type.
THEOREM TypeCorrect == Spec => []TypeOK
BY TypeInit, TypeStep, PTL DEF Spec

-----------------------------------------------------------------------------
(***************************************************************************)
(* The inductive invariant.  FreshTransactionsAreRepeatable needs to know  *)
(* that ids name transactions: a new one is larger than all others.        *)
(***************************************************************************)
IdsAreUsedOnce ==
    /\ \A log \in committed : log.id <= proposals /\ log.done \subseteq Frames(log.time)
    /\ \A tx \in endorsed :
         /\ tx.log.id <= proposals
         /\ tx.log.done \subseteq Frames(tx.log.time)
         /\ \A log \in committed : log.id # tx.log.id
    /\ \A tx, other \in endorsed : tx.log.id = other.log.id => tx = other

LatestIsCommitted ==
    \A sensor \in Sensor :
      latest[sensor] # NoLog => /\ latest[sensor] \in committed
                                /\ latest[sensor].sensor = sensor

IInv == TypeOK /\ IdsAreUsedOnce /\ LatestIsCommitted /\ FreshTransactionsAreRepeatable

\* Simulating a transaction keeps the ids unique.
LEMMA IdsWhenSimulated ==
    ASSUME TypeOK, IdsAreUsedOnce,
           NEW sensor \in Sensor, NEW value \in Value, NEW time \in Instant,
           NEW read \in SUBSET Frames(time), NEW done \in SUBSET read,
           SetSensorState(sensor, value, time, read, done)
    PROVE  IdsAreUsedOnce'
<1> DEFINE log == [id |-> proposals + 1, sensor |-> sensor, time |-> time,
                   value |-> value, done |-> done]
           new == Simulated(log, read)
<1>1. /\ endorsed' = endorsed \cup {new}
      /\ committed' = committed
      /\ proposals' = proposals + 1
      /\ proposals \in Nat
  BY DEF SetSensorState, TypeOK
<1>2. new.log = log /\ log.id = proposals + 1 /\ log.done \subseteq Frames(log.time)
  BY DEF Simulated
<1>3. \A tx \in endorsed : tx.log.id \in Nat
  BY DEF TypeOK, Transaction, Log
<1>4. \A other \in committed : other.id \in Nat
  BY DEF TypeOK, Log
<1>5. \A other \in committed' : other.id <= proposals' /\ other.id # new.log.id
  BY <1>1, <1>2, <1>4 DEF IdsAreUsedOnce
<1>6. \A tx \in endorsed : tx.log.id <= proposals' /\ tx.log.id # new.log.id
  BY <1>1, <1>2, <1>3 DEF IdsAreUsedOnce
<1>7. ASSUME NEW tx \in endorsed'
      PROVE  /\ tx.log.id <= proposals'
             /\ tx.log.done \subseteq Frames(tx.log.time)
             /\ \A other \in committed' : other.id # tx.log.id
  <2>1. CASE tx = new
    BY <1>1, <1>2, <1>5, <2>1
  <2>2. CASE tx \in endorsed
    BY <1>1, <1>6, <2>2 DEF IdsAreUsedOnce
  <2> QED BY <1>1, <2>1, <2>2
<1>8. \A tx, other \in endorsed' : tx.log.id = other.log.id => tx = other
  BY <1>1, <1>6 DEF IdsAreUsedOnce
<1>9. \A other \in committed' : other.done \subseteq Frames(other.time)
  BY <1>1 DEF IdsAreUsedOnce
<1> QED BY <1>5, <1>7, <1>8, <1>9 DEF IdsAreUsedOnce

\* Validating one keeps them unique too.
LEMMA IdsWhenValidated ==
    ASSUME TypeOK, IdsAreUsedOnce, NEW tx \in endorsed, Commit(tx) \/ Invalidate(tx)
    PROVE  IdsAreUsedOnce'
<1>1. /\ endorsed' = endorsed \ {tx}
      /\ proposals' = proposals
      /\ committed' \subseteq committed \cup {tx.log}
  BY DEF Commit, Apply, BumpVersions, Invalidate
<1>2. \A other \in endorsed' : other.log.id # tx.log.id
  BY <1>1 DEF IdsAreUsedOnce
<1> QED BY <1>1, <1>2 DEF IdsAreUsedOnce

\* The frames a new transaction read are up to date when it is simulated, and
\* simulating it changes nothing the other transactions depend on.
LEMMA RepeatableWhenSimulated ==
    ASSUME TypeOK, IdsAreUsedOnce, FreshTransactionsAreRepeatable,
           NEW sensor \in Sensor, NEW value \in Value, NEW time \in Instant,
           NEW read \in SUBSET Frames(time), NEW done \in SUBSET read,
           SetSensorState(sensor, value, time, read, done)
    PROVE  FreshTransactionsAreRepeatable'
<1> DEFINE log == [id |-> proposals + 1, sensor |-> sensor, time |-> time,
                   value |-> value, done |-> done]
           new == Simulated(log, read)
<1>1. /\ endorsed' = endorsed \cup {new}
      /\ UNCHANGED <<worldState, version, committed>>
  BY DEF SetSensorState
<1>2. /\ new.log = log
      /\ new.reads = [frame \in read |-> version[<<sensor, frame>>]]
      /\ new.writes = [frame \in done |-> Updated(worldState[<<sensor, frame>>], value)]
      /\ log.sensor = sensor /\ log.value = value /\ log.done = done
      /\ log.id = proposals + 1
  BY DEF Simulated, updateAggregation
<1>3. read \subseteq TimeFrame
  BY FramesAreTimeFrames
<1>4. ASSUME NEW frame \in read
      PROVE  /\ new.reads[frame] <= version[<<sensor, frame>>]
             /\ UpToDate(new, frame)
  <2>1. version[<<sensor, frame>>] \in Nat
    BY <1>3, KeyOf DEF TypeOK
  <2>2. new.reads[frame] = version[<<sensor, frame>>]
    BY <1>2
  <2>3. frame \in done => new.writes[frame] = Updated(worldState[<<sensor, frame>>], value)
    BY <1>2
  <2>4. \A other \in committed : other.id < proposals + 1
    BY DEF IdsAreUsedOnce, TypeOK, Log
  <2>5. \A other \in Store!Contributors(<<sensor, frame>>) : other.id < log.id
    BY <1>2, <2>4 DEF Store!Contributors
  <2> QED BY <1>2, <2>1, <2>2, <2>3, <2>5 DEF UpToDate
<1>5. ASSUME NEW tx \in endorsed, NEW frame \in DOMAIN tx.reads
      PROVE  /\ tx.reads[frame] <= version'[<<tx.log.sensor, frame>>]
             /\ UpToDate(tx, frame)'
  BY <1>1 DEF FreshTransactionsAreRepeatable, UpToDate, Store!Contributors
<1>6. ASSUME NEW frame \in DOMAIN new.reads
      PROVE  /\ new.reads[frame] <= version'[<<new.log.sensor, frame>>]
             /\ frame \in read
             /\ UpToDate(new, frame)
  BY <1>1, <1>2, <1>4
<1>7. ASSUME NEW tx \in endorsed', NEW frame \in DOMAIN tx.reads
      PROVE  /\ tx.reads[frame] <= version'[<<tx.log.sensor, frame>>]
             /\ UpToDate(tx, frame)'
  <2>1. CASE tx \in endorsed
    BY <1>5, <2>1
  <2>2. CASE tx = new
    <3>1. UpToDate(tx, frame) /\ tx.reads[frame] <= version'[<<tx.log.sensor, frame>>]
      BY <1>6, <2>2
    <3> QED BY <1>1, <3>1 DEF UpToDate, Store!Contributors
  <2> QED BY <1>1, <2>1, <2>2
<1> QED BY <1>7 DEF FreshTransactionsAreRepeatable

\* Committing a transaction bumps the version of every key it writes, so that
\* another one that read the key is no longer current; keys it does not write
\* keep their version, their aggregate and their contributors.
LEMMA RepeatableWhenCommitted ==
    ASSUME TypeOK, IdsAreUsedOnce, FreshTransactionsAreRepeatable,
           NEW tx \in endorsed, Commit(tx)
    PROVE  FreshTransactionsAreRepeatable'
<1> SUFFICES ASSUME NEW other \in endorsed', NEW frame \in DOMAIN other.reads
             PROVE  /\ other.reads[frame] <= version'[<<other.log.sensor, frame>>]
                    /\ UpToDate(other, frame)'
  BY DEF FreshTransactionsAreRepeatable
<1> DEFINE key == <<other.log.sensor, frame>>
<1>1. other \in endorsed /\ other # tx
  BY DEF Commit, Apply, BumpVersions
<1>2. Transaction(other) /\ Transaction(tx)
  BY <1>1 DEF TypeOK
<1>3. key \in Key /\ other.reads[frame] \in Nat /\ version[key] \in Nat
  BY <1>2, KeyOf DEF Transaction, TypeOK, Log
<1>4. other.reads[frame] <= version[key] /\ UpToDate(other, frame)
  BY <1>1 DEF FreshTransactionsAreRepeatable
<1>5. CASE key \in Written(tx)
  <2>1. version'[key] = version[key] + 1
    BY <1>3, <1>5 DEF Commit, Apply, BumpVersions
  <2> QED BY <1>3, <1>4, <2>1 DEF UpToDate
<1>6. CASE key \notin Written(tx)
  <2>1. version'[key] = version[key] /\ worldState'[key] = worldState[key]
    BY <1>3, <1>6 DEF Commit, Apply, BumpVersions
  <2>2. ~(tx.log.sensor = other.log.sensor /\ frame \in tx.log.done)
    BY <1>6 DEF Written
  <2>3. Store!Contributors(key)' = Store!Contributors(key)
    BY <2>2 DEF Commit, Apply, BumpVersions, Store!Contributors
  <2> QED BY <1>4, <2>1, <2>3 DEF UpToDate
<1> QED BY <1>5, <1>6

\* Rejecting a transaction changes nothing the others depend on.
LEMMA RepeatableWhenInvalidated ==
    ASSUME FreshTransactionsAreRepeatable, NEW tx \in endorsed, Invalidate(tx)
    PROVE  FreshTransactionsAreRepeatable'
<1>1. endorsed' \subseteq endorsed /\ UNCHANGED <<worldState, version, committed>>
  BY DEF Invalidate
<1>2. ASSUME NEW other \in endorsed', NEW frame \in DOMAIN other.reads
      PROVE  UpToDate(other, frame)'
  BY <1>1 DEF FreshTransactionsAreRepeatable, UpToDate, Store!Contributors
<1> QED BY <1>1, <1>2 DEF FreshTransactionsAreRepeatable

\* The log of a device id is a committed log of that device.
LEMMA LatestStep ==
    ASSUME TypeOK, LatestIsCommitted, [Next]_vars
    PROVE  LatestIsCommitted'
<1>1. ASSUME NEW sensor \in Sensor, NEW value \in Value, NEW time \in Instant,
             NEW read \in SUBSET Frames(time), NEW done \in SUBSET read,
             SetSensorState(sensor, value, time, read, done)
      PROVE  LatestIsCommitted'
  BY <1>1 DEF SetSensorState, LatestIsCommitted
<1>2. ASSUME NEW tx \in endorsed, Commit(tx) PROVE LatestIsCommitted'
  <2>1. latest \in [Sensor -> Log \cup {NoLog}]
    BY DEF TypeOK
  <2> QED BY <1>2, <2>1 DEF Commit, Apply, BumpVersions, LatestIsCommitted
<1>3. ASSUME NEW tx \in endorsed, Invalidate(tx) PROVE LatestIsCommitted'
  BY <1>3 DEF Invalidate, LatestIsCommitted
<1>4. CASE UNCHANGED vars
  BY <1>4 DEF vars, LatestIsCommitted
<1> QED BY <1>1, <1>2, <1>3, <1>4 DEF Next

\* The invariant holds initially.
LEMMA IInvInit == Init => IInv
<1> SUFFICES ASSUME Init PROVE IInv
  OBVIOUS
<1>1. IdsAreUsedOnce
  BY DEF Init, IdsAreUsedOnce
<1>2. LatestIsCommitted
  BY DEF Init, LatestIsCommitted
<1>3. FreshTransactionsAreRepeatable
  BY DEF Init, FreshTransactionsAreRepeatable
<1> QED BY <1>1, <1>2, <1>3, TypeInit DEF IInv

\* Every step preserves it.
LEMMA IInvStep == IInv /\ [Next]_vars => IInv'
<1> SUFFICES ASSUME IInv, [Next]_vars PROVE IInv'
  OBVIOUS
<1> USE DEF IInv
<1>1. TypeOK' /\ LatestIsCommitted'
  BY TypeStep, LatestStep
<1>2. ASSUME NEW sensor \in Sensor, NEW value \in Value, NEW time \in Instant,
             NEW read \in SUBSET Frames(time), NEW done \in SUBSET read,
             SetSensorState(sensor, value, time, read, done)
      PROVE  IdsAreUsedOnce' /\ FreshTransactionsAreRepeatable'
  BY <1>2, IdsWhenSimulated, RepeatableWhenSimulated
<1>3. ASSUME NEW tx \in endorsed, Commit(tx)
      PROVE  IdsAreUsedOnce' /\ FreshTransactionsAreRepeatable'
  BY <1>3, IdsWhenValidated, RepeatableWhenCommitted
<1>4. ASSUME NEW tx \in endorsed, Invalidate(tx)
      PROVE  IdsAreUsedOnce' /\ FreshTransactionsAreRepeatable'
  BY <1>4, IdsWhenValidated, RepeatableWhenInvalidated
<1>5. ASSUME UNCHANGED vars
      PROVE  IdsAreUsedOnce' /\ FreshTransactionsAreRepeatable'
  <2>1. IdsAreUsedOnce'
    BY <1>5 DEF IdsAreUsedOnce, vars
  <2>2. FreshTransactionsAreRepeatable'
    BY <1>5 DEF FreshTransactionsAreRepeatable, UpToDate, Store!Contributors, vars
  <2> QED BY <2>1, <2>2
<1> QED BY <1>1, <1>2, <1>3, <1>4, <1>5 DEF Next

\* The inductive invariant holds.
THEOREM Invariance == Spec => []IInv
BY IInvInit, IInvStep, PTL DEF Spec

\* A transaction that passes validation writes what it would write if it were
\* simulated again on the current state.
THEOREM FreshTransactionsCorrect == Spec => []FreshTransactionsAreRepeatable
<1>1. IInv => FreshTransactionsAreRepeatable
  BY DEF IInv
<1> QED BY <1>1, Invariance, PTL

-----------------------------------------------------------------------------
(***************************************************************************)
(* The contract implements the atomic store.                               *)
(***************************************************************************)

\* The store's vocabulary, instantiated, is the contract's own.
LEMMA SameFrames ==
    /\ \A time : Store!Frames(time) = Frames(time)
    /\ Store!TimeFrame = TimeFrame
    /\ Store!Key = Key
<1>1. ASSUME NEW time PROVE Store!Frames(time) = Frames(time)
  BY DEF Store!Frames, Frames, Store!Granularity, Granularity
<1>2. Store!TimeFrame = TimeFrame
  BY <1>1 DEF Store!TimeFrame, TimeFrame
<1> QED BY <1>1, <1>2 DEF Store!Key, Key

LEMMA SameAggregates ==
    /\ Store!NoAggregation = NoAggregation
    /\ \A aggregation, value :
         Store!Updated(aggregation, value) = Updated(aggregation, value)
BY DEF Store!NoAggregation, NoAggregation, Store!Updated, Updated

\* A commit is one Record step of the store.
LEMMA CommitRecords ==
    ASSUME IInv, NEW tx \in endorsed, Commit(tx)
    PROVE  Store!Next
<1>1. Transaction(tx) /\ tx.log \in Log
  BY DEF IInv, TypeOK, Transaction
<1>2. \A log \in committed : log.id # tx.log.id
  BY DEF IInv, IdsAreUsedOnce
<1>3. Store!KeysOf(tx.log) = Written(tx) /\ Store!Key = Key
  BY SameFrames DEF Store!KeysOf, Written
<1>4. ASSUME NEW key \in Written(tx)
      PROVE  tx.writes[key[2]] = Updated(worldState[key], tx.log.value)
  <2>1. PICK frame \in tx.log.done : key = <<tx.log.sensor, frame>>
    BY DEF Written
  <2>2. frame \in DOMAIN tx.reads
    BY <1>1 DEF Transaction
  <2>3. tx.reads[frame] = version[key]
    BY <2>1, <2>2 DEF Commit, Apply, BumpVersions, Fresh
  <2> QED BY <2>1, <2>2, <2>3 DEF IInv, FreshTransactionsAreRepeatable, UpToDate
<1>5. worldState' = [key \in Key |-> IF key \in Written(tx)
                                       THEN Updated(worldState[key], tx.log.value)
                                       ELSE worldState[key]]
  BY <1>4 DEF Commit, Apply, BumpVersions
<1>6. Store!Record(tx.log)
  BY <1>2, <1>3, <1>5, SameAggregates DEF Store!Record, Commit, Apply, BumpVersions
<1>7. /\ tx.log = [id |-> tx.log.id, sensor |-> tx.log.sensor, time |-> tx.log.time,
                   value |-> tx.log.value, done |-> tx.log.done]
      /\ tx.log.id \in 1 .. MaxProposals
      /\ tx.log.sensor \in Sensor
      /\ tx.log.time \in Instant
      /\ tx.log.value \in Value
      /\ tx.log.done \in SUBSET Frames(tx.log.time)
  BY <1>1 DEF Log, IInv, IdsAreUsedOnce
<1>8. tx.log.done \in SUBSET Store!Frames(tx.log.time)
  BY <1>7, SameFrames
<1>9. Store!Record([id |-> tx.log.id, sensor |-> tx.log.sensor, time |-> tx.log.time,
                    value |-> tx.log.value, done |-> tx.log.done])
  BY <1>6, <1>7
<1> QED BY <1>7, <1>8, <1>9 DEF Store!Next

\* Every step of the contract is a step of the store or leaves it alone.
LEMMA StepSimulation == IInv /\ [Next]_vars => [Store!Next]_(Store!vars)
<1> SUFFICES ASSUME IInv, [Next]_vars PROVE [Store!Next]_(Store!vars)
  OBVIOUS
<1>1. ASSUME NEW sensor \in Sensor, NEW value \in Value, NEW time \in Instant,
             NEW read \in SUBSET Frames(time), NEW done \in SUBSET read,
             SetSensorState(sensor, value, time, read, done)
      PROVE  UNCHANGED Store!vars
  BY <1>1 DEF SetSensorState, Store!vars
<1>2. ASSUME NEW tx \in endorsed, Commit(tx) PROVE Store!Next
  BY <1>2, CommitRecords
<1>3. ASSUME NEW tx \in endorsed, Invalidate(tx) PROVE UNCHANGED Store!vars
  BY <1>3 DEF Invalidate, Store!vars
<1>4. ASSUME UNCHANGED vars PROVE UNCHANGED Store!vars
  BY <1>4 DEF vars, Store!vars
<1> QED BY <1>1, <1>2, <1>3, <1>4 DEF Next

\* The contract under Fabric's validation implements the store in which a
\* reading updates its four aggregates in one indivisible step.
THEOREM Refinement == Spec => ImplementsStore
<1>1. Init => Store!Init
  BY SameFrames, SameAggregates DEF Init, Store!Init
<1> QED BY <1>1, StepSimulation, Invariance, PTL DEF Spec, ImplementsStore, Store!Spec

-----------------------------------------------------------------------------
(***************************************************************************)
(* What the store promises, for whoever implements it.                     *)
(***************************************************************************)

\* The store's invariants, in the operators of the contract.
StoreTypes ==
    /\ worldState \in [Key -> Aggregation]
    /\ committed \subseteq Store!Log
    /\ IsFiniteSet(committed)

CountsKept ==
    \A key \in Key : worldState[key].count = Cardinality(Store!Contributors(key))

ExtremesKept ==
    \A key \in Key :
      Store!Contributors(key) # {} =>
        /\ IsLeastOf(worldState[key].min, Store!Contributors(key))
        /\ IsGreatestOf(worldState[key].max, Store!Contributors(key))

SumsKept == \A key \in Key : worldState[key].sum = TotalOf(Store!Contributors(key))

\* They are the store's.
LEMMA SamePromises ==
    /\ Store!TypeOK <=> StoreTypes
    /\ Store!CountsRecords <=> CountsKept
    /\ Store!ExtremesOfRecords <=> ExtremesKept
    /\ Store!SumsRecords <=> SumsKept
<1>1. Store!TypeOK <=> StoreTypes
  BY SameFrames DEF Store!TypeOK, StoreTypes, Store!Aggregation, Aggregation, Store!IsFiniteSet,
                    IsFiniteSet
<1>2. Store!CountsRecords <=> CountsKept
  BY SameFrames DEF Store!CountsRecords, CountsKept, Store!Cardinality, Cardinality
<1>3. Store!ExtremesOfRecords <=> ExtremesKept
  BY SameFrames DEF Store!ExtremesOfRecords, ExtremesKept, Store!IsLeastOf, IsLeastOf,
                    Store!IsGreatestOf, IsGreatestOf
<1>4. Store!SumsRecords <=> SumsKept
  BY SameFrames DEF Store!SumsRecords, SumsKept, Store!TotalOf, TotalOf, Store!SumFunction,
                    SumFunction, Store!SumFunctionOnSet, SumFunctionOnSet,
                    Store!FoldFunctionOnSet, FoldFunctionOnSet, Store!MapThenFoldSet,
                    MapThenFoldSet
<1> QED BY <1>1, <1>2, <1>3, <1>4

\* What recording a reading does, in the operators of the contract.
LEMMA RecordIs ==
    ASSUME NEW log, Store!Record(log)
    PROVE  /\ log \notin committed /\ committed' = committed \cup {log}
           /\ worldState' = [key \in Key |->
                               IF key \in Store!KeysOf(log)
                                 THEN Updated(worldState[key], log.value)
                                 ELSE worldState[key]]
BY SameFrames, SameAggregates DEF Store!Record

\* The readings the store records are readings of the model.
LEMMA NextRecordsALog ==
    ASSUME Store!Next
    PROVE  \E log \in Store!Log : log.value \in Int /\ Store!Record(log)
<1>1. PICK id \in 1 .. MaxProposals, sensor \in Sensor, time \in Instant, value \in Value :
        \E done \in SUBSET Store!Frames(time) :
          Store!Record([id |-> id, sensor |-> sensor, time |-> time, value |-> value,
                        done |-> done])
  BY DEF Store!Next
<1>2. PICK done \in SUBSET Store!Frames(time) :
        Store!Record([id |-> id, sensor |-> sensor, time |-> time, value |-> value,
                      done |-> done])
  BY <1>1
<1>3. done \subseteq Store!TimeFrame
  BY FramesAreTimeFrames, SameFrames
<1>4. [id |-> id, sensor |-> sensor, time |-> time, value |-> value,
       done |-> done] \in Store!Log
  BY <1>3 DEF Store!Log
<1> QED BY <1>2, <1>4

\* A new reading joins the readings of the keys it contributes to, and of no
\* other key.
LEMMA ContributorsStep ==
    ASSUME NEW log \in Store!Log, Store!Record(log), NEW key \in Key
    PROVE  /\ key \in Store!KeysOf(log) =>
                Store!Contributors(key)' = Store!Contributors(key) \cup {log}
           /\ key \notin Store!KeysOf(log) => Store!Contributors(key)' = Store!Contributors(key)
           /\ log \notin Store!Contributors(key)
<1>1. committed' = committed \cup {log} /\ log \notin committed
  BY RecordIs
<1>2. key = <<key[1], key[2]>>
  BY DEF Key
<1>3. key \in Store!KeysOf(log) <=> log.sensor = key[1] /\ key[2] \in log.done
  BY <1>2 DEF Store!KeysOf
<1> QED BY <1>1, <1>3 DEF Store!Contributors

-----------------------------------------------------------------------------
\* Every aggregate keeps its type, and the readings stay a finite set.
THEOREM StoreTypeCorrect == Store!Spec => []Store!TypeOK
<1>1. Store!Init => StoreTypes
  BY NoAggregationType, FS_EmptySet, SameFrames, SameAggregates DEF Store!Init, StoreTypes
<1>2. StoreTypes /\ [Store!Next]_(Store!vars) => StoreTypes'
  <2> SUFFICES ASSUME StoreTypes, [Store!Next]_(Store!vars)
               PROVE  StoreTypes'
    OBVIOUS
  <2>1. CASE Store!Next
    <3>1. PICK log \in Store!Log : Store!Record(log)
      BY <2>1, NextRecordsALog
    <3>2. log.value \in Int
      BY DEF Store!Log
    <3>3. worldState' \in [Key -> Aggregation]
      BY <3>1, <3>2, UpdatedType, RecordIs DEF StoreTypes
    <3>4. committed' \subseteq Store!Log /\ IsFiniteSet(committed')
      BY <3>1, FS_AddElement, RecordIs DEF StoreTypes
    <3> QED BY <3>3, <3>4 DEF StoreTypes
  <2>2. CASE UNCHANGED Store!vars
    BY <2>2 DEF StoreTypes, Store!vars
  <2> QED BY <2>1, <2>2
<1> QED BY <1>1, <1>2, SamePromises, PTL DEF Store!Spec

-----------------------------------------------------------------------------
\* The readings of a key are finitely many.
LEMMA ContributorsFinite ==
    ASSUME StoreTypes, NEW key \in Key
    PROVE  IsFiniteSet(Store!Contributors(key))
<1>1. Store!Contributors(key) \subseteq committed
  BY DEF Store!Contributors
<1> QED BY <1>1, FS_Subset DEF StoreTypes

\* Recording one reading adds one to the counts of its four keys.
LEMMA CountsStep ==
    ASSUME StoreTypes, CountsKept, NEW log \in Store!Log, Store!Record(log)
    PROVE  CountsKept'
<1> SUFFICES ASSUME NEW key \in Key
             PROVE  worldState'[key].count = Cardinality(Store!Contributors(key)')
  BY DEF CountsKept
<1>1. worldState[key].count = Cardinality(Store!Contributors(key))
  BY DEF CountsKept
<1>2. CASE key \in Store!KeysOf(log)
  <2>1. worldState'[key] = Updated(worldState[key], log.value)
    BY <1>2, RecordIs
  <2>2. worldState'[key].count = worldState[key].count + 1
    BY <2>1, UpdatedType DEF StoreTypes, Store!Log
  <2>3. Cardinality(Store!Contributors(key)') = Cardinality(Store!Contributors(key)) + 1
    BY <1>2, ContributorsStep, ContributorsFinite, FS_AddElement
  <2> QED BY <1>1, <2>2, <2>3
<1>3. CASE key \notin Store!KeysOf(log)
  BY <1>1, <1>3, ContributorsStep, RecordIs
<1> QED BY <1>2, <1>3

\* The stored count is the number of readings of the key: the count that
\* updateAggregation increments never drifts from the history.
THEOREM StoreCountsCorrect == Store!Spec => []Store!CountsRecords
<1>1. Store!Init => CountsKept
  BY NoAggregationType, FS_EmptySet, SameFrames, SameAggregates
     DEF Store!Init, CountsKept, Store!Contributors
<1>2. StoreTypes /\ CountsKept /\ [Store!Next]_(Store!vars) => CountsKept'
  <2>1. ASSUME StoreTypes, CountsKept, Store!Next PROVE CountsKept'
    BY <2>1, NextRecordsALog, CountsStep
  <2>2. ASSUME CountsKept, UNCHANGED Store!vars PROVE CountsKept'
    BY <2>2 DEF CountsKept, Store!Contributors, Store!vars
  <2> QED BY <2>1, <2>2
<1> QED BY <1>1, <1>2, StoreTypeCorrect, SamePromises, PTL DEF Store!Spec

-----------------------------------------------------------------------------
\* One more value keeps the least and the greatest value those of the logs.
LEMMA ExtremesOfOneMore ==
    ASSUME NEW logs, NEW log, NEW aggregation \in Aggregation,
           log.value \in Int,
           \A other \in logs : other.value \in Int,
           aggregation.count = 0 <=> logs = {},
           logs # {} => /\ IsLeastOf(aggregation.min, logs)
                        /\ IsGreatestOf(aggregation.max, logs)
    PROVE  /\ IsLeastOf(Updated(aggregation, log.value).min, logs \cup {log})
           /\ IsGreatestOf(Updated(aggregation, log.value).max, logs \cup {log})
<1> DEFINE updated == Updated(aggregation, log.value)
<1>1. CASE logs = {}
  BY <1>1 DEF Updated, IsLeastOf, IsGreatestOf
<1>2. CASE logs # {}
  <2>1. aggregation.min \in Int /\ aggregation.max \in Int
    BY DEF Aggregation
  <2>2. /\ updated.max = IF aggregation.max < log.value THEN log.value ELSE aggregation.max
        /\ updated.min = IF aggregation.min > log.value THEN log.value ELSE aggregation.min
    BY <1>2 DEF Updated
  <2>3. IsLeastOf(updated.min, logs \cup {log})
    BY <1>2, <2>1, <2>2 DEF IsLeastOf
  <2>4. IsGreatestOf(updated.max, logs \cup {log})
    BY <1>2, <2>1, <2>2 DEF IsGreatestOf
  <2> QED BY <2>3, <2>4
<1> QED BY <1>1, <1>2

\* A key has an aggregate if and only if it has a reading.
LEMMA CountZero ==
    ASSUME StoreTypes, CountsKept, NEW key \in Key
    PROVE  worldState[key].count = 0 <=> Store!Contributors(key) = {}
BY ContributorsFinite, FS_EmptySet DEF CountsKept

\* Recording a reading keeps minimum and maximum exact.
LEMMA ExtremesStep ==
    ASSUME StoreTypes, CountsKept, ExtremesKept, NEW log \in Store!Log, Store!Record(log)
    PROVE  ExtremesKept'
<1> SUFFICES ASSUME NEW key \in Key, Store!Contributors(key)' # {}
             PROVE  /\ IsLeastOf(worldState'[key].min, Store!Contributors(key)')
                    /\ IsGreatestOf(worldState'[key].max, Store!Contributors(key)')
  BY DEF ExtremesKept
<1>1. CASE key \in Store!KeysOf(log)
  <2>1. worldState'[key] = Updated(worldState[key], log.value)
    BY <1>1, RecordIs
  <2>2. Store!Contributors(key)' = Store!Contributors(key) \cup {log}
    BY <1>1, ContributorsStep
  <2>3. log.value \in Int /\ \A other \in Store!Contributors(key) : other.value \in Int
    BY DEF Store!Contributors, StoreTypes, Store!Log
  <2>4. worldState[key] \in Aggregation
    BY DEF StoreTypes
  <2>5. Store!Contributors(key) # {} => /\ IsLeastOf(worldState[key].min, Store!Contributors(key))
                                  /\ IsGreatestOf(worldState[key].max, Store!Contributors(key))
    BY DEF ExtremesKept
  <2>6. worldState[key].count = 0 <=> Store!Contributors(key) = {}
    BY CountZero
  <2>7. /\ IsLeastOf(Updated(worldState[key], log.value).min, Store!Contributors(key) \cup {log})
        /\ IsGreatestOf(Updated(worldState[key], log.value).max, Store!Contributors(key) \cup {log})
    BY <2>3, <2>4, <2>5, <2>6, ExtremesOfOneMore
  <2> QED BY <2>1, <2>2, <2>7
<1>2. CASE key \notin Store!KeysOf(log)
  <2>1. worldState'[key] = worldState[key]
    BY <1>2, RecordIs
  <2>2. Store!Contributors(key)' = Store!Contributors(key)
    BY <1>2, ContributorsStep
  <2> QED BY <2>1, <2>2 DEF ExtremesKept
<1> QED BY <1>1, <1>2

\* The stored minimum and maximum are those of the readings of the key, for
\* values of any sign and in any order of arrival.
THEOREM StoreExtremesCorrect == Store!Spec => []Store!ExtremesOfRecords
<1>1. Store!Init => ExtremesKept
  BY DEF Store!Init, ExtremesKept, Store!Contributors
<1>2. StoreTypes /\ CountsKept /\ ExtremesKept /\ [Store!Next]_(Store!vars) => ExtremesKept'
  <2>1. ASSUME StoreTypes, CountsKept, ExtremesKept, Store!Next PROVE ExtremesKept'
    BY <2>1, NextRecordsALog, ExtremesStep
  <2>2. ASSUME ExtremesKept, UNCHANGED Store!vars PROVE ExtremesKept'
    BY <2>2 DEF ExtremesKept, Store!Contributors, Store!vars
  <2> QED BY <2>1, <2>2
<1> QED BY <1>1, <1>2, StoreTypeCorrect, StoreCountsCorrect, SamePromises, PTL DEF Store!Spec

-----------------------------------------------------------------------------
\* The total of one more reading.
LEMMA TotalOfOneMore ==
    ASSUME NEW logs, IsFiniteSet(logs), NEW log, log \notin logs,
           \A other \in logs \cup {log} : other.value \in Int
    PROVE  TotalOf(logs \cup {log}) = TotalOf(logs) + log.value
<1> DEFINE all == logs \cup {log}
           values == [other \in all |-> other.value]
<1>1. /\ \A other \in all : values[other] \in Int /\ values[other] = other.value
      /\ values[log] = log.value
      /\ \A other \in logs : values[other] = [x \in logs |-> x.value][other]
  OBVIOUS
<1>2. TotalOf(all) = SumFunctionOnSet(values, all)
  BY DEF TotalOf, SumFunction
<1>3. TotalOf(logs) = SumFunctionOnSet([x \in logs |-> x.value], logs)
  BY DEF TotalOf, SumFunction
<1> HIDE DEF values
<1>4. /\ SumFunctionOnSet(values, logs) = SumFunctionOnSet([x \in logs |-> x.value], logs)
      /\ SumFunctionOnSet(values, logs) \in Int
  BY <1>1, SumOfSame
<1>5. SumFunctionOnSet(values, all) = values[log] + SumFunctionOnSet(values, logs)
  BY <1>1, SumWith
<1> QED BY <1>1, <1>2, <1>3, <1>4, <1>5

\* Recording a reading adds its value to the sums of its four keys.
LEMMA SumsStep ==
    ASSUME StoreTypes, CountsKept, SumsKept, NEW log \in Store!Log, Store!Record(log)
    PROVE  SumsKept'
<1> SUFFICES ASSUME NEW key \in Key
             PROVE  worldState'[key].sum = TotalOf(Store!Contributors(key)')
  BY DEF SumsKept, TotalOf
<1>1. worldState[key].sum = TotalOf(Store!Contributors(key))
  BY DEF SumsKept
<1>2. CASE key \in Store!KeysOf(log)
  <2>1. worldState'[key] = Updated(worldState[key], log.value)
    BY <1>2, RecordIs
  <2>2. log.value \in Int /\ \A other \in Store!Contributors(key) : other.value \in Int
    BY DEF Store!Contributors, StoreTypes, Store!Log
  <2>3. worldState[key] \in Aggregation
    BY DEF StoreTypes
  <2>4. /\ Store!Contributors(key)' = Store!Contributors(key) \cup {log}
        /\ log \notin Store!Contributors(key)
        /\ IsFiniteSet(Store!Contributors(key))
    BY <1>2, ContributorsStep, ContributorsFinite
  <2>5. TotalOf(Store!Contributors(key)') = TotalOf(Store!Contributors(key)) + log.value
    BY <2>2, <2>4, TotalOfOneMore
  <2>6. CASE worldState[key].count = 0
    <3>1. Store!Contributors(key) = {}
      BY <2>6, CountZero
    <3>2. TotalOf(Store!Contributors(key)) = 0
      BY <3>1, SumOfNone DEF TotalOf, SumFunction
    <3> QED BY <2>1, <2>2, <2>5, <2>6, <3>2 DEF Updated
  <2>7. CASE worldState[key].count # 0
    BY <1>1, <2>1, <2>5, <2>7 DEF Updated
  <2> QED BY <2>6, <2>7
<1>3. CASE key \notin Store!KeysOf(log)
  BY <1>1, <1>3, ContributorsStep, RecordIs
<1> QED BY <1>2, <1>3

\* The stored sum is the sum of the values of the readings of the key, however
\* many there are.
THEOREM StoreSumsCorrect == Store!Spec => []Store!SumsRecords
<1>1. Store!Init => SumsKept
  <2>1. TotalOf({}) = 0
    BY SumOfNone DEF TotalOf, SumFunction
  <2>2. Store!Init => \A key \in Key : Store!Contributors(key) = {} /\ worldState[key].sum = 0
    BY SameFrames, SameAggregates, NoAggregationType
       DEF Store!Init, Store!Contributors, NoAggregation
  <2> QED BY <2>1, <2>2 DEF SumsKept
<1>2. StoreTypes /\ CountsKept /\ SumsKept /\ [Store!Next]_(Store!vars) => SumsKept'
  <2>1. ASSUME StoreTypes, CountsKept, SumsKept, Store!Next PROVE SumsKept'
    BY <2>1, NextRecordsALog, SumsStep
  <2>2. ASSUME SumsKept, UNCHANGED Store!vars PROVE SumsKept'
    <3>1. \A key \in Key : Store!Contributors(key)' = Store!Contributors(key)
      BY <2>2 DEF Store!Contributors, Store!vars
    <3> QED BY <2>2, <3>1 DEF SumsKept, TotalOf, Store!vars
  <2> QED BY <2>1, <2>2
<1> QED BY <1>1, <1>2, StoreTypeCorrect, StoreCountsCorrect, SamePromises, PTL DEF Store!Spec

-----------------------------------------------------------------------------
(***************************************************************************)
(* What the contract inherits from the store.                              *)
(***************************************************************************)

\* No aggregation update is lost and none is counted twice, however many
\* transactions overlap.
THEOREM CountsCorrect == Spec => []CountsCommittedLogs
BY Refinement, StoreCountsCorrect, PTL DEF ImplementsStore, CountsCommittedLogs

\* The stored minimum and maximum are those of the committed logs.
THEOREM ExtremesCorrect == Spec => []ExtremesOfCommittedLogs
BY Refinement, StoreExtremesCorrect, PTL
   DEF ImplementsStore, ExtremesOfCommittedLogs

\* The stored sum is the sum over the committed logs.
THEOREM SumsCorrect == Spec => []SumsCommittedLogs
BY Refinement, StoreSumsCorrect, PTL DEF ImplementsStore, SumsCommittedLogs

-----------------------------------------------------------------------------
(***************************************************************************)
(* The history of a device id and its aggregates.                          *)
(***************************************************************************)

\* The frame of a log with a given number of components.
FrameOf(log, granularity) == SubSeq(log.time, 1, granularity)

\* A committed log is in the aggregate of one frame of each granularity, if in any.
LEMMA OneFrame ==
    ASSUME IInv, NEW log \in committed, NEW granularity \in Granularity,
           NEW frame \in log.done, Len(frame) = granularity
    PROVE  frame = FrameOf(log, granularity)
<1>1. log.time \in Instant /\ frame \in Frames(log.time)
  BY DEF IInv, TypeOK, IdsAreUsedOnce, Log
<1>2. log.time \in Seq(Int) /\ Len(log.time) = 5
  BY <1>1, InstantAssumption
<1>3. PICK n \in Granularity : frame = SubSeq(log.time, 1, n)
  BY <1>1 DEF Frames
<1>4. Len(SubSeq(log.time, 1, n)) = n
  BY <1>2 DEF Granularity
<1> QED BY <1>3, <1>4 DEF FrameOf

\* Counting the logs of a sensor frame by frame and adding the skipped ones
\* counts each of them once.
LEMMA HistoryByFrames ==
    ASSUME IInv, Store!CountsRecords, NEW sensor \in Sensor, NEW granularity \in Granularity
    PROVE  GetHistoryForKeyCount(sensor)
             = SumFunction([frame \in Stored(sensor, granularity) |->
                              GetAggregation(sensor, frame).count])
               + Cardinality(Skipped(sensor, granularity))
<1> DEFINE history == GetHistoryForKey(sensor)
           skipped == Skipped(sensor, granularity)
           counted == history \ skipped
           frameOf == [log \in counted |-> FrameOf(log, granularity)]
           stored == Stored(sensor, granularity)
           sizes == [frame \in stored |-> Cardinality({log \in counted : frameOf[log] = frame})]
           counts == [frame \in stored |-> GetAggregation(sensor, frame).count]
<1>1. IsFiniteSet(history) /\ skipped \in SUBSET history
  <2>1. history \subseteq committed
    BY DEF GetHistoryForKey
  <2> QED BY <2>1, FS_Subset DEF IInv, TypeOK, Skipped
<1>2. /\ IsFiniteSet(counted)
      /\ Cardinality(history) = Cardinality(skipped) + Cardinality(counted)
      /\ Cardinality(skipped) \in Nat /\ Cardinality(counted) \in Nat
  <2> HIDE DEF history, skipped
  <2> QED BY <1>1, CardinalityOfParts
<1>3. ASSUME NEW log \in counted
      PROVE  /\ log \in committed /\ log.sensor = sensor
             /\ FrameOf(log, granularity) \in log.done
             /\ FrameOf(log, granularity) \in TimeFrame
             /\ Len(FrameOf(log, granularity)) = granularity
  <2>1. log \in committed /\ log.sensor = sensor /\ FrameOf(log, granularity) \in log.done
    BY DEF GetHistoryForKey, Skipped, FrameOf
  <2>2. log.time \in Seq(Int) /\ Len(log.time) = 5 /\ log.done \subseteq TimeFrame
    BY <2>1, InstantAssumption DEF IInv, TypeOK, Log
  <2>3. Len(FrameOf(log, granularity)) = granularity
    BY <2>2 DEF FrameOf, Granularity
  <2> QED BY <2>1, <2>2, <2>3
<1>4. ASSUME NEW frame \in TimeFrame, Len(frame) = granularity
      PROVE  /\ Store!Contributors(<<sensor, frame>>) = {log \in counted : frameOf[log] = frame}
             /\ GetAggregation(sensor, frame).count
                  = Cardinality(Store!Contributors(<<sensor, frame>>))
  <2>1. Store!Contributors(<<sensor, frame>>)
          = {log \in committed : log.sensor = sensor /\ frame \in log.done}
    BY DEF Store!Contributors
  <2>2. ASSUME NEW log \in committed, log.sensor = sensor, frame \in log.done
        PROVE  log \in counted /\ frameOf[log] = frame
    <3>1. FrameOf(log, granularity) = frame
      BY <1>4, <2>2, OneFrame
    <3>2. log \in counted
      BY <2>2, <3>1 DEF GetHistoryForKey, Skipped, FrameOf
    <3> QED BY <3>1, <3>2
  <2>3. ASSUME NEW log \in counted, frameOf[log] = frame
        PROVE  log \in committed /\ log.sensor = sensor /\ frame \in log.done
    BY <1>3, <2>3
  <2>4. Store!Contributors(<<sensor, frame>>) = {log \in counted : frameOf[log] = frame}
    <3> HIDE DEF counted, frameOf
    <3> QED BY <2>1, <2>2, <2>3
  <2>5. <<sensor, frame>> \in Store!Key
    BY KeyOf, SameFrames
  <2>6. GetAggregation(sensor, frame).count
          = Store!Cardinality(Store!Contributors(<<sensor, frame>>))
    BY <2>5 DEF Store!CountsRecords, GetAggregation
  <2> QED BY <2>4, <2>6 DEF Store!Cardinality, Cardinality
<1>5. ASSUME NEW log \in counted PROVE frameOf[log] \in stored
  <2> DEFINE frame == FrameOf(log, granularity)
  <2>1. frame \in TimeFrame /\ Len(frame) = granularity /\ frameOf[log] = frame
    BY <1>3
  <2>2. log \in {x \in counted : frameOf[x] = frame}
    BY <2>1
  <2>3. IsFiniteSet({x \in counted : frameOf[x] = frame})
    BY <1>2, FS_Subset
  <2>4. Cardinality({x \in counted : frameOf[x] = frame}) # 0
    <3> HIDE DEF counted, frameOf, frame
    <3> QED BY <2>2, <2>3, FS_EmptySet
  <2>5. Cardinality({x \in counted : frameOf[x] = frame}) \in Nat
    BY <2>3, FS_CardinalityType
  <2>6. GetAggregation(sensor, frame).count > 0
    <3>1. GetAggregation(sensor, frame).count
            = Cardinality({x \in counted : frameOf[x] = frame})
      <4> HIDE DEF counted, frameOf, frame
      <4> QED BY <1>4, <2>1
    <3> HIDE DEF counted, frameOf
    <3> QED BY <3>1, <2>4, <2>5
  <2> QED BY <2>1, <2>6 DEF Stored
<1>6. counts = sizes
  <2>1. ASSUME NEW frame \in stored
        PROVE  GetAggregation(sensor, frame).count
                 = Cardinality({log \in counted : frameOf[log] = frame})
    BY <1>4 DEF Stored
  <2> HIDE DEF stored, counted, frameOf
  <2> QED BY <2>1
<1>7. IsFiniteSet(stored)
  <2> DEFINE used == {frameOf[log] : log \in counted}
  <2>1. IsFiniteSet(used)
    <3> HIDE DEF counted, frameOf
    <3> QED BY <1>2, FiniteImage
  <2>2. ASSUME NEW frame \in stored PROVE frame \in used
    <3>1. frame \in TimeFrame /\ Len(frame) = granularity
      BY DEF Stored
    <3>2. GetAggregation(sensor, frame).count # 0
      BY DEF Stored
    <3>3. {log \in counted : frameOf[log] = frame} # {}
      BY <1>4, <3>1, <3>2, FS_EmptySet
    <3> QED BY <3>3
  <2> HIDE DEF used, stored
  <2> QED BY <2>1, <2>2, FS_Subset
<1>8. SumFunctionOnSet(sizes, stored) = Cardinality(counted)
  <2> HIDE DEF counted, frameOf, stored
  <2> QED BY <1>2, <1>5, <1>7, SumOfClasses
<1>9. SumFunction(counts) = Cardinality(counted)
  BY <1>6, <1>8 DEF SumFunction
<1> HIDE DEF history, skipped, counted
<1>10. Cardinality(history) = SumFunction(counts) + Cardinality(skipped)
  BY <1>2, <1>9
<1> QED BY <1>10 DEF GetHistoryForKeyCount, history, skipped, counts, stored

\* The history of a device id and its aggregates, of any granularity, count the
\* same logs, up to those whose aggregation failed.
THEOREM HistoryCorrect == Spec => []HistoryAgreesWithAggregates
<1>1. IInv /\ CountsCommittedLogs => HistoryAgreesWithAggregates
  BY HistoryByFrames DEF CountsCommittedLogs, HistoryAgreesWithAggregates
<1> QED BY <1>1, Invariance, CountsCorrect, PTL

-----------------------------------------------------------------------------
\* A blind write of the latest log cannot be overtaken by an older one that
\* shares a frame with it.
LEMMA CommitIsNewer ==
    ASSUME IInv, NEW tx \in endorsed, Commit(tx), NEW log \in committed,
           log.sensor = tx.log.sensor, log.done \cap tx.log.done # {}
    PROVE  log.id < tx.log.id
<1>1. PICK frame \in tx.log.done : frame \in log.done
  OBVIOUS
<1>2. frame \in DOMAIN tx.reads
  BY DEF IInv, TypeOK, Transaction
<1>3. UpToDate(tx, frame) /\ tx.reads[frame] = version[<<tx.log.sensor, frame>>]
  BY <1>2 DEF IInv, FreshTransactionsAreRepeatable, Commit, Apply, BumpVersions, Fresh
<1>4. log \in Store!Contributors(<<tx.log.sensor, frame>>)
  BY <1>1 DEF Store!Contributors
<1> QED BY <1>3, <1>4 DEF UpToDate

\* The log stored under a device id never steps back to one simulated before it.
THEOREM LatestCorrect == Spec => LatestNeverStepsBack
<1> DEFINE Forward ==
      \A sensor \in Sensor :
        (/\ latest[sensor] # NoLog
         /\ latest'[sensor] # latest[sensor]
         /\ latest[sensor].done \cap latest'[sensor].done # {})
        => latest[sensor].id < latest'[sensor].id
<1>1. IInv /\ [Next]_vars => [Forward]_vars
  <2> SUFFICES ASSUME IInv, Next,
                      NEW sensor \in Sensor,
                      latest[sensor] # NoLog,
                      latest'[sensor] # latest[sensor],
                      latest[sensor].done \cap latest'[sensor].done # {}
               PROVE  latest[sensor].id < latest'[sensor].id
    OBVIOUS
  <2>1. PICK tx \in endorsed : Commit(tx)
    BY DEF Next, SetSensorState, Invalidate
  <2>2. sensor = tx.log.sensor /\ latest'[sensor] = tx.log
    BY <2>1 DEF Commit, Apply, BumpVersions, IInv, TypeOK
  <2>3. latest[sensor] \in committed /\ latest[sensor].sensor = sensor
    BY DEF IInv, LatestIsCommitted
  <2> QED BY <2>1, <2>2, <2>3, CommitIsNewer
<1> QED BY <1>1, Invariance, PTL DEF Spec, LatestNeverStepsBack
=============================================================================
