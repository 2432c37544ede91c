---------------------------- MODULE BootstrapProofs ----------------------------
(***************************************************************************)
(* The set-up of Bootstrap for any fleet, any list of time accounts that   *)
(* fits into a transaction, any limits of Stellar and any number of runs   *)
(* and disturbances: first of the runs that are steady, then of those that *)
(* are calm.                                                               *)
(***************************************************************************)
EXTENDS Bootstrap, SequenceTheorems, FiniteSetTheorems, TLAPS

-----------------------------------------------------------------------------
(***************************************************************************)
(* What the lists of steps have in common.                                 *)
(***************************************************************************)

Kind == {"master", "batch", "usecases", "functions", "random", "device", "time"}
Account == Kind \X Nat
Asset == {"XLM"} \cup PhysicsType \cup Function
Line == Account \X Asset
Step == [do : {"mustLoad", "load", "create", "trust", "fund"}, lines : SUBSET Line,
         to : {"fatal", "nil", "horizon", "core", "idempotent"}]

IssuerLine == <<UsecasesIssuer, "XLM">>
BatchLine == <<Batch, "XLM">>

\* Accounts are loaded and created by their own lines, an account that may exist
\* comes alone, and there is no issuer without a batch account.
Sound(step) ==
  /\ step.do \in {"mustLoad", "load", "create"} =>
       \A line \in step.lines : line[2] = "XLM"
  /\ step.do \in {"mustLoad", "load"} <=> step.to \in {"fatal", "nil"}
  /\ step.do = "mustLoad" => step.to = "fatal"
  /\ step.to = "idempotent" => step.do = "create" /\ \E line \in Line : step.lines = {line}
  /\ step.do = "create" /\ IssuerLine \in step.lines => BatchLine \in step.lines
  /\ step.do = "trust" => IssuerLine \notin step.lines

SoundStep == {step \in Step : Sound(step)}

\* A trust line is followed by a submission to core.
Confirms(step) == step.do \in {"trust", "fund"} /\ step.to = "core"
Confirmed(steps) ==
  \A i \in DOMAIN steps : steps[i].do = "trust" =>
    \E j \in DOMAIN steps : i <= j /\ Confirms(steps[j])

\* What becomes of an account that is created is found out later on.
FoundOut(line, step) ==
  \/ step.do = "mustLoad" /\ line \in step.lines
  \/ step.do = "trust" /\ line[1] \in AccountsOf(step.lines)
Certain(steps) ==
  \A step \in ToSet(steps) : step.do = "create" =>
    \/ step.to = "idempotent"
    \/ \A line \in step.lines : \E other \in ToSet(steps) : FoundOut(line, other)

\* The sequence number comes first.
Begins(steps) == Len(steps) > 0 /\ steps[1].do = "mustLoad"

-----------------------------------------------------------------------------
(***************************************************************************)
(* Chunks.                                                                 *)
(***************************************************************************)

\* Division by the size of a chunk.
LEMMA Division ==
  ASSUME NEW n \in Nat \ {0}, NEW a \in Nat
  PROVE  /\ a \div n \in Nat /\ a % n \in 0 .. n - 1 /\ a = n * (a \div n) + (a % n)
         /\ (a + n) \div n = (a \div n) + 1
OBVIOUS

\* It is monotonic.
LEMMA DivisionMonotonic ==
  ASSUME NEW n \in Nat \ {0}, NEW a \in Nat, NEW b \in Nat, a <= b
  PROVE  a \div n <= b \div n
OBVIOUS

\* Every member of a slice is in one of its chunks, and nothing else is.
LEMMA ChunksCover ==
  ASSUME NEW S, NEW slice \in Seq(S), NEW chunkSize \in Nat \ {0}
  PROVE  /\ Chunks(slice, chunkSize) \in Seq(SUBSET S)
         /\ \A i \in DOMAIN slice : \E j \in DOMAIN Chunks(slice, chunkSize) :
              slice[i] \in Chunks(slice, chunkSize)[j]
         /\ \A j \in DOMAIN Chunks(slice, chunkSize) :
              Chunks(slice, chunkSize)[j] \subseteq ToSet(slice)
<1> DEFINE chunks == Chunks(slice, chunkSize)
           n == (Len(slice) + chunkSize - 1) \div chunkSize
<1>1. Len(slice) \in Nat /\ DOMAIN slice = 1 .. Len(slice)
  OBVIOUS
<1>2. n \in Nat
  <2>1. Len(slice) + chunkSize - 1 \in Nat
    BY <1>1
  <2> QED
    BY <2>1, Division
<1>3. /\ DOMAIN chunks = 1 .. n
      /\ \A i \in 1 .. n :
           chunks[i] = {slice[j] : j \in {j \in DOMAIN slice : (j - 1) \div chunkSize = i - 1}}
  BY DEF Chunks
<1>4. \A i \in 1 .. n : chunks[i] \in SUBSET S
  BY <1>1, <1>3
<1>5. chunks \in Seq(SUBSET S)
  <2>1. chunks = [i \in 1 .. n |-> chunks[i]]
    BY <1>3 DEF Chunks
  <2> HIDE DEF chunks, n
  <2> QED
    BY <1>2, <1>4, <2>1
<1>6. \A i \in DOMAIN slice : \E j \in DOMAIN chunks : slice[i] \in chunks[j]
  <2> SUFFICES ASSUME NEW i \in DOMAIN slice PROVE \E j \in DOMAIN chunks : slice[i] \in chunks[j]
    OBVIOUS
  <2> DEFINE q == (i - 1) \div chunkSize
  <2>1. i - 1 \in Nat /\ Len(slice) - 1 \in Nat /\ i - 1 <= Len(slice) - 1
    BY <1>1
  <2>2. q \in Nat /\ q <= (Len(slice) - 1) \div chunkSize
    BY <2>1, Division, DivisionMonotonic
  <2>3. n = ((Len(slice) - 1) \div chunkSize) + 1
    <3>1. Len(slice) + chunkSize - 1 = (Len(slice) - 1) + chunkSize
      BY <1>1
    <3> QED
      BY <2>1, <3>1, Division
  <2>4. (Len(slice) - 1) \div chunkSize \in Nat
    BY <2>1, Division
  <2> HIDE DEF n
  <2>5. q + 1 \in 1 .. n /\ q = (q + 1) - 1
    <3> HIDE DEF q
    <3> QED
      BY <2>2, <2>3, <2>4
  <2>6. slice[i] \in chunks[q + 1]
    <3> HIDE DEF chunks
    <3> QED
      BY <1>3, <2>5
  <2> QED
    BY <1>3, <2>5, <2>6
<1>7. \A j \in DOMAIN chunks : chunks[j] \subseteq ToSet(slice)
  <2> HIDE DEF chunks, n
  <2> QED
    BY <1>3 DEF ToSet
<1> QED
  BY <1>5, <1>6, <1>7

-----------------------------------------------------------------------------
(***************************************************************************)
(* Lists of steps.                                                         *)
(***************************************************************************)

\* One list of steps after another.
LEMMA Joined ==
  ASSUME NEW s \in Seq(SoundStep), NEW t \in Seq(SoundStep)
  PROVE  /\ s \o t \in Seq(SoundStep)
         /\ ToSet(s \o t) = ToSet(s) \cup ToSet(t)
         /\ Begins(s) => Begins(s \o t)
         /\ Confirmed(t) /\ (Confirmed(s) \/ \E j \in DOMAIN t : Confirms(t[j]))
              => Confirmed(s \o t)
<1> DEFINE u == s \o t
<1>1. /\ u \in Seq(SoundStep) /\ Len(s) \in Nat /\ Len(t) \in Nat
      /\ Len(u) = Len(s) + Len(t)
      /\ DOMAIN s = 1 .. Len(s) /\ DOMAIN t = 1 .. Len(t) /\ DOMAIN u = 1 .. Len(u)
  BY ConcatProperties
<1>2. /\ \A i \in DOMAIN s : i \in DOMAIN u /\ u[i] = s[i]
      /\ \A i \in DOMAIN t : Len(s) + i \in DOMAIN u /\ u[Len(s) + i] = t[i]
      /\ \A i \in DOMAIN u : i \in DOMAIN s \/ (i - Len(s) \in DOMAIN t /\ u[i] = t[i - Len(s)])
  <2>1. \A i \in 1 .. Len(s) + Len(t) :
          u[i] = IF i <= Len(s) THEN s[i] ELSE t[i - Len(s)]
    BY <1>1, ConcatProperties
  <2> HIDE DEF u
  <2>2. \A i \in DOMAIN s : i \in DOMAIN u /\ u[i] = s[i]
    BY <1>1, <2>1
  <2>3. ASSUME NEW i \in DOMAIN t
        PROVE  Len(s) + i \in DOMAIN u /\ u[Len(s) + i] = t[i]
    <3>1. /\ i \in 1 .. Len(t) /\ Len(s) + i \in 1 .. Len(s) + Len(t)
          /\ ~(Len(s) + i <= Len(s)) /\ (Len(s) + i) - Len(s) = i
      BY <1>1
    <3> QED
      BY <1>1, <2>1, <3>1
  <2>4. \A i \in DOMAIN u : i \in DOMAIN s \/ (i - Len(s) \in DOMAIN t /\ u[i] = t[i - Len(s)])
    <3> SUFFICES ASSUME NEW i \in DOMAIN u
                 PROVE  i \in DOMAIN s \/ (i - Len(s) \in DOMAIN t /\ u[i] = t[i - Len(s)])
      OBVIOUS
    <3>1. CASE i <= Len(s)
      <4>1. i \in 1 .. Len(s)
        BY <1>1, <3>1
      <4> QED
        BY <1>1, <4>1
    <3>2. CASE ~(i <= Len(s))
      <4>1. i \in 1 .. Len(s) + Len(t) /\ i - Len(s) \in 1 .. Len(t)
        BY <1>1, <3>2
      <4> QED
        BY <1>1, <2>1, <3>2, <4>1
    <3> QED
      BY <3>1, <3>2
  <2> QED
    BY <2>2, <2>3, <2>4
<1> HIDE DEF u
<1>3. ToSet(u) = ToSet(s) \cup ToSet(t)
  BY <1>2 DEF ToSet
<1>4. Begins(s) => Begins(u)
  BY <1>1, <1>2 DEF Begins
<1>5. ASSUME Confirmed(t), Confirmed(s) \/ \E j \in DOMAIN t : Confirms(t[j])
      PROVE  Confirmed(u)
  <2> SUFFICES ASSUME NEW i \in DOMAIN u, u[i].do = "trust"
               PROVE  \E j \in DOMAIN u : i <= j /\ Confirms(u[j])
    BY DEF Confirmed
  <2>1. CASE i \in DOMAIN s
    <3>1. CASE Confirmed(s)
      <4>1. PICK j \in DOMAIN s : i <= j /\ Confirms(s[j])
        BY <1>2, <2>1, <3>1 DEF Confirmed
      <4> QED
        BY <1>2, <4>1
    <3>2. CASE \E j \in DOMAIN t : Confirms(t[j])
      <4>1. PICK j \in DOMAIN t : Confirms(t[j])
        BY <3>2
      <4>2. i <= Len(s) + j
        BY <1>1, <2>1, <4>1
      <4> QED
        BY <1>2, <4>1, <4>2
    <3> QED
      BY <1>5, <3>1, <3>2
  <2>2. CASE i - Len(s) \in DOMAIN t /\ u[i] = t[i - Len(s)]
    <3>1. PICK j \in DOMAIN t : i - Len(s) <= j /\ Confirms(t[j])
      BY <1>5, <2>2 DEF Confirmed
    <3>2. i <= Len(s) + j
      BY <1>1, <3>1
    <3> QED
      BY <1>2, <3>1, <3>2
  <2> QED
    BY <1>2, <2>1, <2>2
<1> QED
  BY <1>1, <1>3, <1>4, <1>5 DEF u

\* A list of one step.
LEMMA OneStep ==
  ASSUME NEW step \in SoundStep
  PROVE  /\ <<step>> \in Seq(SoundStep) /\ ToSet(<<step>>) = {step}
         /\ step.do = "mustLoad" => Begins(<<step>>)
         /\ step.do # "trust" => Confirmed(<<step>>)
         /\ Confirms(step) => \E j \in DOMAIN <<step>> : Confirms(<<step>>[j])
<1>1. /\ <<step>> \in Seq(SoundStep) /\ Len(<<step>>) = 1
      /\ DOMAIN <<step>> = {1} /\ <<step>>[1] = step
  OBVIOUS
<1>2. ToSet(<<step>>) = {step}
  BY <1>1 DEF ToSet
<1> QED
  BY <1>1, <1>2 DEF Begins, Confirmed

\* Loading accounts.
LEMMA MustLoadSteps ==
  ASSUME NEW accounts \in SUBSET Account
  PROVE  /\ MustLoad(accounts) \in Seq(SoundStep) /\ Begins(MustLoad(accounts))
         /\ Confirmed(MustLoad(accounts))
         /\ \E step \in ToSet(MustLoad(accounts)) :
              step.do = "mustLoad" /\ step.lines = accounts \X {"XLM"}
         /\ \A step \in ToSet(MustLoad(accounts)) : step.do = "mustLoad"
<1> DEFINE step == [do |-> "mustLoad", lines |-> accounts \X {"XLM"}, to |-> "fatal"]
<1>1. step \in SoundStep
  <2>1. accounts \X {"XLM"} \subseteq Line
    BY DEF Line, Asset
  <2>2. step \in Step
    BY <2>1 DEF Step
  <2> QED
    BY <2>2 DEF SoundStep, Sound
<1>2. MustLoad(accounts) = <<step>>
  BY DEF MustLoad
<1>3. step.do = "mustLoad" /\ step.lines = accounts \X {"XLM"}
  OBVIOUS
<1> HIDE DEF step
<1> QED
  BY <1>1, <1>2, <1>3, OneStep

\* Looking for the sensors' accounts.
LEMMA LoadSteps ==
  ASSUME NEW devices \in Seq(Account)
  PROVE  /\ CreateSensorDevices(devices) \in Seq(SoundStep)
         /\ Confirmed(CreateSensorDevices(devices))
         /\ \A step \in ToSet(CreateSensorDevices(devices)) : step.do = "load"
<1> DEFINE step == [do |-> "load", lines |-> ToSet(devices) \X {"XLM"}, to |-> "nil"]
<1>1. step \in SoundStep
  <2>1. ToSet(devices) \subseteq Account
    BY DEF ToSet
  <2>2. ToSet(devices) \X {"XLM"} \subseteq Line
    BY <2>1 DEF Line, Asset
  <2>3. step \in Step
    BY <2>2 DEF Step
  <2> QED
    BY <2>3 DEF SoundStep, Sound
<1>2. CreateSensorDevices(devices) = <<step>>
  BY DEF CreateSensorDevices
<1>3. step.do = "load"
  OBVIOUS
<1> HIDE DEF step
<1> QED
  BY <1>1, <1>2, <1>3, OneStep

\* Creating accounts.
LEMMA CreateStep ==
  ASSUME NEW accounts \in SUBSET Account, NEW to \in {"horizon", "idempotent"},
         to = "idempotent" => \E account \in Account : accounts = {account},
         UsecasesIssuer \in accounts => Batch \in accounts
  PROVE  [do |-> "create", lines |-> accounts \X {"XLM"}, to |-> to] \in SoundStep
<1> DEFINE step == [do |-> "create", lines |-> accounts \X {"XLM"}, to |-> to]
<1>1. step \in Step
  <2>1. accounts \X {"XLM"} \subseteq Line
    BY DEF Line, Asset
  <2> QED
    BY <2>1 DEF Step
<1>2. IssuerLine \in step.lines => BatchLine \in step.lines
  BY DEF IssuerLine, BatchLine
<1>3. to = "idempotent" => \E line \in Line : step.lines = {line}
  <2> SUFFICES ASSUME to = "idempotent" PROVE \E line \in Line : step.lines = {line}
    OBVIOUS
  <2>1. PICK account \in Account : accounts = {account}
    OBVIOUS
  <2>2. step.lines = {<<account, "XLM">>}
    BY <2>1
  <2>3. <<account, "XLM">> \in Line
    BY DEF Line, Asset
  <2> QED
    BY <2>2, <2>3
<1>4. \A line \in step.lines : line[2] = "XLM"
  OBVIOUS
<1> QED
  BY <1>1, <1>2, <1>3, <1>4 DEF SoundStep, Sound

\* Creating accounts in one transaction.
LEMMA CreateSteps ==
  ASSUME NEW accounts \in SUBSET Account, NEW to \in {"horizon", "idempotent"},
         to = "idempotent" => \E account \in Account : accounts = {account},
         UsecasesIssuer \in accounts => Batch \in accounts
  PROVE  /\ CreateAccounts(accounts, to) \in Seq(SoundStep)
         /\ Confirmed(CreateAccounts(accounts, to))
         /\ \A step \in ToSet(CreateAccounts(accounts, to)) :
              step.do = "create" /\ step.lines = accounts \X {"XLM"} /\ step.to = to
<1> DEFINE step == [do |-> "create", lines |-> accounts \X {"XLM"}, to |-> to]
<1>1. step \in SoundStep
  BY CreateStep
<1>2. CreateAccounts(accounts, to) = <<step>>
  BY DEF CreateAccounts
<1>3. step.do = "create" /\ step.lines = accounts \X {"XLM"} /\ step.to = to
  OBVIOUS
<1> HIDE DEF step
<1> QED
  BY <1>1, <1>2, <1>3, OneStep

\* Creating the accounts of the sensors.
LEMMA SensorSteps ==
  ASSUME NEW devices \in Seq(Account), UsecasesIssuer \notin ToSet(devices)
  PROVE  /\ CreateSensorAccounts(devices) \in Seq(SoundStep)
         /\ Confirmed(CreateSensorAccounts(devices))
         /\ \A step \in ToSet(CreateSensorAccounts(devices)) :
              step.do = "create" /\ step.lines \subseteq ToSet(devices) \X {"XLM"}
<1> DEFINE chunks == Chunks(devices, MaxOperations)
           steps == CreateSensorAccounts(devices)
           step(i) == [do |-> "create", lines |-> chunks[i] \X {"XLM"}, to |-> "horizon"]
<1>1. /\ chunks \in Seq(SUBSET Account)
      /\ \A i \in DOMAIN chunks : chunks[i] \subseteq ToSet(devices)
  BY ChunksCover, LimitsAssumption
<1> HIDE DEF chunks
<1>2. DOMAIN chunks = 1 .. Len(chunks) /\ Len(chunks) \in Nat
  BY <1>1
<1>3. \A i \in DOMAIN chunks : CreateAccounts(chunks[i], "horizon")[1] = step(i)
  BY DEF CreateAccounts
<1>4. /\ DOMAIN steps = DOMAIN chunks
      /\ steps = [i \in DOMAIN chunks |-> CreateAccounts(chunks[i], "horizon")[1]]
  <2>1. steps = [i \in DOMAIN chunks |-> CreateAccounts(chunks[i], "horizon")[1]]
    BY DEF CreateSensorAccounts, chunks
  <2>2. DOMAIN steps = DOMAIN chunks
    BY DEF CreateSensorAccounts, chunks
  <2> HIDE DEF steps
  <2> QED
    BY <2>1, <2>2, Zenon
<1>5. \A i \in DOMAIN chunks : step(i) \in SoundStep
  <2> SUFFICES ASSUME NEW i \in DOMAIN chunks PROVE step(i) \in SoundStep
    OBVIOUS
  <2>1. chunks[i] \in SUBSET Account /\ UsecasesIssuer \notin chunks[i]
    BY <1>1
  <2> QED
    BY <2>1, CreateStep
<1> HIDE DEF steps, step
<1>6. steps \in Seq(SoundStep) /\ \A i \in DOMAIN chunks : steps[i] = step(i)
  <2>1. \A i \in DOMAIN chunks : steps[i] = step(i)
    BY <1>3, <1>4
  <2>2. steps = [i \in 1 .. Len(chunks) |-> steps[i]]
    BY <1>2, <1>4
  <2>3. \A i \in 1 .. Len(chunks) : steps[i] \in SoundStep
    BY <1>2, <1>5, <2>1
  <2>4. steps \in Seq(SoundStep)
    BY <1>2, <2>2, <2>3
  <2> QED
    BY <2>1, <2>4, Zenon
<1> USE DEF step
<1>7. \A i \in DOMAIN steps : /\ steps[i].do = "create"
                              /\ steps[i].lines = chunks[i] \X {"XLM"}
  <2> SUFFICES ASSUME NEW i \in DOMAIN steps
               PROVE  steps[i].do = "create" /\ steps[i].lines = chunks[i] \X {"XLM"}
    OBVIOUS
  <2>1. steps[i] = step(i)
    BY <1>4, <1>6
  <2> QED
    BY <2>1
<1>8. Confirmed(steps)
  BY <1>7 DEF Confirmed
<1>9. \A s \in ToSet(steps) : s.do = "create" /\ s.lines \subseteq ToSet(devices) \X {"XLM"}
  BY <1>1, <1>4, <1>7 DEF ToSet
<1> QED
  BY <1>6, <1>8, <1>9 DEF steps

\* Creating trust lines.
LEMMA TrustSteps ==
  ASSUME NEW chunks \in Seq(SUBSET Account), NEW assets \in SUBSET Asset, "XLM" \notin assets,
         NEW to \in {"horizon", "core"}
  PROVE  /\ CreateTrustlines(chunks, assets, to) \in Seq(SoundStep)
         /\ DOMAIN CreateTrustlines(chunks, assets, to) = DOMAIN chunks
         /\ \A i \in DOMAIN chunks :
              CreateTrustlines(chunks, assets, to)[i]
                = [do |-> "trust", lines |-> chunks[i] \X assets, to |-> to]
         /\ to = "core" => Confirmed(CreateTrustlines(chunks, assets, to))
<1> DEFINE steps == CreateTrustlines(chunks, assets, to)
           step(i) == [do |-> "trust", lines |-> chunks[i] \X assets, to |-> to]
<1>1. DOMAIN chunks = 1 .. Len(chunks) /\ Len(chunks) \in Nat
  OBVIOUS
<1>2. steps = [i \in 1 .. Len(chunks) |-> step(i)]
  BY <1>1 DEF CreateTrustlines
<1>3. \A i \in DOMAIN chunks : step(i) \in SoundStep
  <2> SUFFICES ASSUME NEW i \in DOMAIN chunks PROVE step(i) \in SoundStep
    OBVIOUS
  <2>1. chunks[i] \subseteq Account
    OBVIOUS
  <2>2. step(i) \in Step
    BY <2>1 DEF Step, Line
  <2>3. IssuerLine \notin chunks[i] \X assets
    BY DEF IssuerLine
  <2> QED
    BY <2>2, <2>3 DEF SoundStep, Sound
<1> HIDE DEF steps
<1>4. steps \in Seq(SoundStep) /\ DOMAIN steps = DOMAIN chunks
  <2> HIDE DEF step
  <2> QED
    BY <1>1, <1>2, <1>3
<1>5. \A i \in DOMAIN chunks : steps[i] = step(i)
  BY <1>1, <1>2
<1>6. to = "core" => Confirmed(steps)
  <2> SUFFICES ASSUME to = "core", NEW i \in DOMAIN steps
               PROVE  \E j \in DOMAIN steps : i <= j /\ Confirms(steps[j])
    BY DEF Confirmed
  <2>1. i <= i /\ Confirms(steps[i])
    BY <1>1, <1>4, <1>5 DEF Confirms
  <2> QED
    BY <2>1
<1> QED
  BY <1>4, <1>5, <1>6 DEF steps

\* Giving tokens.
LEMMA FundSteps ==
  ASSUME NEW lines \in SUBSET Line, NEW to \in {"horizon", "core"}
  PROVE  /\ FundEvenly(lines, to) \in Seq(SoundStep) /\ Confirmed(FundEvenly(lines, to))
         /\ \A step \in ToSet(FundEvenly(lines, to)) : step.do = "fund"
         /\ to = "core" => \E j \in DOMAIN FundEvenly(lines, to) : Confirms(FundEvenly(lines, to)[j])
<1> DEFINE step == [do |-> "fund", lines |-> lines, to |-> to]
<1>1. step \in SoundStep
  BY DEF SoundStep, Sound, Step
<1>2. FundEvenly(lines, to) = <<step>>
  BY DEF FundEvenly
<1>3. step.do = "fund" /\ (to = "core" => Confirms(step))
  BY DEF Confirms
<1> HIDE DEF step
<1> QED
  BY <1>1, <1>2, <1>3, OneStep

-----------------------------------------------------------------------------
(***************************************************************************)
(* The lists of the three programs.                                        *)
(***************************************************************************)

Proper(steps) ==
  steps \in Seq(SoundStep) /\ Begins(steps) /\ Confirmed(steps) /\ Certain(steps)

\* The accounts of the sensors and of the aggregator.
LEMMA AccountLists ==
  ASSUME NEW n \in Nat
  PROVE  /\ Devices(n) \in Seq(Account) /\ DOMAIN Devices(n) = 1 .. n
         /\ UsecasesIssuer \notin ToSet(Devices(n))
         /\ Aggregators \in Seq(Account)
         /\ UsecasesIssuer \notin ToSet(Aggregators)
<1>1. Devices(n) \in Seq(Account) /\ DOMAIN Devices(n) = 1 .. n
  BY DEF Devices, Account, Kind
<1>2. \A i \in 1 .. n : Devices(n)[i] # UsecasesIssuer
  BY DEF Devices, UsecasesIssuer
<1>3. Aggregators \in Seq(Account) /\ DOMAIN Aggregators = 1 .. NumTimeAccounts
  BY NumTimeAccountsAssumption DEF Aggregators, Account, Kind
<1>4. \A i \in 1 .. NumTimeAccounts : Aggregators[i] # UsecasesIssuer
  BY DEF Aggregators, UsecasesIssuer
<1> QED
  BY <1>1, <1>2, <1>3, <1>4 DEF ToSet

\* The single accounts are accounts.
LEMMA SingleAccounts ==
  /\ Master \in Account /\ Batch \in Account /\ UsecasesIssuer \in Account
  /\ FunctionsIssuer \in Account /\ Random \in Account
  /\ FunctionsIssuer # UsecasesIssuer /\ Random # UsecasesIssuer /\ Batch # UsecasesIssuer
BY DEF Master, Batch, UsecasesIssuer, FunctionsIssuer, Random, Account, Kind

\* The assets of the trust lines.
LEMMA Assets ==
  /\ PhysicsType \subseteq Asset /\ "XLM" \notin PhysicsType /\ PhysicsType # {}
  /\ Function \subseteq Asset /\ "XLM" \notin Function /\ Function # {}
BY DEF PhysicsType, Function, Asset

\* Every sensor is in a chunk that gets trust lines.
LEMMA ChunksTrust ==
  ASSUME NEW devices \in Seq(Account), NEW assets \in SUBSET Asset, assets # {},
         "XLM" \notin assets, NEW to \in {"horizon", "core"}
  PROVE  LET steps == CreateTrustlines(SignerChunks(devices), assets, to)
         IN  /\ steps \in Seq(SoundStep)
             /\ to = "core" => Confirmed(steps)
             /\ \A step \in ToSet(steps) : step.do = "trust"
             /\ \A device \in ToSet(devices) : \E j \in DOMAIN steps :
                  /\ device \in AccountsOf(steps[j].lines)
                  /\ to = "core" => Confirms(steps[j])
<1> DEFINE chunks == SignerChunks(devices)
           steps == CreateTrustlines(chunks, assets, to)
<1>1. /\ chunks \in Seq(SUBSET Account)
      /\ \A i \in DOMAIN devices : \E j \in DOMAIN chunks : devices[i] \in chunks[j]
  <2> DEFINE size == MaxSigners - 1
  <2>1. size \in Nat \ {0} /\ chunks = Chunks(devices, size)
    BY LimitsAssumption DEF SignerChunks
  <2> HIDE DEF chunks, size
  <2>2. /\ Chunks(devices, size) \in Seq(SUBSET Account)
        /\ \A i \in DOMAIN devices : \E j \in DOMAIN Chunks(devices, size) :
             devices[i] \in Chunks(devices, size)[j]
    BY <2>1, ChunksCover
  <2> QED
    BY <2>1, <2>2
<1> HIDE DEF chunks
<1>2. /\ steps \in Seq(SoundStep) /\ DOMAIN steps = DOMAIN chunks
      /\ \A i \in DOMAIN chunks :
           steps[i] = [do |-> "trust", lines |-> chunks[i] \X assets, to |-> to]
      /\ to = "core" => Confirmed(steps)
  <2>1. steps \in Seq(SoundStep)
    BY <1>1, TrustSteps
  <2>2. DOMAIN steps = DOMAIN chunks
    BY <1>1, TrustSteps
  <2>3. \A i \in DOMAIN chunks :
          steps[i] = [do |-> "trust", lines |-> chunks[i] \X assets, to |-> to]
    BY <1>1, TrustSteps
  <2>4. to = "core" => Confirmed(steps)
    BY <1>1, TrustSteps
  <2> QED
    BY <2>1, <2>2, <2>3, <2>4
<1> HIDE DEF steps
<1>3. \A i \in DOMAIN steps : /\ steps[i].do = "trust" /\ steps[i].to = to
                              /\ steps[i].lines = chunks[i] \X assets
  BY <1>2
<1>4. \A step \in ToSet(steps) : step.do = "trust"
  BY <1>3 DEF ToSet
<1>5. ASSUME NEW device \in ToSet(devices)
      PROVE  \E j \in DOMAIN steps : /\ device \in AccountsOf(steps[j].lines)
                                     /\ to = "core" => Confirms(steps[j])
  <2>1. PICK j \in DOMAIN chunks : device \in chunks[j]
    BY <1>1 DEF ToSet
  <2>2. PICK asset \in assets : TRUE
    OBVIOUS
  <2>3. <<device, asset>> \in chunks[j] \X assets /\ <<device, asset>>[1] = device
    BY <2>1, <2>2
  <2>4. device \in AccountsOf(steps[j].lines)
    BY <1>2, <1>3, <2>1, <2>3 DEF AccountsOf
  <2>5. to = "core" => Confirms(steps[j])
    BY <1>2, <1>3, <2>1 DEF Confirms
  <2> QED
    BY <1>2, <2>1, <2>4, <2>5
<1> QED
  BY <1>2, <1>4, <1>5 DEF steps, chunks

\* The generator.
LEMMA GeneratorIsProper ==
  ASSUME NEW n \in Nat \ {0}
  PROVE  Proper(Generator(Devices(n)))
<1> DEFINE devices == Devices(n)
           p1 == MustLoad({Master})
           p2 == GeneratorAccounts
           p3 == MustLoad({Batch, UsecasesIssuer})
           p4 == CreateSensorAccounts(devices)
           p5 == CreateReceiverTrustlines
           p6 == CreateSensorDevices(devices)
           p7 == CreateTrustlines(SignerChunks(devices), PhysicsType, "core")
           p8 == FundEvenly(TokensOf(devices), "horizon")
           s2 == p1 \o p2
           s3 == s2 \o p3
           s4 == s3 \o p4
           s5 == s4 \o p5
           s6 == s5 \o p6
           s7 == s6 \o p7
           s8 == s7 \o p8
<1>1. /\ devices \in Seq(Account) /\ DOMAIN devices = 1 .. n
      /\ UsecasesIssuer \notin ToSet(devices)
  BY AccountLists
<1>2. Generator(devices) = s8
  BY DEF Generator
<1> HIDE DEF devices
<1>3. /\ p1 \in Seq(SoundStep) /\ Begins(p1)
      /\ \A step \in ToSet(p1) : step.do = "mustLoad"
  BY MustLoadSteps, SingleAccounts
<1>4. /\ p2 \in Seq(SoundStep)
      /\ \A step \in ToSet(p2) : /\ step.do = "create"
                                 /\ step.lines = {Batch, UsecasesIssuer} \X {"XLM"}
  BY CreateSteps, SingleAccounts DEF GeneratorAccounts
<1>5. /\ p3 \in Seq(SoundStep)
      /\ \A step \in ToSet(p3) : step.do = "mustLoad"
      /\ \E step \in ToSet(p3) : /\ step.do = "mustLoad"
                                 /\ step.lines = {Batch, UsecasesIssuer} \X {"XLM"}
  BY MustLoadSteps, SingleAccounts
<1>6. /\ p4 \in Seq(SoundStep)
      /\ \A step \in ToSet(p4) : step.do = "create" /\ step.lines \subseteq ToSet(devices) \X {"XLM"}
  BY <1>1, SensorSteps
<1>7. p5 \in Seq(SoundStep) /\ \A step \in ToSet(p5) : step.do = "trust"
  <2> DEFINE batch == <<{Batch}>>
  <2>1. batch \in Seq(SUBSET Account)
    BY SingleAccounts
  <2>2. DOMAIN batch = {1} /\ 1 \in {1}
    OBVIOUS
  <2> HIDE DEF batch
  <2>3. /\ CreateTrustlines(batch, PhysicsType, "horizon") \in Seq(SoundStep)
        /\ DOMAIN CreateTrustlines(batch, PhysicsType, "horizon") = {1}
        /\ CreateTrustlines(batch, PhysicsType, "horizon")[1]
             = [do |-> "trust", lines |-> batch[1] \X PhysicsType, to |-> "horizon"]
    <3>1. PhysicsType \in SUBSET Asset /\ "horizon" \in {"horizon", "core"}
      BY Assets
    <3>2. CreateTrustlines(batch, PhysicsType, "horizon") \in Seq(SoundStep)
      BY <2>1, <3>1, TrustSteps, Assets
    <3>3. DOMAIN CreateTrustlines(batch, PhysicsType, "horizon") = {1}
      BY <2>1, <2>2, <3>1, TrustSteps, Assets
    <3>4. CreateTrustlines(batch, PhysicsType, "horizon")[1]
            = [do |-> "trust", lines |-> batch[1] \X PhysicsType, to |-> "horizon"]
      BY <2>1, <2>2, <3>1, TrustSteps, Assets
    <3> QED
      BY <3>2, <3>3, <3>4
  <2>4. p5 = CreateTrustlines(batch, PhysicsType, "horizon")
    BY DEF CreateReceiverTrustlines, batch
  <2> HIDE DEF p5
  <2>5. p5[1].do = "trust"
    BY <2>3, <2>4
  <2> QED
    BY <2>3, <2>4, <2>5 DEF ToSet
<1>8. p6 \in Seq(SoundStep) /\ \A step \in ToSet(p6) : step.do = "load"
  BY <1>1, LoadSteps
<1>9. /\ p7 \in Seq(SoundStep) /\ Confirmed(p7)
      /\ \A step \in ToSet(p7) : step.do = "trust"
      /\ \A device \in ToSet(devices) : \E j \in DOMAIN p7 :
           device \in AccountsOf(p7[j].lines) /\ Confirms(p7[j])
  BY <1>1, ChunksTrust, Assets
<1>10. /\ p8 \in Seq(SoundStep) /\ Confirmed(p8)
       /\ \A step \in ToSet(p8) : step.do = "fund"
  <2>1. TokensOf(devices) \subseteq Line
    BY <1>1 DEF TokensOf, Line, Asset, PhysicsType
  <2> QED
    BY <2>1, FundSteps
<1> HIDE DEF p1, p2, p3, p4, p5, p6, p7, p8
<1>11. \E j \in DOMAIN p7 : Confirms(p7[j])
  <2>1. devices[1] \in ToSet(devices)
    BY <1>1 DEF ToSet
  <2> QED
    BY <1>9, <2>1
<1>12. s2 \in Seq(SoundStep) /\ Begins(s2) /\ ToSet(s2) = ToSet(p1) \cup ToSet(p2)
  BY <1>3, <1>4, Joined
<1> HIDE DEF s2
<1>13. s3 \in Seq(SoundStep) /\ Begins(s3) /\ ToSet(s3) = ToSet(s2) \cup ToSet(p3)
  BY <1>5, <1>12, Joined
<1> HIDE DEF s3
<1>14. s4 \in Seq(SoundStep) /\ Begins(s4) /\ ToSet(s4) = ToSet(s3) \cup ToSet(p4)
  BY <1>6, <1>13, Joined
<1> HIDE DEF s4
<1>15. s5 \in Seq(SoundStep) /\ Begins(s5) /\ ToSet(s5) = ToSet(s4) \cup ToSet(p5)
  BY <1>7, <1>14, Joined
<1> HIDE DEF s5
<1>16. s6 \in Seq(SoundStep) /\ Begins(s6) /\ ToSet(s6) = ToSet(s5) \cup ToSet(p6)
  BY <1>8, <1>15, Joined
<1> HIDE DEF s6
<1>17. /\ s7 \in Seq(SoundStep) /\ Begins(s7) /\ Confirmed(s7)
       /\ ToSet(s7) = ToSet(s6) \cup ToSet(p7)
  BY <1>9, <1>11, <1>16, Joined
<1> HIDE DEF s7
<1>18. /\ s8 \in Seq(SoundStep) /\ Begins(s8) /\ Confirmed(s8)
       /\ ToSet(s8) = ToSet(s7) \cup ToSet(p8)
  BY <1>10, <1>17, Joined
<1> HIDE DEF s8
<1>19. Certain(s8)
  <2>1. ToSet(s8) = ToSet(p1) \cup ToSet(p2) \cup ToSet(p3) \cup ToSet(p4) \cup ToSet(p5)
                      \cup ToSet(p6) \cup ToSet(p7) \cup ToSet(p8)
    BY <1>12, <1>13, <1>14, <1>15, <1>16, <1>17, <1>18
  <2> SUFFICES ASSUME NEW step \in ToSet(s8), step.do = "create", NEW line \in step.lines
               PROVE  \E other \in ToSet(s8) : FoundOut(line, other)
    BY DEF Certain
  <2>2. step \in ToSet(p2) \/ step \in ToSet(p4)
    BY <1>3, <1>5, <1>7, <1>8, <1>9, <1>10, <2>1
  <2>3. CASE step \in ToSet(p2)
    BY <1>4, <1>5, <2>1, <2>3 DEF FoundOut
  <2>4. CASE step \in ToSet(p4)
    <3>1. line[1] \in ToSet(devices)
      BY <1>6, <2>4
    <3>2. PICK j \in DOMAIN p7 : line[1] \in AccountsOf(p7[j].lines)
      BY <1>9, <3>1
    <3>3. p7[j] \in ToSet(p7)
      BY DEF ToSet
    <3> QED
      BY <1>9, <2>1, <3>2, <3>3 DEF FoundOut
  <2> QED
    BY <2>2, <2>3, <2>4
<1> QED
  BY <1>2, <1>18, <1>19 DEF Proper, devices

\* The aggregator.
LEMMA AggregatorIsProper ==
  ASSUME NEW n \in Nat \ {0}
  PROVE  Proper(Aggregator(Devices(n)))
<1> DEFINE devices == Devices(n)
           times == ToSet(Aggregators)
           p1 == MustLoad({Master})
           p2 == CreateAccounts(times, "horizon")
           p3 == CreateAccounts({FunctionsIssuer}, "horizon")
           p4 == MustLoad(times \cup ToSet(devices))
           p5 == MustLoad({FunctionsIssuer})
           p6 == CreateTrustlines(SignerChunks(Aggregators), Function, "horizon")
           p7 == CreateTrustlines(SignerChunks(devices), Function, "horizon")
           p8 == FundEvenly(times \X {"AVG"}, "core")
           p9 == FundEvenly(times \X {"MIN"}, "core")
           p10 == FundEvenly(times \X {"MAX"}, "core")
           s2 == p1 \o p2
           s3 == s2 \o p3
           s4 == s3 \o p4
           s5 == s4 \o p5
           s6 == s5 \o p6
           s7 == s6 \o p7
           s8 == s7 \o p8
           s9 == s8 \o p9
           s10 == s9 \o p10
<1>1. /\ devices \in Seq(Account) /\ Aggregators \in Seq(Account)
      /\ UsecasesIssuer \notin times
  BY AccountLists
<1>2. Aggregator(devices) = s10
  BY DEF Aggregator
<1>3. times \in SUBSET Account /\ ToSet(devices) \in SUBSET Account
  BY <1>1 DEF ToSet
<1> HIDE DEF devices, times
<1>4. /\ p1 \in Seq(SoundStep) /\ Begins(p1)
      /\ \A step \in ToSet(p1) : step.do = "mustLoad"
  BY MustLoadSteps, SingleAccounts
<1>5. /\ p2 \in Seq(SoundStep)
      /\ \A step \in ToSet(p2) : step.do = "create" /\ step.lines = times \X {"XLM"}
  BY <1>1, <1>3, CreateSteps
<1>6. /\ p3 \in Seq(SoundStep)
      /\ \A step \in ToSet(p3) : step.do = "create" /\ step.lines = {FunctionsIssuer} \X {"XLM"}
  BY CreateSteps, SingleAccounts
<1>7. /\ p4 \in Seq(SoundStep)
      /\ \A step \in ToSet(p4) : step.do = "mustLoad"
      /\ \E step \in ToSet(p4) : /\ step.do = "mustLoad"
                                 /\ step.lines = (times \cup ToSet(devices)) \X {"XLM"}
  <2>1. times \cup ToSet(devices) \in SUBSET Account
    BY <1>3
  <2> QED
    BY <2>1, MustLoadSteps
<1>8. /\ p5 \in Seq(SoundStep)
      /\ \A step \in ToSet(p5) : step.do = "mustLoad"
      /\ \E step \in ToSet(p5) : /\ step.do = "mustLoad"
                                 /\ step.lines = {FunctionsIssuer} \X {"XLM"}
  BY MustLoadSteps, SingleAccounts
<1>9. /\ p6 \in Seq(SoundStep)
      /\ \A step \in ToSet(p6) : step.do = "trust"
  BY <1>1, ChunksTrust, Assets
<1>10. /\ p7 \in Seq(SoundStep)
       /\ \A step \in ToSet(p7) : step.do = "trust"
  BY <1>1, ChunksTrust, Assets
<1>11. \A asset \in Function : times \X {asset} \in SUBSET Line
  BY <1>3 DEF Line, Asset
<1>12. /\ p8 \in Seq(SoundStep) /\ Confirmed(p8) /\ \E j \in DOMAIN p8 : Confirms(p8[j])
       /\ \A step \in ToSet(p8) : step.do = "fund"
  BY <1>11, FundSteps DEF Function
<1>13. /\ p9 \in Seq(SoundStep) /\ Confirmed(p9)
       /\ \A step \in ToSet(p9) : step.do = "fund"
  BY <1>11, FundSteps DEF Function
<1>14. /\ p10 \in Seq(SoundStep) /\ Confirmed(p10)
       /\ \A step \in ToSet(p10) : step.do = "fund"
  BY <1>11, FundSteps DEF Function
<1> HIDE DEF p1, p2, p3, p4, p5, p6, p7, p8, p9, p10
<1>15. s2 \in Seq(SoundStep) /\ Begins(s2) /\ ToSet(s2) = ToSet(p1) \cup ToSet(p2)
  BY <1>4, <1>5, Joined
<1> HIDE DEF s2
<1>16. s3 \in Seq(SoundStep) /\ Begins(s3) /\ ToSet(s3) = ToSet(s2) \cup ToSet(p3)
  BY <1>6, <1>15, Joined
<1> HIDE DEF s3
<1>17. s4 \in Seq(SoundStep) /\ Begins(s4) /\ ToSet(s4) = ToSet(s3) \cup ToSet(p4)
  BY <1>7, <1>16, Joined
<1> HIDE DEF s4
<1>18. s5 \in Seq(SoundStep) /\ Begins(s5) /\ ToSet(s5) = ToSet(s4) \cup ToSet(p5)
  BY <1>8, <1>17, Joined
<1> HIDE DEF s5
<1>19. s6 \in Seq(SoundStep) /\ Begins(s6) /\ ToSet(s6) = ToSet(s5) \cup ToSet(p6)
  BY <1>9, <1>18, Joined
<1> HIDE DEF s6
<1>20. s7 \in Seq(SoundStep) /\ Begins(s7) /\ ToSet(s7) = ToSet(s6) \cup ToSet(p7)
  BY <1>10, <1>19, Joined
<1> HIDE DEF s7
<1>21. /\ s8 \in Seq(SoundStep) /\ Begins(s8) /\ Confirmed(s8)
       /\ ToSet(s8) = ToSet(s7) \cup ToSet(p8)
  BY <1>12, <1>20, Joined
<1> HIDE DEF s8
<1>22. /\ s9 \in Seq(SoundStep) /\ Begins(s9) /\ Confirmed(s9)
       /\ ToSet(s9) = ToSet(s8) \cup ToSet(p9)
  BY <1>13, <1>21, Joined
<1> HIDE DEF s9
<1>23. /\ s10 \in Seq(SoundStep) /\ Begins(s10) /\ Confirmed(s10)
       /\ ToSet(s10) = ToSet(s9) \cup ToSet(p10)
  BY <1>14, <1>22, Joined
<1> HIDE DEF s10
<1>24. Certain(s10)
  <2>1. ToSet(s10) = ToSet(p1) \cup ToSet(p2) \cup ToSet(p3) \cup ToSet(p4) \cup ToSet(p5)
                       \cup ToSet(p6) \cup ToSet(p7) \cup ToSet(p8) \cup ToSet(p9) \cup ToSet(p10)
    BY <1>15, <1>16, <1>17, <1>18, <1>19, <1>20, <1>21, <1>22, <1>23
  <2> SUFFICES ASSUME NEW step \in ToSet(s10), step.do = "create", NEW line \in step.lines
               PROVE  \E other \in ToSet(s10) : FoundOut(line, other)
    BY DEF Certain
  <2>2. step \in ToSet(p2) \/ step \in ToSet(p3)
    BY <1>4, <1>7, <1>8, <1>9, <1>10, <1>12, <1>13, <1>14, <2>1
  <2>3. CASE step \in ToSet(p2)
    <3>1. line \in (times \cup ToSet(devices)) \X {"XLM"}
      BY <1>5, <2>3
    <3> QED
      BY <1>7, <2>1, <3>1 DEF FoundOut
  <2>4. CASE step \in ToSet(p3)
    BY <1>6, <1>8, <2>1, <2>4 DEF FoundOut
  <2> QED
    BY <2>2, <2>3, <2>4
<1> QED
  BY <1>2, <1>23, <1>24 DEF Proper, devices

\* generator-nodejs.
LEMMA NodejsIsProper == Proper(Nodejs)
<1> DEFINE p1 == MustLoad({Master})
           p2 == CreateIdempotently({Batch})
           p3 == CreateIdempotently({Random})
           p4 == MustLoad({Random})
           s2 == p1 \o p2
           s3 == s2 \o p3
           s4 == s3 \o p4
<1>1. Nodejs = s4
  BY DEF Nodejs
<1>2. /\ p1 \in Seq(SoundStep) /\ Begins(p1) /\ Confirmed(p1)
      /\ \A step \in ToSet(p1) : step.do = "mustLoad"
  BY MustLoadSteps, SingleAccounts
<1>3. /\ p2 \in Seq(SoundStep) /\ Confirmed(p2)
      /\ \A step \in ToSet(p2) : step.to = "idempotent"
  BY CreateSteps, SingleAccounts DEF CreateIdempotently
<1>4. /\ p3 \in Seq(SoundStep) /\ Confirmed(p3)
      /\ \A step \in ToSet(p3) : step.to = "idempotent"
  BY CreateSteps, SingleAccounts DEF CreateIdempotently
<1>5. /\ p4 \in Seq(SoundStep) /\ Confirmed(p4)
      /\ \A step \in ToSet(p4) : step.do = "mustLoad"
  BY MustLoadSteps, SingleAccounts
<1> HIDE DEF p1, p2, p3, p4
<1>6. /\ s2 \in Seq(SoundStep) /\ Begins(s2) /\ Confirmed(s2)
      /\ ToSet(s2) = ToSet(p1) \cup ToSet(p2)
  BY <1>2, <1>3, Joined
<1> HIDE DEF s2
<1>7. /\ s3 \in Seq(SoundStep) /\ Begins(s3) /\ Confirmed(s3)
      /\ ToSet(s3) = ToSet(s2) \cup ToSet(p3)
  BY <1>4, <1>6, Joined
<1> HIDE DEF s3
<1>8. /\ s4 \in Seq(SoundStep) /\ Begins(s4) /\ Confirmed(s4)
      /\ ToSet(s4) = ToSet(s3) \cup ToSet(p4)
  BY <1>5, <1>7, Joined
<1> HIDE DEF s4
<1>9. Certain(s4)
  BY <1>2, <1>3, <1>4, <1>5, <1>6, <1>7, <1>8 DEF Certain
<1> QED
  BY <1>1, <1>8, <1>9 DEF Proper

\* All of them.
LEMMA ScriptsAreProper ==
  ASSUME fleet \in Fleets, NEW p \in Program
  PROVE  Proper(Steps(p))
<1>1. fleet \in Nat \ {0}
  BY FleetsAssumption
<1>2. Script[fleet] = [generator |-> Generator(Devices(fleet)),
                       aggregator |-> Aggregator(Devices(fleet)),
                       nodejs |-> Nodejs]
  BY DEF Script
<1>3. CASE p = "generator"
  <2>1. Steps(p) = Generator(Devices(fleet))
    BY <1>2, <1>3 DEF Steps
  <2> QED
    BY <1>1, <2>1, GeneratorIsProper
<1>4. CASE p = "aggregator"
  <2>1. Steps(p) = Aggregator(Devices(fleet))
    BY <1>2, <1>4 DEF Steps
  <2> QED
    BY <1>1, <2>1, AggregatorIsProper
<1>5. CASE p = "nodejs"
  <2>1. Steps(p) = Nodejs
    BY <1>2, <1>5 DEF Steps
  <2> QED
    BY <2>1, NodejsIsProper
<1> QED
  BY <1>3, <1>4, <1>5 DEF Program

-----------------------------------------------------------------------------
(***************************************************************************)
(* The inductive invariant.                                                *)
(***************************************************************************)

State == [process : {"off", "running", "ready", "killed"}, step : Nat \ {0},
          account : Nat, loaded : SUBSET Account, awaited : Nat]
Tx == [program : Program, seq : Nat, do : Submission, lines : SUBSET Line]

Types ==
  /\ fleet \in Fleets
  /\ runs \in 0 .. MaxRuns
  /\ program \in [Program -> State]
  /\ sequence \in Nat
  /\ ledger \subseteq Line /\ funded \subseteq ledger
  /\ pending \in Seq(Tx)
  /\ disturbances \in 0 .. MaxDisturbances
  /\ steady \subseteq Program /\ calm \subseteq steady

\* A program is at a step of its list, or at the end of it, and waits only for
\* Horizon.
Places ==
  \A p \in Program :
    /\ program[p].step <= Len(Steps(p)) + 1
    /\ program[p].awaited <= program[p].account
    /\ program[p].awaited # 0 =>
         /\ program[p].step \in DOMAIN Steps(p)
         /\ StepOf(p).do \in Submission /\ StepOf(p).to # "core"

\* Core queues transactions in the order of their sequence numbers, and no issuer
\* without a batch account.
Queue ==
  \A i \in DOMAIN pending :
    /\ pending[i].seq = sequence + i
    /\ pending[i].do = "create" /\ IssuerLine \in pending[i].lines
         => BatchLine \in pending[i].lines
    /\ pending[i].do = "trust" => IssuerLine \notin pending[i].lines

\* The steps a program is over with, and those it has begun.
Passed(p) == {i \in DOMAIN Steps(p) : i < program[p].step}
Begun(p) == {i \in DOMAIN Steps(p) :
               i < program[p].step \/ (i = program[p].step /\ program[p].awaited # 0)}

\* The trust lines that are there, or will be.
There == ledger \cup Queued({"trust"})

\* The program counts transactions that core never got.
Astray(p) == sequence + Len(pending) < program[p].account

\* The master account belongs to the program.
Alone(p) ==
  /\ \A q \in Program \ {p} : ~Running(q)
  /\ program[p].step = 1 => pending = <<>> /\ program[p].loaded = {}
  /\ program[p].step > 1 => sequence + Len(pending) <= program[p].account

\* It works with accounts that are on the ledger.
Loads(p) ==
  /\ program[p].loaded \X {"XLM"} \subseteq ledger
  /\ \A i \in Passed(p) : Steps(p)[i].do = "mustLoad" => Steps(p)[i].lines \subseteq ledger
  /\ \A i \in Begun(p) :
       Steps(p)[i].do = "trust" => AccountsOf(Steps(p)[i].lines) \subseteq program[p].loaded

\* A trust line is missing only if the program has gone astray, and core would have
\* told it.
Trusts(p) ==
  /\ \A i \in Begun(p) :
       Steps(p)[i].do = "trust" => Steps(p)[i].lines \subseteq There \/ Astray(p)
  /\ \A i, j \in Passed(p) :
       i <= j /\ Steps(p)[i].do = "trust" /\ Confirms(Steps(p)[j])
         => Steps(p)[i].lines \subseteq There

\* An account that may exist does so when the program goes on.
Idempotent(p) ==
  /\ \A i \in Passed(p) : Steps(p)[i].to = "idempotent" => Steps(p)[i].lines \subseteq ledger
  /\ program[p].awaited # 0 /\ StepOf(p).to = "idempotent" =>
       \/ StepOf(p).lines \subseteq ledger
       \/ \E i \in Awaited(p) : pending[i].do = "create" /\ pending[i].lines = StepOf(p).lines

SetUp(p) == Alone(p) /\ Loads(p) /\ Trusts(p) /\ Idempotent(p)

IInv ==
  /\ Types /\ Places /\ Queue
  /\ \A p \in steady : Running(p) => SetUp(p)

-----------------------------------------------------------------------------
(***************************************************************************)
(* What the steps do to the memory of a program.                           *)
(***************************************************************************)

\* Where a program is.
LEMMA Place ==
  ASSUME Types, NEW p \in Program
  PROVE  /\ program[p] \in State /\ Proper(Steps(p))
         /\ Steps(p) \in Seq(SoundStep) /\ DOMAIN Steps(p) = 1 .. Len(Steps(p))
         /\ Len(Steps(p)) \in Nat \ {0} /\ Steps(p)[1].do = "mustLoad"
         /\ \A i \in DOMAIN Steps(p) : Steps(p)[i] \in Step /\ Sound(Steps(p)[i])
<1>1. program[p] \in State /\ Proper(Steps(p))
  BY ScriptsAreProper DEF Types
<1>2. Steps(p) \in Seq(SoundStep) /\ Len(Steps(p)) > 0 /\ Steps(p)[1].do = "mustLoad"
  BY <1>1 DEF Proper, Begins
<1>3. /\ DOMAIN Steps(p) = 1 .. Len(Steps(p)) /\ Len(Steps(p)) \in Nat \ {0}
      /\ \A i \in DOMAIN Steps(p) : Steps(p)[i] \in SoundStep
  BY <1>2
<1> QED
  BY <1>1, <1>2, <1>3 DEF SoundStep

\* The list stays the same.
LEMMA ListsStay ==
  ASSUME fleet' = fleet, NEW p \in Program
  PROVE  Steps(p)' = Steps(p)
BY DEF Steps

\* On to the next step.
LEMMA OnwardIs ==
  ASSUME Types, NEW p \in Program
  PROVE  /\ Onward(p) \in State
         /\ Onward(p).process = program[p].process /\ Onward(p).step = program[p].step + 1
         /\ Onward(p).account = program[p].account /\ Onward(p).loaded = program[p].loaded
         /\ Onward(p).awaited = 0
<1> DEFINE m == program[p]
<1>1. m \in State
  BY DEF Types
<1>2. Onward(p) = [m EXCEPT !.step = m.step + 1, !.awaited = 0]
  BY DEF Onward
<1>3. m.step + 1 \in Nat \ {0}
  BY <1>1 DEF State
<1> HIDE DEF m
<1>4. /\ DOMAIN m = {"process", "step", "account", "loaded", "awaited"}
      /\ m.process \in {"off", "running", "ready", "killed"} /\ m.account \in Nat
      /\ m.loaded \in SUBSET Account
  BY <1>1 DEF State
<1>5. Onward(p) = [process |-> m.process, step |-> m.step + 1, account |-> m.account,
                   loaded |-> m.loaded, awaited |-> 0]
  BY <1>1, <1>2 DEF State
<1>6. /\ Onward(p) \in State /\ Onward(p).process = m.process /\ Onward(p).step = m.step + 1
      /\ Onward(p).account = m.account /\ Onward(p).loaded = m.loaded
      /\ Onward(p).awaited = 0
  BY <1>3, <1>4, <1>5 DEF State
<1> QED
  BY <1>6 DEF m

\* One transaction more.
LEMMA CountedIs ==
  ASSUME NEW state \in State
  PROVE  /\ Counted(state) \in State
         /\ Counted(state).process = state.process /\ Counted(state).step = state.step
         /\ Counted(state).account = state.account + 1
         /\ Counted(state).loaded = state.loaded /\ Counted(state).awaited = state.awaited
BY DEF Counted, State

\* A program that has not started, or has ended.
LEMMA MemoryIs ==
  ASSUME NEW process \in {"off", "running", "ready", "killed"}
  PROVE  /\ Memory(process) \in State
         /\ Memory(process).process = process /\ Memory(process).step = 1
         /\ Memory(process).account = 0 /\ Memory(process).loaded = {}
         /\ Memory(process).awaited = 0
BY DEF Memory, State

\* The step a program is at.
LEMMA CurrentStep ==
  ASSUME Types, NEW p \in Program, NEW kinds, At(p, kinds)
  PROVE  /\ Running(p) /\ program[p].awaited = 0
         /\ program[p].step \in DOMAIN Steps(p) /\ StepOf(p) = Steps(p)[program[p].step]
         /\ StepOf(p).do \in kinds /\ StepOf(p) \in Step /\ Sound(StepOf(p))
<1>1. program[p] \in State /\ program[p].step \in Nat \ {0}
  BY DEF Types, State
<1>2. program[p].step \in DOMAIN Steps(p)
  BY <1>1, Place DEF At
<1> QED
  BY <1>2, Place DEF At, StepOf

-----------------------------------------------------------------------------
(***************************************************************************)
(* Types, places and the queue.                                            *)
(***************************************************************************)

\* One program moves.
LEMMA MoveKeepsPlaces ==
  ASSUME Types, Places, NEW p \in Program, NEW m \in State,
         program' = [program EXCEPT ![p] = m], fleet' = fleet,
         m.step <= Len(Steps(p)) + 1, m.awaited <= m.account,
         m.awaited # 0 => /\ m.step \in DOMAIN Steps(p)
                          /\ Steps(p)[m.step].do \in Submission /\ Steps(p)[m.step].to # "core"
  PROVE  Places' /\ program' \in [Program -> State]
<1>1. program \in [Program -> State]
  BY DEF Types
<1>2. /\ program' \in [Program -> State] /\ program'[p] = m
      /\ \A q \in Program \ {p} : program'[q] = program[q]
  BY <1>1
<1>3. \A q \in Program : Steps(q)' = Steps(q)
  BY ListsStay
<1>4. Places'
  <2> SUFFICES ASSUME NEW q \in Program
               PROVE  /\ program'[q].step <= Len(Steps(q)) + 1
                      /\ program'[q].awaited <= program'[q].account
                      /\ program'[q].awaited # 0 =>
                           /\ program'[q].step \in DOMAIN Steps(q)
                           /\ Steps(q)[program'[q].step].do \in Submission
                           /\ Steps(q)[program'[q].step].to # "core"
    BY <1>3 DEF Places, StepOf
  <2>1. CASE q = p
    BY <1>2, <2>1
  <2>2. CASE q # p
    BY <1>2, <2>2 DEF Places, StepOf
  <2> QED
    BY <2>1, <2>2
<1> QED
  BY <1>2, <1>4

\* A transaction joins the queue.
LEMMA EnqueueKeepsQueue ==
  ASSUME Types, Queue, NEW p \in Program, At(p, Submission), Valid(Transaction(p)),
         pending' = Append(pending, Transaction(p)), sequence' = sequence
  PROVE  /\ Queue' /\ pending' \in Seq(Tx) /\ Len(pending') = Len(pending) + 1
         /\ DOMAIN pending' = 1 .. Len(pending) + 1
         /\ \A i \in 1 .. Len(pending) : pending'[i] = pending[i]
         /\ pending'[Len(pending) + 1] = Transaction(p)
         /\ program[p].account = sequence + Len(pending)
<1> DEFINE tx == Transaction(p)
<1>1. /\ StepOf(p).do \in Submission /\ StepOf(p) \in Step /\ Sound(StepOf(p))
  BY CurrentStep
<1>2. pending \in Seq(Tx) /\ sequence \in Nat /\ Len(pending) \in Nat
      /\ program[p] \in State /\ program[p].account \in Nat
  BY DEF Types, State
<1>3. /\ tx \in Tx /\ tx.program = p /\ tx.seq = program[p].account + 1
      /\ tx.do = StepOf(p).do /\ tx.lines = StepOf(p).lines
  BY <1>1, <1>2 DEF Transaction, Tx, Step
<1>4. tx.seq = sequence + Len(pending) + 1
  BY DEF Valid
<1> HIDE DEF tx
<1>5. /\ pending' \in Seq(Tx) /\ Len(pending') = Len(pending) + 1
      /\ DOMAIN pending' = 1 .. Len(pending) + 1
      /\ \A i \in 1 .. Len(pending) : pending'[i] = pending[i]
      /\ pending'[Len(pending) + 1] = tx
  <2>1. pending' = Append(pending, tx)
    BY DEF tx
  <2> QED
    BY <1>2, <1>3, <2>1
<1>6. program[p].account = sequence + Len(pending)
  BY <1>2, <1>3, <1>4
<1>7. Queue'
  <2> SUFFICES ASSUME NEW i \in 1 .. Len(pending) + 1
               PROVE  /\ pending'[i].seq = sequence + i
                      /\ pending'[i].do = "create" /\ IssuerLine \in pending'[i].lines
                           => BatchLine \in pending'[i].lines
                      /\ pending'[i].do = "trust" => IssuerLine \notin pending'[i].lines
    BY <1>5 DEF Queue
  <2>1. CASE i \in 1 .. Len(pending)
    <3>1. i \in DOMAIN pending /\ pending'[i] = pending[i]
      BY <1>2, <1>5, <2>1
    <3> QED
      BY <3>1 DEF Queue
  <2>2. CASE i = Len(pending) + 1
    <3>1. pending'[i] = tx
      BY <1>5, <2>2
    <3>2. tx.seq = sequence + i
      BY <1>2, <1>4, <2>2
    <3> QED
      BY <1>1, <1>3, <3>1, <3>2 DEF Sound
  <2> QED
    BY <1>2, <2>1, <2>2
<1> QED
  BY <1>5, <1>6, <1>7 DEF tx

\* The lines that are there, or will be.
LEMMA EnqueueAddsLines ==
  ASSUME Types, Queue, NEW p \in Program, At(p, Submission), Valid(Transaction(p)),
         pending' = Append(pending, Transaction(p)), UNCHANGED <<sequence, ledger>>
  PROVE  /\ There \subseteq There'
         /\ StepOf(p).do = "trust" => StepOf(p).lines \subseteq There'
<1>1. /\ DOMAIN pending' = 1 .. Len(pending) + 1
      /\ \A i \in 1 .. Len(pending) : pending'[i] = pending[i]
      /\ pending'[Len(pending) + 1] = Transaction(p)
      /\ Len(pending) \in Nat /\ DOMAIN pending = 1 .. Len(pending)
  BY EnqueueKeepsQueue DEF Types
<1>2. /\ 1 .. Len(pending) \subseteq 1 .. Len(pending) + 1
      /\ Len(pending) + 1 \in 1 .. Len(pending) + 1
  BY <1>1
<1>3. Queued({"trust"}) \subseteq Queued({"trust"})'
  BY <1>1, <1>2 DEF Queued
<1>4. StepOf(p).do = "trust" => StepOf(p).lines \subseteq Queued({"trust"})'
  <2>1. /\ Transaction(p).do = StepOf(p).do
        /\ Transaction(p).lines = StepOf(p).lines
    BY DEF Transaction
  <2> QED
    BY <1>1, <1>2, <2>1 DEF Queued
<1> QED
  BY <1>3, <1>4 DEF There

-----------------------------------------------------------------------------
(***************************************************************************)
(* A program moves, and the invariant holds on.                            *)
(***************************************************************************)

\* A steady run meets no other, so only its own moves matter.
LEMMA Moves ==
  ASSUME IInv, NEW p \in Program, Running(p), NEW m \in State,
         program' = [program EXCEPT ![p] = m],
         UNCHANGED <<fleet, runs, sequence, ledger, funded>>,
         \/ UNCHANGED pending
         \/ /\ At(p, Submission) /\ Valid(Transaction(p))
            /\ pending' = Append(pending, Transaction(p)),
         disturbances' \in 0 .. MaxDisturbances,
         steady' \subseteq steady, calm' \subseteq steady',
         m.step <= Len(Steps(p)) + 1, m.awaited <= m.account,
         m.awaited # 0 => /\ m.step \in DOMAIN Steps(p)
                          /\ Steps(p)[m.step].do \in Submission /\ Steps(p)[m.step].to # "core",
         p \in steady' /\ m.process = "running" => SetUp(p)'
  PROVE  IInv'
<1>1. Types /\ Places /\ Queue
  BY DEF IInv
<1>2. Places' /\ program' \in [Program -> State]
  BY <1>1, MoveKeepsPlaces
<1>3. Queue' /\ pending' \in Seq(Tx)
  <2>1. CASE UNCHANGED pending
    BY <1>1, <2>1 DEF Queue, Types
  <2>2. CASE /\ At(p, Submission) /\ Valid(Transaction(p))
             /\ pending' = Append(pending, Transaction(p))
    BY <1>1, <2>2, EnqueueKeepsQueue
  <2> QED
    BY <2>1, <2>2
<1>4. Types'
  BY <1>1, <1>2, <1>3 DEF Types
<1>5. ASSUME NEW q \in steady', Running(q)' PROVE SetUp(q)'
  <2>1. /\ program \in [Program -> State] /\ q \in Program /\ q \in steady
    BY <1>1 DEF Types
  <2>2. CASE q = p
    <3>1. program'[p] = m
      BY <2>1
    <3>2. m.process = "running"
      BY <1>5, <2>2, <3>1 DEF Running
    <3> QED
      BY <2>2, <3>2
  <2>3. CASE q # p
    <3>1. program'[q] = program[q]
      BY <2>1, <2>3
    <3>2. Running(q)
      BY <1>5, <3>1 DEF Running
    <3>3. SetUp(q)
      BY <2>1, <3>2 DEF IInv
    <3> QED
      BY <2>3, <3>3 DEF SetUp, Alone
  <2> QED
    BY <2>2, <2>3
<1> QED
  BY <1>2, <1>3, <1>4, <1>5 DEF IInv

\* What a steady run knows.
LEMMA Knows ==
  ASSUME IInv, NEW p \in steady, Running(p), NEW m \in State,
         program' = [program EXCEPT ![p] = m], fleet' = fleet
  PROVE  /\ Types /\ Places /\ Queue /\ SetUp(p) /\ p \in Program
         /\ program[p] \in State /\ program[p].step \in Nat \ {0} /\ program[p].account \in Nat
         /\ program'[p] = m /\ Steps(p)' = Steps(p)
         /\ \A q \in Program \ {p} : ~Running(q)'
         /\ sequence \in Nat /\ Len(pending) \in Nat
<1>1. Types /\ Places /\ Queue /\ SetUp(p)
  BY DEF IInv
<1>2. p \in Program /\ program \in [Program -> State] /\ sequence \in Nat /\ pending \in Seq(Tx)
  BY <1>1 DEF Types
<1>3. program[p] \in State /\ program[p].step \in Nat \ {0} /\ program[p].account \in Nat
  BY <1>2 DEF State
<1>4. program'[p] = m /\ \A q \in Program \ {p} : program'[q] = program[q]
  BY <1>2
<1>5. \A q \in Program \ {p} : ~Running(q)'
  BY <1>1, <1>4 DEF SetUp, Alone, Running
<1> QED
  BY <1>1, <1>2, <1>3, <1>4, <1>5, ListsStay

\* The next step.
LEMMA PassedOneMore ==
  ASSUME IInv, NEW p \in steady, Running(p), NEW m \in State,
         program' = [program EXCEPT ![p] = m], fleet' = fleet,
         program[p].step \in DOMAIN Steps(p),
         m.step = program[p].step + 1, m.awaited = 0
  PROVE  /\ Passed(p)' = Passed(p) \cup {program[p].step}
         /\ Begun(p)' = Passed(p) \cup {program[p].step}
         /\ Passed(p) \subseteq Begun(p) /\ Passed(p) \subseteq DOMAIN Steps(p)
         /\ program[p].awaited # 0 => program[p].step \in Begun(p)
<1>1. /\ program[p].step \in Nat \ {0} /\ program'[p] = m /\ Steps(p)' = Steps(p)
      /\ Types /\ p \in Program
  BY Knows
<1>2. DOMAIN Steps(p) \subseteq Nat
  BY <1>1, Place
<1>3. \A i \in DOMAIN Steps(p) :
        (i < m.step <=> i < program[p].step \/ i = program[p].step)
  BY <1>1, <1>2
<1> QED
  BY <1>1, <1>3 DEF Passed, Begun

\* Accounts are loaded.
LEMMA LoadKeepsSetUp ==
  ASSUME IInv, NEW p \in steady, Running(p), NEW m \in State,
         program' = [program EXCEPT ![p] = m],
         UNCHANGED <<fleet, sequence, ledger, pending>>,
         At(p, {"mustLoad", "load"}), NEW accounts, accounts \X {"XLM"} \subseteq ledger,
         StepOf(p).do = "mustLoad" => StepOf(p).lines \subseteq ledger,
         m.step = program[p].step + 1, m.awaited = 0,
         m.account = (IF program[p].step = 1 THEN sequence ELSE program[p].account),
         m.loaded = program[p].loaded \cup accounts
  PROVE  SetUp(p)'
<1> DEFINE s == program[p].step
<1>1. /\ Types /\ Places /\ Queue /\ SetUp(p) /\ p \in Program
      /\ program[p] \in State /\ s \in Nat \ {0} /\ program[p].account \in Nat
      /\ program'[p] = m /\ Steps(p)' = Steps(p)
      /\ \A q \in Program \ {p} : ~Running(q)'
      /\ sequence \in Nat /\ Len(pending) \in Nat
  BY Knows
<1>2. /\ s \in DOMAIN Steps(p) /\ StepOf(p) = Steps(p)[s] /\ Sound(StepOf(p))
      /\ StepOf(p).do \in {"mustLoad", "load"} /\ StepOf(p).to \in {"fatal", "nil"}
      /\ DOMAIN Steps(p) \subseteq Nat
  BY <1>1, CurrentStep, Place DEF Sound
<1>3. /\ Passed(p)' = Passed(p) \cup {s} /\ Begun(p)' = Passed(p) \cup {s}
      /\ Passed(p) \subseteq Begun(p)
  BY <1>2, PassedOneMore
<1>4. Alone(p)'
  <2>1. m.step > 1 /\ m.step # 1
    BY <1>1
  <2>2. sequence + Len(pending) <= m.account
    <3>1. CASE s = 1
      <4>1. pending = <<>>
        BY <1>1, <3>1 DEF SetUp, Alone
      <4> QED
        BY <1>1, <3>1, <4>1
    <3>2. CASE s # 1
      BY <1>1, <3>2 DEF SetUp, Alone
    <3> QED
      BY <3>1, <3>2
  <2> QED
    BY <1>1, <2>1, <2>2 DEF Alone
<1>5. Loads(p)'
  <2>1. m.loaded \X {"XLM"} \subseteq ledger
    BY <1>1 DEF SetUp, Loads
  <2>2. \A i \in Passed(p) \cup {s} :
          Steps(p)[i].do = "mustLoad" => Steps(p)[i].lines \subseteq ledger
    BY <1>1, <1>2 DEF SetUp, Loads
  <2>3. \A i \in Passed(p) \cup {s} :
          Steps(p)[i].do = "trust" => AccountsOf(Steps(p)[i].lines) \subseteq m.loaded
    BY <1>1, <1>2, <1>3 DEF SetUp, Loads
  <2> QED
    BY <1>1, <1>3, <2>1, <2>2, <2>3 DEF Loads
<1>6. Trusts(p)'
  <2>1. There' = There
    BY DEF There, Queued
  <2>2. \A i \in Passed(p) \cup {s} :
          Steps(p)[i].do = "trust" => Steps(p)[i].lines \subseteq There \/ Astray(p)'
    <3> SUFFICES ASSUME NEW i \in Passed(p), Steps(p)[i].do = "trust"
                 PROVE  Steps(p)[i].lines \subseteq There \/ Astray(p)'
      BY <1>2
    <3>1. i < s /\ i \in DOMAIN Steps(p) /\ i >= 1
      BY <1>1, Place DEF Passed
    <3>2. s # 1
      BY <1>1, <1>2, <3>1
    <3>3. m.account = program[p].account
      BY <3>2
    <3>4. Astray(p)' = Astray(p)
      BY <1>1, <3>3 DEF Astray
    <3> QED
      BY <1>1, <1>3, <3>4 DEF SetUp, Trusts
  <2>3. \A i, j \in Passed(p) \cup {s} :
          i <= j /\ Steps(p)[i].do = "trust" /\ Confirms(Steps(p)[j])
            => Steps(p)[i].lines \subseteq There
    <3>1. ~Confirms(Steps(p)[s]) /\ Steps(p)[s].do # "trust"
      BY <1>2 DEF Confirms
    <3> QED
      BY <1>1, <3>1 DEF SetUp, Trusts
  <2> QED
    BY <1>1, <1>3, <2>1, <2>2, <2>3 DEF Trusts
<1>7. Idempotent(p)'
  BY <1>1, <1>2, <1>3 DEF SetUp, Idempotent
<1> QED
  BY <1>4, <1>5, <1>6, <1>7 DEF SetUp

\* Horizon answers, or nobody waits any longer.
LEMMA AnswerKeepsSetUp ==
  ASSUME IInv, NEW p \in steady, Running(p), NEW m \in State,
         program' = [program EXCEPT ![p] = m],
         UNCHANGED <<fleet, sequence, ledger, pending>>,
         program[p].awaited # 0, StepOf(p).to = "idempotent" => Awaited(p) = {},
         m.step = program[p].step + 1, m.awaited = 0,
         m.account = program[p].account, m.loaded = program[p].loaded
  PROVE  SetUp(p)'
<1> DEFINE s == program[p].step
<1>1. /\ Types /\ Places /\ Queue /\ SetUp(p) /\ p \in Program
      /\ program[p] \in State /\ s \in Nat \ {0} /\ program[p].account \in Nat
      /\ program'[p] = m /\ Steps(p)' = Steps(p)
      /\ \A q \in Program \ {p} : ~Running(q)'
      /\ sequence \in Nat /\ Len(pending) \in Nat
  BY Knows
<1>2. /\ s \in DOMAIN Steps(p) /\ StepOf(p) = Steps(p)[s]
      /\ StepOf(p).do \in Submission /\ StepOf(p).to # "core"
      /\ Steps(p)[1].do = "mustLoad"
  BY <1>1, Place DEF Places, StepOf
<1>3. /\ Passed(p)' = Passed(p) \cup {s} /\ Begun(p)' = Passed(p) \cup {s}
      /\ Passed(p) \subseteq Begun(p) /\ s \in Begun(p)
  BY <1>2, PassedOneMore
<1>4. Alone(p)'
  <2>1. s # 1
    BY <1>2 DEF Submission
  <2>2. s > 1 /\ m.step # 1
    BY <1>1, <2>1
  <2>3. sequence + Len(pending) <= m.account
    BY <1>1, <2>2 DEF SetUp, Alone
  <2> QED
    BY <1>1, <2>2, <2>3 DEF Alone
<1>5. Loads(p)'
  <2>1. Steps(p)[s].do # "mustLoad"
    BY <1>2 DEF Submission
  <2> QED
    BY <1>1, <1>3, <2>1 DEF SetUp, Loads
<1>6. Trusts(p)'
  <2>1. There' = There /\ Astray(p)' = Astray(p)
    BY <1>1 DEF There, Queued, Astray
  <2>2. ~Confirms(Steps(p)[s])
    BY <1>2 DEF Confirms
  <2>3. \A i \in Passed(p) \cup {s} :
          Steps(p)[i].do = "trust" => Steps(p)[i].lines \subseteq There \/ Astray(p)
    BY <1>1, <1>3 DEF SetUp, Trusts
  <2>4. \A i, j \in Passed(p) \cup {s} :
          i <= j /\ Steps(p)[i].do = "trust" /\ Confirms(Steps(p)[j])
            => Steps(p)[i].lines \subseteq There
    <3> SUFFICES ASSUME NEW i \in Passed(p) \cup {s}, NEW j \in Passed(p),
                        i <= j, Steps(p)[i].do = "trust", Confirms(Steps(p)[j])
                 PROVE  Steps(p)[i].lines \subseteq There
      BY <2>2
    <3>1. j < s /\ j \in Nat
      BY <1>1, Place DEF Passed
    <3>2. i # s
      BY <1>1, <3>1
    <3> QED
      BY <1>1, <3>2 DEF SetUp, Trusts
  <2> QED
    BY <1>1, <1>3, <2>1, <2>3, <2>4 DEF Trusts
<1>7. Idempotent(p)'
  <2>1. Steps(p)[s].to = "idempotent" => Steps(p)[s].lines \subseteq ledger
    BY <1>1, <1>2 DEF SetUp, Idempotent
  <2> QED
    BY <1>1, <1>3, <2>1 DEF SetUp, Idempotent
<1> QED
  BY <1>4, <1>5, <1>6, <1>7 DEF SetUp

\* What a steady run knows about the transaction it submits.
LEMMA Submits ==
  ASSUME IInv, NEW p \in steady, At(p, Submission)
  PROVE  /\ Running(p) /\ program[p].awaited = 0
         /\ program[p].step \in DOMAIN Steps(p) /\ StepOf(p) = Steps(p)[program[p].step]
         /\ StepOf(p).do \in Submission /\ Sound(StepOf(p))
         /\ DOMAIN Steps(p) \subseteq Nat
         /\ program[p].step > 1 /\ sequence + Len(pending) <= program[p].account
<1>1. Types /\ p \in Program /\ program[p] \in State /\ program[p].step \in Nat \ {0}
  BY DEF IInv, Types, State
<1>2. /\ Running(p) /\ program[p].awaited = 0
      /\ program[p].step \in DOMAIN Steps(p) /\ StepOf(p) = Steps(p)[program[p].step]
      /\ StepOf(p).do \in Submission /\ Sound(StepOf(p))
  BY <1>1, CurrentStep
<1>3. Steps(p)[1].do = "mustLoad" /\ DOMAIN Steps(p) \subseteq Nat
  BY <1>1, Place
<1>4. program[p].step # 1
  BY <1>2, <1>3 DEF Submission
<1>5. program[p].step > 1
  BY <1>1, <1>4
<1>6. Alone(p)
  BY <1>2 DEF IInv, SetUp
<1> QED
  BY <1>2, <1>3, <1>5, <1>6 DEF Alone

\* Core never gets the transaction, and the program logs that.
LEMMA RefusalKeepsSetUp ==
  ASSUME IInv, NEW p \in steady, NEW m \in State,
         program' = [program EXCEPT ![p] = m],
         UNCHANGED <<fleet, sequence, ledger, pending>>,
         At(p, Submission), ~NilAccount(p), StepOf(p).to = "horizon",
         m.step = program[p].step + 1, m.awaited = 0,
         m.account = program[p].account + 1, m.loaded = program[p].loaded
  PROVE  SetUp(p)'
<1> DEFINE s == program[p].step
<1>1. /\ Running(p) /\ program[p].awaited = 0
      /\ s \in DOMAIN Steps(p) /\ StepOf(p) = Steps(p)[s] /\ StepOf(p).do \in Submission
      /\ DOMAIN Steps(p) \subseteq Nat
      /\ s > 1 /\ sequence + Len(pending) <= program[p].account
  BY Submits
<1>2. /\ Types /\ Places /\ Queue /\ SetUp(p) /\ p \in Program
      /\ program[p] \in State /\ s \in Nat \ {0} /\ program[p].account \in Nat
      /\ program'[p] = m /\ Steps(p)' = Steps(p)
      /\ \A q \in Program \ {p} : ~Running(q)'
      /\ sequence \in Nat /\ Len(pending) \in Nat
  BY <1>1, Knows
<1>3. /\ Passed(p)' = Passed(p) \cup {s} /\ Begun(p)' = Passed(p) \cup {s}
      /\ Passed(p) \subseteq Begun(p)
  BY <1>1, PassedOneMore
<1>4. Alone(p)'
  <2>1. m.step # 1 /\ sequence + Len(pending) <= m.account
    BY <1>1, <1>2
  <2> QED
    BY <1>2, <2>1 DEF Alone
<1>5. Loads(p)'
  <2>1. Steps(p)[s].do # "mustLoad"
    BY <1>1 DEF Submission
  <2>2. Steps(p)[s].do = "trust" => AccountsOf(Steps(p)[s].lines) \subseteq program[p].loaded
    BY <1>1 DEF NilAccount
  <2> QED
    BY <1>2, <1>3, <2>1, <2>2 DEF SetUp, Loads
<1>6. Trusts(p)'
  <2>1. There' = There
    BY DEF There, Queued
  <2>2. Astray(p)'
    BY <1>1, <1>2 DEF Astray
  <2>3. ~Confirms(Steps(p)[s])
    BY <1>1 DEF Confirms
  <2>4. \A i, j \in Passed(p) \cup {s} :
          i <= j /\ Steps(p)[i].do = "trust" /\ Confirms(Steps(p)[j])
            => Steps(p)[i].lines \subseteq There
    <3> SUFFICES ASSUME NEW i \in Passed(p) \cup {s}, NEW j \in Passed(p),
                        i <= j, Steps(p)[i].do = "trust", Confirms(Steps(p)[j])
                 PROVE  Steps(p)[i].lines \subseteq There
      BY <2>3
    <3>1. j < s /\ j \in Nat
      BY <1>1, <1>2 DEF Passed
    <3>2. i # s
      BY <1>2, <3>1
    <3> QED
      BY <1>2, <3>2 DEF SetUp, Trusts
  <2> QED
    BY <1>2, <1>3, <2>1, <2>2, <2>4 DEF Trusts
<1>7. Idempotent(p)'
  BY <1>1, <1>2, <1>3 DEF SetUp, Idempotent
<1> QED
  BY <1>4, <1>5, <1>6, <1>7 DEF SetUp

\* Core queues the transaction, and the program does not wait for Horizon.
LEMMA QueueingKeepsSetUp ==
  ASSUME IInv, NEW p \in steady, NEW m \in State,
         program' = [program EXCEPT ![p] = m],
         UNCHANGED <<fleet, sequence, ledger>>,
         At(p, Submission), ~NilAccount(p), Valid(Transaction(p)),
         pending' = Append(pending, Transaction(p)), StepOf(p).to # "idempotent",
         m.step = program[p].step + 1, m.awaited = 0,
         m.account = program[p].account + 1, m.loaded = program[p].loaded
  PROVE  SetUp(p)'
<1> DEFINE s == program[p].step
<1>1. /\ Running(p) /\ program[p].awaited = 0
      /\ s \in DOMAIN Steps(p) /\ StepOf(p) = Steps(p)[s] /\ StepOf(p).do \in Submission
      /\ DOMAIN Steps(p) \subseteq Nat
      /\ s > 1
  BY Submits
<1>2. /\ Types /\ Places /\ Queue /\ SetUp(p) /\ p \in Program
      /\ program[p] \in State /\ s \in Nat \ {0} /\ program[p].account \in Nat
      /\ program'[p] = m /\ Steps(p)' = Steps(p)
      /\ \A q \in Program \ {p} : ~Running(q)'
      /\ sequence \in Nat /\ Len(pending) \in Nat
  BY <1>1, Knows
<1>3. /\ Passed(p)' = Passed(p) \cup {s} /\ Begun(p)' = Passed(p) \cup {s}
      /\ Passed(p) \subseteq Begun(p)
  BY <1>1, PassedOneMore
<1>4. Len(pending') = Len(pending) + 1 /\ program[p].account = sequence + Len(pending)
  BY <1>2, EnqueueKeepsQueue
<1>5. There \subseteq There' /\ (StepOf(p).do = "trust" => StepOf(p).lines \subseteq There')
  BY <1>2, EnqueueAddsLines
<1>6. Alone(p)'
  <2>1. m.step # 1 /\ sequence + Len(pending') <= m.account
    BY <1>1, <1>2, <1>4
  <2> QED
    BY <1>2, <2>1 DEF Alone
<1>7. Loads(p)'
  <2>1. Steps(p)[s].do # "mustLoad"
    BY <1>1 DEF Submission
  <2>2. Steps(p)[s].do = "trust" => AccountsOf(Steps(p)[s].lines) \subseteq program[p].loaded
    BY <1>1 DEF NilAccount
  <2> QED
    BY <1>2, <1>3, <2>1, <2>2 DEF SetUp, Loads
<1>8. Trusts(p)'
  <2>1. ~Astray(p)
    BY <1>2, <1>4 DEF Astray
  <2>2. \A i \in Passed(p) \cup {s} :
          Steps(p)[i].do = "trust" => Steps(p)[i].lines \subseteq There'
    BY <1>1, <1>2, <1>3, <1>5, <2>1 DEF SetUp, Trusts
  <2> QED
    BY <1>2, <1>3, <2>2 DEF Trusts
<1>9. Idempotent(p)'
  BY <1>1, <1>2, <1>3 DEF SetUp, Idempotent
<1> QED
  BY <1>6, <1>7, <1>8, <1>9 DEF SetUp

\* Core queues the transaction, and the program waits for Horizon.
LEMMA WaitingKeepsSetUp ==
  ASSUME IInv, NEW p \in steady, NEW m \in State,
         program' = [program EXCEPT ![p] = m],
         UNCHANGED <<fleet, sequence, ledger>>,
         At(p, Submission), ~NilAccount(p), Valid(Transaction(p)),
         pending' = Append(pending, Transaction(p)),
         m.step = program[p].step, m.awaited = program[p].account + 1,
         m.account = program[p].account + 1, m.loaded = program[p].loaded
  PROVE  SetUp(p)'
<1> DEFINE s == program[p].step
<1>1. /\ Running(p) /\ program[p].awaited = 0
      /\ s \in DOMAIN Steps(p) /\ StepOf(p) = Steps(p)[s] /\ StepOf(p).do \in Submission
      /\ DOMAIN Steps(p) \subseteq Nat /\ Sound(StepOf(p))
      /\ s > 1
  BY Submits
<1>2. /\ Types /\ Places /\ Queue /\ SetUp(p) /\ p \in Program
      /\ program[p] \in State /\ s \in Nat \ {0} /\ program[p].account \in Nat
      /\ program'[p] = m /\ Steps(p)' = Steps(p)
      /\ \A q \in Program \ {p} : ~Running(q)'
      /\ sequence \in Nat /\ Len(pending) \in Nat
  BY <1>1, Knows
<1>3. m.awaited # 0
  BY <1>2
<1>4. /\ Passed(p)' = Passed(p) /\ Begun(p)' = Passed(p) \cup {s}
      /\ Passed(p) \subseteq Begun(p)
  BY <1>1, <1>2, <1>3 DEF Passed, Begun
<1>5. /\ Len(pending') = Len(pending) + 1 /\ program[p].account = sequence + Len(pending)
      /\ Len(pending) + 1 \in DOMAIN pending'
      /\ pending'[Len(pending) + 1] = Transaction(p)
  BY <1>2, EnqueueKeepsQueue
<1>6. There \subseteq There' /\ (StepOf(p).do = "trust" => StepOf(p).lines \subseteq There')
  BY <1>2, EnqueueAddsLines
<1>7. Alone(p)'
  <2>1. m.step # 1 /\ sequence + Len(pending') <= m.account
    BY <1>1, <1>2, <1>5
  <2> QED
    BY <1>2, <2>1 DEF Alone
<1>8. Loads(p)'
  <2>1. Steps(p)[s].do = "trust" => AccountsOf(Steps(p)[s].lines) \subseteq program[p].loaded
    BY <1>1 DEF NilAccount
  <2> QED
    BY <1>2, <1>4, <2>1 DEF SetUp, Loads
<1>9. Trusts(p)'
  <2>1. ~Astray(p)
    BY <1>2, <1>5 DEF Astray
  <2>2. \A i \in Passed(p) \cup {s} :
          Steps(p)[i].do = "trust" => Steps(p)[i].lines \subseteq There'
    BY <1>1, <1>2, <1>4, <1>6, <2>1 DEF SetUp, Trusts
  <2> QED
    BY <1>2, <1>4, <2>2 DEF Trusts
<1>10. Idempotent(p)'
  <2>1. StepOf(p)' = StepOf(p)
    BY <1>1, <1>2 DEF StepOf
  <2>2. StepOf(p).to = "idempotent" =>
          \E i \in Awaited(p)' : pending'[i].do = "create" /\ pending'[i].lines = StepOf(p).lines
    <3>1. /\ Transaction(p).program = p /\ Transaction(p).seq = program[p].account + 1
          /\ Transaction(p).do = StepOf(p).do /\ Transaction(p).lines = StepOf(p).lines
      BY DEF Transaction
    <3>2. Len(pending) + 1 \in Awaited(p)'
      BY <1>2, <1>5, <3>1 DEF Awaited
    <3> QED
      BY <1>1, <1>5, <3>1, <3>2 DEF Sound
  <2>3. \A i \in Passed(p) : Steps(p)[i].to = "idempotent" => Steps(p)[i].lines \subseteq ledger
    BY <1>2 DEF SetUp, Idempotent
  <2> QED
    BY <1>2, <1>4, <2>1, <2>2, <2>3 DEF Idempotent
<1> QED
  BY <1>7, <1>8, <1>9, <1>10 DEF SetUp

-----------------------------------------------------------------------------
(***************************************************************************)
(* The ledger moves.                                                       *)
(***************************************************************************)

\* What is left of the queue.
LEMMA QueueLeft ==
  ASSUME Types, Apply
  PROVE  /\ Len(pending) \in Nat \ {0} /\ sequence \in Nat /\ Head(pending) = pending[1]
         /\ 1 \in DOMAIN pending /\ pending[1] \in Tx
         /\ pending' \in Seq(Tx) /\ Len(pending') = Len(pending) - 1
         /\ \A i \in DOMAIN pending' : i + 1 \in DOMAIN pending /\ pending'[i] = pending[i + 1]
         /\ \A i \in DOMAIN pending : i = 1 \/ (i - 1 \in DOMAIN pending'
                                                /\ pending'[i - 1] = pending[i])
<1>1. /\ pending \in Seq(Tx) /\ pending # <<>> /\ pending' = Tail(pending) /\ sequence \in Nat
  BY DEF Apply, Types
<1>2. Len(pending) \in Nat \ {0} /\ DOMAIN pending = 1 .. Len(pending)
  BY <1>1
<1>3. /\ Head(pending) = pending[1] /\ pending' \in Seq(Tx)
      /\ Len(pending') = Len(pending) - 1 /\ DOMAIN pending' = 1 .. Len(pending) - 1
      /\ \A i \in 1 .. Len(pending) - 1 : pending'[i] = pending[i + 1]
  BY <1>1, HeadTailProperties
<1>4. 1 \in DOMAIN pending /\ pending[1] \in Tx
  BY <1>1, <1>2
<1>5. \A i \in 1 .. Len(pending) - 1 : i + 1 \in 1 .. Len(pending)
  BY <1>2
<1>6. ASSUME NEW i \in 1 .. Len(pending), i # 1
      PROVE  i - 1 \in 1 .. Len(pending) - 1 /\ (i - 1) + 1 = i
  BY <1>2, <1>6
<1>7. \A i \in DOMAIN pending : i = 1 \/ (i - 1 \in DOMAIN pending' /\ pending'[i - 1] = pending[i])
  BY <1>2, <1>3, <1>6
<1> QED
  BY <1>1, <1>2, <1>3, <1>4, <1>5, <1>7

\* The lines of a transaction that is applied are there afterwards.
LEMMA Applied ==
  ASSUME Types, Apply
  PROVE  /\ ledger \subseteq ledger' /\ There \subseteq There'
         /\ pending[1].do = "create" =>
              \/ pending[1].lines \subseteq ledger'
              \/ \E line \in pending[1].lines : line \in ledger'
<1>1. /\ Head(pending) = pending[1] /\ 1 \in DOMAIN pending /\ pending[1] \in Tx
      /\ \A i \in DOMAIN pending : i = 1 \/ (i - 1 \in DOMAIN pending'
                                             /\ pending'[i - 1] = pending[i])
  BY QueueLeft
<1>2. ledger' = IF Succeeds(pending[1]) /\ pending[1].do # "fund"
                  THEN ledger \cup pending[1].lines ELSE ledger
  BY <1>1 DEF Apply
<1>3. ledger \subseteq ledger'
  BY <1>2
<1>4. There \subseteq There'
  <2> SUFFICES ASSUME NEW i \in DOMAIN pending, pending[i].do = "trust"
               PROVE  pending[i].lines \subseteq There'
    BY <1>3 DEF There, Queued
  <2>1. CASE i = 1
    BY <1>2, <2>1 DEF Succeeds, There
  <2>2. CASE i # 1
    BY <1>1, <2>2 DEF There, Queued
  <2> QED
    BY <2>1, <2>2
<1>5. pending[1].do = "create" =>
        \/ pending[1].lines \subseteq ledger'
        \/ \E line \in pending[1].lines : line \in ledger'
  BY <1>2 DEF Succeeds
<1> QED
  BY <1>3, <1>4, <1>5

\* The ledger applies a transaction: no line gets lost, and nobody goes astray.
LEMMA ApplyKeepsSetUp ==
  ASSUME IInv, NEW p \in steady, Running(p), Apply
  PROVE  SetUp(p)'
<1>1. Types /\ SetUp(p) /\ p \in Program /\ program' = program /\ fleet' = fleet
  BY DEF IInv, Types, Apply
<1>2. /\ Len(pending) \in Nat \ {0} /\ sequence \in Nat /\ Len(pending') = Len(pending) - 1
      /\ sequence' = sequence + 1
      /\ \A i \in DOMAIN pending : i = 1 \/ (i - 1 \in DOMAIN pending'
                                             /\ pending'[i - 1] = pending[i])
  BY <1>1, QueueLeft DEF Apply
<1>3. /\ ledger \subseteq ledger' /\ There \subseteq There'
      /\ pending[1].do = "create" =>
           \/ pending[1].lines \subseteq ledger'
           \/ \E line \in pending[1].lines : line \in ledger'
  BY <1>1, Applied
<1>4. /\ Steps(p)' = Steps(p) /\ StepOf(p)' = StepOf(p) /\ Passed(p)' = Passed(p)
      /\ Begun(p)' = Begun(p)
  BY <1>1 DEF Steps, StepOf, Passed, Begun
<1>5. sequence' + Len(pending') = sequence + Len(pending)
  BY <1>2
<1>6. Alone(p)'
  <2>1. pending # <<>>
    BY DEF Apply
  <2>2. program[p].step # 1
    BY <1>1, <2>1 DEF SetUp, Alone
  <2> QED
    BY <1>1, <1>5, <2>2 DEF SetUp, Alone, Running
<1>7. Loads(p)'
  BY <1>1, <1>3, <1>4 DEF SetUp, Loads
<1>8. Trusts(p)'
  <2>1. Astray(p)' = Astray(p)
    BY <1>1, <1>5 DEF Astray
  <2> QED
    BY <1>1, <1>3, <1>4, <2>1 DEF SetUp, Trusts
<1>9. Idempotent(p)'
  <2>1. \A i \in Passed(p) : Steps(p)[i].to = "idempotent" => Steps(p)[i].lines \subseteq ledger'
    BY <1>1, <1>3 DEF SetUp, Idempotent
  <2>2. ASSUME program[p].awaited # 0, StepOf(p).to = "idempotent"
        PROVE  \/ StepOf(p).lines \subseteq ledger'
               \/ \E i \in Awaited(p)' :
                    pending'[i].do = "create" /\ pending'[i].lines = StepOf(p).lines
    <3>1. CASE StepOf(p).lines \subseteq ledger
      BY <1>3, <3>1
    <3>2. CASE \E i \in Awaited(p) :
                 pending[i].do = "create" /\ pending[i].lines = StepOf(p).lines
      <4>1. PICK i \in Awaited(p) :
                   pending[i].do = "create" /\ pending[i].lines = StepOf(p).lines
        BY <3>2
      <4>2. CASE i = 1
        <5>1. PICK line : StepOf(p).lines = {line}
          <6>1. program[p].step \in DOMAIN Steps(p) /\ StepOf(p) = Steps(p)[program[p].step]
            BY <1>1, <2>2 DEF IInv, Places, StepOf
          <6>2. Sound(StepOf(p))
            BY <1>1, <6>1, Place
          <6> QED
            BY <2>2, <6>2 DEF Sound
        <5> QED
          BY <1>3, <4>1, <4>2, <5>1
      <4>3. CASE i # 1
        <5>1. i \in DOMAIN pending
          BY <4>1 DEF Awaited
        <5>2. i - 1 \in Awaited(p)' /\ pending'[i - 1] = pending[i]
          BY <1>1, <1>2, <4>1, <4>3, <5>1 DEF Awaited
        <5> QED
          BY <4>1, <5>2
      <4> QED
        BY <4>2, <4>3
    <3> QED
      BY <1>1, <2>2, <3>1, <3>2 DEF SetUp, Idempotent
  <2> QED
    BY <1>1, <1>4, <2>1, <2>2 DEF Idempotent
<1> QED
  BY <1>6, <1>7, <1>8, <1>9 DEF SetUp

\* The queue is still in order, and the types are right.
LEMMA ApplyKeepsIInv ==
  ASSUME IInv, Apply
  PROVE  IInv'
<1>1. /\ Types /\ Places /\ Queue
      /\ UNCHANGED <<fleet, runs, program, disturbances, steady, calm>>
  BY DEF IInv, Apply
<1>2. /\ Len(pending) \in Nat \ {0} /\ sequence \in Nat /\ sequence' = sequence + 1
      /\ Head(pending) = pending[1] /\ pending[1] \in Tx
      /\ pending' \in Seq(Tx)
      /\ \A i \in DOMAIN pending' : i + 1 \in DOMAIN pending /\ pending'[i] = pending[i + 1]
  BY <1>1, QueueLeft DEF Apply
<1>3. Queue'
  <2> SUFFICES ASSUME NEW i \in DOMAIN pending'
               PROVE  /\ pending'[i].seq = sequence' + i
                      /\ pending'[i].do = "create" /\ IssuerLine \in pending'[i].lines
                           => BatchLine \in pending'[i].lines
                      /\ pending'[i].do = "trust" => IssuerLine \notin pending'[i].lines
    BY DEF Queue
  <2>1. i \in Nat
    BY <1>2
  <2>2. pending[i + 1].seq = sequence + (i + 1)
    BY <1>1, <1>2 DEF Queue
  <2> QED
    BY <1>1, <1>2, <2>1, <2>2 DEF Queue
<1>4. Places'
  BY <1>1 DEF Places, Steps, StepOf
<1>5. ledger' \subseteq Line /\ funded' \subseteq ledger'
  <2>1. pending[1].lines \subseteq Line
    BY <1>2 DEF Tx
  <2>2. /\ ledger' = IF Succeeds(pending[1]) /\ pending[1].do # "fund"
                       THEN ledger \cup pending[1].lines ELSE ledger
        /\ funded' = IF Succeeds(pending[1]) /\ pending[1].do = "fund"
                       THEN funded \cup pending[1].lines ELSE funded
    BY <1>2 DEF Apply
  <2>3. ledger' \subseteq Line
    BY <1>1, <2>1, <2>2 DEF Types
  <2>4. funded' \subseteq ledger'
    BY <1>1, <2>2 DEF Types, Succeeds
  <2> QED
    BY <2>3, <2>4
<1>6. Types'
  BY <1>1, <1>2, <1>5 DEF Types
<1>7. ASSUME NEW q \in steady', Running(q)' PROVE SetUp(q)'
  <2>1. q \in steady /\ Running(q)
    BY <1>1, <1>7 DEF Running
  <2> QED
    BY <2>1, ApplyKeepsSetUp
<1> QED
  BY <1>3, <1>4, <1>6, <1>7 DEF IInv

\* Core drops the queue, and no run is steady any more.
LEMMA DropKeepsIInv ==
  ASSUME IInv, Drop
  PROVE  IInv'
<1>1. /\ Types /\ Places /\ pending' = <<>> /\ steady' = {} /\ calm' = {}
      /\ UNCHANGED <<fleet, runs, program, sequence, ledger, funded>>
      /\ disturbances' \in 0 .. MaxDisturbances
  BY BoundsAssumption DEF IInv, Drop, Types
<1>2. Types'
  BY <1>1 DEF Types
<1>3. Places'
  BY <1>1 DEF Places, Steps, StepOf
<1>4. Queue'
  BY <1>1 DEF Queue
<1> QED
  BY <1>1, <1>2, <1>3, <1>4 DEF IInv

\* A program starts, and other runs are steady no more.
LEMMA StartKeepsIInv ==
  ASSUME IInv, NEW p \in Program, Start(p)
  PROVE  IInv'
<1> DEFINE others == {q \in Program \ {p} : Running(q)}
<1>1. /\ Types /\ Places /\ Queue /\ program' = [program EXCEPT ![p] = Memory("running")]
      /\ UNCHANGED <<fleet, sequence, ledger, funded, pending, disturbances>>
      /\ runs' \in 0 .. MaxRuns
  BY BoundsAssumption DEF IInv, Start, stellar, Types
<1>2. /\ Memory("running") \in State /\ Memory("running").step = 1
      /\ Memory("running").loaded = {} /\ Memory("running").awaited = 0
      /\ Memory("running").account = 0
  BY MemoryIs
<1>3. Places' /\ program' \in [Program -> State]
  <2> DEFINE m == Memory("running")
  <2>1. m.step <= Len(Steps(p)) + 1 /\ m.awaited <= m.account /\ m.awaited = 0
    BY <1>1, <1>2, Place
  <2>2. m \in State /\ program' = [program EXCEPT ![p] = m] /\ fleet' = fleet
    BY <1>1, <1>2
  <2> HIDE DEF m
  <2> QED
    BY <1>1, <2>1, <2>2, MoveKeepsPlaces
<1>4. Queue'
  BY <1>1 DEF Queue
<1>5. /\ steady' \subseteq (steady \ (others \cup {p})) \cup {p}
      /\ calm' \subseteq steady' /\ steady' \subseteq Program
      /\ p \in steady' => others = {} /\ pending = <<>>
  <2>1. CASE others = {} /\ pending = <<>>
    <3>1. /\ steady' = (steady \ (others \cup {p})) \cup {p}
          /\ calm' = (calm \ (others \cup {p})) \cup {p}
      BY <2>1 DEF Start
    <3> HIDE DEF others
    <3> QED
      BY <1>1, <2>1, <3>1 DEF Types
  <2>2. CASE ~(others = {} /\ pending = <<>>)
    <3>1. /\ steady' = steady \ (others \cup {p})
          /\ calm' = calm \ (others \cup {p})
      BY <2>2 DEF Start
    <3> HIDE DEF others
    <3> QED
      BY <1>1, <3>1 DEF Types
  <2> QED
    BY <2>1, <2>2
<1>6. Types'
  BY <1>1, <1>3, <1>5 DEF Types
<1>7. ASSUME NEW q \in steady', Running(q)' PROVE SetUp(q)'
  <2>1. /\ program \in [Program -> State] /\ q \in Program
        /\ program'[p] = Memory("running")
        /\ \A r \in Program \ {p} : program'[r] = program[r]
    BY <1>1, <1>5 DEF Types
  <2>2. q = p
    <3>1. SUFFICES ASSUME q # p PROVE FALSE
      OBVIOUS
    <3>2. q \in others
      BY <1>7, <2>1, <3>1 DEF Running
    <3> HIDE DEF others
    <3> QED
      BY <1>5, <3>1, <3>2
  <2>3. (\A r \in Program \ {p} : ~Running(r)') /\ pending' = <<>>
    BY <1>1, <1>5, <2>1, <2>2 DEF Running
  <2>4. Alone(p)'
    BY <1>2, <2>1, <2>3 DEF Alone
  <2>5. Passed(p)' = {} /\ Begun(p)' = {}
    <3>1. Steps(p)' = Steps(p) /\ DOMAIN Steps(p) = 1 .. Len(Steps(p))
      BY <1>1, ListsStay, Place
    <3> QED
      BY <1>2, <2>1, <3>1 DEF Passed, Begun
  <2>6. Loads(p)' /\ Trusts(p)' /\ Idempotent(p)'
    BY <1>2, <2>1, <2>5 DEF Loads, Trusts, Idempotent
  <2> QED
    BY <2>2, <2>4, <2>6 DEF SetUp
<1> QED
  BY <1>3, <1>4, <1>6, <1>7 DEF IInv

-----------------------------------------------------------------------------
(***************************************************************************)
(* Every action keeps the invariant.                                       *)
(***************************************************************************)

\* A program with a sequence number.
LEMMA NumberedIs ==
  ASSUME NEW state \in State, NEW account \in Nat
  PROVE  LET m == [state EXCEPT !.account = account]
         IN  /\ m \in State /\ m.process = state.process /\ m.step = state.step
             /\ m.account = account /\ m.loaded = state.loaded /\ m.awaited = state.awaited
BY DEF State

\* A program that waits for Horizon.
Waiting(p) == [Counted(program[p]) EXCEPT !.awaited = Transaction(p).seq]

\* It counts the transaction, and knows its sequence number.
LEMMA WaitingIs ==
  ASSUME Types, NEW p \in Program
  PROVE  LET m == Waiting(p)
         IN  /\ m \in State /\ m.process = program[p].process /\ m.step = program[p].step
             /\ m.account = program[p].account + 1 /\ m.loaded = program[p].loaded
             /\ m.awaited = program[p].account + 1
<1> DEFINE n == Counted(program[p])
           seq == Transaction(p).seq
           m == Waiting(p)
<1>1. m = [n EXCEPT !.awaited = seq]
  BY DEF Waiting
<1>2. /\ n \in State /\ n.process = program[p].process
      /\ n.step = program[p].step /\ n.account = program[p].account + 1
      /\ n.loaded = program[p].loaded
  <2>1. program[p] \in State
    BY DEF Types
  <2> QED
    BY <2>1, CountedIs
<1>3. seq = program[p].account + 1 /\ seq \in Nat
  BY DEF Transaction, Types, State
<1> HIDE DEF n, seq, m
<1>4. /\ m \in State /\ m.process = n.process /\ m.step = n.step /\ m.account = n.account
      /\ m.loaded = n.loaded /\ m.awaited = seq
  BY <1>1, <1>2, <1>3 DEF State
<1> QED
  BY <1>2, <1>3, <1>4 DEF m

\* A program that goes on after a transaction.
LEMMA CountedOnwardIs ==
  ASSUME Types, NEW p \in Program
  PROVE  LET m == Counted(Onward(p))
         IN  /\ m \in State /\ m.process = program[p].process
             /\ m.step = program[p].step + 1 /\ m.awaited = 0
             /\ m.account = program[p].account + 1 /\ m.loaded = program[p].loaded
<1>1. /\ Onward(p) \in State /\ Onward(p).process = program[p].process
      /\ Onward(p).step = program[p].step + 1
      /\ Onward(p).account = program[p].account /\ Onward(p).loaded = program[p].loaded
      /\ Onward(p).awaited = 0
  BY OnwardIs
<1> QED
  BY <1>1, CountedIs

\* The accounts of lines, on the ledger if the lines are.
LEMMA AccountsAre ==
  ASSUME NEW lines \in SUBSET Line
  PROVE  /\ AccountsOf(lines) \in SUBSET Account
         /\ lines \subseteq ledger /\ (\A line \in lines : line[2] = "XLM")
              => AccountsOf(lines) \X {"XLM"} \subseteq ledger
<1>1. AccountsOf(lines) \in SUBSET Account
  BY DEF AccountsOf, Line
<1>2. ASSUME lines \subseteq ledger, \A line \in lines : line[2] = "XLM"
      PROVE  AccountsOf(lines) \X {"XLM"} \subseteq ledger
  <2> SUFFICES ASSUME NEW pair \in AccountsOf(lines) \X {"XLM"} PROVE pair \in ledger
    OBVIOUS
  <2>1. PICK line \in lines : pair = <<line[1], "XLM">>
    BY DEF AccountsOf
  <2>2. line = <<line[1], line[2]>>
    BY DEF Line
  <2> QED
    BY <1>2, <2>1, <2>2
<1> QED
  BY <1>1, <1>2

\* A program ends, and is no more of interest.
LEMMA EndKeepsIInv ==
  ASSUME IInv, NEW p \in Program, Running(p), NEW process \in {"ready", "killed"},
         program' = [program EXCEPT ![p] = Memory(process)],
         UNCHANGED <<fleet, runs, sequence, ledger, funded>>,
         \/ UNCHANGED pending
         \/ /\ At(p, Submission) /\ Valid(Transaction(p))
            /\ pending' = Append(pending, Transaction(p)),
         disturbances' \in 0 .. MaxDisturbances,
         steady' \subseteq steady, calm' \subseteq steady'
  PROVE  IInv'
<1> DEFINE m == Memory(process)
<1>1. /\ m \in State /\ m.process # "running" /\ m.step = 1 /\ m.awaited = 0 /\ m.account = 0
  BY MemoryIs
<1>2. m.step <= Len(Steps(p)) + 1 /\ m.awaited <= m.account
  BY <1>1, Place DEF IInv
<1>3. program' = [program EXCEPT ![p] = m]
  OBVIOUS
<1> HIDE DEF m
<1> QED
  BY <1>1, <1>2, <1>3, Moves

\* What failures do to the history.
LEMMA Disturbed ==
  ASSUME Types, NEW p \in Program, Disturb(p)
  PROVE  disturbances' \in 0 .. MaxDisturbances /\ calm' \subseteq calm /\ calm' \subseteq steady
         /\ calm' \subseteq steady \ {p}
BY BoundsAssumption DEF Types, Disturb

\* Accounts are loaded.
LEMMA LoadKeepsIInv ==
  ASSUME IInv, NEW p \in Program, NEW m \in State,
         program' = [program EXCEPT ![p] = m],
         UNCHANGED <<fleet, runs, sequence, ledger, funded, pending, steady>>,
         disturbances' \in 0 .. MaxDisturbances, calm' \subseteq steady,
         At(p, {"mustLoad", "load"}), NEW accounts, accounts \X {"XLM"} \subseteq ledger,
         StepOf(p).do = "mustLoad" => StepOf(p).lines \subseteq ledger,
         m.step = program[p].step + 1, m.awaited = 0,
         m.account = (IF program[p].step = 1 THEN sequence ELSE program[p].account),
         m.loaded = program[p].loaded \cup accounts
  PROVE  IInv'
<1>1. Types /\ Running(p) /\ program[p].step \in DOMAIN Steps(p)
  BY CurrentStep DEF IInv
<1>2. /\ m.step <= Len(Steps(p)) + 1
      /\ m.awaited <= m.account
  BY <1>1, Place DEF State
<1>3. p \in steady' => SetUp(p)'
  BY <1>1, LoadKeepsSetUp
<1> QED
  BY <1>1, <1>2, <1>3, Moves

\* All the accounts are there, or the program ends.
LEMMA MustLoadAccountKeepsIInv ==
  ASSUME IInv, NEW p \in Program, MustLoadAccount(p)
  PROVE  IInv'
<1>1. /\ Types /\ At(p, {"mustLoad"})
      /\ UNCHANGED <<fleet, runs, sequence, ledger, funded, pending, disturbances, steady, calm>>
      /\ calm' \subseteq steady' /\ disturbances' \in 0 .. MaxDisturbances
  BY DEF IInv, MustLoadAccount, stellar, Types
<1>2. /\ Running(p) /\ StepOf(p).do = "mustLoad" /\ StepOf(p).lines \in SUBSET Line
      /\ \A line \in StepOf(p).lines : line[2] = "XLM"
      /\ At(p, {"mustLoad", "load"})
  BY <1>1, CurrentStep DEF Sound, Step, At
<1>3. CASE ~(StepOf(p).lines \subseteq ledger)
  <2>1. program' = [program EXCEPT ![p] = Memory("killed")]
    BY <1>3 DEF MustLoadAccount, Killed
  <2> QED
    BY <1>1, <1>2, <2>1, EndKeepsIInv
<1>4. CASE StepOf(p).lines \subseteq ledger
  <2> DEFINE n == Onward(p)
             accounts == AccountsOf(StepOf(p).lines)
             account == IF program[p].step = 1 THEN sequence ELSE n.account
             loaded == n.loaded \cup accounts
             m == [n EXCEPT !.account = account, !.loaded = loaded]
  <2>1. program' = [program EXCEPT ![p] = m]
    BY <1>4 DEF MustLoadAccount
  <2>2. /\ n \in State /\ n.step = program[p].step + 1 /\ n.awaited = 0
        /\ n.account = program[p].account /\ n.loaded = program[p].loaded
    BY <1>1, OnwardIs
  <2>3. accounts \in SUBSET Account /\ accounts \X {"XLM"} \subseteq ledger
    BY <1>2, <1>4, AccountsAre
  <2>4. account \in Nat /\ loaded \in SUBSET Account
    BY <1>1, <2>2, <2>3 DEF Types, State
  <2> HIDE DEF n, accounts, account, loaded
  <2>5. /\ m \in State /\ m.step = n.step /\ m.account = account
        /\ m.loaded = loaded /\ m.awaited = n.awaited
    <3> DEFINE k == [n EXCEPT !.account = account]
    <3>1. /\ k \in State /\ k.step = n.step /\ k.account = account /\ k.awaited = n.awaited
      BY <2>2, <2>4 DEF State
    <3>2. m = [k EXCEPT !.loaded = loaded]
      BY Zenon
    <3> HIDE DEF k, m
    <3> QED
      BY <2>4, <3>1, <3>2 DEF State
  <2>6. account = IF program[p].step = 1 THEN sequence ELSE program[p].account
    BY <2>2 DEF account
  <2>7. loaded = program[p].loaded \cup accounts
    BY <2>2 DEF loaded
  <2> HIDE DEF m
  <2>8. /\ m \in State /\ m.step = program[p].step + 1 /\ m.awaited = 0
        /\ m.account = (IF program[p].step = 1 THEN sequence ELSE program[p].account)
        /\ m.loaded = program[p].loaded \cup accounts
    BY <2>2, <2>5, <2>6, <2>7
  <2>9. /\ UNCHANGED <<fleet, runs, sequence, ledger, funded, pending, steady>>
        /\ disturbances' \in 0 .. MaxDisturbances /\ calm' \subseteq steady
        /\ At(p, {"mustLoad", "load"}) /\ accounts \X {"XLM"} \subseteq ledger
    BY <1>1, <1>2, <2>3
  <2> HIDE DEF accounts
  <2> QED
    BY <1>4, <2>1, <2>8, <2>9, LoadKeepsIInv
<1> QED
  BY <1>3, <1>4

\* The sequence number may be an old one, but the run is steady no more.
LEMMA LoadBehindKeepsIInv ==
  ASSUME IInv, NEW p \in Program, LoadBehind(p)
  PROVE  IInv'
<1>1. /\ Types /\ At(p, {"mustLoad"}) /\ sequence > 0 /\ Disturb(p)
      /\ UNCHANGED <<fleet, runs, sequence, ledger, funded, pending>>
      /\ steady' = steady \ {p}
      /\ program' = [program EXCEPT ![p] = [Onward(p) EXCEPT !.account = sequence - 1]]
  BY DEF IInv, LoadBehind, stellar
<1>2. /\ Running(p) /\ program[p].step \in DOMAIN Steps(p)
  BY <1>1, CurrentStep
<1> DEFINE n == Onward(p)
           m == [n EXCEPT !.account = sequence - 1]
<1>3. /\ n \in State /\ n.step = program[p].step + 1 /\ n.awaited = 0
  BY <1>1, OnwardIs
<1>4. sequence - 1 \in Nat
  BY <1>1 DEF Types
<1>5. program' = [program EXCEPT ![p] = m]
  BY <1>1
<1> HIDE DEF n
<1>6. m \in State /\ m.step = n.step /\ m.account = sequence - 1 /\ m.awaited = n.awaited
  BY <1>3, <1>4, NumberedIs
<1> HIDE DEF m
<1>7. m.step <= Len(Steps(p)) + 1 /\ m.awaited <= m.account
  BY <1>1, <1>2, <1>3, <1>4, <1>6, Place
<1>8. disturbances' \in 0 .. MaxDisturbances /\ calm' \subseteq steady' /\ steady' \subseteq steady
  BY <1>1, Disturbed
<1>9. p \notin steady'
  BY <1>1
<1> QED
  BY <1>1, <1>2, <1>3, <1>5, <1>6, <1>7, <1>8, <1>9, Moves

\* A program that has loaded accounts.
Loaded(p, accounts) == [Onward(p) EXCEPT !.loaded = @ \cup accounts]

\* It goes on with them.
LEMMA LoadedIs ==
  ASSUME Types, NEW p \in Program, NEW accounts \in SUBSET Account
  PROVE  LET m == Loaded(p, accounts)
         IN  /\ m \in State /\ m.process = program[p].process
             /\ m.step = program[p].step + 1 /\ m.awaited = 0
             /\ m.account = program[p].account
             /\ m.loaded = program[p].loaded \cup accounts
<1> DEFINE n == Onward(p)
           loaded == n.loaded \cup accounts
           m == Loaded(p, accounts)
<1>1. m = [n EXCEPT !.loaded = loaded]
  BY DEF Loaded
<1>2. /\ n \in State /\ n.process = program[p].process
      /\ n.step = program[p].step + 1 /\ n.awaited = 0
      /\ n.account = program[p].account /\ n.loaded = program[p].loaded
  BY OnwardIs
<1>3. loaded \in SUBSET Account /\ loaded = program[p].loaded \cup accounts
  BY <1>2 DEF State
<1> HIDE DEF n, loaded, m
<1>4. /\ m \in State /\ m.process = n.process /\ m.step = n.step /\ m.account = n.account
      /\ m.loaded = loaded /\ m.awaited = n.awaited
  BY <1>1, <1>2, <1>3 DEF State
<1> QED
  BY <1>2, <1>3, <1>4 DEF m

\* The accounts of some of the sensors are loaded.
LEMMA SomeKeepIInv ==
  ASSUME IInv, NEW p \in Program, At(p, {"load"}), NEW lines \in SUBSET StepOf(p).lines,
         lines \subseteq ledger,
         NEW m \in State, program' = [program EXCEPT ![p] = m],
         m.step = program[p].step + 1, m.awaited = 0,
         m.account = program[p].account,
         m.loaded = program[p].loaded \cup AccountsOf(lines),
         UNCHANGED <<fleet, runs, sequence, ledger, funded, pending, steady>>,
         disturbances' \in 0 .. MaxDisturbances, calm' \subseteq steady
  PROVE  IInv'
<1>1. Types
  BY DEF IInv
<1>2. /\ StepOf(p).do = "load" /\ StepOf(p).lines \in SUBSET Line
      /\ \A line \in StepOf(p).lines : line[2] = "XLM"
      /\ At(p, {"mustLoad", "load"}) /\ program[p].step # 1
  BY <1>1, CurrentStep, Place DEF Sound, Step, At
<1>3. AccountsOf(lines) \X {"XLM"} \subseteq ledger
  <2>1. lines \in SUBSET Line /\ \A line \in lines : line[2] = "XLM"
    BY <1>2
  <2> QED
    BY <2>1, AccountsAre
<1> QED
  BY <1>2, <1>3, LoadKeepsIInv

\* The lines that are asked for stand for accounts.
LEMMA SomeAccounts ==
  ASSUME Types, NEW p \in Program, NEW kinds, At(p, kinds), NEW lines \in SUBSET StepOf(p).lines
  PROVE  AccountsOf(lines) \in SUBSET Account
<1>1. lines \in SUBSET Line
  BY CurrentStep DEF Step
<1> QED
  BY <1>1, AccountsAre

\* The sensors that are there are loaded.
LEMMA LoadSensorsKeepsIInv ==
  ASSUME IInv, NEW p \in Program, LoadSensors(p)
  PROVE  IInv'
<1> DEFINE lines == StepOf(p).lines \cap ledger
           accounts == AccountsOf(lines)
           m == Loaded(p, accounts)
<1>1. /\ Types /\ At(p, {"load"}) /\ program' = [program EXCEPT ![p] = m]
      /\ UNCHANGED <<fleet, runs, sequence, ledger, funded, pending, steady>>
      /\ disturbances' \in 0 .. MaxDisturbances /\ calm' \subseteq steady
  BY DEF IInv, LoadSensors, stellar, Types, Loaded
<1>2. lines \in SUBSET StepOf(p).lines /\ lines \subseteq ledger
  OBVIOUS
<1> HIDE DEF lines
<1>3. accounts \in SUBSET Account
  BY <1>1, <1>2, SomeAccounts
<1> HIDE DEF accounts
<1>5. /\ m \in State /\ m.step = program[p].step + 1 /\ m.awaited = 0
      /\ m.account = program[p].account /\ m.loaded = program[p].loaded \cup accounts
  BY <1>1, <1>3, LoadedIs
<1> HIDE DEF m
<1> QED
  BY <1>1, <1>2, <1>5, SomeKeepIInv DEF accounts

\* One of the requests fails.
LEMMA LoadFailsKeepsIInv ==
  ASSUME IInv, NEW p \in Program, LoadFails(p)
  PROVE  IInv'
<1>1. /\ Types /\ At(p, {"mustLoad", "load"}) /\ Disturb(p)
      /\ UNCHANGED <<fleet, runs, sequence, ledger, funded, pending, steady>>
  BY DEF IInv, LoadFails, stellar
<1>2. disturbances' \in 0 .. MaxDisturbances /\ calm' \subseteq steady
  BY <1>1, Disturbed
<1>3. /\ Running(p) /\ StepOf(p).to \in {"fatal", "nil"}
      /\ StepOf(p).do \in {"mustLoad", "load"}
  BY <1>1, CurrentStep DEF Sound
<1>4. CASE StepOf(p).to = "fatal"
  <2>1. program' = [program EXCEPT ![p] = Memory("killed")]
    BY <1>4 DEF LoadFails, Killed
  <2> QED
    BY <1>1, <1>2, <1>3, <2>1, EndKeepsIInv
<1>5. CASE StepOf(p).to # "fatal"
  <2>1. PICK line \in StepOf(p).lines :
          program' = [program EXCEPT ![p] =
            [Onward(p) EXCEPT !.loaded =
               @ \cup AccountsOf((StepOf(p).lines \cap ledger) \ {line})]]
    BY <1>5 DEF LoadFails
  <2> DEFINE lines == (StepOf(p).lines \cap ledger) \ {line}
             accounts == AccountsOf(lines)
             m == Loaded(p, accounts)
  <2>2. /\ program' = [program EXCEPT ![p] = m]
        /\ lines \in SUBSET StepOf(p).lines /\ lines \subseteq ledger
    BY <2>1 DEF Loaded
  <2> HIDE DEF lines
  <2>3. accounts \in SUBSET Account
    BY <1>1, <2>2, SomeAccounts
  <2> HIDE DEF accounts
  <2>5. /\ m \in State /\ m.step = program[p].step + 1 /\ m.awaited = 0
        /\ m.account = program[p].account /\ m.loaded = program[p].loaded \cup accounts
    BY <1>1, <2>3, LoadedIs
  <2> HIDE DEF m
  <2>6. At(p, {"load"})
    <3>1. StepOf(p).do = "load"
      BY <1>1, <1>3, <1>5, CurrentStep DEF Sound
    <3> QED
      BY <1>1, <3>1 DEF At, StepOf
  <2> QED
    BY <1>1, <1>2, <2>2, <2>5, <2>6, SomeKeepIInv DEF accounts
<1> QED
  BY <1>4, <1>5

\* Core has queued the transaction.
LEMMA SubmitKeepsIInv ==
  ASSUME IInv, NEW p \in Program, Submit(p)
  PROVE  IInv'
<1>1. /\ Types /\ At(p, Submission) /\ ~NilAccount(p) /\ Valid(Transaction(p))
      /\ pending' = Append(pending, Transaction(p))
      /\ UNCHANGED <<fleet, runs, sequence, ledger, funded, steady>>
      /\ disturbances' \in 0 .. MaxDisturbances /\ calm' \subseteq steady
  BY DEF IInv, Submit, Types
<1>2. /\ Running(p) /\ program[p].step \in DOMAIN Steps(p) /\ program[p].account \in Nat
      /\ StepOf(p) = Steps(p)[program[p].step] /\ StepOf(p).do \in Submission
      /\ Sound(StepOf(p)) /\ program[p].step <= Len(Steps(p))
      /\ Len(Steps(p)) \in Nat /\ program[p].step \in Nat
  BY <1>1, CurrentStep, Place DEF State
<1>3. CASE StepOf(p).to = "core"
  <2> DEFINE m == Counted(Onward(p))
  <2>1. program' = [program EXCEPT ![p] = m]
    BY <1>3 DEF Submit
  <2>2. /\ m \in State /\ m.step = program[p].step + 1 /\ m.awaited = 0
        /\ m.account = program[p].account + 1 /\ m.loaded = program[p].loaded
    BY <1>1, CountedOnwardIs
  <2> HIDE DEF m
  <2>3. p \in steady' => SetUp(p)'
    BY <1>1, <1>3, <2>1, <2>2, QueueingKeepsSetUp
  <2>4. m.step <= Len(Steps(p)) + 1 /\ m.awaited <= m.account
    BY <1>2, <2>2
  <2> QED
    BY <1>1, <1>2, <2>1, <2>2, <2>3, <2>4, Moves
<1>4. CASE StepOf(p).to # "core"
  <2> DEFINE m == Waiting(p)
  <2>1. program' = [program EXCEPT ![p] = m]
    BY <1>4 DEF Submit, Waiting
  <2>2. /\ m \in State /\ m.step = program[p].step
        /\ m.account = program[p].account + 1 /\ m.loaded = program[p].loaded
        /\ m.awaited = program[p].account + 1
    BY <1>1, WaitingIs
  <2> HIDE DEF m
  <2>3. p \in steady' => SetUp(p)'
    BY <1>1, <2>1, <2>2, WaitingKeepsSetUp
  <2>4. /\ m.step <= Len(Steps(p)) + 1 /\ m.awaited <= m.account
        /\ m.step \in DOMAIN Steps(p) /\ Steps(p)[m.step].do \in Submission
        /\ Steps(p)[m.step].to # "core"
    BY <1>2, <1>4, <2>2
  <2> QED
    BY <1>1, <1>2, <2>1, <2>2, <2>3, <2>4, Moves
<1> QED
  BY <1>3, <1>4

\* The program does not know whether it has, and logs an error or ends.
LEMMA ErrorKeepsIInv ==
  ASSUME IInv, NEW p \in Program, At(p, Submission), ~NilAccount(p),
         program' = [program EXCEPT ![p] = AfterError(p)],
         \/ UNCHANGED pending
         \/ Valid(Transaction(p)) /\ pending' = Append(pending, Transaction(p)),
         UNCHANGED <<fleet, runs, sequence, ledger, funded, steady>>,
         disturbances' \in 0 .. MaxDisturbances, calm' \subseteq steady
  PROVE  IInv'
<1>1. Types
  BY DEF IInv
<1>2. /\ Running(p) /\ program[p].step <= Len(Steps(p)) /\ program[p].account \in Nat
      /\ Len(Steps(p)) \in Nat /\ program[p].step \in Nat
  BY <1>1, CurrentStep, Place DEF State
<1>3. CASE StepOf(p).to # "horizon"
  <2>1. program' = [program EXCEPT ![p] = Memory("killed")]
    BY <1>3 DEF AfterError, Killed
  <2> QED
    BY <1>2, <2>1, EndKeepsIInv
<1>4. CASE StepOf(p).to = "horizon"
  <2> DEFINE m == Counted(Onward(p))
  <2>1. program' = [program EXCEPT ![p] = m]
    BY <1>4 DEF AfterError
  <2>2. /\ m \in State /\ m.step = program[p].step + 1 /\ m.awaited = 0
        /\ m.account = program[p].account + 1 /\ m.loaded = program[p].loaded
    BY <1>1, CountedOnwardIs
  <2> HIDE DEF m
  <2>3. ASSUME p \in steady' PROVE SetUp(p)'
    <3>1. CASE UNCHANGED pending
      BY <1>4, <2>1, <2>2, <2>3, <3>1, RefusalKeepsSetUp
    <3>2. CASE Valid(Transaction(p)) /\ pending' = Append(pending, Transaction(p))
      BY <1>4, <2>1, <2>2, <2>3, <3>2, QueueingKeepsSetUp
    <3> QED
      BY <3>1, <3>2
  <2>4. m.step <= Len(Steps(p)) + 1 /\ m.awaited <= m.account
    BY <1>2, <2>2
  <2> QED
    BY <1>2, <2>1, <2>2, <2>3, <2>4, Moves
<1> QED
  BY <1>3, <1>4

\* Core refuses the transaction.
LEMMA RefusedKeepsIInv ==
  ASSUME IInv, NEW p \in Program, Refused(p)
  PROVE  IInv'
<1>1. /\ At(p, Submission) /\ ~NilAccount(p)
      /\ program' = [program EXCEPT ![p] = AfterError(p)]
      /\ UNCHANGED <<fleet, runs, sequence, ledger, funded, pending, steady>>
      /\ disturbances' \in 0 .. MaxDisturbances /\ calm' \subseteq steady
  BY DEF IInv, Refused, stellar, Types
<1> QED
  BY <1>1, ErrorKeepsIInv

\* The request fails, or its answer does.
LEMMA SubmitFailsKeepsIInv ==
  ASSUME IInv, NEW p \in Program, SubmitFails(p)
  PROVE  IInv'
<1>1. /\ Types /\ At(p, Submission) /\ ~NilAccount(p) /\ Disturb(p)
      /\ program' = [program EXCEPT ![p] = AfterError(p)]
      /\ \/ UNCHANGED pending
         \/ Valid(Transaction(p)) /\ pending' = Append(pending, Transaction(p))
      /\ UNCHANGED <<fleet, runs, sequence, ledger, funded, steady>>
  BY DEF IInv, SubmitFails
<1>2. disturbances' \in 0 .. MaxDisturbances /\ calm' \subseteq steady
  BY <1>1, Disturbed
<1> QED
  BY <1>1, <1>2, ErrorKeepsIInv

\* A program waits no longer.
LEMMA AnswerKeepsIInv ==
  ASSUME IInv, NEW p \in Program, Running(p), program[p].awaited # 0,
         program' = [program EXCEPT ![p] = Onward(p)],
         StepOf(p).to = "idempotent" => Awaited(p) = {},
         UNCHANGED <<fleet, runs, sequence, ledger, funded, pending, steady>>,
         disturbances' \in 0 .. MaxDisturbances, calm' \subseteq steady
  PROVE  IInv'
<1>1. Types /\ Places
  BY DEF IInv
<1> DEFINE m == Onward(p)
<1>2. program' = [program EXCEPT ![p] = m]
  OBVIOUS
<1>3. /\ m \in State /\ m.step = program[p].step + 1 /\ m.awaited = 0
      /\ m.account = program[p].account /\ m.loaded = program[p].loaded
  BY <1>1, OnwardIs
<1> HIDE DEF m
<1>4. p \in steady' => SetUp(p)'
  BY <1>2, <1>3, AnswerKeepsSetUp
<1>5. m.step <= Len(Steps(p)) + 1 /\ m.awaited <= m.account
  BY <1>1, <1>3, Place DEF Places, State
<1> QED
  BY <1>2, <1>3, <1>4, <1>5, Moves

\* Horizon answers when the transaction has left the queue.
LEMMA HorizonAnswersKeepsIInv ==
  ASSUME IInv, NEW p \in Program, HorizonAnswers(p)
  PROVE  IInv'
<1>1. /\ Running(p) /\ program[p].awaited # 0 /\ Awaited(p) = {}
      /\ program' = [program EXCEPT ![p] = Onward(p)]
      /\ UNCHANGED <<fleet, runs, sequence, ledger, funded, pending, steady>>
      /\ disturbances' \in 0 .. MaxDisturbances /\ calm' \subseteq steady
  BY DEF IInv, HorizonAnswers, stellar, Types
<1> QED
  BY <1>1, AnswerKeepsIInv

\* Horizon does not answer in time.
LEMMA TimeoutKeepsIInv ==
  ASSUME IInv, NEW p \in Program, Timeout(p)
  PROVE  IInv'
<1>1. /\ Types /\ Running(p) /\ program[p].awaited # 0 /\ Disturb(p)
      /\ UNCHANGED <<fleet, runs, sequence, ledger, funded, pending, steady>>
  BY DEF IInv, Timeout, stellar
<1>2. disturbances' \in 0 .. MaxDisturbances /\ calm' \subseteq steady
  BY <1>1, Disturbed
<1>3. CASE StepOf(p).to = "horizon"
  <2>1. program' = [program EXCEPT ![p] = Onward(p)]
    BY <1>3 DEF Timeout
  <2> QED
    BY <1>1, <1>2, <1>3, <2>1, AnswerKeepsIInv
<1>4. CASE StepOf(p).to # "horizon"
  <2>1. program' = [program EXCEPT ![p] = Memory("killed")]
    BY <1>4 DEF Timeout, Killed
  <2> QED
    BY <1>1, <1>2, <2>1, EndKeepsIInv
<1> QED
  BY <1>3, <1>4

\* A program ends.
LEMMA EndsKeepIInv ==
  ASSUME IInv, NEW p \in Program, FindNil(p) \/ Ready(p) \/ Kill(p)
  PROVE  IInv'
<1>1. CASE FindNil(p)
  <2>1. /\ Running(p) /\ program' = [program EXCEPT ![p] = Memory("killed")]
        /\ UNCHANGED <<fleet, runs, sequence, ledger, funded, pending, steady>>
        /\ disturbances' \in 0 .. MaxDisturbances /\ calm' \subseteq steady
    BY <1>1 DEF IInv, FindNil, Killed, At, stellar, Types
  <2> QED
    BY <2>1, EndKeepsIInv
<1>2. CASE Ready(p)
  <2>1. /\ Running(p) /\ program' = [program EXCEPT ![p] = Memory("ready")]
        /\ UNCHANGED <<fleet, runs, sequence, ledger, funded, pending, steady>>
        /\ disturbances' \in 0 .. MaxDisturbances /\ calm' \subseteq steady
    BY <1>2 DEF IInv, Ready, stellar, Types
  <2> QED
    BY <2>1, EndKeepsIInv
<1>3. CASE Kill(p)
  <2>1. /\ Types /\ Disturb(p)
        /\ Running(p) /\ program' = [program EXCEPT ![p] = Memory("killed")]
        /\ UNCHANGED <<fleet, runs, sequence, ledger, funded, pending, steady>>
    BY <1>3 DEF IInv, Kill, Killed, stellar
  <2>2. disturbances' \in 0 .. MaxDisturbances /\ calm' \subseteq steady
    BY <2>1, Disturbed
  <2> QED
    BY <2>1, <2>2, EndKeepsIInv
<1> QED
  BY <1>1, <1>2, <1>3

-----------------------------------------------------------------------------
(***************************************************************************)
(* The theorems.                                                           *)
(***************************************************************************)

\* It holds at the start.
LEMMA InitIsInvariant ==
  ASSUME Init
  PROVE  IInv
<1>1. /\ program \in [Program -> State]
      /\ \A p \in Program : /\ program[p].process = "off" /\ program[p].step = 1
                            /\ program[p].account = 0 /\ program[p].awaited = 0
  BY MemoryIs DEF Init
<1>2. ledger \subseteq Line /\ funded \subseteq ledger
  BY DEF Init, Line, Account, Kind, Asset, Master
<1>3. Types
  BY <1>1, <1>2, BoundsAssumption DEF Init, Types
<1>4. Places
  BY <1>1, <1>3, Place DEF Places
<1>5. Queue
  BY DEF Init, Queue
<1> QED
  BY <1>3, <1>4, <1>5 DEF Init, IInv

\* What depends on no other variable stays as it is in a step that changes none.
LEMMA StutterKeepsIInv ==
  ASSUME IInv, UNCHANGED vars
  PROVE  IInv'
<1>1. /\ UNCHANGED <<fleet, runs, program, sequence, ledger, funded, pending, disturbances,
                     steady, calm>>
  BY DEF vars, stellar
<1>2. Types' /\ Places' /\ Queue'
  BY <1>1 DEF IInv, Types, Places, Queue, Steps, StepOf
<1>3. ASSUME NEW p \in steady', Running(p)' PROVE SetUp(p)'
  <2>1. SetUp(p)
    BY <1>1, <1>3 DEF IInv, Running
  <2>2. /\ Steps(p)' = Steps(p) /\ StepOf(p)' = StepOf(p) /\ Passed(p)' = Passed(p)
        /\ Begun(p)' = Begun(p) /\ Astray(p)' = Astray(p) /\ There' = There
        /\ Awaited(p)' = Awaited(p)
    BY <1>1 DEF Steps, StepOf, Passed, Begun, Astray, There, Queued, Awaited
  <2>3. Alone(p)'
    BY <1>1, <2>1 DEF SetUp, Alone, Running
  <2>4. Loads(p)' /\ Trusts(p)' /\ Idempotent(p)'
    BY <1>1, <2>1, <2>2 DEF SetUp, Loads, Trusts, Idempotent
  <2> QED
    BY <2>3, <2>4 DEF SetUp
<1> QED
  BY <1>2, <1>3 DEF IInv

\* The inductive invariant holds in every state.
THEOREM Invariance == Spec => []IInv
<1>1. Init => IInv
  BY InitIsInvariant
<1>2. IInv /\ [Next]_vars => IInv'
  <2> SUFFICES ASSUME IInv, [Next]_vars PROVE IInv'
    OBVIOUS
  <2>1. CASE UNCHANGED vars
    BY <2>1, StutterKeepsIInv
  <2>2. CASE Apply
    BY <2>2, ApplyKeepsIInv
  <2>3. CASE Drop
    BY <2>3, DropKeepsIInv
  <2>4. ASSUME NEW p \in Program,
               \/ Start(p) \/ MustLoadAccount(p) \/ LoadSensors(p) \/ FindNil(p)
               \/ Submit(p) \/ Refused(p) \/ HorizonAnswers(p) \/ Ready(p)
               \/ LoadBehind(p) \/ LoadFails(p) \/ SubmitFails(p) \/ Timeout(p) \/ Kill(p)
        PROVE  IInv'
    <3>1. CASE Start(p)
      BY <3>1, StartKeepsIInv
    <3>2. CASE MustLoadAccount(p)
      BY <3>2, MustLoadAccountKeepsIInv
    <3>3. CASE LoadSensors(p)
      BY <3>3, LoadSensorsKeepsIInv
    <3>4. CASE FindNil(p) \/ Ready(p) \/ Kill(p)
      BY <3>4, EndsKeepIInv
    <3>5. CASE Submit(p)
      BY <3>5, SubmitKeepsIInv
    <3>6. CASE Refused(p)
      BY <3>6, RefusedKeepsIInv
    <3>7. CASE HorizonAnswers(p)
      BY <3>7, HorizonAnswersKeepsIInv
    <3>8. CASE LoadBehind(p)
      BY <3>8, LoadBehindKeepsIInv
    <3>9. CASE LoadFails(p)
      BY <3>9, LoadFailsKeepsIInv
    <3>10. CASE SubmitFails(p)
      BY <3>10, SubmitFailsKeepsIInv
    <3>11. CASE Timeout(p)
      BY <3>11, TimeoutKeepsIInv
    <3> QED
      BY <2>4, <3>1, <3>2, <3>3, <3>4, <3>5, <3>6, <3>7, <3>8, <3>9, <3>10, <3>11
  <2> QED
    BY <2>1, <2>2, <2>3, <2>4 DEF Next
<1> QED
  BY <1>1, <1>2, PTL DEF Spec

\* The variables have their types, and core's queue has no gap.
THEOREM TypeCorrect == Spec => []TypeOK
<1>1. IInv => TypeOK
  <2> SUFFICES ASSUME IInv PROVE TypeOK
    OBVIOUS
  <2>1. Types /\ Places /\ Queue
    BY DEF IInv
  <2>2. ASSUME NEW p \in Program
        PROVE  /\ program[p].process \in {"off", "running", "ready", "killed"}
               /\ program[p].step \in 1 .. Len(Steps(p)) + 1
               /\ program[p].account \in Nat
               /\ program[p].awaited \in 0 .. program[p].account
    BY <2>1, Place DEF Places, State
  <2> QED
    BY <2>1, <2>2 DEF Types, Queue, TypeOK
<1> QED
  BY <1>1, Invariance, PTL

\* Once there is a batch account and no issuer, there never will be an issuer: no
\* transaction in the queue makes one without the other.
THEOREM IssuerCorrect == Spec => IssuerNeverFollows
<1> DEFINE Follows == (BatchLine \in ledger /\ IssuerLine \notin ledger)
                        => IssuerLine \notin ledger'
<1>1. IInv /\ [Next]_vars => Follows
  <2> SUFFICES ASSUME IInv, [Next]_vars, BatchLine \in ledger, IssuerLine \notin ledger
               PROVE  IssuerLine \notin ledger'
    OBVIOUS
  <2>1. CASE Apply
    <3>1. /\ Head(pending) = pending[1] /\ 1 \in DOMAIN pending /\ pending[1] \in Tx
      BY <2>1, QueueLeft DEF IInv
    <3>2. ledger' = IF Succeeds(pending[1]) /\ pending[1].do # "fund"
                      THEN ledger \cup pending[1].lines ELSE ledger
      BY <2>1, <3>1 DEF Apply
    <3>3. pending[1].do \in {"create", "trust", "fund"}
      BY <3>1 DEF Tx, Submission
    <3>4. CASE pending[1].do = "create"
      BY <3>1, <3>2, <3>4 DEF IInv, Queue, Succeeds
    <3>5. CASE pending[1].do = "trust"
      BY <3>1, <3>2, <3>5 DEF IInv, Queue
    <3>6. CASE pending[1].do = "fund"
      BY <3>2, <3>6
    <3> QED
      BY <3>3, <3>4, <3>5, <3>6
  <2>2. CASE ~Apply
    <3>1. ledger' = ledger
      BY <2>2 DEF Next, vars, stellar, Start, MustLoadAccount, LoadBehind, LoadSensors,
        LoadFails, FindNil, Submit, Refused, SubmitFails, HorizonAnswers, Timeout, Ready,
        Kill, Drop
    <3> QED
      BY <3>1
  <2> QED
    BY <2>1, <2>2
<1>2. IInv /\ [Next]_vars => [Follows]_vars
  BY <1>1
<1>3. Spec => [][Follows]_vars
  BY <1>2, Invariance, PTL DEF Spec
<1> QED
  BY <1>3 DEF IssuerNeverFollows, BatchLine, IssuerLine

\* A program that moves without having been through its list does not get ready.
LEMMA OthersAreNotReady ==
  ASSUME IInv, NEW p \in Program,
         \/ MustLoadAccount(p) \/ LoadSensors(p) \/ FindNil(p)
         \/ Submit(p) \/ Refused(p) \/ HorizonAnswers(p)
         \/ LoadBehind(p) \/ LoadFails(p) \/ SubmitFails(p) \/ Timeout(p) \/ Kill(p)
  PROVE  program'[p].process # "ready"
<1>1. Types /\ program \in [Program -> State]
  BY DEF IInv, Types
<1>2. /\ Running(p)
      /\ \/ program' = [program EXCEPT ![p] = Killed]
         \/ program' = [program EXCEPT ![p] = Onward(p)]
         \/ program' = [program EXCEPT ![p] = Counted(Onward(p))]
         \/ program' = [program EXCEPT ![p] = Waiting(p)]
         \/ \E accounts \in SUBSET Account : program' = [program EXCEPT ![p] = Loaded(p, accounts)]
         \/ \E account \in Nat :
              program' = [program EXCEPT ![p] = [Onward(p) EXCEPT !.account = account]]
         \/ \E account \in Nat, accounts \in SUBSET Account :
              program' = [program EXCEPT ![p] =
                [Onward(p) EXCEPT !.account = account, !.loaded = accounts]]
  <2>1. CASE MustLoadAccount(p)
    <3>1. At(p, {"mustLoad"}) /\ Running(p)
      BY <2>1 DEF MustLoadAccount, At
    <3> DEFINE account == IF program[p].step = 1 THEN sequence ELSE Onward(p).account
               accounts == Onward(p).loaded \cup AccountsOf(StepOf(p).lines)
    <3>2. account \in Nat /\ accounts \in SUBSET Account
      <4>1. Onward(p) \in State
        BY <1>1, OnwardIs
      <4>2. AccountsOf(StepOf(p).lines) \in SUBSET Account
        BY <1>1, <3>1, SomeAccounts
      <4> QED
        BY <1>1, <4>1, <4>2 DEF Types, State
    <3>3. \/ program' = [program EXCEPT ![p] = Killed]
          \/ program' = [program EXCEPT ![p] =
               [Onward(p) EXCEPT !.account = account, !.loaded = accounts]]
      BY <2>1 DEF MustLoadAccount
    <3> HIDE DEF account, accounts
    <3> QED
      BY <3>1, <3>2, <3>3, Zenon
  <2>2. CASE LoadSensors(p)
    <3> DEFINE accounts == AccountsOf(StepOf(p).lines \cap ledger)
    <3>1. /\ At(p, {"load"}) /\ Running(p)
          /\ program' = [program EXCEPT ![p] = Loaded(p, accounts)]
      BY <2>2 DEF LoadSensors, At, Loaded
    <3>2. accounts \in SUBSET Account
      BY <1>1, <3>1, SomeAccounts
    <3> HIDE DEF accounts
    <3> QED
      BY <3>1, <3>2, Zenon
  <2>3. CASE LoadFails(p)
    <3>1. At(p, {"mustLoad", "load"}) /\ Running(p)
      BY <2>3 DEF LoadFails, At
    <3>2. PICK line \in StepOf(p).lines :
            \/ program' = [program EXCEPT ![p] = Killed]
            \/ program' = [program EXCEPT ![p] =
                 Loaded(p, AccountsOf((StepOf(p).lines \cap ledger) \ {line}))]
      BY <2>3 DEF LoadFails, Loaded
    <3> DEFINE accounts == AccountsOf((StepOf(p).lines \cap ledger) \ {line})
    <3>3. accounts \in SUBSET Account
      BY <1>1, <3>1, SomeAccounts
    <3>4. \/ program' = [program EXCEPT ![p] = Killed]
          \/ program' = [program EXCEPT ![p] = Loaded(p, accounts)]
      BY <3>2
    <3> HIDE DEF accounts
    <3> QED
      BY <3>1, <3>3, <3>4, Zenon
  <2>4. CASE LoadBehind(p)
    <3>1. /\ Running(p) /\ sequence - 1 \in Nat
          /\ program' = [program EXCEPT ![p] = [Onward(p) EXCEPT !.account = sequence - 1]]
      BY <1>1, <2>4 DEF LoadBehind, At, Types
    <3> QED
      BY <3>1, Zenon
  <2>5. CASE Submit(p)
    BY <2>5 DEF Submit, At, Waiting
  <2>6. CASE Refused(p) \/ SubmitFails(p)
    BY <2>6 DEF Refused, SubmitFails, AfterError, At
  <2>7. CASE FindNil(p) \/ HorizonAnswers(p) \/ Timeout(p) \/ Kill(p)
    BY <2>7 DEF FindNil, HorizonAnswers, Timeout, Kill, At
  <2> QED
    BY <2>1, <2>2, <2>3, <2>4, <2>5, <2>6, <2>7
<1>3. program[p].process = "running"
  BY <1>2 DEF Running
<1>4. \A m : program' = [program EXCEPT ![p] = m] => program'[p] = m
  BY <1>1
<1>5. Killed.process # "ready"
  BY MemoryIs DEF Killed
<1>6. /\ Onward(p) \in State /\ Onward(p).process = "running"
      /\ Counted(Onward(p)).process = "running" /\ Waiting(p).process = "running"
      /\ \A accounts \in SUBSET Account : Loaded(p, accounts).process = "running"
  BY <1>1, <1>3, OnwardIs, CountedOnwardIs, WaitingIs, LoadedIs
<1>7. ASSUME NEW account \in Nat
      PROVE  [Onward(p) EXCEPT !.account = account].process = "running"
  <2> DEFINE n == Onward(p)
  <2>1. n \in State /\ n.process = "running"
    BY <1>6
  <2> HIDE DEF n
  <2>2. [n EXCEPT !.account = account].process = "running"
    BY <2>1 DEF State
  <2> QED
    BY <2>2 DEF n
<1>8. ASSUME NEW account \in Nat, NEW accounts \in SUBSET Account
      PROVE  [Onward(p) EXCEPT !.account = account, !.loaded = accounts].process = "running"
  <2> DEFINE n == Onward(p)
             k == [n EXCEPT !.account = account]
             m == [k EXCEPT !.loaded = accounts]
  <2>1. n \in State /\ n.process = "running"
    BY <1>6
  <2> HIDE DEF n
  <2>2. k \in State /\ k.process = "running"
    BY <2>1 DEF State
  <2> HIDE DEF k
  <2>3. m.process = "running"
    BY <2>2 DEF State
  <2> QED
    BY <2>3, Zenon DEF k, n
<1> QED
  BY <1>2, <1>4, <1>5, <1>6, <1>7, <1>8

\* Only a program that has been through its list gets ready.
LEMMA OnlyReady ==
  ASSUME IInv, [Next]_vars, NEW p \in Program, Running(p), program'[p].process = "ready"
  PROVE  Ready(p)
<1>1. program \in [Program -> State] /\ program[p].process # "ready"
  BY DEF IInv, Types, Running
<1>2. CASE program' = program
  BY <1>1, <1>2
<1>3. ASSUME NEW q \in Program \ {p}, NEW m, program' = [program EXCEPT ![q] = m] PROVE FALSE
  BY <1>1, <1>3
<1>4. ASSUME NEW q \in Program,
             \/ Start(q) \/ MustLoadAccount(q) \/ LoadSensors(q) \/ FindNil(q)
             \/ Submit(q) \/ Refused(q) \/ HorizonAnswers(q) \/ Ready(q)
             \/ LoadBehind(q) \/ LoadFails(q) \/ SubmitFails(q) \/ Timeout(q) \/ Kill(q)
      PROVE  Ready(p)
  <2>1. \E m : program' = [program EXCEPT ![q] = m]
    BY <1>4, Zenon DEF Start, MustLoadAccount, LoadSensors, FindNil, Submit, Refused,
      HorizonAnswers, Ready, LoadBehind, LoadFails, SubmitFails, Timeout, Kill
  <2>2. q = p
    BY <1>3, <2>1
  <2>3. ~Start(p)
    BY DEF Start
  <2> QED
    BY <1>4, <2>2, <2>3, OthersAreNotReady
<1>5. CASE Apply \/ Drop
  BY <1>2, <1>5 DEF Apply, Drop
<1>6. CASE UNCHANGED vars
  BY <1>2, <1>6 DEF vars
<1> QED
  BY <1>4, <1>5, <1>6 DEF Next

\* Everything a steady run asked for is there when its set-up is over.
LEMMA SetUpIsComplete ==
  ASSUME IInv, NEW p \in steady, Ready(p)
  PROVE  LinesOf(p) \subseteq ledger \cup Queued({"trust"})
<1>1. /\ Types /\ p \in Program /\ Running(p) /\ program[p].step > Len(Steps(p))
      /\ SetUp(p) /\ program[p].step \in Nat
  BY DEF IInv, Ready, Types, State
<1>2. /\ Proper(Steps(p)) /\ DOMAIN Steps(p) = 1 .. Len(Steps(p)) /\ Len(Steps(p)) \in Nat
      /\ \A i \in DOMAIN Steps(p) : Steps(p)[i] \in Step /\ Sound(Steps(p)[i])
  BY <1>1, Place
<1>3. Passed(p) = DOMAIN Steps(p) /\ DOMAIN Steps(p) \subseteq Begun(p)
  BY <1>1, <1>2 DEF Passed, Begun
<1> SUFFICES ASSUME NEW i \in DOMAIN Steps(p), Steps(p)[i].do \in {"create", "trust"},
                    NEW line \in Steps(p)[i].lines
             PROVE  line \in There
  BY DEF LinesOf, There
<1>4. CASE Steps(p)[i].do = "trust"
  <2>1. PICK j \in DOMAIN Steps(p) : i <= j /\ Confirms(Steps(p)[j])
    BY <1>2, <1>4 DEF Proper, Confirmed
  <2> QED
    BY <1>1, <1>3, <1>4, <2>1 DEF SetUp, Trusts
<1>5. CASE Steps(p)[i].do = "create"
  <2>1. Steps(p)[i] \in ToSet(Steps(p))
    BY DEF ToSet
  <2>2. CASE Steps(p)[i].to = "idempotent"
    BY <1>1, <1>3, <2>2 DEF SetUp, Idempotent, There
  <2>3. CASE Steps(p)[i].to # "idempotent"
    <3>1. PICK other \in ToSet(Steps(p)) : FoundOut(line, other)
      BY <1>2, <1>5, <2>1, <2>3 DEF Proper, Certain
    <3>2. PICK k \in DOMAIN Steps(p) : other = Steps(p)[k]
      BY DEF ToSet
    <3>3. CASE other.do = "mustLoad" /\ line \in other.lines
      BY <1>1, <1>3, <3>2, <3>3 DEF SetUp, Loads, There
    <3>4. CASE other.do = "trust" /\ line[1] \in AccountsOf(other.lines)
      <4>1. line[1] \in program[p].loaded
        BY <1>1, <1>3, <3>2, <3>4 DEF SetUp, Loads
      <4>2. line = <<line[1], "XLM">>
        BY <1>2, <1>5 DEF Sound, Step, Line
      <4> QED
        BY <1>1, <4>1, <4>2 DEF SetUp, Loads, There
    <3> QED
      BY <3>1, <3>3, <3>4 DEF FoundOut
  <2> QED
    BY <2>2, <2>3
<1> QED
  BY <1>4, <1>5

\* A steady run gets ready only when every account and trust line it asked for is
\* on the ledger or queued, although most errors are only logged.
THEOREM SteadyCorrect == Spec => SteadyRunsSetUp
<1> DEFINE Complete == \A p \in steady :
             Running(p) /\ program'[p].process = "ready"
               => LinesOf(p) \subseteq ledger \cup Queued({"trust"})
<1>1. IInv /\ [Next]_vars => Complete
  <2> SUFFICES ASSUME IInv, [Next]_vars, NEW p \in steady, Running(p),
                      program'[p].process = "ready"
               PROVE  LinesOf(p) \subseteq ledger \cup Queued({"trust"})
    OBVIOUS
  <2>1. p \in Program
    BY DEF IInv, Types
  <2> QED
    BY <2>1, OnlyReady, SetUpIsComplete
<1>2. IInv /\ [Next]_vars => [Complete]_vars
  BY <1>1
<1>3. Spec => [][Complete]_vars
  BY <1>2, Invariance, PTL DEF Spec
<1> QED
  BY <1>3 DEF SteadyRunsSetUp

-----------------------------------------------------------------------------
(***************************************************************************)
(* What the lists of steps ask for, one after another.                     *)
(***************************************************************************)

Own(accounts) == accounts \X {"XLM"}
Loading == {"mustLoad", "load"}
Tokens(n) == TokensOf(Devices(n))

\* The accounts that are created by one transaction.
Creations(n) ==
  {Own({Batch, UsecasesIssuer}), Own({Batch}), Own({Random}), Own({FunctionsIssuer}),
   Own(ToSet(Aggregators))}
    \cup {Own(chunk) : chunk \in ToSet(Chunks(Devices(n), MaxOperations))}

\* A transaction keeps to the limits.
Fits(step) ==
  /\ Cardinality(step.lines) <= MaxOperations
  /\ step.do = "trust" => Cardinality(AccountsOf(step.lines)) + 1 <= MaxSigners

\* The steps of program p for n sensors.
Known(p, n, step) ==
  /\ step.do = "create" => step.lines \in Creations(n) /\ step.to # "core"
  /\ step.do = "create" /\ IssuerLine \in step.lines => p = "generator"
  /\ step.do = "load" => p = "generator" /\ step.lines = Own(ToSet(Devices(n)))
  /\ step.do = "trust" => \A line \in step.lines : line[2] # "XLM"
  /\ step.do = "fund" => IF p = "generator" THEN step.lines = Tokens(n) /\ step.to = "horizon"
                                            ELSE step.lines \cap Tokens(n) = {}
  /\ step.do \in Submission => Fits(step) \/ (p = "generator" /\ step.do = "fund")

\* The accounts a step needs are created, or loaded, by earlier ones.
Needs(base, step, earlier) ==
  /\ step.do \in Loading => \A line \in step.lines :
       line \in base \/ \E other \in earlier : other.do = "create" /\ line \in other.lines
  /\ step.do = "trust" => \A line \in step.lines :
       \E other \in earlier : other.do \in Loading /\ <<line[1], "XLM">> \in other.lines
Earlier(steps, i) == {steps[j] : j \in {j \in DOMAIN steps : j < i}}
Prepared(base, steps) == \A i \in DOMAIN steps : Needs(base, steps[i], Earlier(steps, i))

\* The master account there is, and the aggregator takes the sensors for granted.
Base(p, n) ==
  {<<Master, "XLM">>} \cup (IF p = "aggregator" THEN Own(ToSet(Devices(n))) ELSE {})

\* One list after another.
LEMMA PreparedNext ==
  ASSUME NEW s \in Seq(SoundStep), NEW t \in Seq(SoundStep), NEW base, Prepared(base, s),
         \A step \in ToSet(t) : Needs(base, step, ToSet(s))
  PROVE  Prepared(base, s \o t)
<1> DEFINE u == s \o t
<1>1. /\ u \in Seq(SoundStep) /\ Len(s) \in Nat /\ Len(t) \in Nat
      /\ Len(u) = Len(s) + Len(t)
      /\ DOMAIN s = 1 .. Len(s) /\ DOMAIN t = 1 .. Len(t) /\ DOMAIN u = 1 .. Len(u)
      /\ \A i \in 1 .. Len(s) + Len(t) : u[i] = IF i <= Len(s) THEN s[i] ELSE t[i - Len(s)]
  BY ConcatProperties
<1> HIDE DEF u
<1>2. \A i \in DOMAIN s : i \in DOMAIN u /\ u[i] = s[i]
  BY <1>1
<1>3. SUFFICES ASSUME NEW i \in DOMAIN u PROVE Needs(base, u[i], Earlier(u, i))
  BY DEF Prepared, u
<1>4. CASE i <= Len(s)
  <2>1. i \in DOMAIN s /\ u[i] = s[i]
    BY <1>1, <1>4
  <2>2. Earlier(s, i) \subseteq Earlier(u, i)
    BY <1>2 DEF Earlier
  <2>3. Needs(base, s[i], Earlier(s, i))
    BY <2>1 DEF Prepared
  <2> QED
    BY <2>1, <2>2, <2>3 DEF Needs
<1>5. CASE ~(i <= Len(s))
  <2>1. i - Len(s) \in DOMAIN t /\ u[i] = t[i - Len(s)]
    BY <1>1, <1>5
  <2>2. ToSet(s) \subseteq Earlier(u, i)
    <3>1. \A j \in DOMAIN s : j \in DOMAIN u /\ u[j] = s[j] /\ j < i
      BY <1>1, <1>2, <1>5
    <3> QED
      BY <3>1 DEF ToSet, Earlier
  <2>3. Needs(base, t[i - Len(s)], ToSet(s))
    BY <2>1 DEF ToSet
  <2> QED
    BY <2>1, <2>2, <2>3 DEF Needs
<1> QED
  BY <1>4, <1>5

\* A chunk is not too large, and no two of them have a member in common.
LEMMA ChunksFit ==
  ASSUME NEW S, NEW slice \in Seq(S), NEW chunkSize \in Nat \ {0}
  PROVE  /\ \A chunk \in ToSet(Chunks(slice, chunkSize)) :
              IsFiniteSet(chunk) /\ Cardinality(chunk) \in Nat /\ Cardinality(chunk) <= chunkSize
         /\ (\A i, j \in DOMAIN slice : slice[i] = slice[j] => i = j) =>
              \A c, d \in ToSet(Chunks(slice, chunkSize)) : c = d \/ c \cap d = {}
<1> DEFINE chunks == Chunks(slice, chunkSize)
           n == (Len(slice) + chunkSize - 1) \div chunkSize
           Part(i) == {j \in DOMAIN slice : (j - 1) \div chunkSize = i - 1}
<1>1. Len(slice) \in Nat /\ DOMAIN slice = 1 .. Len(slice) /\ n \in Nat
  <2>1. Len(slice) \in Nat /\ DOMAIN slice = 1 .. Len(slice)
    OBVIOUS
  <2>2. Len(slice) + chunkSize - 1 \in Nat
    BY <2>1
  <2> QED
    BY <2>1, <2>2, Division
<1>2. /\ DOMAIN chunks = 1 .. n
      /\ \A i \in 1 .. n : chunks[i] = {slice[j] : j \in Part(i)}
  BY DEF Chunks
<1> HIDE DEF chunks, n
<1>3. ASSUME NEW i \in 1 .. n
      PROVE  IsFiniteSet(chunks[i]) /\ Cardinality(chunks[i]) <= chunkSize
  <2> DEFINE P == Part(i)
             low == chunkSize * (i - 1) + 1
             high == chunkSize * (i - 1) + chunkSize
             f == [j \in P |-> slice[j]]
  <2>1. i - 1 \in Nat
    BY <1>1
  <2>2. chunkSize * (i - 1) \in Nat
    BY <2>1
  <2>3. low \in Int /\ high \in Int /\ high - low + 1 = chunkSize /\ ~(low > high)
    <3> DEFINE q == chunkSize * (i - 1)
    <3>1. q \in Nat
      BY <2>2
    <3> HIDE DEF q
    <3> QED
      BY <3>1 DEF q
  <2>4. P \subseteq low .. high
    <3> SUFFICES ASSUME NEW j \in P PROVE j \in low .. high
      OBVIOUS
    <3>1. j \in 1 .. Len(slice) /\ (j - 1) \div chunkSize = i - 1 /\ j - 1 \in Nat
      BY <1>1
    <3>2. (j - 1) % chunkSize \in 0 .. chunkSize - 1
          /\ j - 1 = chunkSize * ((j - 1) \div chunkSize) + ((j - 1) % chunkSize)
      BY <3>1, Division
    <3> DEFINE q == chunkSize * (i - 1)
               r == (j - 1) % chunkSize
    <3>3. j - 1 = q + r /\ r \in 0 .. chunkSize - 1 /\ q \in Nat
      BY <2>2, <3>1, <3>2
    <3> HIDE DEF q, r
    <3>4. j \in q + 1 .. q + chunkSize
      BY <3>1, <3>3, SMTT(30)
    <3> QED
      BY <3>4 DEF q
  <2> HIDE DEF low, high
  <2>5. IsFiniteSet(low .. high) /\ Cardinality(low .. high) = chunkSize
    BY <2>3, FS_Interval
  <2> HIDE DEF P
  <2>6. IsFiniteSet(P) /\ Cardinality(P) <= chunkSize
    BY <2>4, <2>5, FS_Subset
  <2>7. chunks[i] = {slice[j] : j \in P}
    BY <1>2 DEF P
  <2>8. f \in [P -> chunks[i]] /\ \A x \in chunks[i] : \E j \in P : f[j] = x
    BY <2>7
  <2> HIDE DEF f
  <2>9. f \in Surjection(P, chunks[i])
    BY <2>8 DEF Surjection
  <2>10. IsFiniteSet(chunks[i]) /\ Cardinality(chunks[i]) <= Cardinality(P)
    BY <2>6, <2>9, FS_Surjection
  <2>11. Cardinality(chunks[i]) \in Nat /\ Cardinality(P) \in Nat
    BY <2>6, <2>10, FS_CardinalityType
  <2> QED
    BY <2>6, <2>10, <2>11
<1>4. \A chunk \in ToSet(chunks) :
        IsFiniteSet(chunk) /\ Cardinality(chunk) \in Nat /\ Cardinality(chunk) <= chunkSize
  BY <1>2, <1>3, FS_CardinalityType DEF ToSet
<1>5. ASSUME \A i, j \in DOMAIN slice : slice[i] = slice[j] => i = j,
             NEW i \in 1 .. n, NEW j \in 1 .. n, chunks[i] \cap chunks[j] # {}
      PROVE  i = j
  <2>1. PICK x : x \in chunks[i] /\ x \in chunks[j]
    BY <1>5
  <2>2. PICK k \in Part(i) : x = slice[k]
    BY <1>2, <2>1
  <2>3. PICK l \in Part(j) : x = slice[l]
    BY <1>2, <2>1
  <2>4. k = l
    BY <1>5, <2>2, <2>3
  <2>5. i - 1 = j - 1
    BY <2>2, <2>3, <2>4
  <2> QED
    BY <1>1, <2>5
<1>6. (\A i, j \in DOMAIN slice : slice[i] = slice[j] => i = j) =>
        \A c, d \in ToSet(chunks) : c = d \/ c \cap d = {}
  BY <1>2, <1>5 DEF ToSet
<1> QED
  BY <1>4, <1>6 DEF chunks

\* As many lines as accounts.
LEMMA OwnFits ==
  ASSUME NEW accounts, IsFiniteSet(accounts), Cardinality(accounts) <= MaxOperations
  PROVE  Cardinality(Own(accounts)) <= MaxOperations
<1>1. IsFiniteSet({"XLM"}) /\ Cardinality({"XLM"}) = 1
  BY FS_Singleton
<1>2. Cardinality(Own(accounts)) = Cardinality(accounts) * 1
  BY <1>1, FS_Product DEF Own
<1>3. Cardinality(accounts) \in Nat
  BY FS_CardinalityType
<1> QED
  BY <1>2, <1>3

\* The master account signs, too, and there are three lines to an account at most.
LEMMA TrustFits ==
  ASSUME NEW accounts, IsFiniteSet(accounts), Cardinality(accounts) <= MaxSigners - 1,
         NEW assets \in {PhysicsType, Function}
  PROVE  /\ Cardinality(accounts \X assets) <= MaxOperations
         /\ Cardinality(AccountsOf(accounts \X assets)) + 1 <= MaxSigners
<1>1. IsFiniteSet(assets) /\ Cardinality(assets) \in Nat /\ Cardinality(assets) <= 3
  <2>1. IsFiniteSet({"AVG"}) /\ Cardinality({"AVG"}) = 1
    BY FS_Singleton
  <2>2. IsFiniteSet({"AVG"} \cup {"MIN"}) /\ Cardinality({"AVG"} \cup {"MIN"}) = 2
    BY <2>1, FS_AddElement
  <2>3. IsFiniteSet(({"AVG"} \cup {"MIN"}) \cup {"MAX"})
        /\ Cardinality(({"AVG"} \cup {"MIN"}) \cup {"MAX"}) = 3
    BY <2>2, FS_AddElement
  <2>4. Function = ({"AVG"} \cup {"MIN"}) \cup {"MAX"}
    BY DEF Function
  <2>5. IsFiniteSet({"TEMP"}) /\ Cardinality({"TEMP"}) = 1
    BY FS_Singleton
  <2>6. IsFiniteSet({"TEMP"} \cup {"HUMD"}) /\ Cardinality({"TEMP"} \cup {"HUMD"}) = 2
    BY <2>5, FS_AddElement
  <2>7. PhysicsType = {"TEMP"} \cup {"HUMD"}
    BY DEF PhysicsType
  <2> QED
    BY <2>3, <2>4, <2>6, <2>7
<1>2. Cardinality(accounts) \in Nat /\ MaxSigners \in Nat \ {0, 1} /\ MaxOperations \in Nat
  BY FS_CardinalityType, LimitsAssumption
<1>3. Cardinality(accounts \X assets) <= MaxOperations
  <2> DEFINE a == Cardinality(accounts)
             b == Cardinality(assets)
  <2>1. Cardinality(accounts \X assets) = a * b
    BY <1>1, FS_Product
  <2>2. a \in Nat /\ b \in {0, 1, 2, 3} /\ a <= MaxSigners - 1
    BY <1>1, <1>2
  <2> HIDE DEF a, b
  <2>3. a * b <= 3 * a
    BY <2>2
  <2>4. 3 * a <= 3 * (MaxSigners - 1)
    BY <1>2, <2>2
  <2>5. a * b \in Nat
    BY <2>2
  <2> QED
    BY <1>2, <2>1, <2>2, <2>3, <2>4, <2>5, LimitsAssumption
<1>4. AccountsOf(accounts \X assets) \in SUBSET accounts
  BY DEF AccountsOf
<1>5. /\ IsFiniteSet(AccountsOf(accounts \X assets))
      /\ Cardinality(AccountsOf(accounts \X assets)) <= Cardinality(accounts)
  BY <1>4, FS_Subset
<1>6. Cardinality(AccountsOf(accounts \X assets)) \in Nat
  BY <1>5, FS_CardinalityType
<1> QED
  BY <1>2, <1>3, <1>5, <1>6

\* The members of a list of one step.
LEMMA Alike ==
  ASSUME NEW step
  PROVE  ToSet(<<step>>) = {step} /\ Len(<<step>>) = 1 /\ <<step>>[1] = step
BY DEF ToSet

\* Loading accounts.
LEMMA KnownLoad ==
  ASSUME NEW p \in Program, NEW n \in Nat, NEW accounts
  PROVE  \A step \in ToSet(MustLoad(accounts)) :
           /\ Known(p, n, step) /\ step.do = "mustLoad" /\ step.lines = Own(accounts)
<1> DEFINE step == [do |-> "mustLoad", lines |-> accounts \X {"XLM"}, to |-> "fatal"]
<1>1. ToSet(MustLoad(accounts)) = {step}
  BY Alike DEF MustLoad
<1>2. Known(p, n, step)
  BY DEF Known, Submission
<1>3. step.do = "mustLoad" /\ step.lines = Own(accounts)
  BY DEF Own
<1> QED
  BY <1>1, <1>2, <1>3

\* The accounts that load.
LEMMA LoadsThem ==
  ASSUME NEW accounts
  PROVE  \E step \in ToSet(MustLoad(accounts)) : step.do \in Loading /\ step.lines = Own(accounts)
<1> DEFINE step == [do |-> "mustLoad", lines |-> accounts \X {"XLM"}, to |-> "fatal"]
<1>1. ToSet(MustLoad(accounts)) = {step}
  BY Alike DEF MustLoad
<1> QED
  BY <1>1 DEF Own, Loading

\* Creating accounts.
LEMMA KnownCreate ==
  ASSUME NEW p \in Program, NEW n \in Nat, NEW accounts, NEW to \in {"horizon", "idempotent"},
         IsFiniteSet(accounts), Cardinality(accounts) <= MaxOperations,
         Own(accounts) \in Creations(n), UsecasesIssuer \in accounts => p = "generator"
  PROVE  /\ \A step \in ToSet(CreateAccounts(accounts, to)) :
              Known(p, n, step) /\ step.do = "create"
         /\ \E step \in ToSet(CreateAccounts(accounts, to)) :
              step.do = "create" /\ step.lines = Own(accounts)
<1> DEFINE step == [do |-> "create", lines |-> accounts \X {"XLM"}, to |-> to]
<1>1. ToSet(CreateAccounts(accounts, to)) = {step}
  BY Alike DEF CreateAccounts
<1>2. step.lines = Own(accounts) /\ step.do = "create" /\ step.to = to
  BY DEF Own
<1> HIDE DEF step
<1>3. IssuerLine \in step.lines => p = "generator"
  BY <1>2 DEF Own, IssuerLine
<1>4. Fits(step)
  BY <1>2, OwnFits DEF Fits
<1>5. Known(p, n, step)
  BY <1>2, <1>3, <1>4 DEF Known
<1> QED
  BY <1>1, <1>2, <1>5

\* Creating trust lines.
LEMMA KnownTrust ==
  ASSUME NEW p \in Program, NEW n \in Nat, NEW chunks \in Seq(SUBSET Account),
         \A chunk \in ToSet(chunks) :
           IsFiniteSet(chunk) /\ Cardinality(chunk) <= MaxSigners - 1,
         NEW assets \in {PhysicsType, Function}, NEW to \in {"horizon", "core"}
  PROVE  /\ \A step \in ToSet(CreateTrustlines(chunks, assets, to)) :
              /\ Known(p, n, step) /\ step.do = "trust"
              /\ \E chunk \in ToSet(chunks) : step.lines = chunk \X assets
         /\ \A chunk \in ToSet(chunks) : \E step \in ToSet(CreateTrustlines(chunks, assets, to)) :
              step.do = "trust" /\ step.lines = chunk \X assets
<1> DEFINE steps == CreateTrustlines(chunks, assets, to)
<1>1. /\ DOMAIN steps = DOMAIN chunks
      /\ \A i \in DOMAIN chunks :
           steps[i] = [do |-> "trust", lines |-> chunks[i] \X assets, to |-> to]
  BY Assets, TrustSteps, SMTT(30)
<1> HIDE DEF steps
<1>2. ASSUME NEW i \in DOMAIN chunks
      PROVE  Known(p, n, steps[i]) /\ steps[i].do = "trust" /\ steps[i].lines = chunks[i] \X assets
  <2>1. steps[i].do = "trust" /\ steps[i].lines = chunks[i] \X assets
    BY <1>1
  <2>2. IsFiniteSet(chunks[i]) /\ Cardinality(chunks[i]) <= MaxSigners - 1
    BY DEF ToSet
  <2>3. /\ Cardinality(chunks[i] \X assets) <= MaxOperations
        /\ Cardinality(AccountsOf(chunks[i] \X assets)) + 1 <= MaxSigners
    BY <2>2, TrustFits
  <2>4. Fits(steps[i])
    BY <2>1, <2>3 DEF Fits
  <2>5. \A line \in steps[i].lines : line[2] # "XLM"
    BY <2>1, Assets
  <2> QED
    BY <2>1, <2>4, <2>5 DEF Known
<1>3. /\ \A step \in ToSet(steps) : \E i \in DOMAIN chunks : step = steps[i]
      /\ \A i \in DOMAIN chunks : steps[i] \in ToSet(steps) /\ chunks[i] \in ToSet(chunks)
      /\ \A chunk \in ToSet(chunks) : \E i \in DOMAIN chunks : chunk = chunks[i]
  BY <1>1 DEF ToSet
<1>4. ASSUME NEW step \in ToSet(steps)
      PROVE  /\ Known(p, n, step) /\ step.do = "trust"
             /\ \E chunk \in ToSet(chunks) : step.lines = chunk \X assets
  <2>1. PICK i \in DOMAIN chunks : step = steps[i]
    BY <1>3
  <2> QED
    BY <1>2, <1>3, <2>1
<1>5. ASSUME NEW chunk \in ToSet(chunks)
      PROVE  \E step \in ToSet(steps) : step.do = "trust" /\ step.lines = chunk \X assets
  <2>1. PICK i \in DOMAIN chunks : chunk = chunks[i]
    BY <1>3
  <2> QED
    BY <1>2, <1>3, <2>1
<1> QED
  BY <1>4, <1>5 DEF steps

\* The sensors, each with an account of its own.
LEMMA SensorLists ==
  ASSUME NEW n \in Nat
  PROVE  /\ \A i, j \in DOMAIN Devices(n) : Devices(n)[i] = Devices(n)[j] => i = j
         /\ \A device \in ToSet(Devices(n)) : device[1] = "device"
         /\ \A account \in ToSet(Aggregators) : account[1] = "time"
         /\ IsFiniteSet(ToSet(Aggregators)) /\ Cardinality(ToSet(Aggregators)) <= MaxOperations
<1>1. /\ DOMAIN Devices(n) = 1 .. n /\ \A i \in 1 .. n : Devices(n)[i] = <<"device", i>>
      /\ DOMAIN Aggregators = 1 .. NumTimeAccounts
      /\ \A i \in 1 .. NumTimeAccounts : Aggregators[i] = <<"time", i>>
  BY DEF Devices, Aggregators
<1>2. IsFiniteSet(ToSet(Aggregators)) /\ Cardinality(ToSet(Aggregators)) <= MaxOperations
  <2>1. /\ NumTimeAccounts \in Int /\ NumTimeAccounts >= 0 /\ NumTimeAccounts <= MaxOperations
        /\ 1 \in Int /\ MaxOperations \in Int
    BY NumTimeAccountsAssumption, LimitsAssumption
  <2>2. IsFiniteSet(1 .. NumTimeAccounts) /\ Cardinality(1 .. NumTimeAccounts) = NumTimeAccounts
    BY <2>1, FS_Interval
  <2>3. Aggregators \in Surjection(1 .. NumTimeAccounts, ToSet(Aggregators))
    BY <1>1 DEF Surjection, ToSet, Aggregators
  <2>4. /\ IsFiniteSet(ToSet(Aggregators))
        /\ Cardinality(ToSet(Aggregators)) <= Cardinality(1 .. NumTimeAccounts)
    BY <2>2, <2>3, FS_Surjection
  <2>5. Cardinality(ToSet(Aggregators)) \in Nat
    BY <2>4, FS_CardinalityType
  <2> QED
    BY <2>1, <2>2, <2>4, <2>5
<1> QED
  BY <1>1, <1>2 DEF ToSet

\* The chunks of accounts that get trust lines.
LEMMA SignersFit ==
  ASSUME NEW slice \in Seq(Account)
  PROVE  /\ SignerChunks(slice) \in Seq(SUBSET Account)
         /\ \A chunk \in ToSet(SignerChunks(slice)) :
              /\ IsFiniteSet(chunk) /\ Cardinality(chunk) <= MaxSigners - 1
              /\ chunk \subseteq ToSet(slice)
         /\ \A account \in ToSet(slice) : \E chunk \in ToSet(SignerChunks(slice)) : account \in chunk
<1> DEFINE size == MaxSigners - 1
<1>1. size \in Nat \ {0} /\ SignerChunks(slice) = Chunks(slice, size)
  BY LimitsAssumption DEF SignerChunks
<1> HIDE DEF size
<1>2. \A chunk \in ToSet(Chunks(slice, size)) : IsFiniteSet(chunk) /\ Cardinality(chunk) <= size
  BY <1>1, ChunksFit
<1>3. /\ Chunks(slice, size) \in Seq(SUBSET Account)
      /\ \A i \in DOMAIN slice : \E j \in DOMAIN Chunks(slice, size) :
           slice[i] \in Chunks(slice, size)[j]
      /\ \A j \in DOMAIN Chunks(slice, size) : Chunks(slice, size)[j] \subseteq ToSet(slice)
  BY <1>1, ChunksCover
<1>4. size = MaxSigners - 1
  BY DEF size
<1> QED
  BY <1>1, <1>2, <1>3, <1>4 DEF ToSet

\* A list of steps that are known, and ask for nothing before its time.
Orderly(p, n, steps) ==
  /\ steps \in Seq(SoundStep)
  /\ \A step \in ToSet(steps) : Known(p, n, step)
  /\ Prepared(Base(p, n), steps)

LEMMA OrderlyNext ==
  ASSUME NEW p \in Program, NEW n \in Nat, NEW s, NEW t \in Seq(SoundStep), Orderly(p, n, s),
         \A step \in ToSet(t) : Known(p, n, step) /\ Needs(Base(p, n), step, ToSet(s))
  PROVE  /\ Orderly(p, n, s \o t)
         /\ ToSet(s \o t) = ToSet(s) \cup ToSet(t)
<1>1. s \in Seq(SoundStep) /\ Prepared(Base(p, n), s)
  BY DEF Orderly
<1>2. s \o t \in Seq(SoundStep) /\ ToSet(s \o t) = ToSet(s) \cup ToSet(t)
  BY <1>1, Joined
<1>3. Prepared(Base(p, n), s \o t)
  <2> DEFINE base == Base(p, n)
  <2> HIDE DEF base
  <2>1. Prepared(base, s) /\ \A step \in ToSet(t) : Needs(base, step, ToSet(s))
    BY <1>1 DEF base
  <2>2. Prepared(base, s \o t)
    BY <1>1, <2>1, PreparedNext
  <2> QED
    BY <2>2 DEF base
<1> QED
  BY <1>2, <1>3 DEF Orderly

\* It begins with the master account.
LEMMA OrderlyFirst ==
  ASSUME NEW p \in Program, NEW n \in Nat
  PROVE  Orderly(p, n, MustLoad({Master}))
<1> DEFINE s == MustLoad({Master})
<1>1. s \in Seq(SoundStep)
  BY MustLoadSteps, SingleAccounts
<1>2. \A step \in ToSet(s) : /\ Known(p, n, step) /\ step.do = "mustLoad"
                             /\ step.lines = Own({Master})
  BY KnownLoad
<1> HIDE DEF s
<1>3. \A i \in DOMAIN s : s[i] \in ToSet(s)
  BY DEF ToSet
<1>4. \A i \in DOMAIN s : Needs(Base(p, n), s[i], Earlier(s, i))
  BY <1>2, <1>3 DEF Needs, Base, Own
<1> QED
  BY <1>1, <1>2, <1>4 DEF Orderly, Prepared, s

\* The accounts of the sensors are created in chunks.
LEMMA KnownSensors ==
  ASSUME NEW n \in Nat
  PROVE  LET steps == CreateSensorAccounts(Devices(n))
         IN  /\ steps \in Seq(SoundStep)
             /\ \A step \in ToSet(steps) : Known("generator", n, step) /\ step.do = "create"
             /\ \A device \in ToSet(Devices(n)) : \E step \in ToSet(steps) :
                  step.do = "create" /\ <<device, "XLM">> \in step.lines
<1> DEFINE devices == Devices(n)
           chunks == Chunks(devices, MaxOperations)
           steps == CreateSensorAccounts(devices)
<1>1. devices \in Seq(Account) /\ UsecasesIssuer \notin ToSet(devices)
  BY AccountLists
<1>2. steps \in Seq(SoundStep)
  BY <1>1, SensorSteps
<1>3. /\ \A chunk \in ToSet(chunks) : IsFiniteSet(chunk) /\ Cardinality(chunk) <= MaxOperations
      /\ \A i \in DOMAIN devices : \E j \in DOMAIN chunks : devices[i] \in chunks[j]
  <2> HIDE DEF devices
  <2>1. MaxOperations \in Nat \ {0}
    BY LimitsAssumption
  <2>2. \A chunk \in ToSet(chunks) : IsFiniteSet(chunk) /\ Cardinality(chunk) <= MaxOperations
    BY <1>1, <2>1, ChunksFit
  <2>3. \A i \in DOMAIN devices : \E j \in DOMAIN chunks : devices[i] \in chunks[j]
    BY <1>1, <2>1, ChunksCover
  <2> QED
    BY <2>2, <2>3
<1>4. /\ DOMAIN steps = DOMAIN chunks
      /\ \A i \in DOMAIN chunks : steps[i] = CreateAccounts(chunks[i], "horizon")[1]
  BY DEF CreateSensorAccounts
<1>5. ASSUME NEW i \in DOMAIN chunks
      PROVE  /\ Known("generator", n, steps[i]) /\ steps[i].do = "create"
             /\ steps[i].lines = Own(chunks[i])
  <2> DEFINE chunk == chunks[i]
             step == [do |-> "create", lines |-> chunk \X {"XLM"}, to |-> "horizon"]
  <2>1. chunk \in ToSet(chunks)
    BY DEF ToSet
  <2>2. Own(chunk) \in Creations(n)
    BY <2>1 DEF Creations
  <2>3. CreateAccounts(chunk, "horizon") = <<step>>
    BY DEF CreateAccounts
  <2>4. CreateAccounts(chunk, "horizon")[1] = step /\ step \in ToSet(CreateAccounts(chunk, "horizon"))
    BY <2>3, Alike
  <2>5. IsFiniteSet(chunk) /\ Cardinality(chunk) <= MaxOperations
    BY <1>3, <2>1
  <2>6. steps[i] = step
    BY <1>4, <2>4
  <2>7. step.lines = Own(chunk)
    BY DEF Own
  <2> HIDE DEF chunk, step, steps
  <2>8. Known("generator", n, step) /\ step.do = "create"
    <3>1. "generator" \in Program
      BY DEF Program
    <3> QED
      BY <2>2, <2>4, <2>5, <3>1, KnownCreate
  <2> QED
    BY <2>6, <2>7, <2>8 DEF chunk
<1> HIDE DEF steps, chunks, devices
<1>6. \A step \in ToSet(steps) : Known("generator", n, step) /\ step.do = "create"
  BY <1>4, <1>5 DEF ToSet
<1>7. ASSUME NEW device \in ToSet(devices)
      PROVE  \E step \in ToSet(steps) : step.do = "create" /\ <<device, "XLM">> \in step.lines
  <2>1. PICK j \in DOMAIN chunks : device \in chunks[j]
    BY <1>3 DEF ToSet
  <2>2. steps[j] \in ToSet(steps)
    BY <1>4 DEF ToSet
  <2> QED
    BY <1>5, <2>1, <2>2 DEF Own
<1> QED
  BY <1>2, <1>6, <1>7 DEF steps, devices

\* The lists of accounts that are created at once.
LEMMA KnownLists ==
  ASSUME NEW n \in Nat
  PROVE  /\ Own({Batch, UsecasesIssuer}) \in Creations(n) /\ Own({Batch}) \in Creations(n)
         /\ Own({Random}) \in Creations(n) /\ Own({FunctionsIssuer}) \in Creations(n)
         /\ Own(ToSet(Aggregators)) \in Creations(n)
         /\ IsFiniteSet({Batch, UsecasesIssuer})
         /\ Cardinality({Batch, UsecasesIssuer}) <= MaxOperations
         /\ \A account : IsFiniteSet({account}) /\ Cardinality({account}) = 1
                         /\ Cardinality({account}) <= MaxOperations
<1>1. \A account : IsFiniteSet({account}) /\ Cardinality({account}) = 1
  BY FS_Singleton
<1>2. MaxOperations \in Nat /\ MaxOperations >= 3
  BY LimitsAssumption
<1>3. IsFiniteSet({Batch} \cup {UsecasesIssuer}) /\ Cardinality({Batch} \cup {UsecasesIssuer}) = 2
  <2>1. UsecasesIssuer \notin {Batch}
    BY DEF UsecasesIssuer, Batch
  <2>2. IsFiniteSet({Batch}) /\ Cardinality({Batch}) = 1
    BY <1>1
  <2>3. /\ IsFiniteSet({Batch} \cup {UsecasesIssuer})
        /\ Cardinality({Batch} \cup {UsecasesIssuer}) = 1 + 1
    BY <2>1, <2>2, FS_AddElement
  <2> QED
    BY <2>3
<1>4. {Batch, UsecasesIssuer} = {Batch} \cup {UsecasesIssuer}
  OBVIOUS
<1>5. /\ IsFiniteSet({Batch, UsecasesIssuer})
      /\ Cardinality({Batch, UsecasesIssuer}) <= MaxOperations
  BY <1>2, <1>3, <1>4
<1>6. \A list \in {Own({Batch, UsecasesIssuer}), Own({Batch}), Own({Random}),
                  Own({FunctionsIssuer}), Own(ToSet(Aggregators))} : list \in Creations(n)
  BY Zenon DEF Creations
<1>7. /\ Own({Batch, UsecasesIssuer}) \in Creations(n) /\ Own({Batch}) \in Creations(n)
      /\ Own({Random}) \in Creations(n) /\ Own({FunctionsIssuer}) \in Creations(n)
      /\ Own(ToSet(Aggregators)) \in Creations(n)
  BY <1>6, Zenon
<1>8. \A account : Cardinality({account}) <= MaxOperations
  <2> TAKE account
  <2>1. Cardinality({account}) = 1
    BY <1>1, Zenon
  <2> QED
    BY <1>2, <2>1
<1> QED
  BY <1>1, <1>5, <1>8, <1>7, Zenon

\* The generator's list.
LEMMA GeneratorIsOrderly ==
  ASSUME NEW n \in Nat, NEW p \in Program, p = "generator"
  PROVE  LET steps == Generator(Devices(n))
         IN  /\ Orderly(p, n, steps)
             /\ \A i \in DOMAIN steps : steps[i].do = "fund" => i = Len(steps)
             /\ steps[Len(steps)].do = "fund"
             /\ \A line \in Tokens(n) : \E step \in ToSet(steps) :
                  step.do = "trust" /\ line \in step.lines
<1> DEFINE devices == Devices(n)
           p1 == MustLoad({Master})
           p2 == GeneratorAccounts
           p3 == MustLoad({Batch, UsecasesIssuer})
           p4 == CreateSensorAccounts(devices)
           p5 == CreateReceiverTrustlines
           p6 == CreateSensorDevices(devices)
           p7 == CreateTrustlines(SignerChunks(devices), PhysicsType, "core")
           p8 == FundEvenly(TokensOf(devices), "horizon")
           s2 == p1 \o p2
           s3 == s2 \o p3
           s4 == s3 \o p4
           s5 == s4 \o p5
           s6 == s5 \o p6
           s7 == s6 \o p7
<1>1. /\ devices \in Seq(Account) /\ DOMAIN devices = 1 .. n
      /\ UsecasesIssuer \notin ToSet(devices)
  BY AccountLists
<1>2. Generator(devices) = s7 \o p8
  BY DEF Generator
<1>3. \A s : Needs(Base(p, n), [do |-> "fund", lines |-> Tokens(n), to |-> "horizon"], s)
  BY DEF Needs, Loading
<1>4. /\ p2 \in Seq(SoundStep)
      /\ \A step \in ToSet(p2) : Known(p, n, step) /\ step.do = "create"
      /\ \E step \in ToSet(p2) : step.do = "create" /\ step.lines = Own({Batch, UsecasesIssuer})
  <2>1. p2 \in Seq(SoundStep)
    BY CreateSteps, SingleAccounts DEF GeneratorAccounts
  <2> QED
    BY <2>1, KnownCreate, KnownLists DEF GeneratorAccounts
<1>5. /\ p3 \in Seq(SoundStep)
      /\ \A step \in ToSet(p3) : /\ Known(p, n, step) /\ step.do = "mustLoad"
                                 /\ step.lines = Own({Batch, UsecasesIssuer})
      /\ \E step \in ToSet(p3) : step.do \in Loading /\ step.lines = Own({Batch, UsecasesIssuer})
  <2>1. p3 \in Seq(SoundStep)
    BY MustLoadSteps, SingleAccounts
  <2> QED
    BY <2>1, KnownLoad, LoadsThem
<1>6. /\ p4 \in Seq(SoundStep)
      /\ \A step \in ToSet(p4) : Known(p, n, step) /\ step.do = "create"
      /\ \A device \in ToSet(devices) : \E step \in ToSet(p4) :
           step.do = "create" /\ <<device, "XLM">> \in step.lines
  BY KnownSensors
<1>7. /\ p5 \in Seq(SoundStep)
      /\ \A step \in ToSet(p5) : /\ Known(p, n, step) /\ step.do = "trust"
                                 /\ step.lines = {Batch} \X PhysicsType
  <2> DEFINE batch == <<{Batch}>>
  <2>1. batch \in Seq(SUBSET Account) /\ ToSet(batch) = {{Batch}}
    BY SingleAccounts, Alike
  <2>2. IsFiniteSet({Batch}) /\ Cardinality({Batch}) <= MaxSigners - 1
    <3>1. IsFiniteSet({Batch}) /\ Cardinality({Batch}) = 1
      BY FS_Singleton
    <3> QED
      BY <3>1, LimitsAssumption
  <2>3. p5 = CreateTrustlines(batch, PhysicsType, "horizon")
    BY DEF CreateReceiverTrustlines
  <2> HIDE DEF batch, p5
  <2>4. p5 \in Seq(SoundStep)
    BY <2>1, <2>3, TrustSteps, Assets
  <2>5. \A step \in ToSet(p5) : /\ Known(p, n, step) /\ step.do = "trust"
                                /\ \E chunk \in ToSet(batch) : step.lines = chunk \X PhysicsType
    <3>1. \A chunk \in ToSet(batch) : IsFiniteSet(chunk) /\ Cardinality(chunk) <= MaxSigners - 1
      BY <2>1, <2>2
    <3>2. batch \in Seq(SUBSET Account)
      BY <2>1
    <3> QED
      BY <2>3, <3>1, <3>2, KnownTrust
  <2> QED
    BY <2>1, <2>4, <2>5
<1>8. /\ p6 \in Seq(SoundStep)
      /\ \A step \in ToSet(p6) : /\ Known(p, n, step) /\ step.do = "load"
                                 /\ step.lines = Own(ToSet(devices))
      /\ \E step \in ToSet(p6) : step.do \in Loading /\ step.lines = Own(ToSet(devices))
  <2> DEFINE step == [do |-> "load", lines |-> ToSet(devices) \X {"XLM"}, to |-> "nil"]
  <2>1. p6 \in Seq(SoundStep)
    BY <1>1, LoadSteps
  <2>2. ToSet(p6) = {step}
    BY Alike DEF CreateSensorDevices
  <2>3. step.do = "load" /\ step.lines = Own(ToSet(devices))
    BY DEF Own
  <2>4. Known(p, n, step)
    BY <2>3 DEF Known, Submission
  <2> QED
    BY <2>1, <2>2, <2>3, <2>4 DEF Loading
<1>9. /\ p7 \in Seq(SoundStep)
      /\ \A step \in ToSet(p7) : /\ Known(p, n, step) /\ step.do = "trust"
                                 /\ \A line \in step.lines : line[1] \in ToSet(devices)
      /\ \A line \in Tokens(n) : \E step \in ToSet(p7) : step.do = "trust" /\ line \in step.lines
  <2> DEFINE chunks == SignerChunks(devices)
  <2>1. /\ chunks \in Seq(SUBSET Account)
        /\ \A chunk \in ToSet(chunks) : /\ IsFiniteSet(chunk) /\ Cardinality(chunk) <= MaxSigners - 1
                                        /\ chunk \subseteq ToSet(devices)
        /\ \A account \in ToSet(devices) : \E chunk \in ToSet(chunks) : account \in chunk
    BY <1>1, SignersFit
  <2> HIDE DEF chunks
  <2>2. p7 \in Seq(SoundStep)
    <3>1. CreateTrustlines(chunks, PhysicsType, "core") \in Seq(SoundStep)
      BY <2>1, TrustSteps, Assets
    <3> QED
      BY <3>1 DEF chunks
  <2>3. /\ \A step \in ToSet(p7) : /\ Known(p, n, step) /\ step.do = "trust"
                                   /\ \E chunk \in ToSet(chunks) : step.lines = chunk \X PhysicsType
        /\ \A chunk \in ToSet(chunks) : \E step \in ToSet(p7) :
             step.do = "trust" /\ step.lines = chunk \X PhysicsType
    <3> DEFINE steps == CreateTrustlines(chunks, PhysicsType, "core")
    <3>1. /\ \A step \in ToSet(steps) : /\ Known(p, n, step) /\ step.do = "trust"
                                        /\ \E chunk \in ToSet(chunks) : step.lines = chunk \X PhysicsType
          /\ \A chunk \in ToSet(chunks) : \E step \in ToSet(steps) :
               step.do = "trust" /\ step.lines = chunk \X PhysicsType
      <4>1. \A chunk \in ToSet(chunks) : IsFiniteSet(chunk) /\ Cardinality(chunk) <= MaxSigners - 1
        BY <2>1
      <4>2. chunks \in Seq(SUBSET Account)
        BY <2>1
      <4> QED
        BY <4>1, <4>2, KnownTrust, SMTT(30)
    <3> QED
      BY <3>1 DEF chunks
  <2> HIDE DEF p7, devices
  <2>4. \A step \in ToSet(p7) : \A line \in step.lines : line[1] \in ToSet(devices)
    <3> SUFFICES ASSUME NEW step \in ToSet(p7), NEW line \in step.lines
                 PROVE  line[1] \in ToSet(devices)
      OBVIOUS
    <3>1. PICK chunk \in ToSet(chunks) : step.lines = chunk \X PhysicsType
      BY <2>3
    <3>2. line[1] \in chunk
      BY <3>1
    <3> QED
      BY <2>1, <3>2
  <2>5. ASSUME NEW line \in Tokens(n)
        PROVE  \E step \in ToSet(p7) : step.do = "trust" /\ line \in step.lines
    <3>1. PICK i \in DOMAIN devices :
            line = <<devices[i], IF i % 2 = 1 THEN "TEMP" ELSE "HUMD">>
      BY DEF Tokens, TokensOf, devices
    <3>2. devices[i] \in ToSet(devices)
      BY DEF ToSet
    <3>3. PICK chunk \in ToSet(chunks) : devices[i] \in chunk
      BY <2>1, <3>2
    <3>4. line \in chunk \X PhysicsType
      BY <3>1, <3>3 DEF PhysicsType
    <3> QED
      BY <2>3, <3>3, <3>4
  <2> QED
    BY <2>2, <2>3, <2>4, <2>5
<1>10. /\ p8 \in Seq(SoundStep) /\ ToSet(p8) = {p8[1]} /\ Len(p8) = 1
       /\ Known(p, n, p8[1]) /\ p8[1].do = "fund"
  <2> DEFINE step == [do |-> "fund", lines |-> Tokens(n), to |-> "horizon"]
  <2>1. TokensOf(devices) \subseteq Line
    <3> HIDE DEF devices
    <3> QED
      BY <1>1 DEF TokensOf, Line, Asset, PhysicsType
  <2>2. p8 \in Seq(SoundStep)
    BY <2>1, FundSteps
  <2>3. p8 = <<step>>
    BY DEF FundEvenly, Tokens
  <2>4. Known(p, n, step) /\ step.do = "fund"
    BY DEF Known
  <2> HIDE DEF p8, step
  <2> QED
    BY <2>2, <2>3, <2>4, Alike
<1> HIDE DEF p1, p2, p3, p4, p5, p6, p7, p8
<1>11. Orderly(p, n, p1)
  BY OrderlyFirst DEF p1
<1>12. Orderly(p, n, s2) /\ ToSet(s2) = ToSet(p1) \cup ToSet(p2)
  <2>1. \A step \in ToSet(p2) : Needs(Base(p, n), step, ToSet(p1))
    BY <1>4 DEF Needs, Loading
  <2> QED
    <3>1. p2 \in Seq(SoundStep) /\ Orderly(p, n, p1)
      BY <1>4, <1>11
    <3>2. \A step \in ToSet(p2) : Known(p, n, step) /\ Needs(Base(p, n), step, ToSet(p1))
      BY <1>4, <2>1
    <3> QED
      BY <3>1, <3>2, OrderlyNext
<1> HIDE DEF s2
<1>13. Orderly(p, n, s3) /\ ToSet(s3) = ToSet(s2) \cup ToSet(p3)
  <2>1. \A step \in ToSet(p3) : Needs(Base(p, n), step, ToSet(s2))
    BY <1>4, <1>5, <1>12 DEF Needs
  <2> QED
    <3>1. p3 \in Seq(SoundStep) /\ Orderly(p, n, s2)
      BY <1>5, <1>12
    <3>2. \A step \in ToSet(p3) : Known(p, n, step) /\ Needs(Base(p, n), step, ToSet(s2))
      BY <1>5, <2>1
    <3> QED
      BY <3>1, <3>2, OrderlyNext
<1> HIDE DEF s3
<1>14. Orderly(p, n, s4) /\ ToSet(s4) = ToSet(s3) \cup ToSet(p4)
  <2>1. \A step \in ToSet(p4) : Needs(Base(p, n), step, ToSet(s3))
    BY <1>6 DEF Needs, Loading
  <2> QED
    <3>1. p4 \in Seq(SoundStep) /\ Orderly(p, n, s3)
      BY <1>6, <1>13
    <3>2. \A step \in ToSet(p4) : Known(p, n, step) /\ Needs(Base(p, n), step, ToSet(s3))
      BY <1>6, <2>1
    <3> QED
      BY <3>1, <3>2, OrderlyNext
<1> HIDE DEF s4
<1>15. Orderly(p, n, s5) /\ ToSet(s5) = ToSet(s4) \cup ToSet(p5)
  <2>1. PICK other \in ToSet(s4) : other.do \in Loading /\ other.lines = Own({Batch, UsecasesIssuer})
    BY <1>5, <1>13, <1>14
  <2>2. \A step \in ToSet(p5) : \A line \in step.lines : <<line[1], "XLM">> \in other.lines
    BY <1>7, <2>1 DEF Own
  <2>3. \A step \in ToSet(p5) : Needs(Base(p, n), step, ToSet(s4))
    BY <1>7, <2>1, <2>2 DEF Needs, Loading
  <2> QED
    <3>1. p5 \in Seq(SoundStep) /\ Orderly(p, n, s4)
      BY <1>7, <1>14
    <3>2. \A step \in ToSet(p5) : Known(p, n, step) /\ Needs(Base(p, n), step, ToSet(s4))
      BY <1>7, <2>3
    <3> QED
      BY <3>1, <3>2, OrderlyNext
<1> HIDE DEF s5
<1>16. Orderly(p, n, s6) /\ ToSet(s6) = ToSet(s5) \cup ToSet(p6)
  <2>1. ASSUME NEW step \in ToSet(p6), NEW line \in step.lines
        PROVE  \E other \in ToSet(s5) : other.do = "create" /\ line \in other.lines
    <3>1. PICK device \in ToSet(devices) : line = <<device, "XLM">>
      BY <1>8, <2>1 DEF Own
    <3> QED
      BY <1>6, <1>14, <1>15, <3>1
  <2>2. \A step \in ToSet(p6) : Needs(Base(p, n), step, ToSet(s5))
    BY <1>8, <2>1 DEF Needs
  <2> QED
    <3>1. p6 \in Seq(SoundStep) /\ Orderly(p, n, s5)
      BY <1>8, <1>15
    <3>2. \A step \in ToSet(p6) : Known(p, n, step) /\ Needs(Base(p, n), step, ToSet(s5))
      BY <1>8, <2>2
    <3> QED
      BY <3>1, <3>2, OrderlyNext
<1> HIDE DEF s6
<1>17. Orderly(p, n, s7) /\ ToSet(s7) = ToSet(s6) \cup ToSet(p7)
  <2>1. PICK other \in ToSet(s6) : other.do \in Loading /\ other.lines = Own(ToSet(devices))
    BY <1>8, <1>16
  <2>2. \A step \in ToSet(p7) : \A line \in step.lines : <<line[1], "XLM">> \in other.lines
    BY <1>9, <2>1 DEF Own
  <2>3. \A step \in ToSet(p7) : Needs(Base(p, n), step, ToSet(s6))
    BY <1>9, <2>1, <2>2 DEF Needs, Loading
  <2> QED
    <3>1. p7 \in Seq(SoundStep) /\ Orderly(p, n, s6)
      BY <1>9, <1>16
    <3>2. \A step \in ToSet(p7) : Known(p, n, step) /\ Needs(Base(p, n), step, ToSet(s6))
      BY <1>9, <2>3
    <3> QED
      BY <3>1, <3>2, OrderlyNext
<1> DEFINE s == s7
           u == s \o p8
<1> HIDE DEF s7, s
<1>18. Orderly(p, n, u) /\ ToSet(u) = ToSet(s) \cup ToSet(p8)
  <2>1. \A step \in ToSet(p8) : Needs(Base(p, n), step, ToSet(s))
    BY <1>10 DEF Needs, Loading
  <2> QED
    <3>1. p8 \in Seq(SoundStep) /\ Orderly(p, n, s)
      BY <1>10, <1>17 DEF s
    <3>2. \A step \in ToSet(p8) : Known(p, n, step) /\ Needs(Base(p, n), step, ToSet(s))
      BY <1>10, <2>1
    <3> QED
      BY <3>1, <3>2, OrderlyNext
<1>19. \A step \in ToSet(s) : step.do # "fund"
  <2>1. \A step \in ToSet(p1) : step.do = "mustLoad"
    BY KnownLoad DEF p1
  <2> QED
    BY <1>4, <1>5, <1>6, <1>7, <1>8, <1>9, <1>12, <1>13, <1>14, <1>15, <1>16, <1>17, <2>1 DEF s
<1>20. /\ Len(u) \in Nat /\ u[Len(u)] = p8[1]
       /\ \A i \in DOMAIN u : i = Len(u) \/ u[i] \in ToSet(s)
  <2>1. s \in Seq(SoundStep)
    BY <1>17 DEF Orderly, s
  <2>2. /\ u \in Seq(SoundStep) /\ Len(s) \in Nat /\ Len(u) = Len(s) + 1
        /\ DOMAIN s = 1 .. Len(s) /\ DOMAIN u = 1 .. Len(s) + 1
        /\ \A i \in 1 .. Len(s) + 1 : u[i] = IF i <= Len(s) THEN s[i] ELSE p8[i - Len(s)]
    <3>1. p8 \in Seq(SoundStep) /\ Len(p8) = 1
      BY <1>10
    <3> HIDE DEF p8
    <3> QED
      BY <2>1, <3>1, ConcatProperties, SMTT(30)
  <2> HIDE DEF u
  <2>3. u[Len(u)] = p8[1]
    <3>1. Len(s) + 1 \in 1 .. Len(s) + 1 /\ ~(Len(s) + 1 <= Len(s)) /\ (Len(s) + 1) - Len(s) = 1
      BY <2>2
    <3> QED
      BY <2>2, <3>1
  <2>4. \A i \in DOMAIN u : i = Len(u) \/ (i \in DOMAIN s /\ u[i] = s[i])
    BY <2>2
  <2> QED
    BY <2>2, <2>3, <2>4 DEF ToSet
<1> HIDE DEF u
<1>21. \A i \in DOMAIN u : u[i].do = "fund" => i = Len(u)
  BY <1>19, <1>20
<1>22. \A line \in Tokens(n) : \E step \in ToSet(u) : step.do = "trust" /\ line \in step.lines
  BY <1>9, <1>17, <1>18 DEF s
<1>23. Generator(devices) = u
  BY <1>2 DEF u, s
<1> QED
  BY <1>10, <1>18, <1>20, <1>21, <1>22, <1>23

\* Giving the aggregator's accounts a token.
LEMMA KnownFund ==
  ASSUME NEW p \in Program, NEW n \in Nat, p # "generator", NEW function \in Function
  PROVE  LET steps == FundEvenly(ToSet(Aggregators) \X {function}, "core")
         IN  /\ steps \in Seq(SoundStep)
             /\ \A step \in ToSet(steps) : Known(p, n, step) /\ step.do = "fund"
<1> DEFINE times == ToSet(Aggregators)
           lines == times \X {function}
           step == [do |-> "fund", lines |-> lines, to |-> "core"]
           steps == FundEvenly(lines, "core")
<1>1. IsFiniteSet(times) /\ Cardinality(times) \in Nat /\ Cardinality(times) <= MaxOperations
  BY SensorLists, FS_CardinalityType
<1>2. IsFiniteSet({function}) /\ Cardinality({function}) = 1
  BY FS_Singleton
<1>3. lines \in SUBSET Line
  <2>1. times \subseteq Account
    BY AccountLists DEF ToSet
  <2> HIDE DEF times
  <2> QED
    BY <2>1 DEF Line, Asset
<1>4. steps \in Seq(SoundStep)
  BY <1>3, FundSteps
<1>5. ToSet(steps) = {step}
  BY Alike DEF FundEvenly
<1> HIDE DEF times
<1>6. Cardinality(lines) = Cardinality(times) * 1
  BY <1>1, <1>2, FS_Product
<1>7. Cardinality(lines) <= MaxOperations
  BY <1>1, <1>6
<1>8. lines \cap Tokens(n) = {}
  <2>1. \A line \in lines : line[2] \in Function
    OBVIOUS
  <2>2. \A line \in Tokens(n) : line[2] \in PhysicsType
    BY DEF Tokens, TokensOf, PhysicsType
  <2>3. Function \cap PhysicsType = {}
    BY DEF Function, PhysicsType
  <2> QED
    BY <2>1, <2>2, <2>3
<1> HIDE DEF lines
<1>9. step.do = "fund" /\ step.lines = lines
  OBVIOUS
<1> HIDE DEF step
<1>10. Known(p, n, step)
  BY <1>7, <1>8, <1>9 DEF Known, Fits
<1> QED
  BY <1>4, <1>5, <1>9, <1>10 DEF steps, lines, times

\* The aggregator's list.
LEMMA AggregatorIsOrderly ==
  ASSUME NEW n \in Nat, NEW p \in Program, p = "aggregator"
  PROVE  Orderly(p, n, Aggregator(Devices(n)))
<1> DEFINE devices == Devices(n)
           times == ToSet(Aggregators)
           p1 == MustLoad({Master})
           p2 == CreateAccounts(times, "horizon")
           p3 == CreateAccounts({FunctionsIssuer}, "horizon")
           p4 == MustLoad(times \cup ToSet(devices))
           p5 == MustLoad({FunctionsIssuer})
           p6 == CreateTrustlines(SignerChunks(Aggregators), Function, "horizon")
           p7 == CreateTrustlines(SignerChunks(devices), Function, "horizon")
           p8 == FundEvenly(times \X {"AVG"}, "core")
           p9 == FundEvenly(times \X {"MIN"}, "core")
           p10 == FundEvenly(times \X {"MAX"}, "core")
           s2 == p1 \o p2
           s3 == s2 \o p3
           s4 == s3 \o p4
           s5 == s4 \o p5
           s6 == s5 \o p6
           s7 == s6 \o p7
           s8 == s7 \o p8
           s9 == s8 \o p9
           s10 == s9 \o p10
<1>1. /\ devices \in Seq(Account) /\ Aggregators \in Seq(Account)
      /\ UsecasesIssuer \notin times
  BY AccountLists
<1>2. Aggregator(devices) = s10
  BY DEF Aggregator
<1>3. times \in SUBSET Account /\ ToSet(devices) \in SUBSET Account
  BY <1>1 DEF ToSet
<1>4. IsFiniteSet(times) /\ Cardinality(times) <= MaxOperations
  BY SensorLists
<1>5. Own(times) \in Creations(n) /\ Own({FunctionsIssuer}) \in Creations(n)
  BY KnownLists
<1>6. \A function \in Function :
        LET steps == FundEvenly(times \X {function}, "core")
        IN  /\ steps \in Seq(SoundStep)
            /\ \A step \in ToSet(steps) : Known(p, n, step) /\ step.do = "fund"
  BY KnownFund
<1> HIDE DEF devices, times
<1>7. /\ p2 \in Seq(SoundStep)
      /\ \A step \in ToSet(p2) : Known(p, n, step) /\ step.do = "create"
      /\ \E step \in ToSet(p2) : step.do = "create" /\ step.lines = Own(times)
  <2>1. p2 \in Seq(SoundStep)
    BY <1>1, <1>3, CreateSteps
  <2> QED
    BY <1>1, <1>4, <1>5, <2>1, KnownCreate
<1>8. /\ p3 \in Seq(SoundStep)
      /\ \A step \in ToSet(p3) : Known(p, n, step) /\ step.do = "create"
      /\ \E step \in ToSet(p3) : step.do = "create" /\ step.lines = Own({FunctionsIssuer})
  <2>1. p3 \in Seq(SoundStep)
    BY CreateSteps, SingleAccounts
  <2>2. IsFiniteSet({FunctionsIssuer}) /\ Cardinality({FunctionsIssuer}) <= MaxOperations
    BY KnownLists
  <2>3. UsecasesIssuer \notin {FunctionsIssuer}
    BY SingleAccounts
  <2> QED
    BY <1>5, <2>1, <2>2, <2>3, KnownCreate
<1>9. /\ p4 \in Seq(SoundStep)
      /\ \A step \in ToSet(p4) : /\ Known(p, n, step) /\ step.do = "mustLoad"
                                 /\ step.lines = Own(times \cup ToSet(devices))
      /\ \E step \in ToSet(p4) : step.do \in Loading /\ step.lines = Own(times \cup ToSet(devices))
  <2>1. times \cup ToSet(devices) \in SUBSET Account
    BY <1>3
  <2>2. p4 \in Seq(SoundStep)
    BY <2>1, MustLoadSteps
  <2> QED
    BY <2>2, KnownLoad, LoadsThem
<1>10. /\ p5 \in Seq(SoundStep)
       /\ \A step \in ToSet(p5) : /\ Known(p, n, step) /\ step.do = "mustLoad"
                                  /\ step.lines = Own({FunctionsIssuer})
  <2>1. p5 \in Seq(SoundStep)
    BY MustLoadSteps, SingleAccounts
  <2> QED
    BY <2>1, KnownLoad
<1>11. ASSUME NEW slice \in Seq(Account)
       PROVE  LET steps == CreateTrustlines(SignerChunks(slice), Function, "horizon")
              IN  /\ steps \in Seq(SoundStep)
                  /\ \A step \in ToSet(steps) : /\ Known(p, n, step) /\ step.do = "trust"
                                                /\ \A line \in step.lines : line[1] \in ToSet(slice)
  <2> DEFINE chunks == SignerChunks(slice)
             steps == CreateTrustlines(chunks, Function, "horizon")
  <2>1. /\ chunks \in Seq(SUBSET Account)
        /\ \A chunk \in ToSet(chunks) : /\ IsFiniteSet(chunk) /\ Cardinality(chunk) <= MaxSigners - 1
                                        /\ chunk \subseteq ToSet(slice)
    BY SignersFit
  <2> HIDE DEF chunks
  <2>2. steps \in Seq(SoundStep)
    BY <2>1, TrustSteps, Assets
  <2>3. \A step \in ToSet(steps) : /\ Known(p, n, step) /\ step.do = "trust"
                                   /\ \E chunk \in ToSet(chunks) : step.lines = chunk \X Function
    <3>1. \A chunk \in ToSet(chunks) : IsFiniteSet(chunk) /\ Cardinality(chunk) <= MaxSigners - 1
      BY <2>1
    <3>2. chunks \in Seq(SUBSET Account)
      BY <2>1
    <3> QED
      BY <3>1, <3>2, KnownTrust
  <2> HIDE DEF steps
  <2>4. ASSUME NEW step \in ToSet(steps), NEW line \in step.lines PROVE line[1] \in ToSet(slice)
    <3>1. PICK chunk \in ToSet(chunks) : step.lines = chunk \X Function
      BY <2>3
    <3>2. line[1] \in chunk
      BY <3>1
    <3> QED
      BY <2>1, <3>2
  <2> QED
    BY <2>2, <2>3, <2>4 DEF steps, chunks
<1>12. /\ p6 \in Seq(SoundStep)
       /\ \A step \in ToSet(p6) : /\ Known(p, n, step) /\ step.do = "trust"
                                  /\ \A line \in step.lines : line[1] \in times
  BY <1>1, <1>11 DEF times
<1>13. /\ p7 \in Seq(SoundStep)
       /\ \A step \in ToSet(p7) : /\ Known(p, n, step) /\ step.do = "trust"
                                  /\ \A line \in step.lines : line[1] \in ToSet(devices)
  BY <1>1, <1>11
<1>14. /\ p8 \in Seq(SoundStep) /\ p9 \in Seq(SoundStep) /\ p10 \in Seq(SoundStep)
       /\ \A step \in ToSet(p8) \cup ToSet(p9) \cup ToSet(p10) : Known(p, n, step) /\ step.do = "fund"
  <2>1. "AVG" \in Function /\ "MIN" \in Function /\ "MAX" \in Function
    BY DEF Function
  <2> QED
    BY <1>6, <2>1
<1> HIDE DEF p1, p2, p3, p4, p5, p6, p7, p8, p9, p10
<1>15. Orderly(p, n, p1)
  BY OrderlyFirst DEF p1
<1>16. Orderly(p, n, s2) /\ ToSet(s2) = ToSet(p1) \cup ToSet(p2)
  <2>1. \A step \in ToSet(p2) : Known(p, n, step) /\ Needs(Base(p, n), step, ToSet(p1))
    BY <1>7 DEF Needs, Loading
  <2> QED
    BY <1>7, <1>15, <2>1, OrderlyNext
<1> HIDE DEF s2
<1>17. Orderly(p, n, s3) /\ ToSet(s3) = ToSet(s2) \cup ToSet(p3)
  <2>1. \A step \in ToSet(p3) : Known(p, n, step) /\ Needs(Base(p, n), step, ToSet(s2))
    BY <1>8 DEF Needs, Loading
  <2> QED
    <3>1. p3 \in Seq(SoundStep) /\ Orderly(p, n, s2)
      BY <1>8, <1>16
    <3> QED
      BY <3>1, <2>1, OrderlyNext
<1> HIDE DEF s3
<1>18. Orderly(p, n, s4) /\ ToSet(s4) = ToSet(s3) \cup ToSet(p4)
  <2>1. ASSUME NEW step \in ToSet(p4), NEW line \in step.lines
        PROVE  \/ line \in Base(p, n)
               \/ \E other \in ToSet(s3) : other.do = "create" /\ line \in other.lines
    <3>1. line \in Own(times) \/ line \in Own(ToSet(devices))
      BY <1>9, <2>1 DEF Own
    <3> QED
      BY <1>7, <1>16, <1>17, <3>1 DEF Base, devices
  <2>2. \A step \in ToSet(p4) : Known(p, n, step) /\ Needs(Base(p, n), step, ToSet(s3))
    BY <1>9, <2>1 DEF Needs
  <2> QED
    <3>1. p4 \in Seq(SoundStep) /\ Orderly(p, n, s3)
      BY <1>9, <1>17
    <3> QED
      BY <3>1, <2>2, OrderlyNext
<1> HIDE DEF s4
<1>19. Orderly(p, n, s5) /\ ToSet(s5) = ToSet(s4) \cup ToSet(p5)
  <2>1. \A step \in ToSet(p5) : Known(p, n, step) /\ Needs(Base(p, n), step, ToSet(s4))
    BY <1>8, <1>10, <1>17, <1>18 DEF Needs
  <2> QED
    <3>1. p5 \in Seq(SoundStep) /\ Orderly(p, n, s4)
      BY <1>10, <1>18
    <3> QED
      BY <3>1, <2>1, OrderlyNext
<1> HIDE DEF s5
<1>20. PICK loader \in ToSet(s5) :
         loader.do \in Loading /\ loader.lines = Own(times \cup ToSet(devices))
  BY <1>9, <1>18, <1>19
<1>21. Orderly(p, n, s6) /\ ToSet(s6) = ToSet(s5) \cup ToSet(p6)
  <2>1. \A step \in ToSet(p6) : \A line \in step.lines : <<line[1], "XLM">> \in loader.lines
    BY <1>12, <1>20 DEF Own
  <2>2. \A step \in ToSet(p6) : Known(p, n, step) /\ Needs(Base(p, n), step, ToSet(s5))
    BY <1>12, <1>20, <2>1 DEF Needs, Loading
  <2> QED
    <3>1. p6 \in Seq(SoundStep) /\ Orderly(p, n, s5)
      BY <1>12, <1>19
    <3> QED
      BY <3>1, <2>2, OrderlyNext
<1> HIDE DEF s6
<1>22. Orderly(p, n, s7) /\ ToSet(s7) = ToSet(s6) \cup ToSet(p7)
  <2>1. \A step \in ToSet(p7) : \A line \in step.lines : <<line[1], "XLM">> \in loader.lines
    BY <1>13, <1>20 DEF Own
  <2>2. loader \in ToSet(s6)
    BY <1>20, <1>21
  <2>3. \A step \in ToSet(p7) : Known(p, n, step) /\ Needs(Base(p, n), step, ToSet(s6))
    BY <1>13, <1>20, <2>1, <2>2 DEF Needs, Loading
  <2> QED
    <3>1. p7 \in Seq(SoundStep) /\ Orderly(p, n, s6)
      BY <1>13, <1>21
    <3> QED
      BY <3>1, <2>3, OrderlyNext
<1> HIDE DEF s7
<1>23. ASSUME NEW s PROVE \A step \in ToSet(p8) \cup ToSet(p9) \cup ToSet(p10) :
                            Known(p, n, step) /\ Needs(Base(p, n), step, ToSet(s))
  BY <1>14 DEF Needs, Loading
<1>24. Orderly(p, n, s8)
  <2>1. \A step \in ToSet(p8) : Known(p, n, step) /\ Needs(Base(p, n), step, ToSet(s7))
    BY <1>23
  <2> QED
    BY <1>14, <1>22, <2>1, OrderlyNext
<1> HIDE DEF s8
<1>25. Orderly(p, n, s9)
  <2>1. \A step \in ToSet(p9) : Known(p, n, step) /\ Needs(Base(p, n), step, ToSet(s8))
    BY <1>23
  <2> QED
    BY <1>14, <1>24, <2>1, OrderlyNext
<1> HIDE DEF s9
<1>26. Orderly(p, n, s10)
  <2>1. \A step \in ToSet(p10) : Known(p, n, step) /\ Needs(Base(p, n), step, ToSet(s9))
    BY <1>23
  <2> QED
    BY <1>14, <1>25, <2>1, OrderlyNext
<1> QED
  BY <1>2, <1>26 DEF devices

\* The list of generator-nodejs.
LEMMA NodejsIsOrderly ==
  ASSUME NEW n \in Nat, NEW p \in Program, p = "nodejs"
  PROVE  Orderly(p, n, Nodejs)
<1> DEFINE p1 == MustLoad({Master})
           p2 == CreateIdempotently({Batch})
           p3 == CreateIdempotently({Random})
           p4 == MustLoad({Random})
           s2 == p1 \o p2
           s3 == s2 \o p3
           s4 == s3 \o p4
<1>1. Nodejs = s4
  BY DEF Nodejs
<1>2. ASSUME NEW account \in {Batch, Random}
      PROVE  LET steps == CreateIdempotently({account})
             IN  /\ steps \in Seq(SoundStep)
                 /\ \A step \in ToSet(steps) : Known(p, n, step) /\ step.do = "create"
                 /\ \E step \in ToSet(steps) : step.do = "create" /\ step.lines = Own({account})
  <2> DEFINE accounts == {account}
  <2>1. /\ accounts \in SUBSET Account /\ UsecasesIssuer \notin accounts
        /\ \E a \in Account : accounts = {a}
    BY SingleAccounts
  <2>2. /\ IsFiniteSet(accounts) /\ Cardinality(accounts) <= MaxOperations
        /\ Own(accounts) \in Creations(n)
    BY KnownLists
  <2> HIDE DEF accounts
  <2>3. CreateAccounts(accounts, "idempotent") \in Seq(SoundStep)
    BY <2>1, CreateSteps
  <2>4. /\ \A step \in ToSet(CreateAccounts(accounts, "idempotent")) :
             Known(p, n, step) /\ step.do = "create"
        /\ \E step \in ToSet(CreateAccounts(accounts, "idempotent")) :
             step.do = "create" /\ step.lines = Own(accounts)
    BY <2>1, <2>2, KnownCreate
  <2> QED
    BY <2>3, <2>4 DEF CreateIdempotently, accounts
<1>3. /\ p2 \in Seq(SoundStep)
      /\ \A step \in ToSet(p2) : Known(p, n, step) /\ step.do = "create"
  BY <1>2
<1>4. /\ p3 \in Seq(SoundStep)
      /\ \A step \in ToSet(p3) : Known(p, n, step) /\ step.do = "create"
      /\ \E step \in ToSet(p3) : step.do = "create" /\ step.lines = Own({Random})
  BY <1>2
<1>5. /\ p4 \in Seq(SoundStep)
      /\ \A step \in ToSet(p4) : /\ Known(p, n, step) /\ step.do = "mustLoad"
                                 /\ step.lines = Own({Random})
  <2>1. p4 \in Seq(SoundStep)
    BY MustLoadSteps, SingleAccounts
  <2> QED
    BY <2>1, KnownLoad
<1> HIDE DEF p1, p2, p3, p4
<1>6. Orderly(p, n, p1)
  BY OrderlyFirst DEF p1
<1>7. Orderly(p, n, s2)
  <2>1. \A step \in ToSet(p2) : Known(p, n, step) /\ Needs(Base(p, n), step, ToSet(p1))
    BY <1>3 DEF Needs, Loading
  <2> QED
    BY <1>3, <1>6, <2>1, OrderlyNext
<1> HIDE DEF s2
<1>8. Orderly(p, n, s3) /\ ToSet(s3) = ToSet(s2) \cup ToSet(p3)
  <2>1. \A step \in ToSet(p3) : Known(p, n, step) /\ Needs(Base(p, n), step, ToSet(s2))
    BY <1>4 DEF Needs, Loading
  <2> QED
    BY <1>4, <1>7, <2>1, OrderlyNext
<1> HIDE DEF s3
<1>9. Orderly(p, n, s4)
  <2>1. \A step \in ToSet(p4) : Known(p, n, step) /\ Needs(Base(p, n), step, ToSet(s3))
    BY <1>4, <1>5, <1>8 DEF Needs
  <2> QED
    BY <1>5, <1>8, <2>1, OrderlyNext
<1> QED
  BY <1>1, <1>9

\* All the lists.
LEMMA ListsAreOrderly ==
  ASSUME fleet \in Fleets, NEW p \in Program
  PROVE  /\ Orderly(p, fleet, Steps(p))
         /\ p = "generator" =>
              /\ \A i \in DOMAIN Steps(p) : Steps(p)[i].do = "fund" => i = Len(Steps(p))
              /\ Steps(p)[Len(Steps(p))].do = "fund"
              /\ \A line \in Tokens(fleet) : \E step \in ToSet(Steps(p)) :
                   step.do = "trust" /\ line \in step.lines
<1>1. fleet \in Nat
  BY FleetsAssumption
<1>2. Script[fleet] = [generator |-> Generator(Devices(fleet)),
                       aggregator |-> Aggregator(Devices(fleet)),
                       nodejs |-> Nodejs]
  BY DEF Script
<1>3. CASE p = "generator"
  <2>1. Steps(p) = Generator(Devices(fleet))
    BY <1>2, <1>3 DEF Steps
  <2> QED
    BY <1>1, <1>3, <2>1, GeneratorIsOrderly
<1>4. CASE p = "aggregator"
  <2>1. Steps(p) = Aggregator(Devices(fleet))
    BY <1>2, <1>4 DEF Steps
  <2>2. Orderly(p, fleet, Steps(p))
    BY <1>1, <1>4, <2>1, AggregatorIsOrderly
  <2> QED
    BY <1>4, <2>2
<1>5. CASE p = "nodejs"
  <2>1. Steps(p) = Nodejs
    BY <1>2, <1>5 DEF Steps
  <2>2. Orderly(p, fleet, Steps(p))
    BY <1>1, <1>5, <2>1, NodejsIsOrderly
  <2> QED
    BY <1>5, <2>2
<1> QED
  BY <1>3, <1>4, <1>5 DEF Program

\* The batch account is the only one that is created in two ways.
LEMMA CreationsApart ==
  ASSUME NEW n \in Nat, NEW c \in Creations(n)
  PROVE  /\ \A line \in c : line[2] = "XLM"
         /\ IssuerLine \in c => c = Own({Batch, UsecasesIssuer})
         /\ \A d \in Creations(n) :
              \/ c = d \/ c \cap d = {}
              \/ c \in {Own({Batch, UsecasesIssuer}), Own({Batch})}
<1> DEFINE chunks == ToSet(Chunks(Devices(n), MaxOperations))
           Both == {Own({Batch, UsecasesIssuer}), Own({Batch})}
           Of(lines, kind) == \A line \in lines : line[1][1] = kind
<1>1. \A chunk \in chunks : Of(Own(chunk), "device")
  <2>1. \A chunk \in chunks : chunk \subseteq ToSet(Devices(n))
    <3>1. MaxOperations \in Nat \ {0} /\ Devices(n) \in Seq(Account)
      BY LimitsAssumption, AccountLists
    <3>2. \A j \in DOMAIN Chunks(Devices(n), MaxOperations) :
            Chunks(Devices(n), MaxOperations)[j] \subseteq ToSet(Devices(n))
      BY <3>1, ChunksCover
    <3> QED
      BY <3>2 DEF ToSet
  <2>2. \A device \in ToSet(Devices(n)) : device[1] = "device"
    BY SensorLists
  <2> HIDE DEF chunks
  <2> QED
    BY <2>1, <2>2 DEF Own
<1>2. \A b, d \in chunks : b = d \/ b \cap d = {}
  <2>1. MaxOperations \in Nat \ {0} /\ Devices(n) \in Seq(Account)
    BY LimitsAssumption, AccountLists
  <2>2. \A i, j \in DOMAIN Devices(n) : Devices(n)[i] = Devices(n)[j] => i = j
    BY SensorLists
  <2> DEFINE slice == Devices(n)
  <2> HIDE DEF slice
  <2>3. \A b, d \in ToSet(Chunks(slice, MaxOperations)) : b = d \/ b \cap d = {}
    <3>1. slice \in Seq(Account) /\ \A i, j \in DOMAIN slice : slice[i] = slice[j] => i = j
      BY <2>1, <2>2 DEF slice
    <3> QED
      BY <2>1, <3>1, ChunksFit
  <2> QED
    BY <2>3 DEF slice
<1>3. \A b, d \in chunks : Own(b) = Own(d) \/ Own(b) \cap Own(d) = {}
  <2> HIDE DEF chunks
  <2> QED
    BY <1>2 DEF Own
<1> HIDE DEF chunks
<1>4. ASSUME NEW d \in Creations(n)
      PROVE  \/ d \in Both
             \/ d = Own({Random}) /\ Of(d, "random")
             \/ d = Own({FunctionsIssuer}) /\ Of(d, "functions")
             \/ d = Own(ToSet(Aggregators)) /\ Of(d, "time")
             \/ Of(d, "device") /\ \E chunk \in chunks : d = Own(chunk)
  <2>1. Of(Own({Random}), "random") /\ Of(Own({FunctionsIssuer}), "functions")
    BY DEF Own, Random, FunctionsIssuer
  <2>2. Of(Own(ToSet(Aggregators)), "time")
    <3>1. \A account \in ToSet(Aggregators) : account[1] = "time"
      BY SensorLists
    <3> QED
      BY <3>1 DEF Own
  <2> HIDE DEF Of
  <2> QED
    BY <1>1, <2>1, <2>2 DEF Creations, chunks
<1>5. \A d \in Both : \A line \in d : line[1][1] \in {"batch", "usecases"}
  BY DEF Own, Batch, UsecasesIssuer
<1>6. ASSUME NEW d \in Creations(n)
      PROVE  c = d \/ c \cap d = {} \/ c \in Both
  <2>1. ASSUME NEW line \in c, line \in d, c \notin Both PROVE c = d
    <3>1. \/ c = Own({Random}) /\ line[1][1] = "random"
          \/ c = Own({FunctionsIssuer}) /\ line[1][1] = "functions"
          \/ c = Own(ToSet(Aggregators)) /\ line[1][1] = "time"
          \/ line[1][1] = "device" /\ \E chunk \in chunks : c = Own(chunk)
      <4> HIDE DEF Both
      <4> QED
        BY <1>4, <2>1
    <3>2. \/ line[1][1] \in {"batch", "usecases"}
          \/ d = Own({Random}) /\ line[1][1] = "random"
          \/ d = Own({FunctionsIssuer}) /\ line[1][1] = "functions"
          \/ d = Own(ToSet(Aggregators)) /\ line[1][1] = "time"
          \/ line[1][1] = "device" /\ \E chunk \in chunks : d = Own(chunk)
      <4> HIDE DEF Both
      <4> QED
        BY <1>4, <1>5, <1>6, <2>1
    <3>3. CASE line[1][1] = "device"
      BY <1>3, <2>1, <3>1, <3>2, <3>3
    <3> QED
      BY <3>1, <3>2, <3>3
  <2> HIDE DEF Both
  <2> QED
    BY <2>1
<1>7. \A line \in c : line[2] = "XLM"
  BY <1>4 DEF Own
<1>8. IssuerLine \in c => c = Own({Batch, UsecasesIssuer})
  <2> SUFFICES ASSUME IssuerLine \in c PROVE c = Own({Batch, UsecasesIssuer})
    OBVIOUS
  <2>1. IssuerLine[1][1] = "usecases"
    BY DEF IssuerLine, UsecasesIssuer
  <2>2. c \in Both
    <3> HIDE DEF Both
    <3> QED
      BY <1>4, <2>1
  <2>3. IssuerLine \notin Own({Batch})
    BY DEF Own, IssuerLine, UsecasesIssuer, Batch
  <2> QED
    BY <2>2, <2>3
<1> QED
  BY <1>6, <1>7, <1>8

\* A token for each sensor.
LEMMA TokensAre ==
  ASSUME NEW n \in Nat \ {0}
  PROVE  IsFiniteSet(Tokens(n)) /\ Cardinality(Tokens(n)) = n /\ Tokens(n) # {}
<1> DEFINE token == [i \in 1 .. n |-> <<<<"device", i>>, IF i % 2 = 1 THEN "TEMP" ELSE "HUMD">>]
<1>1. IsFiniteSet(1 .. n) /\ Cardinality(1 .. n) = n
  BY FS_Interval
<1>2. Tokens(n) = {token[i] : i \in 1 .. n}
  BY DEF Tokens, TokensOf, Devices
<1>3. /\ token \in [1 .. n -> Tokens(n)]
      /\ \A i, j \in 1 .. n : token[i] = token[j] => i = j
      /\ \A t \in Tokens(n) : \E i \in 1 .. n : token[i] = t
  <2>1. \A i \in 1 .. n : token[i][1][2] = i
    OBVIOUS
  <2>2. \A i, j \in 1 .. n : token[i] = token[j] => i = j
    BY <2>1
  <2>3. token = [i \in 1 .. n |-> token[i]] /\ \A i \in 1 .. n : token[i] \in Tokens(n)
    BY <1>2
  <2> HIDE DEF token
  <2>4. token \in [1 .. n -> Tokens(n)]
    BY <2>3
  <2>5. \A t \in Tokens(n) : \E i \in 1 .. n : token[i] = t
    BY <1>2
  <2> QED
    BY <2>2, <2>4, <2>5
<1> HIDE DEF token
<1>4. token[1] \in Tokens(n)
  <2>1. 1 \in 1 .. n
    OBVIOUS
  <2> QED
    BY <1>3, <2>1
<1>5. ExistsBijection(1 .. n, Tokens(n))
  <2>1. token \in Injection(1 .. n, Tokens(n))
    BY <1>3 DEF Injection, IsInjective
  <2>2. token \in Surjection(1 .. n, Tokens(n))
    BY <1>3 DEF Surjection
  <2> QED
    BY <2>1, <2>2 DEF ExistsBijection, Bijection
<1> QED
  BY <1>1, <1>4, <1>5, FS_Bijection

-----------------------------------------------------------------------------
(***************************************************************************)
(* Calm runs, which meet no failure at all.  Their inductive invariant     *)
(* rests on that of the steady runs.                                       *)
(***************************************************************************)

\* One of the accounts is there, and so the transaction that creates them has been
\* applied, now or in an earlier run.
Landed(lines) == lines = {} \/ lines \cap ledger # {}

\* Accounts created by one transaction are all there or none is, except for the
\* batch account without its issuer; and the tokens of a fleet that is too large
\* never get on their way.
Ledgers ==
  /\ <<Master, "XLM">> \in ledger
  /\ IssuerLine \in ledger => BatchLine \in ledger
  /\ \A lines \in Creations(fleet) :
       \/ lines = Own({Batch, UsecasesIssuer})
       \/ lines \subseteq ledger \/ lines \cap ledger = {}
  /\ \A i \in DOMAIN pending :
       /\ pending[i].do = "create" => pending[i].lines \in Creations(fleet)
       /\ pending[i].do = "trust" => \A line \in pending[i].lines : line[2] # "XLM"
       /\ pending[i].do = "fund" =>
            pending[i].lines \cap Tokens(fleet) = {} \/ fleet <= MaxOperations
  /\ fleet > MaxOperations => funded \cap Tokens(fleet) = {}

\* The program counts exactly the transactions that core got, up to the last step.
Abreast(p) ==
  program[p].step \in 2 .. Len(Steps(p)) => program[p].account = sequence + Len(pending)

\* The accounts it asked for have been created.
Creates(p) ==
  /\ \A i \in Passed(p) : Steps(p)[i].do = "create" => Landed(Steps(p)[i].lines)
  /\ program[p].awaited # 0 /\ StepOf(p).do = "create" =>
       \/ Landed(StepOf(p).lines)
       \/ \E i \in Awaited(p) : pending[i].do = "create" /\ pending[i].lines = StepOf(p).lines

\* It has found the accounts it looked for.
Finds(p) ==
  \A i \in Passed(p) :
    Steps(p)[i].do \in Loading => AccountsOf(Steps(p)[i].lines) \subseteq program[p].loaded

\* The transaction with the tokens is the last one of the queue, and the trust lines
\* it needs are on the ledger or before it.
Coming(p) ==
  /\ pending # <<>>
  /\ pending[Len(pending)].do = "fund" /\ pending[Len(pending)].lines = Tokens(fleet)
  /\ pending[Len(pending)].program = p
  /\ pending[Len(pending)].seq = program[p].awaited
  /\ Tokens(fleet) \subseteq There

\* The generator's last step gives the tokens, unless the fleet is too large.
Gives(p) ==
  /\ program[p].awaited # 0 /\ StepOf(p).do = "fund" =>
       Tokens(fleet) \subseteq funded \/ Coming(p)
  /\ program[p].step > Len(Steps(p)) /\ fleet <= MaxOperations => Tokens(fleet) \subseteq funded

Undisturbed(p) == Abreast(p) /\ Creates(p) /\ Finds(p) /\ (p = "generator" => Gives(p))

CalmInv ==
  /\ Ledgers
  /\ \A p \in calm : Running(p) => Undisturbed(p)
  /\ "generator" \in calm /\ program["generator"].process = "ready" /\ fleet <= MaxOperations
       => Tokens(fleet) \subseteq funded

\* A step of a list, and what comes before it.
LEMMA StepIsKnown ==
  ASSUME Types, NEW p \in Program, NEW i \in DOMAIN Steps(p)
  PROVE  /\ Known(p, fleet, Steps(p)[i]) /\ Needs(Base(p, fleet), Steps(p)[i], Earlier(Steps(p), i))
         /\ p = "generator" => (Steps(p)[i].do = "fund" <=> i = Len(Steps(p)))
<1>1. fleet \in Fleets /\ Len(Steps(p)) \in DOMAIN Steps(p)
  BY Place DEF Types
<1>2. Orderly(p, fleet, Steps(p)) /\ Steps(p)[i] \in ToSet(Steps(p))
  BY <1>1, ListsAreOrderly DEF ToSet
<1>3. /\ Known(p, fleet, Steps(p)[i])
      /\ Needs(Base(p, fleet), Steps(p)[i], Earlier(Steps(p), i))
  BY <1>2 DEF Orderly, Prepared
<1>4. p = "generator" =>
        /\ \A k \in DOMAIN Steps(p) : Steps(p)[k].do = "fund" => k = Len(Steps(p))
        /\ Steps(p)[Len(Steps(p))].do = "fund"
  BY <1>1, ListsAreOrderly
<1> QED
  BY <1>3, <1>4

\* Where a calm run is.
LEMMA CalmKnows ==
  ASSUME IInv, CalmInv, NEW p \in calm, Running(p)
  PROVE  /\ p \in Program /\ p \in steady /\ Types /\ SetUp(p) /\ Undisturbed(p) /\ Ledgers
         /\ fleet \in Nat \ {0} /\ fleet \in Fleets
BY FleetsAssumption DEF IInv, CalmInv, Types

\* What would keep a calm run from finding its accounts.
Excused(p) ==
  \/ p = "generator" /\ IssuerLine \notin ledger /\ BatchLine \in ledger
  \/ p = "aggregator" /\ ~(Own(ToSet(Devices(fleet))) \subseteq ledger)

\* It finds the accounts it has created.
LEMMA FindsAccounts ==
  ASSUME IInv, CalmInv, NEW p \in calm, At(p, Loading)
  PROVE  /\ StepOf(p).lines \subseteq ledger \/ Excused(p)
         /\ StepOf(p).do = "load" => StepOf(p).lines \subseteq ledger
<1> DEFINE i == program[p].step
           step == StepOf(p)
<1>1. Running(p)
  BY DEF At
<1>2. /\ p \in Program /\ Types /\ SetUp(p) /\ Undisturbed(p) /\ Ledgers /\ fleet \in Nat
  BY <1>1, CalmKnows
<1>3. i \in DOMAIN Steps(p) /\ step = Steps(p)[i] /\ step.do \in Loading
  BY <1>2, CurrentStep
<1>4. Known(p, fleet, step) /\ Needs(Base(p, fleet), step, Earlier(Steps(p), i))
  BY <1>2, <1>3, StepIsKnown
<1>5. ASSUME NEW line \in step.lines, line \notin ledger
      PROVE  Excused(p) /\ step.do # "load"
  <2>1. \/ line \in Base(p, fleet)
        \/ \E other \in Earlier(Steps(p), i) : other.do = "create" /\ line \in other.lines
    BY <1>3, <1>4, <1>5 DEF Needs
  <2>2. CASE line \in Base(p, fleet)
    <3>1. p = "aggregator" /\ line \in Own(ToSet(Devices(fleet)))
      BY <1>2, <1>5, <2>2 DEF Base, Ledgers
    <3>2. step.do # "load"
      BY <1>4, <3>1 DEF Known
    <3> QED
      BY <1>5, <3>1, <3>2 DEF Excused
  <2>3. ASSUME NEW other \in Earlier(Steps(p), i), other.do = "create", line \in other.lines
        PROVE  Excused(p) /\ step.do # "load"
    <3>1. PICK j \in DOMAIN Steps(p) : j < i /\ other = Steps(p)[j]
      BY DEF Earlier
    <3>2. Landed(other.lines)
      BY <1>2, <2>3, <3>1 DEF Undisturbed, Creates, Passed
    <3>3. Known(p, fleet, other)
      BY <1>2, <3>1, StepIsKnown
    <3>4. other.lines \in Creations(fleet) /\ (IssuerLine \in other.lines => p = "generator")
      BY <2>3, <3>3 DEF Known
    <3>5. other.lines \cap ledger # {}
      BY <2>3, <3>2 DEF Landed
    <3>6. other.lines = Own({Batch, UsecasesIssuer})
      BY <1>2, <1>5, <2>3, <3>4, <3>5 DEF Ledgers
    <3>7. other.lines = {BatchLine, IssuerLine}
      BY <3>6 DEF Own, BatchLine, IssuerLine
    <3>8. BatchLine \in ledger /\ line = IssuerLine
      BY <1>2, <1>5, <2>3, <3>5, <3>7 DEF Ledgers
    <3>9. p = "generator"
      BY <3>4, <3>7
    <3>10. step.do # "load"
      <4>1. ASSUME step.do = "load" PROVE FALSE
        <5>1. PICK device \in ToSet(Devices(fleet)) : line = <<device, "XLM">>
          BY <1>4, <1>5, <4>1 DEF Known, Own
        <5>2. device[1] = "device"
          BY <1>2, SensorLists
        <5>3. IssuerLine[1][1] = "usecases"
          BY DEF IssuerLine, UsecasesIssuer
        <5>4. line[1][1] = "device"
          BY <5>1, <5>2
        <5> QED
          BY <3>8, <5>3, <5>4
      <4> QED
        BY <4>1
    <3> QED
      BY <1>5, <3>8, <3>9, <3>10 DEF Excused
  <2> QED
    BY <2>1, <2>2, <2>3
<1> QED
  BY <1>5

\* No account is nil.
LEMMA NoneIsNil ==
  ASSUME IInv, CalmInv, NEW p \in calm, At(p, Submission)
  PROVE  ~NilAccount(p)
<1> DEFINE i == program[p].step
           step == StepOf(p)
<1>1. Running(p)
  BY DEF At
<1>2. p \in Program /\ Types /\ Undisturbed(p)
  BY <1>1, CalmKnows
<1>3. i \in DOMAIN Steps(p) /\ step = Steps(p)[i]
  BY <1>2, CurrentStep
<1>4. Needs(Base(p, fleet), step, Earlier(Steps(p), i))
  BY <1>2, <1>3, StepIsKnown
<1>5. ASSUME step.do = "trust", NEW line \in step.lines
      PROVE  line[1] \in program[p].loaded
  <2>1. PICK other \in Earlier(Steps(p), i) :
          other.do \in Loading /\ <<line[1], "XLM">> \in other.lines
    BY <1>4, <1>5 DEF Needs
  <2>2. PICK j \in DOMAIN Steps(p) : j < i /\ other = Steps(p)[j]
    BY DEF Earlier
  <2>3. AccountsOf(other.lines) \subseteq program[p].loaded
    BY <1>2, <2>1, <2>2 DEF Undisturbed, Finds, Passed
  <2>4. <<line[1], "XLM">>[1] \in AccountsOf(other.lines)
    BY <2>1 DEF AccountsOf
  <2> QED
    BY <2>3, <2>4
<1> QED
  BY <1>5 DEF NilAccount, AccountsOf

\* Core takes every transaction but the one that gives tokens to too many.
LEMMA GetsThrough ==
  ASSUME IInv, CalmInv, NEW p \in calm, At(p, Submission)
  PROVE  \/ Valid(Transaction(p))
         \/ p = "generator" /\ StepOf(p).do = "fund" /\ fleet > MaxOperations
<1> DEFINE i == program[p].step
           step == StepOf(p)
           tx == Transaction(p)
<1>1. Running(p)
  BY DEF At
<1>2. p \in Program /\ Types /\ SetUp(p) /\ Undisturbed(p) /\ fleet \in Nat \ {0}
  BY <1>1, CalmKnows
<1>3. i \in DOMAIN Steps(p) /\ step = Steps(p)[i] /\ step.do \in Submission /\ step \in Step
  BY <1>2, CurrentStep
<1>4. Known(p, fleet, step)
  BY <1>2, <1>3, StepIsKnown
<1>5. tx.seq = program[p].account + 1 /\ tx.do = step.do /\ tx.lines = step.lines
  BY DEF Transaction
<1>6. program[p].account = sequence + Len(pending)
  <2>1. /\ DOMAIN Steps(p) = 1 .. Len(Steps(p)) /\ Len(Steps(p)) \in Nat
        /\ Steps(p)[1].do = "mustLoad"
    BY <1>2, Place
  <2>2. i # 1
    BY <1>3, <2>1 DEF Submission
  <2>3. i \in 2 .. Len(Steps(p))
    BY <1>3, <2>1, <2>2
  <2> QED
    BY <1>2, <2>3 DEF Undisturbed, Abreast
<1>7. tx.seq = sequence + Len(pending) + 1
  BY <1>5, <1>6
<1>8. CASE p = "generator" /\ step.do = "fund"
  <2>1. step.lines = Tokens(fleet)
    BY <1>4, <1>8 DEF Known
  <2>2. Cardinality(Tokens(fleet)) = fleet
    BY <1>2, TokensAre
  <2>3. MaxOperations \in Nat
    BY LimitsAssumption
  <2> QED
    BY <1>2, <1>5, <1>7, <1>8, <2>1, <2>2, <2>3 DEF Valid
<1>9. CASE ~(p = "generator" /\ step.do = "fund")
  <2>1. Fits(step)
    BY <1>3, <1>4, <1>9 DEF Known
  <2>2. step.do = "trust" => AccountsOf(step.lines) \X {"XLM"} \subseteq ledger
    <3>1. step.do = "trust" => AccountsOf(step.lines) \subseteq program[p].loaded
      BY NoneIsNil DEF NilAccount
    <3>2. program[p].loaded \X {"XLM"} \subseteq ledger
      BY <1>2 DEF SetUp, Loads
    <3> QED
      BY <3>1, <3>2
  <2> QED
    BY <1>5, <1>7, <2>1, <2>2 DEF Valid, Fits
<1> QED
  BY <1>8, <1>9

-----------------------------------------------------------------------------
(***************************************************************************)
(* The ledger, and the transactions on their way to it.                    *)
(***************************************************************************)

\* A transaction joins the queue, or the queue is lost, or nothing happens to it.
LEMMA LedgersStay ==
  ASSUME IInv, CalmInv, UNCHANGED <<fleet, sequence, ledger, funded>>,
         \/ UNCHANGED pending
         \/ pending' = <<>>
         \/ \E p \in Program : /\ At(p, Submission) /\ Valid(Transaction(p))
                               /\ pending' = Append(pending, Transaction(p))
  PROVE  Ledgers'
<1> DEFINE Harmless(tx) ==
             /\ tx.do = "create" => tx.lines \in Creations(fleet)
             /\ tx.do = "trust" => \A line \in tx.lines : line[2] # "XLM"
             /\ tx.do = "fund" => tx.lines \cap Tokens(fleet) = {} \/ fleet <= MaxOperations
<1>1. Types /\ Queue /\ Ledgers /\ \A i \in DOMAIN pending : Harmless(pending[i])
  BY DEF IInv, CalmInv, Ledgers
<1>2. SUFFICES \A i \in DOMAIN pending' : Harmless(pending'[i])
  BY <1>1 DEF Ledgers
<1>3. CASE UNCHANGED pending
  BY <1>1, <1>3
<1>4. CASE pending' = <<>>
  BY <1>4
<1>5. CASE \E p \in Program : /\ At(p, Submission) /\ Valid(Transaction(p))
                              /\ pending' = Append(pending, Transaction(p))
  <2>1. PICK p \in Program : /\ At(p, Submission) /\ Valid(Transaction(p))
                             /\ pending' = Append(pending, Transaction(p))
    BY <1>5
  <2>2. /\ DOMAIN pending' = 1 .. Len(pending) + 1
        /\ \A i \in 1 .. Len(pending) : pending'[i] = pending[i]
        /\ pending'[Len(pending) + 1] = Transaction(p)
    BY <1>1, <2>1, EnqueueKeepsQueue
  <2>3. DOMAIN pending = 1 .. Len(pending) /\ Len(pending) \in Nat
    BY <1>1 DEF Types
  <2>4. Known(p, fleet, StepOf(p))
    <3>1. program[p].step \in DOMAIN Steps(p) /\ StepOf(p) = Steps(p)[program[p].step]
      BY <1>1, <2>1, CurrentStep
    <3>2. Known(p, fleet, Steps(p)[program[p].step])
      BY <1>1, <3>1, StepIsKnown
    <3> QED
      BY <3>1, <3>2
  <2>5. Transaction(p).do = StepOf(p).do /\ Transaction(p).lines = StepOf(p).lines
    BY DEF Transaction
  <2>6. ASSUME StepOf(p).do = "fund", p = "generator" PROVE fleet <= MaxOperations
    <3>1. StepOf(p).lines = Tokens(fleet)
      BY <2>4, <2>6 DEF Known
    <3>2. fleet \in Nat \ {0}
      BY <1>1, FleetsAssumption DEF Types
    <3>3. Cardinality(Tokens(fleet)) = fleet
      BY <3>2, TokensAre
    <3> QED
      BY <2>1, <2>5, <3>1, <3>3 DEF Valid
  <2>7. Harmless(Transaction(p))
    BY <2>4, <2>5, <2>6 DEF Known
  <2> HIDE DEF Harmless
  <2> SUFFICES ASSUME NEW i \in 1 .. Len(pending) + 1 PROVE Harmless(pending'[i])
    BY <2>2
  <2>8. i \in 1 .. Len(pending) \/ i = Len(pending) + 1
    BY <2>3
  <2> QED
    BY <1>1, <2>2, <2>3, <2>7, <2>8
<1> QED
  BY <1>3, <1>4, <1>5

\* What a transaction does to accounts that are created together.
LEMMA ApplyKeepsLedgers ==
  ASSUME IInv, CalmInv, Apply
  PROVE  Ledgers'
<1> DEFINE tx == pending[1]
<1>1. Types /\ Queue /\ Ledgers /\ fleet' = fleet /\ fleet \in Nat
  BY FleetsAssumption DEF IInv, CalmInv, Types, Apply
<1>2. /\ Head(pending) = tx /\ 1 \in DOMAIN pending /\ tx \in Tx
      /\ \A i \in DOMAIN pending' : i + 1 \in DOMAIN pending /\ pending'[i] = pending[i + 1]
  BY <1>1, QueueLeft
<1>3. /\ ledger' = IF Succeeds(tx) /\ tx.do # "fund" THEN ledger \cup tx.lines ELSE ledger
      /\ funded' = IF Succeeds(tx) /\ tx.do = "fund" THEN funded \cup tx.lines ELSE funded
  BY <1>2 DEF Apply
<1>4. /\ tx.do \in {"create", "trust", "fund"}
      /\ tx.do = "create" => tx.lines \in Creations(fleet)
      /\ tx.do = "trust" => \A line \in tx.lines : line[2] # "XLM"
      /\ tx.do = "fund" => tx.lines \cap Tokens(fleet) = {} \/ fleet <= MaxOperations
      /\ tx.do = "create" /\ IssuerLine \in tx.lines => BatchLine \in tx.lines
      /\ tx.do = "trust" => IssuerLine \notin tx.lines
  BY <1>1, <1>2 DEF Ledgers, Queue, Tx, Submission
<1> HIDE DEF tx
<1>5. <<Master, "XLM">> \in ledger' /\ (IssuerLine \in ledger' => BatchLine \in ledger')
  BY <1>1, <1>3, <1>4 DEF Ledgers
<1>6. ASSUME NEW lines \in Creations(fleet), lines # Own({Batch, UsecasesIssuer})
      PROVE  lines \subseteq ledger' \/ lines \cap ledger' = {}
  <2>1. lines \subseteq ledger \/ lines \cap ledger = {}
    BY <1>1, <1>6 DEF Ledgers
  <2>2. \A line \in lines : line[2] = "XLM"
    BY <1>1, CreationsApart
  <2>3. CASE tx.do = "create"
    <3>1. tx.lines \in Creations(fleet)
      BY <1>4, <2>3
    <3>2. \/ lines = tx.lines \/ lines \cap tx.lines = {}
          \/ lines \in {Own({Batch, UsecasesIssuer}), Own({Batch})}
      BY <1>1, <3>1, CreationsApart
    <3>3. CASE lines = Own({Batch})
      <4>1. lines = {BatchLine}
        BY <3>3 DEF Own, BatchLine
      <4> QED
        BY <4>1
    <3>4. CASE lines # Own({Batch})
      BY <1>3, <1>6, <2>1, <2>3, <3>2, <3>4
    <3> QED
      BY <3>3, <3>4
  <2>4. CASE tx.do = "trust"
    BY <1>3, <1>4, <2>1, <2>2, <2>4
  <2>5. CASE tx.do = "fund"
    BY <1>3, <2>1, <2>5
  <2> QED
    BY <1>4, <2>3, <2>4, <2>5
<1>7. fleet > MaxOperations => funded' \cap Tokens(fleet) = {}
  BY <1>1, <1>3, <1>4, LimitsAssumption DEF Ledgers
<1>8. \A i \in DOMAIN pending' :
        /\ pending'[i].do = "create" => pending'[i].lines \in Creations(fleet)
        /\ pending'[i].do = "trust" => \A line \in pending'[i].lines : line[2] # "XLM"
        /\ pending'[i].do = "fund" =>
             pending'[i].lines \cap Tokens(fleet) = {} \/ fleet <= MaxOperations
  <2> SUFFICES ASSUME NEW i \in DOMAIN pending'
               PROVE  /\ pending'[i].do = "create" => pending'[i].lines \in Creations(fleet)
                      /\ pending'[i].do = "trust" => \A line \in pending'[i].lines : line[2] # "XLM"
                      /\ pending'[i].do = "fund" =>
                           pending'[i].lines \cap Tokens(fleet) = {} \/ fleet <= MaxOperations
    OBVIOUS
  <2>1. i + 1 \in DOMAIN pending /\ pending'[i] = pending[i + 1]
    BY <1>2
  <2> QED
    BY <1>1, <2>1 DEF Ledgers
<1> QED
  BY <1>1, <1>5, <1>6, <1>7, <1>8 DEF Ledgers

\* What a calm run has achieved, it does not lose.
LEMMA ApplyKeepsUndisturbed ==
  ASSUME IInv, CalmInv, NEW p \in calm, Running(p), Apply
  PROVE  Undisturbed(p)'
<1>1. /\ p \in Program /\ Types /\ Undisturbed(p)
      /\ program' = program /\ fleet' = fleet
  BY CalmKnows DEF Apply
<1>2. /\ Len(pending) \in Nat \ {0} /\ sequence \in Nat /\ Head(pending) = pending[1]
      /\ Len(pending') = Len(pending) - 1 /\ sequence' = sequence + 1
      /\ pending' \in Seq(Tx) /\ DOMAIN pending = 1 .. Len(pending)
      /\ \A i \in DOMAIN pending : i = 1 \/ (i - 1 \in DOMAIN pending'
                                             /\ pending'[i - 1] = pending[i])
  BY <1>1, QueueLeft DEF Apply, Types
<1>3. /\ ledger \subseteq ledger' /\ There \subseteq There'
      /\ pending[1].do = "create" =>
           \/ pending[1].lines \subseteq ledger'
           \/ \E line \in pending[1].lines : line \in ledger'
  BY <1>1, Applied
<1>4. /\ Steps(p)' = Steps(p) /\ StepOf(p)' = StepOf(p) /\ Passed(p)' = Passed(p)
  BY <1>1 DEF Steps, StepOf, Passed
<1>5. funded' = IF Succeeds(pending[1]) /\ pending[1].do = "fund"
                  THEN funded \cup pending[1].lines ELSE funded
  BY <1>2 DEF Apply
<1>6. Abreast(p)'
  BY <1>1, <1>2, <1>4 DEF Undisturbed, Abreast
<1>7. \A lines : Landed(lines) => (lines = {} \/ lines \cap ledger' # {})
  BY <1>3 DEF Landed
<1>8. Creates(p)'
  <2>1. \A i \in Passed(p) : Steps(p)[i].do = "create" =>
          Steps(p)[i].lines = {} \/ Steps(p)[i].lines \cap ledger' # {}
    BY <1>1, <1>7 DEF Undisturbed, Creates
  <2>2. ASSUME program[p].awaited # 0, StepOf(p).do = "create"
        PROVE  \/ StepOf(p).lines = {} \/ StepOf(p).lines \cap ledger' # {}
               \/ \E i \in Awaited(p)' :
                    pending'[i].do = "create" /\ pending'[i].lines = StepOf(p).lines
    <3>1. CASE Landed(StepOf(p).lines)
      BY <1>7, <3>1
    <3>2. ASSUME NEW i \in Awaited(p), pending[i].do = "create",
                 pending[i].lines = StepOf(p).lines
          PROVE  \/ StepOf(p).lines = {} \/ StepOf(p).lines \cap ledger' # {}
                 \/ \E j \in Awaited(p)' :
                      pending'[j].do = "create" /\ pending'[j].lines = StepOf(p).lines
      <4>1. CASE i = 1
        BY <1>3, <3>2, <4>1
      <4>2. CASE i # 1
        <5>1. i \in DOMAIN pending
          BY <3>2 DEF Awaited
        <5>2. i - 1 \in Awaited(p)' /\ pending'[i - 1] = pending[i]
          BY <1>1, <1>2, <3>2, <4>2, <5>1 DEF Awaited
        <5> QED
          BY <3>2, <5>2
      <4> QED
        BY <4>1, <4>2
    <3> QED
      BY <1>1, <2>2, <3>1, <3>2 DEF Undisturbed, Creates
  <2> QED
    BY <1>1, <1>4, <2>1, <2>2 DEF Creates, Landed
<1>9. Finds(p)'
  BY <1>1, <1>4 DEF Undisturbed, Finds
<1>10. ASSUME Coming(p) PROVE Tokens(fleet) \subseteq funded' \/ Coming(p)'
  <2> DEFINE n == Len(pending)
  <2>1. /\ pending[n].do = "fund" /\ pending[n].lines = Tokens(fleet)
        /\ pending[n].program = p /\ pending[n].seq = program[p].awaited
        /\ Tokens(fleet) \subseteq There
    BY <1>10 DEF Coming
  <2>2. CASE n = 1
    <3>1. Queued({"trust"}) = {}
      BY <1>2, <2>1, <2>2 DEF Queued
    <3>2. Succeeds(pending[1])
      BY <2>1, <2>2, <3>1 DEF Succeeds, There
    <3> QED
      BY <1>5, <2>1, <2>2, <3>2
  <2>3. CASE n # 1
    <3>1. n \in DOMAIN pending /\ pending' # <<>>
      BY <1>2, <2>3
    <3>2. pending'[Len(pending')] = pending[n]
      BY <1>2, <2>3, <3>1
    <3> QED
      BY <1>1, <1>3, <2>1, <3>1, <3>2 DEF Coming
  <2> QED
    BY <2>2, <2>3
<1>11. p = "generator" => Gives(p)'
  BY <1>1, <1>4, <1>5, <1>10 DEF Undisturbed, Gives
<1> QED
  BY <1>6, <1>8, <1>9, <1>11 DEF Undisturbed

\* The ledger applies a transaction.
LEMMA ApplyKeepsCalm ==
  ASSUME IInv, CalmInv, Apply
  PROVE  CalmInv'
<1>1. UNCHANGED <<fleet, program, calm>> /\ funded \subseteq funded'
  BY DEF Apply
<1>2. ASSUME NEW p \in calm', Running(p)' PROVE Undisturbed(p)'
  <2>1. p \in calm /\ Running(p)
    BY <1>1, <1>2 DEF Running
  <2> QED
    BY <2>1, ApplyKeepsUndisturbed
<1>3. "generator" \in calm' /\ program'["generator"].process = "ready" /\ fleet' <= MaxOperations
        => Tokens(fleet') \subseteq funded'
  BY <1>1 DEF CalmInv
<1> QED
  BY <1>2, <1>3, ApplyKeepsLedgers DEF CalmInv

-----------------------------------------------------------------------------
(***************************************************************************)
(* The moves of calm runs.                                                 *)
(***************************************************************************)

\* A calm run meets no other, so only its own moves matter.
LEMMA CalmMoves ==
  ASSUME IInv, CalmInv, NEW p \in Program, Running(p), NEW m \in State,
         program' = [program EXCEPT ![p] = m],
         UNCHANGED <<fleet, sequence, ledger, funded>>,
         \/ UNCHANGED pending
         \/ /\ At(p, Submission) /\ Valid(Transaction(p))
            /\ pending' = Append(pending, Transaction(p)),
         calm' \subseteq calm,
         p \in calm' /\ m.process = "running" => Undisturbed(p)',
         p \in calm' /\ p = "generator" /\ m.process = "ready" /\ fleet <= MaxOperations
           => Tokens(fleet) \subseteq funded
  PROVE  CalmInv'
<1>1. /\ program \in [Program -> State] /\ calm \subseteq steady /\ steady \subseteq Program
  BY DEF IInv, Types
<1>2. program'[p] = m /\ \A q \in Program \ {p} : program'[q] = program[q]
  BY <1>1
<1>3. Ledgers'
  BY LedgersStay
<1>4. ASSUME NEW q \in calm', Running(q)' PROVE Undisturbed(q)'
  <2>1. CASE q = p
    BY <1>2, <1>4, <2>1 DEF Running
  <2>2. CASE q # p
    <3>1. q \in Program /\ q \in steady /\ Running(q)
      BY <1>1, <1>2, <1>4, <2>2 DEF Running
    <3>2. Alone(q)
      BY <3>1 DEF IInv, SetUp
    <3> QED
      BY <2>2, <3>2 DEF Alone
  <2> QED
    BY <2>1, <2>2
<1>5. "generator" \in calm' /\ program'["generator"].process = "ready" /\ fleet <= MaxOperations
        => Tokens(fleet) \subseteq funded
  <2>1. CASE p = "generator"
    BY <1>2, <2>1
  <2>2. CASE p # "generator"
    <3>1. "generator" \in Program
      BY DEF Program
    <3>2. program'["generator"] = program["generator"]
      BY <1>2, <2>2, <3>1
    <3> QED
      BY <3>2 DEF CalmInv
  <2> QED
    BY <2>1, <2>2
<1> QED
  BY <1>3, <1>4, <1>5 DEF CalmInv

\* What a calm run knows when it moves.
LEMMA CalmMove ==
  ASSUME IInv, CalmInv, NEW p \in calm, Running(p), NEW m \in State,
         program' = [program EXCEPT ![p] = m], fleet' = fleet
  PROVE  /\ Types /\ Places /\ SetUp(p) /\ Undisturbed(p) /\ p \in Program /\ p \in steady
         /\ program[p].step \in Nat \ {0} /\ program[p].account \in Nat
         /\ program'[p] = m /\ Steps(p)' = Steps(p)
         /\ sequence \in Nat /\ Len(pending) \in Nat /\ pending \in Seq(Tx)
         /\ DOMAIN Steps(p) = 1 .. Len(Steps(p)) /\ Len(Steps(p)) \in Nat \ {0}
         /\ Steps(p)[1].do = "mustLoad"
<1>1. p \in steady /\ p \in Program /\ Undisturbed(p) /\ Types
  BY CalmKnows
<1>2. /\ Types /\ Places /\ SetUp(p)
      /\ program[p].step \in Nat \ {0} /\ program[p].account \in Nat
      /\ program'[p] = m /\ Steps(p)' = Steps(p)
      /\ sequence \in Nat /\ Len(pending) \in Nat
  BY <1>1, Knows
<1> QED
  BY <1>1, <1>2, Place DEF Types

\* On to the next step.
LEMMA CalmPassedOneMore ==
  ASSUME IInv, CalmInv, NEW p \in calm, Running(p), NEW m \in State,
         program' = [program EXCEPT ![p] = m], fleet' = fleet,
         program[p].step \in DOMAIN Steps(p),
         m.step = program[p].step + 1, m.awaited = 0
  PROVE  Passed(p)' = Passed(p) \cup {program[p].step}
<1>1. p \in steady
  BY CalmKnows
<1> QED
  BY <1>1, PassedOneMore

\* Accounts are loaded, all of them.
LEMMA LoadKeepsUndisturbed ==
  ASSUME IInv, CalmInv, NEW p \in calm, NEW m \in State,
         program' = [program EXCEPT ![p] = m],
         UNCHANGED <<fleet, sequence, ledger, pending>>,
         At(p, Loading),
         m.step = program[p].step + 1, m.awaited = 0,
         m.account = (IF program[p].step = 1 THEN sequence ELSE program[p].account),
         m.loaded = program[p].loaded \cup AccountsOf(StepOf(p).lines)
  PROVE  Undisturbed(p)'
<1> DEFINE s == program[p].step
<1>1. Running(p)
  BY DEF At
<1>2. /\ Types /\ Places /\ SetUp(p) /\ Undisturbed(p) /\ p \in Program
      /\ s \in Nat \ {0} /\ program[p].account \in Nat
      /\ program'[p] = m /\ Steps(p)' = Steps(p)
      /\ sequence \in Nat /\ Len(pending) \in Nat
      /\ DOMAIN Steps(p) = 1 .. Len(Steps(p)) /\ Len(Steps(p)) \in Nat \ {0}
  BY <1>1, CalmMove
<1>3. s \in DOMAIN Steps(p) /\ StepOf(p) = Steps(p)[s] /\ StepOf(p).do \in Loading
  BY <1>2, CurrentStep
<1>4. Passed(p)' = Passed(p) \cup {s}
  BY <1>1, <1>3, CalmPassedOneMore
<1>5. Abreast(p)'
  <2>1. CASE s = 1
    <3>1. pending = <<>>
      BY <1>2, <2>1 DEF SetUp, Alone
    <3>2. Len(pending) = 0
      BY <3>1
    <3> QED
      BY <1>2, <2>1, <3>2 DEF Abreast
  <2>2. CASE s # 1
    <3>1. s \in 2 .. Len(Steps(p))
      BY <1>2, <1>3, <2>2
    <3> QED
      BY <1>2, <2>2, <3>1 DEF Undisturbed, Abreast
  <2> QED
    BY <2>1, <2>2
<1>6. Creates(p)'
  <2>1. Steps(p)[s].do # "create"
    BY <1>3 DEF Loading
  <2> QED
    BY <1>2, <1>4, <2>1 DEF Undisturbed, Creates, Landed
<1>7. Finds(p)'
  BY <1>2, <1>3, <1>4 DEF Undisturbed, Finds
<1>8. p = "generator" => Gives(p)'
  <2> SUFFICES ASSUME p = "generator" PROVE ~(m.step > Len(Steps(p)))
    BY <1>2 DEF Gives
  <2>1. Steps(p)[s].do # "fund"
    BY <1>3 DEF Loading
  <2>2. s # Len(Steps(p))
    BY <1>2, <1>3, <2>1, StepIsKnown
  <2> QED
    BY <1>2, <1>3, <2>2
<1> QED
  BY <1>5, <1>6, <1>7, <1>8 DEF Undisturbed

\* Where a calm run is that submits a transaction.
LEMMA CalmSubmits ==
  ASSUME IInv, CalmInv, NEW p \in calm, At(p, Submission)
  PROVE  /\ Running(p) /\ p \in Program /\ p \in steady /\ fleet \in Nat
         /\ program[p].awaited = 0 /\ program[p].step \in 2 .. Len(Steps(p))
         /\ program[p].step \in DOMAIN Steps(p)
         /\ StepOf(p) = Steps(p)[program[p].step] /\ StepOf(p).do \in Submission
         /\ program[p].account = sequence + Len(pending) /\ Known(p, fleet, StepOf(p))
         /\ p = "generator" => (StepOf(p).do = "fund" <=> program[p].step = Len(Steps(p)))
<1>1. Running(p)
  BY DEF At
<1>2. p \in Program /\ p \in steady /\ Types /\ Undisturbed(p) /\ fleet \in Nat
  BY <1>1, CalmKnows
<1>3. /\ program[p].awaited = 0 /\ program[p].step \in DOMAIN Steps(p)
      /\ StepOf(p) = Steps(p)[program[p].step] /\ StepOf(p).do \in Submission
  BY <1>2, CurrentStep
<1>4. /\ DOMAIN Steps(p) = 1 .. Len(Steps(p)) /\ Len(Steps(p)) \in Nat
      /\ Steps(p)[1].do = "mustLoad"
  BY <1>2, Place
<1>5. program[p].step # 1
  BY <1>3, <1>4 DEF Submission
<1>6. program[p].step \in 2 .. Len(Steps(p))
  BY <1>3, <1>4, <1>5
<1>7. program[p].account = sequence + Len(pending)
  BY <1>2, <1>6 DEF Undisturbed, Abreast
<1>8. /\ Known(p, fleet, Steps(p)[program[p].step])
      /\ p = "generator" =>
           (Steps(p)[program[p].step].do = "fund" <=> program[p].step = Len(Steps(p)))
  BY <1>2, <1>3, StepIsKnown
<1> QED
  BY <1>1, <1>2, <1>3, <1>6, <1>7, <1>8

\* Core has the transaction, and the program goes on.
LEMMA QueueingKeepsUndisturbed ==
  ASSUME IInv, CalmInv, NEW p \in calm, NEW m \in State,
         program' = [program EXCEPT ![p] = m],
         UNCHANGED <<fleet, sequence, ledger, funded>>,
         At(p, Submission), Valid(Transaction(p)), StepOf(p).to = "core",
         pending' = Append(pending, Transaction(p)),
         m.step = program[p].step + 1, m.awaited = 0,
         m.account = program[p].account + 1, m.loaded = program[p].loaded
  PROVE  Undisturbed(p)'
<1> DEFINE s == program[p].step
<1>1. /\ Running(p) /\ p \in Program /\ s \in 2 .. Len(Steps(p)) /\ s \in DOMAIN Steps(p)
      /\ StepOf(p) = Steps(p)[s] /\ StepOf(p).do \in Submission
      /\ program[p].account = sequence + Len(pending) /\ Known(p, fleet, StepOf(p))
      /\ p = "generator" => (StepOf(p).do = "fund" <=> s = Len(Steps(p)))
  BY CalmSubmits
<1>2. /\ Types /\ Undisturbed(p) /\ program[p].account \in Nat
      /\ program'[p] = m /\ Steps(p)' = Steps(p)
      /\ sequence \in Nat /\ Len(pending) \in Nat /\ Len(Steps(p)) \in Nat \ {0}
  BY <1>1, CalmMove
<1>3. Passed(p)' = Passed(p) \cup {s}
  BY <1>1, CalmPassedOneMore
<1>4. Len(pending') = Len(pending) + 1
  BY <1>1, <1>2, EnqueueKeepsQueue DEF IInv
<1>5. Abreast(p)'
  BY <1>1, <1>2, <1>4 DEF Abreast
<1>6. Creates(p)'
  <2>1. Steps(p)[s].do # "create"
    BY <1>1 DEF Known
  <2> QED
    BY <1>2, <1>3, <2>1 DEF Undisturbed, Creates, Landed
<1>7. Finds(p)'
  <2>1. Steps(p)[s].do \notin Loading
    BY <1>1 DEF Submission, Loading
  <2> QED
    BY <1>2, <1>3, <2>1 DEF Undisturbed, Finds
<1>8. p = "generator" => Gives(p)'
  <2> SUFFICES ASSUME p = "generator" PROVE ~(m.step > Len(Steps(p)))
    BY <1>2 DEF Gives
  <2>1. StepOf(p).do # "fund"
    BY <1>1 DEF Known
  <2> QED
    BY <1>1, <1>2, <2>1
<1> QED
  BY <1>5, <1>6, <1>7, <1>8 DEF Undisturbed

\* Core has the transaction, and the program waits for Horizon.
LEMMA WaitingKeepsUndisturbed ==
  ASSUME IInv, CalmInv, NEW p \in calm, NEW m \in State,
         program' = [program EXCEPT ![p] = m],
         UNCHANGED <<fleet, sequence, ledger, funded>>,
         At(p, Submission), Valid(Transaction(p)),
         pending' = Append(pending, Transaction(p)),
         m.step = program[p].step, m.awaited = program[p].account + 1,
         m.account = program[p].account + 1, m.loaded = program[p].loaded
  PROVE  Undisturbed(p)'
<1> DEFINE s == program[p].step
<1>1. /\ Running(p) /\ p \in Program /\ s \in 2 .. Len(Steps(p)) /\ s \in DOMAIN Steps(p)
      /\ StepOf(p) = Steps(p)[s] /\ StepOf(p).do \in Submission /\ fleet \in Nat
      /\ program[p].account = sequence + Len(pending) /\ Known(p, fleet, StepOf(p))
      /\ p = "generator" => (StepOf(p).do = "fund" <=> s = Len(Steps(p)))
  BY CalmSubmits
<1>2. /\ Types /\ Queue /\ SetUp(p) /\ Undisturbed(p) /\ program[p].account \in Nat
      /\ program'[p] = m /\ Steps(p)' = Steps(p) /\ fleet \in Fleets
      /\ sequence \in Nat /\ Len(pending) \in Nat /\ Len(Steps(p)) \in Nat \ {0}
      /\ DOMAIN Steps(p) = 1 .. Len(Steps(p))
  BY <1>1, CalmMove DEF IInv, Types
<1>3. Passed(p)' = Passed(p) /\ StepOf(p)' = StepOf(p)
  BY <1>1, <1>2 DEF Passed, StepOf
<1>4. /\ Len(pending') = Len(pending) + 1 /\ Len(pending) + 1 \in DOMAIN pending'
      /\ pending'[Len(pending) + 1] = Transaction(p)
  BY <1>1, <1>2, EnqueueKeepsQueue
<1>5. /\ Transaction(p).program = p /\ Transaction(p).seq = program[p].account + 1
      /\ Transaction(p).do = StepOf(p).do /\ Transaction(p).lines = StepOf(p).lines
  BY DEF Transaction
<1>6. Abreast(p)'
  BY <1>1, <1>2, <1>4 DEF Abreast
<1>7. Creates(p)'
  <2>1. Len(pending) + 1 \in Awaited(p)'
    BY <1>2, <1>4, <1>5 DEF Awaited
  <2>2. StepOf(p).do = "create" =>
          \E i \in Awaited(p)' : pending'[i].do = "create" /\ pending'[i].lines = StepOf(p).lines
    BY <1>4, <1>5, <2>1
  <2>3. \A i \in Passed(p) : Steps(p)[i].do = "create" =>
          Steps(p)[i].lines = {} \/ Steps(p)[i].lines \cap ledger # {}
    BY <1>2 DEF Undisturbed, Creates, Landed
  <2> QED
    BY <1>2, <1>3, <2>2, <2>3 DEF Creates, Landed
<1>8. Finds(p)'
  BY <1>2, <1>3 DEF Undisturbed, Finds
<1>9. ASSUME p = "generator", StepOf(p).do = "fund" PROVE Coming(p)'
  <2>1. StepOf(p).lines = Tokens(fleet)
    BY <1>1, <1>9 DEF Known
  <2>2. Tokens(fleet) \subseteq There
    <3> SUFFICES ASSUME NEW line \in Tokens(fleet) PROVE line \in There
      OBVIOUS
    <3>1. PICK step \in ToSet(Steps(p)) : step.do = "trust" /\ line \in step.lines
      BY <1>1, <1>2, <1>9, ListsAreOrderly
    <3>2. PICK i \in DOMAIN Steps(p) : step = Steps(p)[i]
      BY <3>1 DEF ToSet
    <3>3. i # Len(Steps(p))
      BY <1>1, <1>9, <3>1, <3>2
    <3>4. i \in Begun(p)
      BY <1>1, <1>2, <1>9, <3>3 DEF Begun
    <3>5. ~Astray(p)
      BY <1>1, <1>2 DEF Astray
    <3> QED
      BY <1>2, <3>1, <3>2, <3>4, <3>5 DEF SetUp, Trusts
  <2>3. There \subseteq There'
    BY <1>1, <1>2, EnqueueAddsLines
  <2>4. pending' # <<>>
    BY <1>2, <1>4
  <2> QED
    BY <1>2, <1>4, <1>5, <1>9, <2>1, <2>2, <2>3, <2>4 DEF Coming
<1>10. p = "generator" => Gives(p)'
  <2>1. ~(m.step > Len(Steps(p)))
    BY <1>1, <1>2
  <2> QED
    BY <1>2, <1>3, <1>9, <2>1 DEF Gives
<1> QED
  BY <1>6, <1>7, <1>8, <1>10 DEF Undisturbed

\* The fleet is too large, and the generator logs that.
LEMMA RefusalKeepsUndisturbed ==
  ASSUME IInv, CalmInv, NEW p \in calm, NEW m \in State,
         program' = [program EXCEPT ![p] = m],
         UNCHANGED <<fleet, sequence, ledger, funded, pending>>,
         At(p, Submission), p = "generator", StepOf(p).do = "fund", fleet > MaxOperations,
         m.step = program[p].step + 1, m.awaited = 0, m.loaded = program[p].loaded
  PROVE  Undisturbed(p)'
<1> DEFINE s == program[p].step
<1>1. /\ Running(p) /\ p \in Program /\ s \in DOMAIN Steps(p)
      /\ StepOf(p) = Steps(p)[s] /\ s = Len(Steps(p)) /\ fleet \in Nat
  BY CalmSubmits
<1>2. /\ Undisturbed(p) /\ program'[p] = m /\ Steps(p)' = Steps(p)
      /\ Len(Steps(p)) \in Nat \ {0}
  BY <1>1, CalmMove
<1>3. Passed(p)' = Passed(p) \cup {s}
  BY <1>1, CalmPassedOneMore
<1>4. Abreast(p)'
  BY <1>1, <1>2 DEF Abreast
<1>5. Creates(p)'
  BY <1>1, <1>2, <1>3 DEF Undisturbed, Creates, Landed
<1>6. Finds(p)'
  <2>1. Steps(p)[s].do \notin Loading
    BY <1>1 DEF Loading
  <2> QED
    BY <1>2, <1>3, <2>1 DEF Undisturbed, Finds
<1>7. Gives(p)'
  BY <1>1, <1>2, LimitsAssumption DEF Gives
<1> QED
  BY <1>4, <1>5, <1>6, <1>7 DEF Undisturbed

\* Horizon has answered, as the transaction is in a ledger.
LEMMA AnswerKeepsUndisturbed ==
  ASSUME IInv, CalmInv, NEW p \in calm, Running(p), NEW m \in State,
         program' = [program EXCEPT ![p] = m],
         UNCHANGED <<fleet, sequence, ledger, funded, pending>>,
         program[p].awaited # 0, Awaited(p) = {},
         m.step = program[p].step + 1, m.awaited = 0,
         m.account = program[p].account, m.loaded = program[p].loaded
  PROVE  Undisturbed(p)'
<1> DEFINE s == program[p].step
<1>1. /\ Types /\ Places /\ Undisturbed(p) /\ p \in Program
      /\ s \in Nat \ {0} /\ program'[p] = m /\ Steps(p)' = Steps(p)
      /\ Len(pending) \in Nat /\ pending \in Seq(Tx)
      /\ DOMAIN Steps(p) = 1 .. Len(Steps(p)) /\ Len(Steps(p)) \in Nat \ {0}
      /\ Steps(p)[1].do = "mustLoad"
  BY CalmMove
<1>2. s \in DOMAIN Steps(p) /\ StepOf(p) = Steps(p)[s] /\ StepOf(p).do \in Submission
  BY <1>1 DEF Places, StepOf
<1>3. Passed(p)' = Passed(p) \cup {s}
  BY <1>2, CalmPassedOneMore
<1>4. Abreast(p)'
  <2>1. s # 1
    BY <1>1, <1>2 DEF Submission
  <2>2. s \in 2 .. Len(Steps(p))
    BY <1>1, <1>2, <2>1
  <2> QED
    BY <1>1, <2>2 DEF Undisturbed, Abreast
<1>5. Creates(p)'
  <2>1. Steps(p)[s].do = "create" => Landed(Steps(p)[s].lines)
    BY <1>1, <1>2 DEF Undisturbed, Creates
  <2> QED
    BY <1>1, <1>3, <2>1 DEF Undisturbed, Creates, Landed
<1>6. Finds(p)'
  <2>1. Steps(p)[s].do \notin Loading
    BY <1>2 DEF Submission, Loading
  <2> QED
    BY <1>1, <1>3, <2>1 DEF Undisturbed, Finds
<1>7. ASSUME p = "generator" PROVE Gives(p)'
  <2> SUFFICES ASSUME m.step > Len(Steps(p)) PROVE Tokens(fleet) \subseteq funded
    BY <1>1 DEF Gives
  <2>1. s = Len(Steps(p))
    BY <1>1, <1>2
  <2>2. Steps(p)[s].do = "fund"
    BY <1>1, <1>2, <1>7, <2>1, StepIsKnown
  <2>3. Tokens(fleet) \subseteq funded \/ Coming(p)
    BY <1>1, <1>2, <1>7, <2>2 DEF Undisturbed, Gives
  <2>4. ~Coming(p)
    <3>1. pending # <<>> => Len(pending) \in DOMAIN pending
      BY <1>1
    <3> QED
      BY <3>1 DEF Coming, Awaited
  <2> QED
    BY <2>3, <2>4
<1> QED
  BY <1>4, <1>5, <1>6, <1>7 DEF Undisturbed

-----------------------------------------------------------------------------
(***************************************************************************)
(* Every action keeps the invariant of the calm runs.                      *)
(***************************************************************************)

\* A program ends.
LEMMA EndKeepsCalm ==
  ASSUME IInv, CalmInv, NEW p \in Program, Running(p), NEW process \in {"ready", "killed"},
         program' = [program EXCEPT ![p] = Memory(process)],
         UNCHANGED <<fleet, sequence, ledger, funded>>,
         \/ UNCHANGED pending
         \/ /\ At(p, Submission) /\ Valid(Transaction(p))
            /\ pending' = Append(pending, Transaction(p)),
         calm' \subseteq calm,
         p \in calm' /\ p = "generator" /\ process = "ready" /\ fleet <= MaxOperations
           => Tokens(fleet) \subseteq funded
  PROVE  CalmInv'
<1> DEFINE m == Memory(process)
<1>1. m \in State /\ m.process = process /\ m.process # "running"
  BY MemoryIs
<1>2. program' = [program EXCEPT ![p] = m]
  OBVIOUS
<1> HIDE DEF m
<1> QED
  BY <1>1, <1>2, CalmMoves

\* A failure: the run is calm no more, whatever becomes of the program.
LEMMA FailureKeepsCalm ==
  ASSUME IInv, CalmInv, NEW p \in Program, Running(p), NEW m \in State,
         program' = [program EXCEPT ![p] = m],
         UNCHANGED <<fleet, sequence, ledger, funded>>,
         \/ UNCHANGED pending
         \/ /\ At(p, Submission) /\ Valid(Transaction(p))
            /\ pending' = Append(pending, Transaction(p)),
         Disturb(p)
  PROVE  CalmInv'
<1>1. calm' \subseteq calm /\ p \notin calm'
  BY DEF Disturb
<1> QED
  BY <1>1, CalmMoves

\* All the accounts are loaded, or the program ends.
LEMMA LoadsKeepCalm ==
  ASSUME IInv, CalmInv, NEW p \in Program, MustLoadAccount(p) \/ LoadSensors(p)
  PROVE  CalmInv'
<1>1. /\ Types /\ At(p, Loading) /\ Running(p)
      /\ UNCHANGED <<fleet, sequence, ledger, funded, pending, calm>>
  BY DEF IInv, MustLoadAccount, LoadSensors, stellar, At, Loading
<1>2. StepOf(p).lines \in SUBSET StepOf(p).lines /\ AccountsOf(StepOf(p).lines) \in SUBSET Account
  <2>1. StepOf(p).lines \in SUBSET StepOf(p).lines
    OBVIOUS
  <2> QED
    BY <1>1, <2>1, SomeAccounts
<1>3. CASE program' = [program EXCEPT ![p] = Memory("killed")]
  BY <1>1, <1>3, EndKeepsCalm
<1>4. ASSUME MustLoadAccount(p), StepOf(p).lines \subseteq ledger PROVE CalmInv'
  <2> DEFINE n == Onward(p)
             accounts == AccountsOf(StepOf(p).lines)
             account == IF program[p].step = 1 THEN sequence ELSE n.account
             loaded == n.loaded \cup accounts
             m == [n EXCEPT !.account = account, !.loaded = loaded]
  <2>1. program' = [program EXCEPT ![p] = m]
    BY <1>4 DEF MustLoadAccount
  <2>2. /\ n \in State /\ n.step = program[p].step + 1 /\ n.awaited = 0
        /\ n.account = program[p].account /\ n.loaded = program[p].loaded
        /\ n.process = "running"
    BY <1>1, OnwardIs DEF Running
  <2>3. account \in Nat /\ loaded \in SUBSET Account
    BY <1>1, <1>2, <2>2 DEF Types, State
  <2>4. account = (IF program[p].step = 1 THEN sequence ELSE program[p].account)
        /\ loaded = program[p].loaded \cup accounts
    BY <2>2
  <2> HIDE DEF n, accounts, account, loaded
  <2>5. /\ m \in State /\ m.step = n.step /\ m.account = account
        /\ m.loaded = loaded /\ m.awaited = n.awaited /\ m.process = n.process
    <3> DEFINE k == [n EXCEPT !.account = account]
    <3>1. /\ k \in State /\ k.step = n.step /\ k.account = account /\ k.awaited = n.awaited
          /\ k.process = n.process
      BY <2>2, <2>3 DEF State
    <3>2. m = [k EXCEPT !.loaded = loaded]
      BY Zenon
    <3> HIDE DEF k, m
    <3> QED
      BY <2>3, <3>1, <3>2 DEF State
  <2> HIDE DEF m
  <2>6. p \in calm => Undisturbed(p)'
    <3> SUFFICES ASSUME p \in calm PROVE Undisturbed(p)'
      OBVIOUS
    <3>1. /\ m.step = program[p].step + 1 /\ m.awaited = 0
          /\ m.account = (IF program[p].step = 1 THEN sequence ELSE program[p].account)
          /\ m.loaded = program[p].loaded \cup AccountsOf(StepOf(p).lines)
      BY <2>2, <2>4, <2>5 DEF accounts
    <3>2. m \in State
      BY <2>5
    <3> QED
      BY <1>1, <2>1, <3>1, <3>2, LoadKeepsUndisturbed
  <2>7. m \in State /\ m.process = "running" /\ calm' \subseteq calm
    BY <1>1, <2>2, <2>5
  <2> QED
    BY <1>1, <2>1, <2>6, <2>7, CalmMoves
<1>5. ASSUME LoadSensors(p) PROVE CalmInv'
  <2> DEFINE lines == StepOf(p).lines \cap ledger
             accounts == AccountsOf(lines)
             m == Loaded(p, accounts)
  <2>1. program' = [program EXCEPT ![p] = m] /\ At(p, {"load"})
    BY <1>5 DEF LoadSensors, Loaded
  <2>2. lines \in SUBSET StepOf(p).lines
    OBVIOUS
  <2>3. p \in calm => lines = StepOf(p).lines
    <3> SUFFICES ASSUME p \in calm PROVE StepOf(p).lines \subseteq ledger
      OBVIOUS
    <3>1. StepOf(p).do = "load"
      BY <2>1 DEF At, StepOf
    <3> QED
      BY <1>1, <3>1, FindsAccounts
  <2> HIDE DEF lines
  <2>4. accounts \in SUBSET Account
    BY <1>1, <2>2, SomeAccounts
  <2>5. program[p].step # 1
    BY <1>1, <2>1, Place DEF At
  <2> HIDE DEF accounts
  <2>6. /\ m \in State /\ m.process = "running" /\ m.step = program[p].step + 1 /\ m.awaited = 0
        /\ m.account = program[p].account /\ m.loaded = program[p].loaded \cup accounts
    BY <1>1, <2>4, LoadedIs DEF Running
  <2> HIDE DEF m
  <2>7. p \in calm => Undisturbed(p)'
    <3> SUFFICES ASSUME p \in calm PROVE Undisturbed(p)'
      OBVIOUS
    <3>1. /\ m.step = program[p].step + 1 /\ m.awaited = 0
          /\ m.account = (IF program[p].step = 1 THEN sequence ELSE program[p].account)
          /\ m.loaded = program[p].loaded \cup AccountsOf(StepOf(p).lines)
      BY <2>3, <2>5, <2>6 DEF accounts
    <3>2. m \in State
      BY <2>6
    <3> QED
      BY <1>1, <2>1, <3>1, <3>2, LoadKeepsUndisturbed
  <2>8. calm' \subseteq calm
    BY <1>1
  <2> QED
    BY <1>1, <2>1, <2>6, <2>7, <2>8, CalmMoves
<1>6. CASE MustLoadAccount(p) /\ ~(StepOf(p).lines \subseteq ledger)
  <2>1. program' = [program EXCEPT ![p] = Memory("killed")]
    BY <1>6 DEF MustLoadAccount, Killed
  <2> QED
    BY <1>3, <2>1
<1> QED
  BY <1>4, <1>5, <1>6

\* Core has queued the transaction.
LEMMA SubmitKeepsCalm ==
  ASSUME IInv, CalmInv, NEW p \in Program, Submit(p)
  PROVE  CalmInv'
<1>1. /\ Types /\ At(p, Submission) /\ Valid(Transaction(p)) /\ Running(p)
      /\ pending' = Append(pending, Transaction(p))
      /\ UNCHANGED <<fleet, sequence, ledger, funded>> /\ calm' = calm
  BY DEF IInv, Submit, At
<1>2. CASE StepOf(p).to = "core"
  <2> DEFINE m == Counted(Onward(p))
  <2>1. program' = [program EXCEPT ![p] = m]
    BY <1>2 DEF Submit
  <2>2. /\ m \in State /\ m.process = "running" /\ m.step = program[p].step + 1
        /\ m.awaited = 0 /\ m.account = program[p].account + 1
        /\ m.loaded = program[p].loaded
    BY <1>1, CountedOnwardIs DEF Running
  <2> HIDE DEF m
  <2>3. p \in calm => Undisturbed(p)'
    BY <1>1, <1>2, <2>1, <2>2, QueueingKeepsUndisturbed
  <2> QED
    BY <1>1, <2>1, <2>2, <2>3, CalmMoves
<1>3. CASE StepOf(p).to # "core"
  <2> DEFINE m == Waiting(p)
  <2>1. program' = [program EXCEPT ![p] = m]
    BY <1>3 DEF Submit, Waiting
  <2>2. /\ m \in State /\ m.process = "running" /\ m.step = program[p].step
        /\ m.account = program[p].account + 1 /\ m.loaded = program[p].loaded
        /\ m.awaited = program[p].account + 1
    BY <1>1, WaitingIs DEF Running
  <2> HIDE DEF m
  <2>3. p \in calm => Undisturbed(p)'
    BY <1>1, <2>1, <2>2, WaitingKeepsUndisturbed
  <2> QED
    BY <1>1, <2>1, <2>2, <2>3, CalmMoves
<1> QED
  BY <1>2, <1>3

\* Core refuses a transaction of a calm run only if the fleet is too large.
LEMMA RefusedIsLogged ==
  ASSUME IInv, CalmInv, NEW p \in calm, Refused(p)
  PROVE  /\ p = "generator" /\ StepOf(p).do = "fund" /\ fleet > MaxOperations
         /\ AfterError(p) = Counted(Onward(p))
<1>1. At(p, Submission) /\ ~Valid(Transaction(p))
  BY DEF Refused
<1>2. p = "generator" /\ StepOf(p).do = "fund" /\ fleet > MaxOperations
  BY <1>1, GetsThrough
<1>3. Known(p, fleet, StepOf(p))
  BY <1>1, CalmSubmits
<1>4. StepOf(p).to = "horizon"
  BY <1>2, <1>3 DEF Known
<1> QED
  BY <1>2, <1>4 DEF AfterError

\* The program logs that, or ends.
LEMMA RefusedKeepsCalm ==
  ASSUME IInv, CalmInv, NEW p \in Program, Refused(p)
  PROVE  CalmInv'
<1>1. /\ Types /\ At(p, Submission) /\ Running(p)
      /\ program' = [program EXCEPT ![p] = AfterError(p)]
      /\ UNCHANGED <<fleet, sequence, ledger, funded, pending>> /\ calm' = calm
  BY DEF IInv, Refused, stellar, At
<1>2. CASE StepOf(p).to # "horizon"
  <2>1. program' = [program EXCEPT ![p] = Memory("killed")]
    BY <1>1, <1>2 DEF AfterError, Killed
  <2> QED
    BY <1>1, <2>1, EndKeepsCalm
<1>3. CASE StepOf(p).to = "horizon"
  <2> DEFINE m == Counted(Onward(p))
  <2>1. program' = [program EXCEPT ![p] = m]
    BY <1>1, <1>3 DEF AfterError
  <2>2. /\ m \in State /\ m.process = "running" /\ m.step = program[p].step + 1
        /\ m.awaited = 0 /\ m.loaded = program[p].loaded
    BY <1>1, CountedOnwardIs DEF Running
  <2> HIDE DEF m
  <2>3. p \in calm => Undisturbed(p)'
    <3> SUFFICES ASSUME p \in calm PROVE Undisturbed(p)'
      OBVIOUS
    <3>1. p = "generator" /\ StepOf(p).do = "fund" /\ fleet > MaxOperations
      BY RefusedIsLogged
    <3> QED
      BY <1>1, <2>1, <2>2, <3>1, RefusalKeepsUndisturbed
  <2> QED
    BY <1>1, <2>1, <2>2, <2>3, CalmMoves
<1> QED
  BY <1>2, <1>3

\* Horizon answers.
LEMMA HorizonAnswersKeepsCalm ==
  ASSUME IInv, CalmInv, NEW p \in Program, HorizonAnswers(p)
  PROVE  CalmInv'
<1> DEFINE m == Onward(p)
<1>1. /\ Types /\ Running(p) /\ program[p].awaited # 0 /\ Awaited(p) = {}
      /\ program' = [program EXCEPT ![p] = m]
      /\ UNCHANGED <<fleet, sequence, ledger, funded, pending>> /\ calm' = calm
  BY DEF IInv, HorizonAnswers, stellar
<1>2. /\ m \in State /\ m.process = "running" /\ m.step = program[p].step + 1
      /\ m.awaited = 0 /\ m.account = program[p].account /\ m.loaded = program[p].loaded
  BY <1>1, OnwardIs DEF Running
<1> HIDE DEF m
<1>3. p \in calm => Undisturbed(p)'
  BY <1>1, <1>2, AnswerKeepsUndisturbed
<1> QED
  BY <1>1, <1>2, <1>3, CalmMoves

\* A program ends, and if it gets ready it has given the tokens.
LEMMA EndsKeepCalm ==
  ASSUME IInv, CalmInv, NEW p \in Program, FindNil(p) \/ Ready(p)
  PROVE  CalmInv'
<1>1. CASE FindNil(p)
  <2>1. /\ Running(p) /\ program' = [program EXCEPT ![p] = Memory("killed")]
        /\ UNCHANGED <<fleet, sequence, ledger, funded, pending>> /\ calm' = calm
    BY <1>1 DEF FindNil, Killed, At, stellar
  <2> QED
    BY <2>1, EndKeepsCalm
<1>2. CASE Ready(p)
  <2>1. /\ Running(p) /\ program' = [program EXCEPT ![p] = Memory("ready")]
        /\ program[p].step > Len(Steps(p))
        /\ UNCHANGED <<fleet, sequence, ledger, funded, pending>> /\ calm' = calm
    BY <1>2 DEF Ready, stellar
  <2>2. p \in calm /\ p = "generator" /\ fleet <= MaxOperations => Tokens(fleet) \subseteq funded
    BY <2>1 DEF CalmInv, Undisturbed, Gives
  <2> QED
    BY <2>1, <2>2, EndKeepsCalm
<1> QED
  BY <1>1, <1>2

\* Something fails.
LEMMA FailuresKeepCalm ==
  ASSUME IInv, CalmInv, NEW p \in Program,
         LoadBehind(p) \/ LoadFails(p) \/ SubmitFails(p) \/ Timeout(p) \/ Kill(p)
  PROVE  CalmInv'
<1>1. /\ Types /\ program \in [Program -> State] /\ Running(p) /\ Disturb(p)
      /\ UNCHANGED <<fleet, sequence, ledger, funded>>
      /\ \/ UNCHANGED pending
         \/ /\ At(p, Submission) /\ Valid(Transaction(p))
            /\ pending' = Append(pending, Transaction(p))
  BY DEF IInv, Types, LoadBehind, LoadFails, SubmitFails, Timeout, Kill, stellar, At
<1>2. \E m : program' = [program EXCEPT ![p] = m]
  BY Zenon DEF LoadBehind, LoadFails, SubmitFails, Timeout, Kill
<1>3. PICK m : program' = [program EXCEPT ![p] = m]
  BY <1>2
<1>4. IInv'
  BY LoadBehindKeepsIInv, LoadFailsKeepsIInv, SubmitFailsKeepsIInv, TimeoutKeepsIInv, EndsKeepIInv
<1>5. m \in State
  BY <1>1, <1>3, <1>4 DEF IInv, Types
<1> QED
  BY <1>1, <1>3, <1>5, FailureKeepsCalm

\* A program starts, and no other run is calm any more.
LEMMA StartKeepsCalm ==
  ASSUME IInv, CalmInv, NEW p \in Program, Start(p)
  PROVE  CalmInv'
<1> DEFINE others == {q \in Program \ {p} : Running(q)}
<1>1. /\ Types /\ Ledgers /\ program \in [Program -> State]
      /\ program' = [program EXCEPT ![p] = Memory("running")]
      /\ UNCHANGED <<fleet, sequence, ledger, funded, pending>>
      /\ calm \subseteq Program
  BY DEF IInv, CalmInv, Types, Start, stellar
<1>2. /\ Memory("running").step = 1 /\ Memory("running").awaited = 0
      /\ Memory("running").process = "running"
  BY MemoryIs
<1>3. Ledgers'
  BY <1>1, LedgersStay
<1>4. calm' \subseteq (calm \ others) \cup {p}
  <2> HIDE DEF others
  <2>1. calm' = (calm \ (others \cup {p})) \cup {p} \/ calm' = calm \ (others \cup {p})
    BY DEF Start, others
  <2> QED
    BY <2>1
<1>5. program'[p] = Memory("running") /\ \A q \in Program \ {p} : program'[q] = program[q]
  BY <1>1
<1>6. ASSUME NEW q \in calm', Running(q)' PROVE Undisturbed(q)'
  <2>1. q = p
    <3>1. SUFFICES ASSUME q # p PROVE FALSE
      OBVIOUS
    <3>2. q \in calm /\ q \notin others /\ q \in Program
      BY <1>1, <1>4, <1>6, <3>1
    <3>3. Running(q)
      BY <1>5, <1>6, <3>1, <3>2 DEF Running
    <3> QED
      BY <3>1, <3>2, <3>3
  <2>2. Steps(p)' = Steps(p) /\ DOMAIN Steps(p) = 1 .. Len(Steps(p)) /\ Len(Steps(p)) \in Nat \ {0}
    BY <1>1, ListsStay, Place
  <2>3. Passed(p)' = {}
    BY <1>2, <1>5, <2>2 DEF Passed
  <2>4. Abreast(p)' /\ Creates(p)' /\ Finds(p)' /\ Gives(p)'
    BY <1>2, <1>5, <2>2, <2>3 DEF Abreast, Creates, Finds, Gives
  <2> QED
    BY <2>1, <2>4 DEF Undisturbed
<1>7. "generator" \in calm' /\ program'["generator"].process = "ready" /\ fleet <= MaxOperations
        => Tokens(fleet) \subseteq funded
  <2>1. CASE p = "generator"
    BY <1>2, <1>5, <2>1
  <2>2. CASE p # "generator"
    <3>1. "generator" \in Program
      BY DEF Program
    <3> HIDE DEF others
    <3> QED
      BY <1>4, <1>5, <2>2, <3>1 DEF CalmInv
  <2> QED
    BY <2>1, <2>2
<1> QED
  BY <1>1, <1>3, <1>6, <1>7 DEF CalmInv

\* Core drops the queue, and no run is calm any more.
LEMMA DropKeepsCalm ==
  ASSUME IInv, CalmInv, Drop
  PROVE  CalmInv'
<1>1. UNCHANGED <<fleet, sequence, ledger, funded>> /\ pending' = <<>> /\ calm' = {}
  BY DEF Drop
<1>2. Ledgers'
  BY <1>1, LedgersStay
<1> QED
  BY <1>1, <1>2 DEF CalmInv

\* Nothing happens.
LEMMA StutterKeepsCalm ==
  ASSUME IInv, CalmInv, UNCHANGED vars
  PROVE  CalmInv'
<1>1. UNCHANGED <<fleet, program, sequence, ledger, funded, pending, calm>>
  BY DEF vars, stellar
<1>2. Ledgers'
  BY <1>1, LedgersStay
<1>3. ASSUME NEW p \in calm', Running(p)' PROVE Undisturbed(p)'
  <2>1. Undisturbed(p)
    BY <1>1, <1>3 DEF CalmInv, Running
  <2>2. /\ Steps(p)' = Steps(p) /\ StepOf(p)' = StepOf(p) /\ Passed(p)' = Passed(p)
        /\ There' = There /\ Awaited(p)' = Awaited(p)
    BY <1>1 DEF Steps, StepOf, Passed, There, Queued, Awaited
  <2>3. Abreast(p)' /\ Finds(p)'
    BY <1>1, <2>1, <2>2 DEF Undisturbed, Abreast, Finds
  <2>4. Creates(p)'
    BY <1>1, <2>1, <2>2 DEF Undisturbed, Creates, Landed
  <2>5. p = "generator" => Gives(p)'
    BY <1>1, <2>1, <2>2 DEF Undisturbed, Gives, Coming
  <2> QED
    BY <2>3, <2>4, <2>5 DEF Undisturbed
<1> QED
  BY <1>1, <1>2, <1>3 DEF CalmInv

\* It holds at the start.
LEMMA InitIsCalm ==
  ASSUME Init
  PROVE  CalmInv
<1>1. /\ ledger = {<<Master, "XLM">>} /\ funded = {} /\ pending = <<>> /\ calm = {}
      /\ fleet \in Nat
  BY FleetsAssumption DEF Init
<1>2. IssuerLine \notin ledger
  BY <1>1 DEF IssuerLine, UsecasesIssuer, Master
<1>3. ASSUME NEW lines \in Creations(fleet), <<Master, "XLM">> \in lines PROVE FALSE
  <2>1. lines = Own(ToSet(Aggregators)) => FALSE
    <3>1. \A account \in ToSet(Aggregators) : account[1] = "time"
      BY <1>1, SensorLists
    <3> QED
      BY <1>3, <3>1 DEF Own, Master
  <2>2. ASSUME NEW chunk \in ToSet(Chunks(Devices(fleet), MaxOperations)), lines = Own(chunk)
        PROVE  FALSE
    <3>1. MaxOperations \in Nat \ {0} /\ Devices(fleet) \in Seq(Account)
      BY <1>1, LimitsAssumption, AccountLists
    <3>2. chunk \subseteq ToSet(Devices(fleet))
      <4>1. \A j \in DOMAIN Chunks(Devices(fleet), MaxOperations) :
              Chunks(Devices(fleet), MaxOperations)[j] \subseteq ToSet(Devices(fleet))
        BY <3>1, ChunksCover
      <4> QED
        BY <4>1 DEF ToSet
    <3>3. \A device \in ToSet(Devices(fleet)) : device[1] = "device"
      BY <1>1, SensorLists
    <3> QED
      BY <1>3, <2>2, <3>2, <3>3 DEF Own, Master
  <2>3. lines \notin {Own({Batch, UsecasesIssuer}), Own({Batch}), Own({Random}),
                      Own({FunctionsIssuer})}
    BY <1>3 DEF Own, Master, Batch, UsecasesIssuer, Random, FunctionsIssuer
  <2> QED
    BY <2>1, <2>2, <2>3 DEF Creations
<1>4. Ledgers
  BY <1>1, <1>2, <1>3 DEF Ledgers
<1> QED
  BY <1>1, <1>4 DEF CalmInv

\* The invariant of the calm runs holds in every state.
THEOREM CalmInvariance == Spec => []CalmInv
<1>1. Init => CalmInv
  BY InitIsCalm
<1>2. IInv /\ CalmInv /\ [Next]_vars => CalmInv'
  <2> SUFFICES ASSUME IInv, CalmInv, [Next]_vars PROVE CalmInv'
    OBVIOUS
  <2>1. CASE UNCHANGED vars
    BY <2>1, StutterKeepsCalm
  <2>2. CASE Apply
    BY <2>2, ApplyKeepsCalm
  <2>3. CASE Drop
    BY <2>3, DropKeepsCalm
  <2>4. ASSUME NEW p \in Program,
               \/ Start(p) \/ MustLoadAccount(p) \/ LoadSensors(p) \/ FindNil(p)
               \/ Submit(p) \/ Refused(p) \/ HorizonAnswers(p) \/ Ready(p)
               \/ LoadBehind(p) \/ LoadFails(p) \/ SubmitFails(p) \/ Timeout(p) \/ Kill(p)
        PROVE  CalmInv'
    <3>1. CASE Start(p)
      BY <3>1, StartKeepsCalm
    <3>2. CASE MustLoadAccount(p) \/ LoadSensors(p)
      BY <3>2, LoadsKeepCalm
    <3>3. CASE FindNil(p) \/ Ready(p)
      BY <3>3, EndsKeepCalm
    <3>4. CASE Submit(p)
      BY <3>4, SubmitKeepsCalm
    <3>5. CASE Refused(p)
      BY <3>5, RefusedKeepsCalm
    <3>6. CASE HorizonAnswers(p)
      BY <3>6, HorizonAnswersKeepsCalm
    <3>7. CASE LoadBehind(p) \/ LoadFails(p) \/ SubmitFails(p) \/ Timeout(p) \/ Kill(p)
      BY <3>7, FailuresKeepCalm
    <3> QED
      BY <2>4, <3>1, <3>2, <3>3, <3>4, <3>5, <3>6, <3>7
  <2> QED
    BY <2>1, <2>2, <2>3, <2>4 DEF Next
<1> QED
  BY <1>1, <1>2, Invariance, PTL DEF Spec

\* After a calm run of the generator the sensors have their tokens if and only if an
\* operation for each of them fits into one transaction.
THEOREM FundingCorrect == Spec => []CalmRunsFundSmallFleets
<1>1. IInv /\ CalmInv => CalmRunsFundSmallFleets
  <2> SUFFICES ASSUME IInv, CalmInv,
                      "generator" \in calm, program["generator"].process = "ready"
               PROVE  (Tokens(fleet) \subseteq funded \cup Queued({"fund"}))
                        = (fleet <= MaxOperations)
    BY DEF CalmRunsFundSmallFleets, Tokens
  <2>1. fleet \in Nat \ {0} /\ Ledgers /\ MaxOperations \in Nat
    BY FleetsAssumption, LimitsAssumption DEF IInv, CalmInv, Types
  <2>2. CASE fleet <= MaxOperations
    BY <2>2 DEF CalmInv
  <2>3. CASE fleet > MaxOperations
    <3>1. funded \cap Tokens(fleet) = {}
      BY <2>1, <2>3 DEF Ledgers
    <3>2. Queued({"fund"}) \cap Tokens(fleet) = {}
      BY <2>1, <2>3 DEF Ledgers, Queued
    <3>3. Tokens(fleet) # {}
      BY <2>1, TokensAre
    <3>4. ~(Tokens(fleet) \subseteq funded \cup Queued({"fund"}))
      BY <3>1, <3>2, <3>3
    <3> QED
      BY <2>1, <2>3, <3>4
  <2> QED
    BY <2>1, <2>2, <2>3
<1> QED
  BY <1>1, Invariance, CalmInvariance, PTL

\* A run that meets no failure itself is ended only by the accounts that others must
\* create, whatever state the runs before it were interrupted in.
LEMMA OnlyExcused ==
  ASSUME IInv, CalmInv, [Next]_vars, NEW p \in calm', Running(p),
         program'[p].process = "killed"
  PROVE  Excused(p)
<1>1. /\ Types /\ program \in [Program -> State] /\ program[p].process # "killed"
      /\ calm \subseteq Program
  BY DEF IInv, Types, Running
<1>2. CASE program' = program
  BY <1>1, <1>2
<1>3. CASE Apply \/ Drop
  BY <1>2, <1>3 DEF Apply, Drop
<1>4. CASE UNCHANGED vars
  BY <1>2, <1>4 DEF vars
<1>5. ASSUME NEW q \in Program,
             \/ Start(q) \/ MustLoadAccount(q) \/ LoadSensors(q) \/ FindNil(q)
             \/ Submit(q) \/ Refused(q) \/ HorizonAnswers(q) \/ Ready(q)
             \/ LoadBehind(q) \/ LoadFails(q) \/ SubmitFails(q) \/ Timeout(q) \/ Kill(q)
      PROVE  Excused(p)
  <2>1. \E m : program' = [program EXCEPT ![q] = m]
    BY <1>5, Zenon DEF Start, MustLoadAccount, LoadSensors, FindNil, Submit, Refused,
      HorizonAnswers, Ready, LoadBehind, LoadFails, SubmitFails, Timeout, Kill
  <2>2. q = p
    BY <1>1, <2>1
  <2>3. p \in Program /\ ~Start(p)
    BY <2>2 DEF Start
  <2>4. ~(LoadBehind(p) \/ LoadFails(p) \/ SubmitFails(p) \/ Timeout(p) \/ Kill(p))
    BY DEF LoadBehind, LoadFails, SubmitFails, Timeout, Kill, Disturb
  <2>5. p \in calm
    BY <1>5, <2>2, <2>3, <2>4 DEF MustLoadAccount, LoadSensors, FindNil, Submit, Refused,
      HorizonAnswers, Ready
  <2>6. \A m : program' = [program EXCEPT ![p] = m] => m.process = "killed"
    BY <1>1, <2>3
  <2>7. program[p].process = "running"
    BY DEF Running
  <2>8. CASE MustLoadAccount(p)
    <3>1. At(p, Loading)
      BY <2>8 DEF MustLoadAccount, At, Loading
    <3>2. StepOf(p).lines \subseteq ledger \/ Excused(p)
      BY <2>5, <3>1, FindsAccounts
    <3>3. CASE StepOf(p).lines \subseteq ledger
      <4> DEFINE n == Onward(p)
                 account == IF program[p].step = 1 THEN sequence ELSE n.account
                 loaded == n.loaded \cup AccountsOf(StepOf(p).lines)
                 k == [n EXCEPT !.account = account]
                 m == [n EXCEPT !.account = account, !.loaded = loaded]
      <4>1. program' = [program EXCEPT ![p] = m]
        BY <2>8, <3>3 DEF MustLoadAccount
      <4>2. n \in State /\ n.process = "running"
        BY <1>1, <2>3, <2>7, OnwardIs
      <4> HIDE DEF n, account, loaded
      <4>3. DOMAIN k = DOMAIN n /\ k.process = "running"
        BY <4>2 DEF State
      <4>4. m = [k EXCEPT !.loaded = loaded]
        BY Zenon
      <4>5. "process" \in DOMAIN k
        BY <4>2, <4>3 DEF State
      <4> HIDE DEF k, m
      <4>6. m.process = "running"
        BY <4>3, <4>4, <4>5
      <4> QED
        BY <2>6, <4>1, <4>6
    <3> QED
      BY <3>2, <3>3
  <2>9. CASE LoadSensors(p)
    <3> DEFINE accounts == AccountsOf(StepOf(p).lines \cap ledger)
    <3>1. At(p, {"load"}) /\ program' = [program EXCEPT ![p] = Loaded(p, accounts)]
      BY <2>9 DEF LoadSensors, Loaded
    <3>2. accounts \in SUBSET Account
      BY <1>1, <2>3, <3>1, SomeAccounts
    <3> HIDE DEF accounts
    <3>3. Loaded(p, accounts).process = "running"
      BY <1>1, <2>3, <2>7, <3>2, LoadedIs
    <3> QED
      BY <2>6, <3>1, <3>3
  <2>10. CASE FindNil(p)
    BY <2>5, <2>10, NoneIsNil DEF FindNil
  <2>11. CASE Refused(p)
    <3>1. program' = [program EXCEPT ![p] = Counted(Onward(p))]
      BY <2>5, <2>11, RefusedIsLogged DEF Refused
    <3>2. Counted(Onward(p)).process = "running"
      BY <1>1, <2>3, <2>7, CountedOnwardIs
    <3> QED
      BY <2>6, <3>1, <3>2
  <2>12. CASE Submit(p)
    <3>1. \/ program' = [program EXCEPT ![p] = Counted(Onward(p))]
          \/ program' = [program EXCEPT ![p] = Waiting(p)]
      BY <2>12 DEF Submit, Waiting
    <3>2. Counted(Onward(p)).process = "running" /\ Waiting(p).process = "running"
      BY <1>1, <2>3, <2>7, CountedOnwardIs, WaitingIs
    <3> QED
      BY <2>6, <3>1, <3>2
  <2>13. CASE HorizonAnswers(p)
    <3>1. Onward(p).process = "running"
      BY <1>1, <2>3, <2>7, OnwardIs
    <3> QED
      BY <2>6, <2>13, <3>1 DEF HorizonAnswers
  <2>14. CASE Ready(p)
    <3>1. Memory("ready").process = "ready"
      BY MemoryIs
    <3> QED
      BY <2>6, <2>14, <3>1 DEF Ready
  <2> QED
    BY <1>5, <2>2, <2>3, <2>4, <2>8, <2>9, <2>10, <2>11, <2>12, <2>13, <2>14
<1> QED
  BY <1>3, <1>4, <1>5 DEF Next

\* Every state in which runs were killed, gave up waiting or collided can be repaired
\* by starting the generator once more, unless the batch account was created without
\* the issuer; the aggregator needs the sensors' accounts besides.
THEOREM ReadyCorrect == Spec => CalmRunsGetReady
<1> DEFINE Repairs == \A p \in calm' :
             Running(p) /\ program'[p].process = "killed" => Excused(p)
<1>1. IInv /\ CalmInv /\ [Next]_vars => [Repairs]_vars
  BY OnlyExcused
<1>2. Spec => [][Repairs]_vars
  BY <1>1, Invariance, CalmInvariance, PTL DEF Spec
<1> QED
  BY <1>2 DEF CalmRunsGetReady, Excused, Own, IssuerLine, BatchLine

=============================================================================
