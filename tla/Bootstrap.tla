------------------------------ MODULE Bootstrap ------------------------------
(***************************************************************************)
(* How cmd/generator, cmd/aggregator and generator-nodejs set up the       *)
(* accounts, the trust lines and the tokens they need, before they send or *)
(* aggregate a log.  All of it is paid for by the master account, whose    *)
(* sequence number each program loads once and then counts locally.  Most  *)
(* submissions are best effort: the error is logged and the program goes   *)
(* on, and with it the sequence number.  The programs may be killed and    *)
(* started again at any time, and nothing keeps two of them from running   *)
(* at once.                                                                *)
(*                                                                         *)
(* Horizon, stellar-core and the ledger are not in the repository.  Horizon*)
(* answers when a transaction was applied, with an error if one of its     *)
(* operations failed (none of them has an effect then); core answers when  *)
(* it has queued the transaction.                                          *)
(***************************************************************************)
EXTENDS Integers, Sequences, SequencesExt, FiniteSets

CONSTANTS
    Fleets,             \* possible numbers of secrets in DEVICES_SECRETS
    NumTimeAccounts,    \* the length of aggregator.Aggregators
    MaxOperations,      \* operations Stellar allows in a transaction, 100
    MaxSigners,         \* signatures it allows, 20
    MaxRuns,            \* bound: starts of all the programs
    MaxDisturbances     \* bound: failures of the network, core and the host

ASSUME FleetsAssumption == Fleets \subseteq Nat \ {0}
ASSUME LimitsAssumption == /\ MaxOperations \in Nat \ {0}
                           /\ MaxSigners \in Nat \ {0, 1}
                           /\ 3 * (MaxSigners - 1) <= MaxOperations
\* aggregator.Aggregators is a fixed list of less than ten (aggregator.go:47).
ASSUME NumTimeAccountsAssumption == NumTimeAccounts \in 0 .. MaxOperations
ASSUME BoundsAssumption == MaxRuns \in Nat /\ MaxDisturbances \in Nat

VARIABLES
    fleet,          \* the number of devices
    runs,           \* how often a program was started
    program,        \* the state of each program
    sequence,       \* the sequence number of the master account on the ledger
    ledger,         \* the accounts and the trust lines there are
    funded,         \* the trust lines that hold tokens
    pending,        \* transactions of the master account core has queued
    disturbances,   \* what MaxDisturbances counts
    \* History: programs whose run met no other run, a Horizon that is up to date
    \* and a core that loses nothing; and those whose run met no failure at all.
    steady, calm

stellar == <<sequence, ledger, funded, pending>>
vars == <<fleet, runs, program, stellar, disturbances, steady, calm>>

Program == {"generator", "aggregator", "nodejs"}

\* Accounts, and lines: an account with its own currency, or its trust line for
\* another asset.
Master == <<"master", 0>>
Batch == <<"batch", 0>>
UsecasesIssuer == <<"usecases", 0>>
FunctionsIssuer == <<"functions", 0>>
Random == <<"random", 0>>
Devices(n) == [i \in 1 .. n |-> <<"device", i>>]
Aggregators == [i \in 1 .. NumTimeAccounts |-> <<"time", i>>]
PhysicsType == {"TEMP", "HUMD"}
Function == {"AVG", "MIN", "MAX"}
AccountsOf(lines) == {line[1] : line \in lines}

-----------------------------------------------------------------------------
(***************************************************************************)
(* What the programs do, as lists of steps.                                *)
(***************************************************************************)

\* ChunkKeypairs, chunk and ChunkDevices.
Chunks(slice, chunkSize) ==
    [i \in 1 .. (Len(slice) + chunkSize - 1) \div chunkSize |->
       {slice[j] : j \in {j \in DOMAIN slice : (j - 1) \div chunkSize = i - 1}}]

\* The steps: errors of the first are fatal, those of the second leave nil.
MustLoad(accounts) == <<[do |-> "mustLoad", lines |-> accounts \X {"XLM"}, to |-> "fatal"]>>
CreateSensorDevices(devices) ==
    <<[do |-> "load", lines |-> ToSet(devices) \X {"XLM"}, to |-> "nil"]>>

CreateAccounts(accounts, to) ==
    <<[do |-> "create", lines |-> accounts \X {"XLM"}, to |-> to]>>

\* A faulty variant of CreateTrustlines: the first asset only.
CreateTrustlinesForOne(chunks, assets, to) ==
    [i \in DOMAIN chunks |->
       [do |-> "trust", lines |-> chunks[i] \X {CHOOSE a \in assets : TRUE}, to |-> to]]

CreateTrustlines(chunks, assets, to) ==
    [i \in DOMAIN chunks |-> [do |-> "trust", lines |-> chunks[i] \X assets, to |-> to]]

FundEvenly(lines, to) == <<[do |-> "fund", lines |-> lines, to |-> to]>>

\* A faulty variant of SignerChunks: no signature is reserved to the master.
SignerChunksOfAll(slice) == Chunks(slice, MaxSigners)

\* MustCreateTrustlines takes 19 accounts at a time.
SignerChunks(slice) == Chunks(slice, MaxSigners - 1)

\* tryCreateSensorAccounts takes 100 at a time.
CreateSensorAccounts(devices) ==
    LET chunks == Chunks(devices, MaxOperations)
    IN  [i \in DOMAIN chunks |-> CreateAccounts(chunks[i], "horizon")[1]]

\* tryCreateReceiverTrustlines: those of the batch account.
CreateReceiverTrustlines == CreateTrustlines(<<{Batch}>>, PhysicsType, "horizon")

\* Devices are sensors of temperature and of humidity in turn.
TokensOf(devices) ==
    {<<devices[i], IF i % 2 = 1 THEN "TEMP" ELSE "HUMD">> : i \in DOMAIN devices}

\* A faulty variant of GeneratorAccounts: a transaction for each account.
GeneratorAccountsApart ==
    CreateAccounts({Batch}, "horizon") \o CreateAccounts({UsecasesIssuer}, "horizon")

GeneratorAccounts == CreateAccounts({Batch, UsecasesIssuer}, "horizon")

Generator(devices) ==
    MustLoad({Master}) \o GeneratorAccounts
      \o MustLoad({Batch, UsecasesIssuer})
      \o CreateSensorAccounts(devices)
      \o CreateReceiverTrustlines
      \o CreateSensorDevices(devices)
      \o CreateTrustlines(SignerChunks(devices), PhysicsType, "core")
      \o FundEvenly(TokensOf(devices), "horizon")

Aggregator(devices) ==
    LET timeAccounts == ToSet(Aggregators)
    IN  MustLoad({Master})
          \o CreateAccounts(timeAccounts, "horizon")
          \o CreateAccounts({FunctionsIssuer}, "horizon")
          \o MustLoad(timeAccounts \cup ToSet(devices))
          \o MustLoad({FunctionsIssuer})
          \o CreateTrustlines(SignerChunks(Aggregators), Function, "horizon")
          \o CreateTrustlines(SignerChunks(devices), Function, "horizon")
          \o FundEvenly(timeAccounts \X {"AVG"}, "core")
          \o FundEvenly(timeAccounts \X {"MIN"}, "core")
          \o FundEvenly(timeAccounts \X {"MAX"}, "core")

\* For index.ts an account that exists is no error, any other error ends the program.
CreateIdempotently(accounts) == CreateAccounts(accounts, "idempotent")

\* index.ts makes up the keypairs of its devices, which one account stands for.
Nodejs ==
    MustLoad({Master})
      \o CreateIdempotently({Batch})
      \o CreateIdempotently({Random})
      \o MustLoad({Random})

Script ==
    [n \in Fleets |-> [generator |-> Generator(Devices(n)),
                       aggregator |-> Aggregator(Devices(n)),
                       nodejs |-> Nodejs]]

Steps(p) == Script[fleet][p]

-----------------------------------------------------------------------------
\* A program that has done nothing, or that nothing is left of.
Memory(process) ==
    [process |-> process, step |-> 1, account |-> 0, loaded |-> {}, awaited |-> 0]

Init ==
    /\ fleet \in Fleets
    /\ runs = 0
    /\ program = [p \in Program |-> Memory("off")]
    /\ sequence = 0
    /\ ledger = {<<Master, "XLM">>}
    /\ funded = {}
    /\ pending = <<>>
    /\ disturbances = 0
    /\ steady = {}
    /\ calm = {}

Running(p) == program[p].process = "running"

\* Program p is at a step of one of these kinds.
At(p, kinds) ==
    /\ Running(p)
    /\ program[p].awaited = 0
    /\ program[p].step <= Len(Steps(p))
    /\ Steps(p)[program[p].step].do \in kinds

StepOf(p) == Steps(p)[program[p].step]

Killed == Memory("killed")
Onward(p) == [program[p] EXCEPT !.step = @ + 1, !.awaited = 0]

\* Something fails; the run is calm no more.
Disturb(p) ==
    /\ disturbances < MaxDisturbances
    /\ disturbances' = disturbances + 1
    /\ calm' = calm \ {p}

\* The operator starts a program, for the first time or again.
Start(p) ==
    /\ ~Running(p)
    /\ runs < MaxRuns
    /\ runs' = runs + 1
    /\ program' = [program EXCEPT ![p] = Memory("running")]
    /\ LET others == {q \in Program \ {p} : Running(q)}
           alone == others = {} /\ pending = <<>>
       IN  /\ steady' = (steady \ (others \cup {p})) \cup (IF alone THEN {p} ELSE {})
           /\ calm' = (calm \ (others \cup {p})) \cup (IF alone THEN {p} ELSE {})
    /\ UNCHANGED <<fleet, stellar, disturbances>>

\* MustLoadAccount, loadAccounts: an account that is not there is fatal.  The
\* master account comes with its sequence number.
MustLoadAccount(p) ==
    /\ At(p, {"mustLoad"})
    /\ program' = [program EXCEPT ![p] =
         IF ~(StepOf(p).lines \subseteq ledger)
           THEN Killed
           ELSE [Onward(p) EXCEPT !.account = IF program[p].step = 1 THEN sequence ELSE @,
                                  !.loaded = @ \cup AccountsOf(StepOf(p).lines)]]
    /\ UNCHANGED <<fleet, runs, stellar, disturbances, steady, calm>>

\* The Horizon that is asked has not heard of the last transaction.
LoadBehind(p) ==
    /\ At(p, {"mustLoad"})
    /\ program[p].step = 1
    /\ sequence > 0
    /\ Disturb(p)
    /\ steady' = steady \ {p}
    /\ program' = [program EXCEPT ![p] = [Onward(p) EXCEPT !.account = sequence - 1]]
    /\ UNCHANGED <<fleet, runs, stellar>>

\* CreateSensorDevices: an account that cannot be loaded is nil.
LoadSensors(p) ==
    /\ At(p, {"load"})
    /\ program' = [program EXCEPT ![p] =
         [Onward(p) EXCEPT !.loaded = @ \cup AccountsOf(StepOf(p).lines \cap ledger)]]
    /\ UNCHANGED <<fleet, runs, stellar, disturbances, steady, calm>>

\* The request fails for one of the accounts.
LoadFails(p) ==
    /\ At(p, {"mustLoad", "load"})
    /\ Disturb(p)
    /\ \E line \in StepOf(p).lines :
         program' = [program EXCEPT ![p] =
           IF StepOf(p).to = "fatal"
             THEN Killed
             ELSE [Onward(p) EXCEPT !.loaded =
                     @ \cup AccountsOf((StepOf(p).lines \cap ledger) \ {line})]]
    /\ UNCHANGED <<fleet, runs, stellar, steady>>

-----------------------------------------------------------------------------
(***************************************************************************)
(* Submitting a transaction.                                               *)
(***************************************************************************)

Submission == {"create", "trust", "fund"}

\* The next transaction of a program.
Transaction(p) == [program |-> p, seq |-> program[p].account + 1,
                   do |-> StepOf(p).do, lines |-> StepOf(p).lines]

\* MustCreateTrustlines stops at an account that is nil.
NilAccount(p) == StepOf(p).do = "trust"
                   /\ ~(AccountsOf(StepOf(p).lines) \subseteq program[p].loaded)

FindNil(p) ==
    /\ At(p, Submission)
    /\ NilAccount(p)
    /\ program' = [program EXCEPT ![p] = Killed]
    /\ UNCHANGED <<fleet, runs, stellar, disturbances, steady, calm>>

\* Core takes a transaction into its queue: it keeps to the limits, carries the
\* next sequence number, and its operations have source accounts.
Valid(tx) ==
    /\ Cardinality(tx.lines) <= MaxOperations
    /\ tx.seq = sequence + Len(pending) + 1
    /\ tx.do = "trust" =>
         /\ Cardinality(AccountsOf(tx.lines)) + 1 <= MaxSigners
         /\ AccountsOf(tx.lines) \X {"XLM"} \subseteq ledger

\* NewTransaction counts the sequence number whatever becomes of the transaction.
Counted(state) == [state EXCEPT !.account = @ + 1]

\* It is queued.  Core answers at once, Horizon later.
Submit(p) ==
    /\ At(p, Submission) /\ ~NilAccount(p)
    /\ Valid(Transaction(p))
    /\ pending' = Append(pending, Transaction(p))
    /\ program' = [program EXCEPT ![p] =
         IF StepOf(p).to = "core" THEN Counted(Onward(p))
                                  ELSE [Counted(@) EXCEPT !.awaited = Transaction(p).seq]]
    /\ UNCHANGED <<fleet, runs, sequence, ledger, funded, disturbances, steady, calm>>

\* A faulty variant of AfterError: errors of core are logged as well.
AfterErrorOfAny(p) == Counted(Onward(p))

\* What a program does about an error: those of TrySendTxToHorizon are logged,
\* those of MustSendTransactionToStellarCore and of index.ts end it.
AfterError(p) == IF StepOf(p).to = "horizon" THEN Counted(Onward(p)) ELSE Killed

\* It is refused.
Refused(p) ==
    /\ At(p, Submission) /\ ~NilAccount(p)
    /\ ~Valid(Transaction(p))
    /\ program' = [program EXCEPT ![p] = AfterError(p)]
    /\ UNCHANGED <<fleet, runs, stellar, disturbances, steady, calm>>

\* The request fails on its way, or the answer does.
SubmitFails(p) ==
    /\ At(p, Submission) /\ ~NilAccount(p)
    /\ Disturb(p)
    /\ \/ UNCHANGED pending
       \/ Valid(Transaction(p)) /\ pending' = Append(pending, Transaction(p))
    /\ program' = [program EXCEPT ![p] = AfterError(p)]
    /\ UNCHANGED <<fleet, runs, sequence, ledger, funded, steady>>

Awaited(p) == {i \in DOMAIN pending : /\ pending[i].program = p
                                      /\ pending[i].seq = program[p].awaited}

\* Horizon answers when the transaction is in a ledger.  That operations failed
\* is logged, and idempotent() makes nothing of accounts that exist.
HorizonAnswers(p) ==
    /\ Running(p)
    /\ program[p].awaited # 0
    /\ Awaited(p) = {}
    /\ program' = [program EXCEPT ![p] = Onward(p)]
    /\ UNCHANGED <<fleet, runs, stellar, disturbances, steady, calm>>

\* Horizon or the http client gives up waiting; the transaction may yet be applied.
Timeout(p) ==
    /\ Running(p)
    /\ program[p].awaited # 0
    /\ Disturb(p)
    /\ program' = [program EXCEPT ![p] =
         IF StepOf(p).to = "horizon" THEN Onward(p) ELSE Killed]
    /\ UNCHANGED <<fleet, runs, stellar, steady>>

\* The set-up is over: the program sends logs, or aggregates them.
Ready(p) ==
    /\ Running(p)
    /\ program[p].step > Len(Steps(p))
    /\ program' = [program EXCEPT ![p] = Memory("ready")]
    /\ UNCHANGED <<fleet, runs, stellar, disturbances, steady, calm>>

Kill(p) ==
    /\ Running(p)
    /\ Disturb(p)
    /\ program' = [program EXCEPT ![p] = Killed]
    /\ UNCHANGED <<fleet, runs, stellar, steady>>

-----------------------------------------------------------------------------
(***************************************************************************)
(* stellar-core and the ledger.                                            *)
(***************************************************************************)

\* All the operations of a transaction succeed.
Succeeds(tx) ==
    /\ tx.do = "create" => tx.lines \cap ledger = {}
    /\ tx.do = "fund" => tx.lines \subseteq ledger

\* The ledger applies the next transaction; if an operation fails, only its
\* sequence number is used up.
Apply ==
    /\ pending # <<>>
    /\ pending' = Tail(pending)
    /\ sequence' = sequence + 1
    /\ LET tx == Head(pending)
       IN  /\ ledger' = IF Succeeds(tx) /\ tx.do # "fund" THEN ledger \cup tx.lines ELSE ledger
           /\ funded' = IF Succeeds(tx) /\ tx.do = "fund" THEN funded \cup tx.lines ELSE funded
    /\ UNCHANGED <<fleet, runs, program, disturbances, steady, calm>>

\* Core drops what it has queued for the master account.
Drop ==
    /\ pending # <<>>
    /\ disturbances < MaxDisturbances
    /\ disturbances' = disturbances + 1
    /\ pending' = <<>>
    /\ steady' = {}
    /\ calm' = {}
    /\ UNCHANGED <<fleet, runs, program, sequence, ledger, funded>>

-----------------------------------------------------------------------------
Next ==
    \/ \E p \in Program :
         \/ Start(p) \/ MustLoadAccount(p) \/ LoadSensors(p) \/ FindNil(p)
         \/ Submit(p) \/ Refused(p) \/ HorizonAnswers(p) \/ Ready(p)
         \/ LoadBehind(p) \/ LoadFails(p) \/ SubmitFails(p) \/ Timeout(p) \/ Kill(p)
    \/ Apply
    \/ Drop

Spec == Init /\ [][Next]_vars

-----------------------------------------------------------------------------
TypeOK ==
    /\ fleet \in Fleets
    /\ runs \in 0 .. MaxRuns
    /\ \A p \in Program :
         /\ program[p].process \in {"off", "running", "ready", "killed"}
         /\ program[p].step \in 1 .. Len(Steps(p)) + 1
         /\ program[p].account \in Nat
         /\ program[p].awaited \in 0 .. program[p].account
    /\ sequence \in Nat
    /\ funded \subseteq ledger
    /\ \A i \in DOMAIN pending : pending[i].seq = sequence + i
    /\ disturbances \in 0 .. MaxDisturbances
    /\ calm \subseteq steady

\* The lines the steps of a program ask for, but for the tokens.
LinesOf(p) ==
    UNION {Steps(p)[i].lines : i \in {i \in DOMAIN Steps(p) :
                                        Steps(p)[i].do \in {"create", "trust"}}}

Queued(kinds) ==
    UNION {pending[i].lines : i \in {i \in DOMAIN pending : pending[i].do \in kinds}}

\* Although the errors of most submissions are only logged (helpers.go:222), a
\* program gets ready only when every account and trust line it asked for is on
\* the ledger or queued: a submission that did not get through leaves its own
\* sequence number behind the local one, so that the next one sent to core is
\* refused, which is fatal.  The run must have the master account to itself, and
\* core must lose nothing.
SteadyRunsSetUp ==
    [][\A p \in steady :
         Running(p) /\ program'[p].process = "ready"
           => LinesOf(p) \subseteq ledger \cup Queued({"trust"})]_vars

\* Every state in which runs were killed, gave up waiting or collided can be
\* repaired by starting the generator once more (main.go:28-43): a run that is not
\* disturbed itself gets ready, although it asks for what is there already, unless
\* the batch account was created without the issuer.  The aggregator needs the
\* sensors' accounts besides.
CalmRunsGetReady ==
    [][\A p \in calm' : Running(p) /\ program'[p].process = "killed" =>
         \/ p = "generator" /\ <<UsecasesIssuer, "XLM">> \notin ledger
                           /\ <<Batch, "XLM">> \in ledger
         \/ p = "aggregator" /\ ~(ToSet(Devices(fleet)) \X {"XLM"} \subseteq ledger)]_vars

\* After a calm run of the generator the sensors have their tokens if and only if
\* an operation for each of them fits into one transaction (main.go:148).
CalmRunsFundSmallFleets ==
    "generator" \in calm /\ program["generator"].process = "ready"
      => (TokensOf(Devices(fleet)) \subseteq funded \cup Queued({"fund"}))
           = (fleet <= MaxOperations)

\* Once there is a batch account and no issuer, as when generator-nodejs was
\* started first (index.ts:127), there never will be an issuer: the generator asks
\* for both in one transaction (main.go:28), which fails as a whole.
IssuerNeverFollows ==
    [][(<<Batch, "XLM">> \in ledger /\ <<UsecasesIssuer, "XLM">> \notin ledger)
         => <<UsecasesIssuer, "XLM">> \notin ledger']_vars

=============================================================================
