-------------------------- MODULE FabricGenerator ---------------------------
(***************************************************************************)
(* The load generator of cmd/generator-fabric/main.go writing to the       *)
(* chaincode: one goroutine per device sends LogsNumber readings one after *)
(* the other, each with contract.SubmitTransaction, which returns once the *)
(* transaction is committed.  Any error ends the whole process, log.Fatalf *)
(* in sendLogTx (line 194) leaving the transactions of all the goroutines  *)
(* behind; an operator may start the program again.  The script            *)
(* fabric-app/setSensorState.sh submits readings of a device id of its own *)
(* and does not wait for them.                                             *)
(***************************************************************************)
EXTENDS Aggregations

CONSTANTS
    Sensor,         \* every device id of the chain
    Device,         \* those of the generator, createSensorDevices
    NoLog,
    LogsNumber,     \* readings a device sends in a run
    Clock,          \* the instants time.Now() returns, in order
    MaxRuns,        \* bound: how often the program is started
    MaxVisits,      \* bound: how often the script is run
    MaxProposals    \* bound, large enough never to be met

ASSUME DeviceAssumption == Device \subseteq Sensor
ASSUME ClockAssumption == Clock \in Seq(Instant) /\ Clock # <<>>
ASSUME BoundsAssumption ==
    {LogsNumber, MaxVisits, MaxProposals} \subseteq Nat /\ MaxRuns \in Nat \ {0}
ASSUME RoomAssumption ==
    MaxProposals >= MaxRuns * Cardinality(Device) * LogsNumber + MaxVisits

VARIABLES
    worldState, version, latest, committed, endorsed, invalid, proposals, faults,
    process,    \* "running", "completed" or "killed"
    pc,         \* where the goroutine of a device is
    sent,       \* the loop counter i of startGenerator
    creation,   \* the creation time sendLogTx read from the clock
    submitted,  \* id of the transaction SubmitTransaction waits for
    clock,      \* position of the current instant in Clock
    runs,       \* how often the program was started
    failures,   \* how many submissions ended with an error of the network
    runStart,   \* proposals that already existed when the run started
    visits      \* how often the script was run

chain == <<worldState, version, latest, committed, endorsed, invalid,
           proposals, faults>>
generator == <<process, pc, sent, creation, submitted, runs, failures, runStart>>
vars == <<chain, generator, clock, visits>>

Chaincode == INSTANCE SensorChaincode WITH MaxFaults <- 0

\* The goroutines of a process that has just been started.
Started ==
    /\ pc' = [device \in Device |-> "loop"]
    /\ sent' = [device \in Device |-> 0]
    /\ creation' = [device \in Device |-> Clock[1]]
    /\ submitted' = [device \in Device |-> 0]

Init ==
    /\ Chaincode!Init
    /\ process = "running"
    /\ pc = [device \in Device |-> "loop"]
    /\ sent = [device \in Device |-> 0]
    /\ creation = [device \in Device |-> Clock[1]]
    /\ submitted = [device \in Device |-> 0]
    /\ clock = 1
    /\ runs = 1
    /\ failures = 0
    /\ runStart = 0
    /\ visits = 0

At(device, label) == process = "running" /\ pc[device] = label

\* time.Now() is read before the transaction is submitted.
ReadClock(device) ==
    /\ At(device, "loop")
    /\ sent[device] < LogsNumber
    /\ creation' = [creation EXCEPT ![device] = Clock[clock]]
    /\ pc' = [pc EXCEPT ![device] = "submit"]
    /\ UNCHANGED <<chain, process, sent, submitted, runs, failures, runStart,
                   clock, visits>>

\* A faulty variant of SubmitTransaction: it does not wait for the commit.
SubmitWithoutWaiting(device) ==
    /\ At(device, "submit")
    /\ \E value \in Value :
         Chaincode!SetSensorState(device, value, creation[device],
                                  Frames(creation[device]), Frames(creation[device]))
    /\ submitted' = [submitted EXCEPT ![device] = proposals + 1]
    /\ sent' = [sent EXCEPT ![device] = @ + 1]
    /\ pc' = [pc EXCEPT ![device] = "loop"]
    /\ UNCHANGED <<process, creation, runs, failures, runStart, clock, visits>>

\* The transaction is simulated and handed to the orderer.
SubmitTransaction(device) ==
    /\ At(device, "submit")
    /\ \E value \in Value :
         Chaincode!SetSensorState(device, value, creation[device],
                                  Frames(creation[device]), Frames(creation[device]))
    /\ submitted' = [submitted EXCEPT ![device] = proposals + 1]
    /\ pc' = [pc EXCEPT ![device] = "wait"]
    /\ UNCHANGED <<process, sent, creation, runs, failures, runStart, clock, visits>>

\* A faulty variant of Submitted: any commit of the device is taken for the one
\* it waits for.
SubmittedByAnyCommit(device) ==
    /\ At(device, "wait")
    /\ \E log \in committed : log.sensor = device
    /\ sent' = [sent EXCEPT ![device] = @ + 1]
    /\ pc' = [pc EXCEPT ![device] = "loop"]
    /\ UNCHANGED <<chain, process, creation, submitted, runs, failures, runStart,
                   clock, visits>>

\* SubmitTransaction returns without an error: the transaction is valid.
Submitted(device) ==
    /\ At(device, "wait")
    /\ \E log \in committed : log.id = submitted[device]
    /\ sent' = [sent EXCEPT ![device] = @ + 1]
    /\ pc' = [pc EXCEPT ![device] = "loop"]
    /\ UNCHANGED <<chain, process, creation, submitted, runs, failures, runStart,
                   clock, visits>>

\* A faulty variant of Rejected: the goroutine goes on waiting.
RejectedUnnoticed(device) ==
    /\ At(device, "wait")
    /\ submitted[device] \in invalid
    /\ UNCHANGED vars

\* SubmitTransaction returns the validation code of an invalid transaction.
Rejected(device) ==
    /\ At(device, "wait")
    /\ submitted[device] \in invalid
    /\ process' = "killed"
    /\ UNCHANGED <<chain, pc, sent, creation, submitted, runs, failures, runStart,
                   clock, visits>>

\* SubmitTransaction fails for another reason, before the transaction exists
\* or while it waits for the commit event; in the second case the transaction
\* may still be committed later.
SubmissionFails(device) ==
    /\ At(device, "submit") \/ At(device, "wait")
    /\ process' = "killed"
    /\ failures' = failures + 1
    /\ UNCHANGED <<chain, pc, sent, creation, submitted, runs, runStart, clock, visits>>

\* A faulty variant of Done: the loop ends after one reading more.
DoneTooLate(device) ==
    /\ At(device, "loop")
    /\ sent[device] > LogsNumber
    /\ pc' = [pc EXCEPT ![device] = "done"]
    /\ UNCHANGED <<chain, process, sent, creation, submitted, runs, failures,
                   runStart, clock, visits>>

\* The loop of a device ends after LogsNumber readings.
Done(device) ==
    /\ At(device, "loop")
    /\ sent[device] = LogsNumber
    /\ pc' = [pc EXCEPT ![device] = "done"]
    /\ UNCHANGED <<chain, process, sent, creation, submitted, runs, failures,
                   runStart, clock, visits>>

\* wg.Wait() returns once every goroutine is done.
Completed ==
    /\ process = "running"
    /\ \A device \in Device : pc[device] = "done"
    /\ process' = "completed"
    /\ UNCHANGED <<chain, pc, sent, creation, submitted, runs, failures, runStart,
                   clock, visits>>

\* The operator starts the program again; nothing it did before is remembered.
StartAgain ==
    /\ process # "running"
    /\ runs < MaxRuns
    /\ process' = "running"
    /\ runs' = runs + 1
    /\ runStart' = proposals
    /\ Started
    /\ UNCHANGED <<chain, failures, clock, visits>>

\* setSensorState.sh submits a reading of a device the generator does not have.
Visit ==
    /\ visits < MaxVisits
    /\ visits' = visits + 1
    /\ \E sensor \in Sensor \ Device, value \in Value :
         Chaincode!SetSensorState(sensor, value, Clock[1], Frames(Clock[1]), Frames(Clock[1]))
    /\ UNCHANGED <<generator, clock>>

\* The peers validate a transaction, in any order.
Validate(tx) ==
    /\ Chaincode!Commit(tx) \/ Chaincode!Invalidate(tx)
    /\ UNCHANGED <<generator, clock, visits>>

Tick ==
    /\ clock < Len(Clock)
    /\ clock' = clock + 1
    /\ UNCHANGED <<chain, generator, visits>>

Goroutine(device) ==
    \/ ReadClock(device)
    \/ SubmitTransaction(device)
    \/ Submitted(device)
    \/ Rejected(device)
    \/ Done(device)

Next ==
    \/ \E device \in Device : Goroutine(device)
    \/ \E device \in Device : SubmissionFails(device)
    \/ Completed
    \/ StartAgain
    \/ Visit
    \/ \E tx \in endorsed : Validate(tx)
    \/ Tick

\* The transaction a goroutine waits for is validated.
ValidateAwaited(device) ==
    \E tx \in endorsed : /\ At(device, "wait")
                         /\ tx.log.id = submitted[device]
                         /\ Validate(tx)

(***************************************************************************)
(* Go runs every goroutine that can run, and the orderer cuts a block for  *)
(* every transaction it accepted.  Nothing makes the network fail, the     *)
(* operator restart the program, or the orderer deliver what a killed      *)
(* process left behind.                                                    *)
(***************************************************************************)
Fairness ==
    /\ \A device \in Device : WF_vars(Goroutine(device)) /\ WF_vars(ValidateAwaited(device))
    /\ WF_vars(Completed)

Spec == Init /\ [][Next]_vars
FairSpec == Spec /\ Fairness

-----------------------------------------------------------------------------
TypeOK ==
    /\ Chaincode!TypeOK
    /\ process \in {"running", "completed", "killed"}
    /\ pc \in [Device -> {"loop", "submit", "wait", "done"}]
    /\ sent \in [Device -> 0 .. LogsNumber]
    /\ creation \in [Device -> Instant]
    /\ submitted \in [Device -> 0 .. MaxProposals]
    /\ clock \in 1 .. Len(Clock)
    /\ runs \in 1 .. MaxRuns
    /\ failures \in 0 .. MaxRuns
    /\ runStart \in 0 .. MaxProposals
    /\ visits \in 0 .. MaxVisits

\* "Completed" (main.go:180) means what the operator takes it for: every device
\* has LogsNumber readings of this run on the chain, not fewer because a
\* submission was rejected and not more because of one left behind by a killed
\* run.
CompletedMeansLogged ==
    process = "completed" =>
      \A device \in Device :
        LogsNumber = Cardinality({log \in Chaincode!GetHistoryForKey(device) :
                                    log.id > runStart})

\* The 50 goroutines never stand in each other's way: until the program is
\* started a second time, every transaction of a device passes validation.  A
\* goroutine has one transaction in flight at a time and a device id of its own,
\* and every key it reads starts with that id (chaincode.go:70).
FirstRunNeverConflicts ==
    runs = 1 =>
      /\ \A tx \in endorsed : tx.log.sensor \in Device => Chaincode!Fresh(tx)
      /\ \A device \in Device : submitted[device] \notin invalid

\* The later of two readings, by their creation time.
NotBefore(earlier, later) ==
    \E i, j \in 1 .. Len(Clock) :
      i <= j /\ Clock[i] = earlier.time /\ Clock[j] = later.time

\* The reading stored under a device id is never replaced by one created
\* earlier (chaincode.go:61 writes it without looking): not in the first run,
\* since SubmitTransaction waits for the commit, and not after a restart
\* either, as long as both were created in one month: a transaction left behind
\* by the killed run read the aggregate of that month.
LatestNeverGoesBackInTime ==
    [][\A device \in Device :
         (/\ latest[device] # NoLog
          /\ latest'[device] # latest[device]
          /\ runs = 1 \/ latest[device].time[1] = latest'[device].time[1])
         => NotBefore(latest[device], latest'[device])]_vars

\* Every run ends: wg.Wait() does not wait for a goroutine that is stuck.
EveryRunEnds == process = "running" ~> process # "running"

\* The only thing that can keep the first run from completing is an error of
\* the network; the conflicts between transactions cannot.
CompletesUnlessDisturbed == <>(process = "completed" \/ failures > 0)
=============================================================================
