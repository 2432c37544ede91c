-------------------------- MODULE StellarGenerator --------------------------
(***************************************************************************)
(* The load generator of cmd/generator/main.go and                         *)
(* pkg/generator/generator.go.  One goroutine per device sends LogsNumber  *)
(* logs one after the other; the sequence number of each is counted        *)
(* locally, starting from what Horizon answered when the device was        *)
(* loaded.  With SEND_TX_TO=stellar-core the first error cancels the       *)
(* goroutines of all devices, and main reloads the accounts and starts a   *)
(* round from the first log.  With SEND_TX_TO=horizon the answer comes     *)
(* when the transaction is in the ledger, and any error ends the process.  *)
(*                                                                         *)
(* stellar-core, the ledger and Horizon are not in the repository.  They   *)
(* are modelled from what the code sends them and reads from them: core    *)
(* queues a transaction that carries the next sequence number of its       *)
(* account and answers at once, a ledger applies queued transactions       *)
(* later, and Horizon learns of them later still.                          *)
(***************************************************************************)
EXTENDS Integers, Sequences, SequencesExt, FiniteSets

CONSTANTS
    Device,             \* one per device secret
    LogsNumber,         \* LOGS_NUMBER, logs each device sends
    SendTxTo,           \* values of SEND_TX_TO considered
    MaxDisturbances,    \* bound: http timeouts and retransmitted requests
    MaxStaleLoads,      \* bound: loads that find Horizon behind; later ones do not
    MaxLosses,          \* bound: transactions core answers for and then loses
    MaxRestarts         \* bound: times the operator starts a killed generator again

ASSUME LogsNumberAssumption == LogsNumber \in Nat \ {0}
ASSUME SendTxToAssumption == SendTxTo \subseteq {"stellar-core", "horizon"}
ASSUME BoundsAssumption ==
    {MaxDisturbances, MaxStaleLoads, MaxLosses, MaxRestarts} \subseteq Nat

VARIABLES
    sendTxTo,       \* helpers.SendTxTo
    process,        \* "running", "sleeping", "finished" or "killed"
    round,          \* which call of startGenerator this is
    canceled,       \* cancel() was called on the context of the round
    pc,             \* where the goroutine of a device is
    index,          \* its loop counter i
    account,        \* the sequence number of the loaded account
    request,        \* the transaction it sends or sent last
    answer,         \* what was answered to it: "none", "ok" or "error"
    transit,        \* http requests on their way to core
    pending,        \* transactions in the queue of core
    ledger,         \* transactions the ledger applied
    horizon,        \* how many of them Horizon has ingested
    disturbances, staleLoads, losses, restarts  \* what the bounds count

goroutines == <<canceled, pc, index, account, request, answer>>
network == <<transit, pending, ledger, horizon>>
counters == <<disturbances, staleLoads, losses, restarts>>
vars == <<sendTxTo, process, round, goroutines, network, counters>>

\* A log on its way to the ledger.  The sequence number of the first
\* transaction of an account is 1 here, so that in the ledger of the account
\* it stands at the position its sequence number says.
Transaction == [device : Device, round : Nat, index : Nat, seq : Nat]

Init ==
    /\ sendTxTo \in SendTxTo
    /\ process = "running"
    /\ round = 1
    /\ canceled = FALSE
    /\ pc = [device \in Device |-> "loop"]
    /\ index = [device \in Device |-> 0]
    /\ account = [device \in Device |-> 0]
    /\ request = [device \in Device |-> <<>>]
    /\ answer = [device \in Device |-> "none"]
    /\ transit = {}
    /\ pending = [device \in Device |-> <<>>]
    /\ ledger = [device \in Device |-> <<>>]
    /\ horizon = [device \in Device |-> 0]
    /\ disturbances = 0
    /\ staleLoads = 0
    /\ losses = 0
    /\ restarts = 0

At(device, label) == process = "running" /\ pc[device] = label

Goto(device, label) == pc' = [pc EXCEPT ![device] = label]

-----------------------------------------------------------------------------
(***************************************************************************)
(* The goroutine of a device.                                              *)
(***************************************************************************)

SentAll(device) == index[device] = LogsNumber

\* The loop condition and the look at ctx.Done(): a cancelled goroutine and one
\* that has sent all its logs return.  RateLimiter.Wait looks at the context
\* once more, and a cancellation it finds ends the goroutine in the same way.
NextLog(device) ==
    /\ At(device, "loop")
    /\ Goto(device, IF canceled \/ SentAll(device) THEN "exited" ELSE "send")
    /\ UNCHANGED <<sendTxTo, process, round, canceled, index, account, request, answer,
                   network, counters>>

\* A faulty variant of Incremented: the loaded sequence number is used for every
\* transaction.
IncrementedNever(device) == account

\* NewTransaction increments the local sequence number whatever becomes of the
\* transaction.
Incremented(device) == [account EXCEPT ![device] = @ + 1]

\* SendLogTx, to stellar-core as well as to Horizon.
SendLogTx(device) ==
    /\ At(device, "send")
    /\ LET tx == [device |-> device, round |-> round, index |-> index[device],
                  seq |-> account[device] + 1]
       IN  /\ request' = [request EXCEPT ![device] = tx]
           /\ transit' = transit \cup {tx}
    /\ account' = Incremented(device)
    /\ answer' = [answer EXCEPT ![device] = "none"]
    /\ Goto(device, "await")
    /\ UNCHANGED <<sendTxTo, process, round, canceled, index, pending, ledger, horizon,
                   counters>>

\* No error: the log counts as sent.
Success(device) ==
    /\ At(device, "await")
    /\ answer[device] = "ok"
    /\ index' = [index EXCEPT ![device] = @ + 1]
    /\ Goto(device, "loop")
    /\ UNCHANGED <<sendTxTo, process, round, canceled, account, request, answer, network,
                   counters>>

\* Faulty variants of Cancel: the error counts as success; the goroutine cancels
\* the others and does not return.
CancelNobody(device) ==
    /\ index' = [index EXCEPT ![device] = @ + 1]
    /\ Goto(device, "loop")
    /\ UNCHANGED canceled

CancelWithoutReturn(device) ==
    /\ canceled' = TRUE
    /\ UNCHANGED <<pc, index>>

\* SendLogTx returned an error: the goroutine cancels the others and returns.
Cancel(device) ==
    /\ canceled' = TRUE
    /\ Goto(device, "exited")
    /\ UNCHANGED index

\* The body of stellar-core holds the code of txBAD_SEQ.
BadSequence(device) ==
    /\ At(device, "await")
    /\ sendTxTo = "stellar-core"
    /\ answer[device] = "error"
    /\ Cancel(device)
    /\ UNCHANGED <<sendTxTo, process, round, account, request, answer, network, counters>>

\* A faulty variant of HorizonError: the error is logged only.
HorizonErrorLogged(device) ==
    /\ At(device, "await")
    /\ sendTxTo = "horizon"
    /\ answer[device] = "error"
    /\ CancelNobody(device)
    /\ UNCHANGED <<sendTxTo, process, round, account, request, answer, network, counters>>

\* Every error of Horizon is fatal.
HorizonError(device) ==
    /\ At(device, "await")
    /\ sendTxTo = "horizon"
    /\ answer[device] = "error"
    /\ process' = "killed"
    /\ UNCHANGED <<sendTxTo, round, goroutines, network, counters>>

\* The http client gives up, or the body of core cannot be read.  The request may
\* have reached core, and may still reach it.
Timeout(device) ==
    /\ At(device, "await")
    /\ sendTxTo = "stellar-core"
    /\ disturbances < MaxDisturbances
    /\ disturbances' = disturbances + 1
    /\ Cancel(device)
    /\ UNCHANGED <<sendTxTo, process, round, account, request, answer, network,
                   staleLoads, losses, restarts>>

\* net/http sends a GET request again when the connection breaks before the
\* answer was read.
Retransmit(device) ==
    /\ At(device, "await")
    /\ sendTxTo = "stellar-core"
    /\ request[device] \notin transit
    /\ disturbances < MaxDisturbances
    /\ disturbances' = disturbances + 1
    /\ transit' = transit \cup {request[device]}
    /\ answer' = [answer EXCEPT ![device] = "none"]
    /\ UNCHANGED <<sendTxTo, process, round, canceled, pc, index, account, request, pending,
                   ledger, horizon, staleLoads, losses, restarts>>

\* Any other error core reports ends the process, and so does a Horizon that does
\* not answer in time.
Fatal(device) ==
    /\ At(device, "await")
    /\ process' = "killed"
    /\ UNCHANGED <<sendTxTo, round, goroutines, network, counters>>

-----------------------------------------------------------------------------
(***************************************************************************)
(* main.                                                                   *)
(***************************************************************************)

\* wg.Wait() returns; startGenerator returns ctx.Err().
RoundEnds ==
    /\ process = "running"
    /\ \A device \in Device : pc[device] = "exited"
    /\ process' = IF canceled THEN "sleeping" ELSE "finished"
    /\ UNCHANGED <<sendTxTo, round, goroutines, network, counters>>

\* Horizon does not know all the transactions core has answered for.
Stale == \E device \in Device :
           horizon[device] # Len(ledger[device]) + Len(pending[device])

\* CreateSensorDevices loads every account, and a round starts from the first log.
\* Nothing makes the code wait for Horizon.
NextRound ==
    /\ IF Stale THEN staleLoads < MaxStaleLoads /\ staleLoads' = staleLoads + 1
                ELSE UNCHANGED staleLoads
    /\ process' = "running"
    /\ round' = round + 1
    /\ canceled' = FALSE
    /\ account' = horizon
    /\ pc' = [device \in Device |-> "loop"]
    /\ index' = [device \in Device |-> 0]
    /\ UNCHANGED <<sendTxTo, request, answer, network, disturbances, losses>>

\* main tries again after a second.
Reload ==
    /\ process = "sleeping"
    /\ NextRound
    /\ UNCHANGED restarts

\* The operator starts the generator again.
Restart ==
    /\ process = "killed"
    /\ restarts < MaxRestarts
    /\ restarts' = restarts + 1
    /\ NextRound

\* An account that cannot be loaded is nil, and its first use panics.
LoadFails ==
    /\ process = "sleeping"
    /\ process' = "killed"
    /\ UNCHANGED <<sendTxTo, round, goroutines, network, counters>>

-----------------------------------------------------------------------------
(***************************************************************************)
(* stellar-core, the ledger and Horizon.                                   *)
(***************************************************************************)

\* What core has taken in for an account.
Accepted(device) == ledger[device] \o pending[device]

\* Core answers a request; the answer of one whose sender has given up is lost.
Answer(tx, body) ==
    /\ transit' = transit \ {tx}
    /\ answer' = IF request[tx.device] = tx THEN [answer EXCEPT ![tx.device] = body]
                                            ELSE answer
    /\ UNCHANGED <<sendTxTo, process, round, canceled, pc, index, account, request, ledger,
                   horizon, disturbances, staleLoads, restarts>>

NextInSequence(tx) == tx.seq = Len(Accepted(tx.device)) + 1

\* What becomes of the answers PENDING and DUPLICATE of core: they hold no "ERROR",
\* and Horizon waits for the ledger.
Queued == IF sendTxTo = "horizon" THEN "none" ELSE "ok"

\* The transaction carries the next sequence number.
Queue(tx) ==
    /\ NextInSequence(tx)
    /\ pending' = [pending EXCEPT ![tx.device] = Append(@, tx)]
    /\ Answer(tx, Queued)
    /\ UNCHANGED losses

\* It is in the queue already.
Duplicate(tx) ==
    /\ tx \in ToSet(pending[tx.device])
    /\ Answer(tx, Queued)
    /\ UNCHANGED <<pending, losses>>

\* Its sequence number is used up or too high.
Refuse(tx) ==
    /\ ~NextInSequence(tx)
    /\ tx \notin ToSet(pending[tx.device])
    /\ Answer(tx, "error")
    /\ UNCHANGED <<pending, losses>>

\* The answer TRY_AGAIN_LATER of core holds no "ERROR" either, although core did
\* not queue the transaction; Horizon makes an error of it.
TryAgainLater(tx) ==
    /\ losses < MaxLosses
    /\ losses' = losses + 1
    /\ Answer(tx, IF sendTxTo = "horizon" THEN "error" ELSE "ok")
    /\ UNCHANGED pending

Receive(tx) ==
    tx \in transit /\ (Queue(tx) \/ Duplicate(tx) \/ Refuse(tx) \/ TryAgainLater(tx))

\* Core gives up on the queued transactions of an account.
Drop(device) ==
    /\ pending[device] # <<>>
    /\ losses < MaxLosses
    /\ losses' = losses + 1
    /\ pending' = [pending EXCEPT ![device] = <<>>]
    /\ UNCHANGED <<sendTxTo, process, round, goroutines, transit, ledger, horizon,
                   disturbances, staleLoads, restarts>>

\* A ledger applies the first queued transaction of an account.
Apply(device) ==
    /\ pending[device] # <<>>
    /\ ledger' = [ledger EXCEPT ![device] = Append(@, Head(pending[device]))]
    /\ pending' = [pending EXCEPT ![device] = Tail(@)]
    /\ UNCHANGED <<sendTxTo, process, round, goroutines, transit, horizon, counters>>

\* Horizon answers for a transaction it finds in the ledger.
HorizonAnswers(device) ==
    /\ sendTxTo = "horizon"
    /\ At(device, "await")
    /\ answer[device] = "none"
    /\ request[device] \in ToSet(ledger[device])
    /\ answer' = [answer EXCEPT ![device] = "ok"]
    /\ UNCHANGED <<sendTxTo, process, round, canceled, pc, index, account, request,
                   network, counters>>

\* Horizon catches up.
Ingest(device) ==
    /\ horizon[device] < Len(ledger[device])
    /\ horizon' = [horizon EXCEPT ![device] = Len(ledger[device])]
    /\ UNCHANGED <<sendTxTo, process, round, goroutines, transit, pending, ledger, counters>>

-----------------------------------------------------------------------------
Goroutine(device) ==
    \/ NextLog(device)
    \/ SendLogTx(device)
    \/ Success(device)
    \/ BadSequence(device)
    \/ HorizonError(device)

Next ==
    \/ \E device \in Device : Goroutine(device)
    \/ \E device \in Device : Timeout(device) \/ Retransmit(device) \/ Fatal(device)
    \/ RoundEnds
    \/ Reload
    \/ Restart
    \/ LoadFails
    \/ \E tx \in transit : Receive(tx)
    \/ \E device \in Device : Drop(device) \/ Apply(device) \/ HorizonAnswers(device)
                              \/ Ingest(device)

\* The request a goroutine waits for reaches core.
ReceiveAwaited(device) ==
    At(device, "await") /\ request[device] \in transit /\ Receive(request[device])

(***************************************************************************)
(* Go runs every goroutine that can run and main ends its sleep; a request *)
(* that is not given up reaches core, ledgers close and Horizon ingests    *)
(* them.  Nothing makes a request that was given up arrive.                *)
(***************************************************************************)
Fairness ==
    /\ \A device \in Device :
         /\ WF_vars(Goroutine(device))
         /\ WF_vars(ReceiveAwaited(device))
         /\ WF_vars(Apply(device))
         /\ WF_vars(HorizonAnswers(device))
         /\ WF_vars(Ingest(device))
    /\ WF_vars(RoundEnds)
    /\ WF_vars(Reload)

Spec == Init /\ [][Next]_vars
FairSpec == Spec /\ Fairness

-----------------------------------------------------------------------------
TypeOK ==
    /\ sendTxTo \in SendTxTo
    /\ process \in {"running", "sleeping", "finished", "killed"}
    /\ round \in Nat \ {0}
    /\ canceled \in BOOLEAN
    /\ pc \in [Device -> {"loop", "send", "await", "exited"}]
    /\ index \in [Device -> 0 .. LogsNumber]
    /\ account \in [Device -> Nat]
    /\ request \in [Device -> Transaction \cup {<<>>}]
    /\ answer \in [Device -> {"none", "ok", "error"}]
    /\ transit \subseteq Transaction
    /\ pending \in [Device -> Seq(Transaction)]
    /\ ledger \in [Device -> Seq(Transaction)]
    /\ horizon \in [Device -> Nat]
    /\ disturbances \in 0 .. MaxDisturbances
    /\ staleLoads \in 0 .. MaxStaleLoads
    /\ losses \in 0 .. MaxLosses
    /\ restarts \in 0 .. MaxRestarts

\* "Successfully send all transactions" (main.go:48): when the generator says
\* so and core has lost nothing, it has taken in exactly LogsNumber logs of the last
\* round for every device, although requests of earlier rounds may arrive in between.
SuccessMeansAllSent ==
    (process = "finished" /\ losses = 0) =>
      \A device \in Device :
        LogsNumber = Cardinality({k \in DOMAIN Accepted(device) :
                                    Accepted(device)[k].round = round})

\* The ledger never holds a log of a device behind one that was taken later: a
\* request that was given up cannot be applied after a log of the next round,
\* since the round before it left no hole in the sequence numbers (generator.go:130,
\* main.go:54).  A transaction that core lost would be such a hole.
LogsInOrder ==
    losses = 0 =>
      \A device \in Device : \A j, k \in DOMAIN Accepted(device) :
        LET earlier == Accepted(device)[j]
            later == Accepted(device)[k]
        IN  j < k => \/ earlier.round < later.round
                     \/ earlier.round = later.round /\ earlier.index < later.index

\* As long as core loses nothing, a log that was reported as sent
\* (generator.go:141-143) is in the ledger or on its way there.
ReportedMeansAccepted ==
    losses = 0 =>
      \A device \in Device : \A i \in 0 .. index[device] - 1 :
        \E k \in DOMAIN Accepted(device) :
          Accepted(device)[k].round = round /\ Accepted(device)[k].index = i

\* A log core answered for and then lost is missed by the logs of the device that
\* follow it: their sequence numbers are refused, and the round is repeated.  A
\* round therefore never puts a log in without the one before it, and only the
\* last logs of a round can be lost unnoticed (generator.go:141).  This needs a
\* Horizon that is up to date when the accounts are loaded, and no late request
\* of an earlier round or run that could fill the gap.
LossesLeaveNoGap ==
    (staleLoads = 0 /\ disturbances = 0 /\ restarts = 0) =>
      \A device \in Device : \A j \in DOMAIN Accepted(device) :
        LET log == Accepted(device)[j]
        IN  log.index > 0 =>
              \E i \in 1 .. j - 1 :
                /\ Accepted(device)[i].round = log.round
                /\ Accepted(device)[i].index = log.index - 1

\* Sending to Horizon, the logs of a device go at the pace of the ledger
\* (generator.go:88): a log that was reported is in the ledger whatever core drops,
\* and no log is ever taken in without the one before it, not even when a killed
\* generator is started again while its last request is still on its way.
HorizonKeepsPace ==
    sendTxTo = "horizon" =>
      \A device \in Device :
        /\ \A i \in 0 .. index[device] - 1 :
             \E log \in ToSet(ledger[device]) : log.round = round /\ log.index = i
        /\ \A j \in DOMAIN Accepted(device) :
             LET log == Accepted(device)[j]
             IN  log.index > 0 =>
                   \E i \in 1 .. j - 1 :
                     /\ Accepted(device)[i].round = log.round
                     /\ Accepted(device)[i].index = log.index - 1

\* The retry loop of main.go:45-57 comes to an end once Horizon keeps pace: a round
\* that failed because the accounts were loaded while Horizon was behind, or because a
\* request of an earlier round arrived late, leaves nothing that makes the next ones
\* fail for ever.
RetriesEnd == <>(process \in {"finished", "killed"})
=============================================================================
