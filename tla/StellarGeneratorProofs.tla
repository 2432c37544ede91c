----------------------- MODULE StellarGeneratorProofs -----------------------
(***************************************************************************)
(* The generator of StellarGenerator for any devices and logs, and for any *)
(* number of disturbances, stale loads, losses and restarts.               *)
(***************************************************************************)
EXTENDS StellarGenerator, FiniteSetTheorems, SequenceTheorems, TLAPS

-----------------------------------------------------------------------------
(***************************************************************************)
(* The inductive invariant.                                                *)
(***************************************************************************)

\* The request of a device is one of the current round; and the sequence number
\* its account had when the round began.
Current(device) == request[device] \in Transaction /\ request[device].round = round
Base(device) ==
  IF Current(device) THEN request[device].seq - request[device].index - 1
                     ELSE account[device]

\* The transactions of a device that core has or may still get.
Known(device) == {tx \in transit : tx.device = device} \cup ToSet(Accepted(device))

\* A goroutine counts its logs and its sequence numbers side by side.
Counting ==
  \A device \in Device :
    /\ request[device] \in Transaction =>
         request[device].round <= round /\ request[device].device = device
    /\ horizon[device] <= Len(ledger[device])
    /\ Base(device) \in 0 .. Len(ledger[device])
    /\ pc[device] \in {"loop", "send"} => account[device] = Base(device) + index[device]
    /\ pc[device] \in {"send", "await"} => index[device] < LogsNumber
    /\ pc[device] = "await" =>
         /\ Current(device)
         /\ request[device].index = index[device]
         /\ request[device].seq = account[device]
    /\ pc[device] = "exited" => canceled \/ index[device] = LogsNumber

Finish == process = "finished" => ~canceled /\ \A device \in Device : pc[device] = "exited"

\* The sequence number of a transaction is its place in the account's ledger, and
\* those of a round are as far apart as their logs.
Numbering ==
  \A device \in Device :
    /\ \A k \in DOMAIN Accepted(device) :
         Accepted(device)[k].seq = k /\ Accepted(device)[k].device = device
    /\ \A tx \in Known(device) :
         /\ tx.round <= round
         /\ tx.index < LogsNumber
         /\ tx.round = round =>
              /\ tx.seq = Base(device) + tx.index + 1
              /\ tx.index <= index[device]
              /\ pc[device] \in {"loop", "send"} => tx.index < index[device]
    /\ \A t, u \in Known(device) : t.round = u.round => t.seq - t.index = u.seq - u.index

\* As long as core loses nothing, a goroutine is never ahead of what core took in,
\* and a request of an earlier round comes too late as soon as core has one of a
\* later round.
NoLoss ==
  losses = 0 => \A device \in Device :
    /\ \A tx \in transit : tx.device = device => tx.seq <= Len(Accepted(device)) + 1
    /\ pc[device] \in {"loop", "send"} => account[device] <= Len(Accepted(device))
    /\ pc[device] = "await" => account[device] <= Len(Accepted(device)) + 1
    /\ pc[device] = "await" /\ answer[device] = "ok" =>
         request[device] \in ToSet(Accepted(device))
    /\ \A j, k \in DOMAIN Accepted(device) :
         j <= k => Accepted(device)[j].round <= Accepted(device)[k].round
    /\ \A tx \in transit, k \in DOMAIN Accepted(device) :
         tx.device = device /\ tx.round < Accepted(device)[k].round
           => tx.seq <= Len(Accepted(device))
    /\ \A i \in 0 .. index[device] - 1 : \E k \in DOMAIN Accepted(device) :
         Accepted(device)[k].round = round /\ Accepted(device)[k].index = i

\* Horizon answers for what is in the ledger only.
Paced ==
  sendTxTo = "horizon" => \A device \in Device :
    /\ pc[device] = "await" /\ answer[device] = "ok" =>
         request[device] \in ToSet(ledger[device])
    /\ \A i \in 0 .. index[device] - 1 :
         \E log \in ToSet(ledger[device]) : log.round = round /\ log.index = i
    /\ \A tx \in Known(device) : tx.index > 0 =>
         \E log \in ToSet(ledger[device]) : log.round = tx.round /\ log.index = tx.index - 1

\* Undisturbed rounds follow one another without a request left behind, so all that
\* core has taken in since the accounts were loaded is of this round.
Undisturbed ==
  (staleLoads = 0 /\ disturbances = 0 /\ restarts = 0) =>
    /\ \A tx \in transit :
         /\ process \in {"running", "killed"}
         /\ pc[tx.device] = "await" /\ answer[tx.device] = "none"
         /\ tx = request[tx.device] /\ tx \notin ToSet(Accepted(tx.device))
    /\ \A device \in Device : \A k \in DOMAIN Accepted(device) :
         k > Base(device) => Accepted(device)[k].round = round
    /\ \A device \in Device : \A k \in DOMAIN Accepted(device) :
         Accepted(device)[k].index > 0 =>
           \E i \in 1 .. k - 1 : /\ Accepted(device)[i].round = Accepted(device)[k].round
                                 /\ Accepted(device)[i].index = Accepted(device)[k].index - 1

IInv == TypeOK /\ Counting /\ Finish /\ Numbering /\ NoLoss /\ Paced /\ Undisturbed

-----------------------------------------------------------------------------
(***************************************************************************)
(* Sequences and transactions.                                             *)
(***************************************************************************)

\* A goroutine that has sent nothing yet waits for no transaction.
LEMMA NoRequest == <<>> \notin Transaction
<1> SUFFICES ASSUME <<>> \in Transaction PROVE FALSE
  OBVIOUS
<1>1. DOMAIN <<>> = {"device", "round", "index", "seq"}
  BY DEF Transaction
<1>2. DOMAIN <<>> = 1 .. 0
  OBVIOUS
<1> QED
  BY <1>1, <1>2

\* The fields of a transaction.
LEMMA Fields ==
  \A tx \in Transaction : /\ tx.device \in Device /\ tx.round \in Nat
                          /\ tx.index \in Nat /\ tx.seq \in Nat
BY DEF Transaction

\* What is queued behind a ledger and a queue is queued behind both.
LEMMA ConcatAppend ==
  ASSUME NEW S, NEW s \in Seq(S), NEW t \in Seq(S), NEW e \in S
  PROVE  s \o Append(t, e) = Append(s \o t, e)
OBVIOUS

\* Moving the first of the queue to the ledger changes nothing of both together.
LEMMA ConcatMove ==
  ASSUME NEW S, NEW s \in Seq(S), NEW t \in Seq(S), t # <<>>
  PROVE  Append(s, Head(t)) \o Tail(t) = s \o t
<1> DEFINE a == Append(s, Head(t)) \o Tail(t)
           b == s \o t
<1>1. Tail(t) \in Seq(S) /\ Head(t) \in S /\ Len(t) \in Nat \ {0} /\ Len(s) \in Nat
  OBVIOUS
<1>2. Append(s, Head(t)) \in Seq(S) /\ Len(Append(s, Head(t))) = Len(s) + 1
  BY <1>1
<1>3. Len(Tail(t)) = Len(t) - 1 /\ \A i \in 1 .. Len(t) - 1 : Tail(t)[i] = t[i + 1]
  BY <1>1
<1>4. a \in Seq(S) /\ Len(a) = Len(s) + Len(t)
  BY <1>1, <1>2, <1>3
<1>5. b \in Seq(S) /\ Len(b) = Len(s) + Len(t)
  BY <1>1
<1>6. \A i \in 1 .. Len(a) : a[i] = b[i]
  BY <1>1, <1>2, <1>3, <1>4
<1> QED
  BY <1>4, <1>5, <1>6, SeqEqual

\* The members of a sequence.
LEMMA Members ==
  ASSUME NEW S, NEW s \in Seq(S)
  PROVE  /\ ToSet(s) \subseteq S
         /\ DOMAIN s = 1 .. Len(s) /\ Len(s) \in Nat
         /\ \A i \in 1 .. Len(s) : s[i] \in S /\ s[i] \in ToSet(s)
         /\ \A e \in ToSet(s) : \E i \in 1 .. Len(s) : s[i] = e
BY DEF ToSet

-----------------------------------------------------------------------------
(***************************************************************************)
(* Types, and what the actions of core do to what it has accepted.         *)
(***************************************************************************)

\* What core has accepted, with its ledger in front.
LEMMA AcceptedType ==
  ASSUME TypeOK, NEW device \in Device
  PROVE  /\ Accepted(device) \in Seq(Transaction)
         /\ Len(Accepted(device)) \in Nat
         /\ DOMAIN Accepted(device) = 1 .. Len(Accepted(device))
         /\ Len(ledger[device]) \in Nat
         /\ Len(ledger[device]) <= Len(Accepted(device))
         /\ \A k \in 1 .. Len(ledger[device]) : Accepted(device)[k] = ledger[device][k]
<1> DEFINE s == ledger[device]
           t == pending[device]
<1>1. s \in Seq(Transaction) /\ t \in Seq(Transaction) /\ Accepted(device) = s \o t
  BY DEF TypeOK, Accepted
<1> HIDE DEF s, t
<1>2. s \o t \in Seq(Transaction)
  BY <1>1
<1>3. Len(s) \in Nat /\ Len(s \o t) \in Nat /\ Len(s) <= Len(s \o t)
      /\ DOMAIN (s \o t) = 1 .. Len(s \o t)
      /\ \A k \in 1 .. Len(s) : (s \o t)[k] = s[k]
  BY <1>1
<1> QED
  BY <1>1, <1>2, <1>3 DEF s

\* The request being sent has the type of one.
LEMMA SentType ==
  ASSUME TypeOK, NEW device \in Device
  PROVE  [device |-> device, round |-> round, index |-> index[device],
          seq |-> account[device] + 1] \in Transaction
BY LogsNumberAssumption DEF TypeOK, Transaction

\* A step of core leaves everything but the requests, the answers, its queue and what
\* was lost alone.
LEMMA ReceiveType ==
  ASSUME TypeOK, NEW tx \in transit, Receive(tx)
  PROVE  TypeOK'
<1>1. tx \in Transaction /\ tx.device \in Device
  BY DEF TypeOK, Transaction
<1>2. ASSUME NEW body \in {"none", "ok", "error"}, Answer(tx, body),
             pending' \in [Device -> Seq(Transaction)], losses' \in 0 .. MaxLosses
      PROVE  TypeOK'
  BY <1>1, <1>2 DEF TypeOK, Answer
<1>3. Queued \in {"none", "ok", "error"}
  BY DEF Queued
<1>4. CASE Queue(tx)
  <2>1. Append(pending[tx.device], tx) \in Seq(Transaction)
    BY <1>1 DEF TypeOK
  <2>2. pending' \in [Device -> Seq(Transaction)] /\ losses' \in 0 .. MaxLosses
    BY <1>1, <1>4, <2>1 DEF TypeOK, Queue
  <2> QED
    BY <1>2, <1>3, <1>4, <2>2 DEF Queue
<1>5. CASE Duplicate(tx) \/ Refuse(tx)
  BY <1>2, <1>3, <1>5 DEF Duplicate, Refuse, TypeOK
<1>6. CASE TryAgainLater(tx)
  <2>1. losses' \in 0 .. MaxLosses
    BY <1>6, BoundsAssumption DEF TypeOK, TryAgainLater
  <2> QED
    BY <1>2, <1>6, <2>1 DEF TryAgainLater, TypeOK
<1> QED
  BY <1>4, <1>5, <1>6 DEF Receive

\* The goroutines, main, the ledger and Horizon keep the types.
LEMMA TypeStep == TypeOK /\ Counting /\ [Next]_vars => TypeOK'
<1> SUFFICES ASSUME TypeOK, Counting, [Next]_vars PROVE TypeOK'
  OBVIOUS
<1> USE LogsNumberAssumption
<1>1. ASSUME NEW device \in Device, NextLog(device) PROVE TypeOK'
  BY <1>1 DEF TypeOK, NextLog, Goto, At, network, counters
<1>2. ASSUME NEW device \in Device, SendLogTx(device) PROVE TypeOK'
  <2> DEFINE tx == [device |-> device, round |-> round, index |-> index[device],
                    seq |-> account[device] + 1]
  <2>1. tx \in Transaction
    BY SentType
  <2>2. request' = [request EXCEPT ![device] = tx] /\ transit' = transit \cup {tx}
    BY <1>2 DEF SendLogTx
  <2> HIDE DEF tx
  <2> QED
    BY <1>2, <2>1, <2>2, SMTT(30) DEF TypeOK, SendLogTx, Goto, At, Incremented, counters
<1>3. ASSUME NEW device \in Device, Success(device) PROVE TypeOK'
  <2>1. index[device] + 1 \in 0 .. LogsNumber
    BY <1>3 DEF TypeOK, Counting, Success, At
  <2> QED
    BY <1>3, <2>1 DEF TypeOK, Success, Goto, At, network, counters
<1>4. ASSUME NEW device \in Device,
             BadSequence(device) \/ HorizonError(device) \/ Fatal(device)
      PROVE  TypeOK'
  BY <1>4 DEF TypeOK, BadSequence, HorizonError, Fatal, Cancel, Goto, At, goroutines,
              network, counters
<1>5. ASSUME NEW device \in Device, Timeout(device) PROVE TypeOK'
  <2>1. disturbances' \in 0 .. MaxDisturbances
    BY <1>5, BoundsAssumption DEF TypeOK, Timeout
  <2> QED
    BY <1>5, <2>1 DEF TypeOK, Timeout, Cancel, Goto, At, network
<1>6. ASSUME NEW device \in Device, Retransmit(device) PROVE TypeOK'
  <2>1. disturbances' \in 0 .. MaxDisturbances
    BY <1>6, BoundsAssumption DEF TypeOK, Retransmit
  <2>2. request[device] \in Transaction
    BY <1>6 DEF Counting, Current, Retransmit, At
  <2> QED
    BY <1>6, <2>1, <2>2 DEF TypeOK, Retransmit
<1>7. CASE RoundEnds \/ LoadFails
  BY <1>7 DEF TypeOK, RoundEnds, LoadFails, goroutines, network, counters
<1>8. CASE Reload \/ Restart
  <2>1. staleLoads' \in 0 .. MaxStaleLoads /\ restarts' \in 0 .. MaxRestarts
    BY <1>8, BoundsAssumption DEF TypeOK, Reload, Restart, NextRound
  <2>2. round' \in Nat \ {0} /\ index' \in [Device -> 0 .. LogsNumber]
        /\ pc' \in [Device -> {"loop", "send", "await", "exited"}]
    BY <1>8 DEF TypeOK, Reload, Restart, NextRound
  <2> QED
    BY <1>8, <2>1, <2>2 DEF TypeOK, Reload, Restart, NextRound, network
<1>9. ASSUME NEW tx \in transit, Receive(tx) PROVE TypeOK'
  BY <1>9, ReceiveType
<1>10. ASSUME NEW device \in Device, Drop(device) PROVE TypeOK'
  <2>1. losses' \in 0 .. MaxLosses
    BY <1>10, BoundsAssumption DEF TypeOK, Drop
  <2>2. <<>> \in Seq(Transaction)
    OBVIOUS
  <2> QED
    BY <1>10, <2>1, <2>2 DEF TypeOK, Drop, goroutines
<1>11. ASSUME NEW device \in Device, Apply(device) PROVE TypeOK'
  <2>1. /\ pending[device] \in Seq(Transaction) /\ pending[device] # <<>>
        /\ ledger[device] \in Seq(Transaction)
    BY <1>11 DEF TypeOK, Apply
  <2>2. /\ Append(ledger[device], Head(pending[device])) \in Seq(Transaction)
        /\ Tail(pending[device]) \in Seq(Transaction)
    BY <2>1
  <2>3. ledger' \in [Device -> Seq(Transaction)] /\ pending' \in [Device -> Seq(Transaction)]
    BY <1>11, <2>2 DEF TypeOK, Apply
  <2> QED
    BY <1>11, <2>3 DEF TypeOK, Apply, goroutines, counters
<1>12. ASSUME NEW device \in Device, HorizonAnswers(device) PROVE TypeOK'
  BY <1>12 DEF TypeOK, HorizonAnswers, network, counters
<1>13. ASSUME NEW device \in Device, Ingest(device) PROVE TypeOK'
  <2>1. Len(ledger[device]) \in Nat
    BY DEF TypeOK
  <2> QED
    BY <1>13, <2>1 DEF TypeOK, Ingest, goroutines, counters
<1>14. CASE UNCHANGED vars
  BY <1>14 DEF TypeOK, vars, goroutines, network, counters
<1>15. CASE \E device \in Device : Goroutine(device)
  BY <1>15, <1>1, <1>2, <1>3, <1>4 DEF Goroutine
<1>16. CASE \E device \in Device : Timeout(device) \/ Retransmit(device) \/ Fatal(device)
  BY <1>16, <1>4, <1>5, <1>6
<1>17. CASE \E device \in Device : Drop(device) \/ Apply(device) \/ HorizonAnswers(device)
                                    \/ Ingest(device)
  BY <1>17, <1>10, <1>11, <1>12, <1>13
<1> QED
  BY <1>7, <1>8, <1>9, <1>14, <1>15, <1>16, <1>17 DEF Next

\* Core takes the next transaction of an account in behind the others.
LEMMA QueueEffect ==
  ASSUME TypeOK, NEW tx \in transit, Queue(tx), NEW device \in Device
  PROVE  Accepted(device)' = IF device = tx.device THEN Append(Accepted(device), tx)
                                                   ELSE Accepted(device)
<1>1. tx \in Transaction /\ tx.device \in Device
  BY DEF TypeOK, Transaction
<1>2. /\ ledger' = ledger
      /\ pending' = [pending EXCEPT ![tx.device] = Append(pending[tx.device], tx)]
  BY DEF Queue, Answer
<1>3. ledger[device] \in Seq(Transaction) /\ pending[device] \in Seq(Transaction)
  BY DEF TypeOK
<1>4. CASE device = tx.device
  <2>1. pending'[device] = Append(pending[device], tx) /\ ledger'[device] = ledger[device]
    BY <1>1, <1>2, <1>4 DEF TypeOK
  <2>2. ledger[device] \o Append(pending[device], tx)
          = Append(ledger[device] \o pending[device], tx)
    <3> DEFINE s == ledger[device]
               t == pending[device]
    <3>1. s \in Seq(Transaction) /\ t \in Seq(Transaction) /\ tx \in Transaction
      BY <1>1, <1>3
    <3> HIDE DEF s, t
    <3>2. s \o Append(t, tx) = Append(s \o t, tx)
      BY <3>1, ConcatAppend
    <3> QED
      BY <3>2 DEF s, t
  <2> QED
    BY <1>4, <2>1, <2>2 DEF Accepted
<1>5. CASE device # tx.device
  BY <1>1, <1>2, <1>5 DEF Accepted, TypeOK
<1> QED
  BY <1>4, <1>5

\* A core that gives up on the queue of an account keeps what is in the ledger.
LEMMA DropEffect ==
  ASSUME TypeOK, NEW lost \in Device, Drop(lost), NEW device \in Device
  PROVE  Accepted(device)' = IF device = lost THEN ledger[device] ELSE Accepted(device)
<1>1. ledger' = ledger /\ pending' = [pending EXCEPT ![lost] = <<>>]
  BY DEF Drop
<1>2. ledger[device] \in Seq(Transaction)
  BY DEF TypeOK
<1>3. ledger[device] \o <<>> = ledger[device]
  BY <1>2
<1> QED
  BY <1>1, <1>3 DEF Accepted, TypeOK

\* A ledger takes what core has accepted already.
LEMMA ApplyEffect ==
  ASSUME TypeOK, NEW applied \in Device, Apply(applied), NEW device \in Device
  PROVE  /\ Accepted(device)' = Accepted(device)
         /\ Len(ledger[device]) <= Len(ledger'[device])
         /\ ToSet(ledger[device]) \subseteq ToSet(ledger'[device])
<1>1. /\ ledger' = [ledger EXCEPT ![applied]
                      = Append(ledger[applied], Head(pending[applied]))]
      /\ pending' = [pending EXCEPT ![applied] = Tail(pending[applied])]
      /\ pending[applied] # <<>>
  BY DEF Apply
<1>2. ledger[device] \in Seq(Transaction) /\ pending[device] \in Seq(Transaction)
  BY DEF TypeOK
<1>3. CASE device = applied
  <2>1. /\ ledger'[device] = Append(ledger[device], Head(pending[device]))
        /\ pending'[device] = Tail(pending[device])
    BY <1>1, <1>3 DEF TypeOK
  <2>2. Accepted(device)' = Accepted(device)
    <3>1. Append(ledger[device], Head(pending[device])) \o Tail(pending[device])
            = ledger[device] \o pending[device]
      BY <1>1, <1>2, <1>3, ConcatMove
    <3> QED
      BY <2>1, <3>1, Zenon DEF Accepted
  <2>3. Head(pending[device]) \in Transaction
    BY <1>1, <1>2, <1>3
  <2>4. /\ ledger'[device] \in Seq(Transaction)
        /\ Len(ledger'[device]) = Len(ledger[device]) + 1
        /\ \A i \in 1 .. Len(ledger[device]) : ledger'[device][i] = ledger[device][i]
    BY <1>2, <2>1, <2>3
  <2>5. ToSet(ledger[device]) \subseteq ToSet(ledger'[device])
    <3> SUFFICES ASSUME NEW e \in ToSet(ledger[device]) PROVE e \in ToSet(ledger'[device])
      OBVIOUS
    <3>1. PICK i \in 1 .. Len(ledger[device]) : ledger[device][i] = e
      BY <1>2, Members
    <3>2. i \in 1 .. Len(ledger'[device]) /\ ledger'[device][i] = e
      BY <1>2, <2>4, <3>1
    <3> QED
      BY <2>4, <3>2, Members
  <2> QED
    BY <1>2, <2>2, <2>4, <2>5
<1>4. CASE device # applied
  <2>1. ledger'[device] = ledger[device] /\ pending'[device] = pending[device]
    BY <1>1, <1>4 DEF TypeOK
  <2> QED
    BY <1>2, <2>1 DEF Accepted
<1> QED
  BY <1>3, <1>4

-----------------------------------------------------------------------------
(***************************************************************************)
(* Steps of the goroutines and of main that send nothing.                  *)
(***************************************************************************)
Parts == Counting /\ Finish /\ Numbering /\ NoLoss /\ Paced /\ Undisturbed

\* Such a step leaves the network, the sequence numbers and the answers alone.
Still == UNCHANGED <<sendTxTo, round, account, request, answer, network, staleLoads,
                     losses, restarts>>

\* What is known of a device then stays as it is.
LEMMA StillSame ==
  ASSUME Still, NEW device
  PROVE  /\ Accepted(device)' = Accepted(device)
         /\ Known(device)' = Known(device)
         /\ Current(device)' = Current(device)
         /\ Base(device)' = Base(device)
BY DEF Still, network, Accepted, Known, Current, Base

\* The process ends, or a round does.
LEMMA ProcessKeeps ==
  ASSUME IInv, RoundEnds \/ LoadFails
                 \/ \E device \in Device : HorizonError(device) \/ Fatal(device)
  PROVE  Parts'
<1>1. Still /\ UNCHANGED <<canceled, pc, index, disturbances>>
  BY DEF RoundEnds, LoadFails, HorizonError, Fatal, Still, goroutines, network, counters
<1>2. \A device : /\ Accepted(device)' = Accepted(device)
                  /\ Known(device)' = Known(device)
                  /\ Current(device)' = Current(device)
                  /\ Base(device)' = Base(device)
  BY <1>1, StillSame
<1>3. Counting' /\ Numbering' /\ NoLoss' /\ Paced'
  BY <1>1, <1>2 DEF IInv, Still, network, Counting, Numbering, NoLoss, Paced
<1>4. Finish'
  BY <1>1 DEF IInv, Finish, RoundEnds, LoadFails, HorizonError, Fatal, At
<1>5. Undisturbed'
  <2>1. ASSUME staleLoads = 0 /\ disturbances = 0 /\ restarts = 0, NEW tx \in transit
        PROVE  process' \in {"running", "killed"}
    <3>1. process \in {"running", "killed"} /\ pc[tx.device] = "await" /\ tx.device \in Device
      BY <2>1 DEF IInv, TypeOK, Transaction, Undisturbed
    <3> QED
      BY <3>1 DEF RoundEnds, LoadFails, HorizonError, Fatal
  <2> QED
    BY <1>1, <1>2, <2>1 DEF IInv, Undisturbed, Still, network
<1> QED
  BY <1>3, <1>4, <1>5 DEF Parts

\* A goroutine looks for its next log.
LEMMA NextLogKeeps ==
  ASSUME IInv, NEW actor \in Device, NextLog(actor)
  PROVE  Parts'
<1>1. /\ Still /\ UNCHANGED <<process, canceled, index, disturbances>>
      /\ process = "running" /\ pc[actor] = "loop"
      /\ pc' = [pc EXCEPT ![actor] = IF canceled \/ index[actor] = LogsNumber THEN "exited"
                                                                             ELSE "send"]
  BY DEF NextLog, Still, At, Goto, SentAll, network, counters
<1>2. \A device : /\ Accepted(device)' = Accepted(device)
                  /\ Known(device)' = Known(device)
                  /\ Current(device)' = Current(device)
                  /\ Base(device)' = Base(device)
  BY <1>1, StillSame
<1>3. \A device \in Device :
        \/ pc'[device] = pc[device] /\ device # actor
        \/ pc[device] = "loop" /\ pc'[device] = "send" /\ index[device] < LogsNumber
        \/ /\ pc[device] = "loop" /\ pc'[device] = "exited"
           /\ canceled \/ index[device] = LogsNumber
  BY <1>1, LogsNumberAssumption DEF IInv, TypeOK
<1>4. Counting'
  BY <1>1, <1>2, <1>3 DEF IInv, Still, network, Counting
<1>5. Finish'
  BY <1>1 DEF IInv, Finish
<1>6. Numbering'
  BY <1>1, <1>2, <1>3 DEF IInv, Still, network, Numbering
<1>7. NoLoss' /\ Paced'
  BY <1>1, <1>2, <1>3 DEF IInv, Still, network, NoLoss, Paced
<1>8. Undisturbed'
  <2>1. \A tx \in transit : tx.device \in Device
    BY DEF IInv, TypeOK, Transaction
  <2>2. ASSUME staleLoads = 0 /\ disturbances = 0 /\ restarts = 0, NEW tx \in transit
        PROVE  pc'[tx.device] = "await"
    BY <1>3, <2>1, <2>2 DEF IInv, Undisturbed
  <2> QED
    BY <1>1, <1>2, <2>2 DEF IInv, Undisturbed, Still, network
<1> QED
  BY <1>4, <1>5, <1>6, <1>7, <1>8 DEF Parts

\* A goroutine gives up and cancels the others.
LEMMA CancelKeeps ==
  ASSUME IInv, NEW actor \in Device, BadSequence(actor) \/ Timeout(actor)
  PROVE  Parts'
<1>1. /\ Still /\ UNCHANGED <<process, index>>
      /\ process = "running" /\ pc[actor] = "await"
      /\ canceled' = TRUE
      /\ pc' = [pc EXCEPT ![actor] = "exited"]
      /\ disturbances' \in Nat
      /\ disturbances' = 0 => disturbances = 0 /\ answer[actor] = "error"
  BY SMTT(30) DEF IInv, TypeOK, BadSequence, Timeout, Cancel, Still, At, Goto, network, counters
<1>2. \A device : /\ Accepted(device)' = Accepted(device)
                  /\ Known(device)' = Known(device)
                  /\ Current(device)' = Current(device)
                  /\ Base(device)' = Base(device)
  BY <1>1, StillSame
<1>3. \A device \in Device : pc'[device] = "exited" \/ pc'[device] = pc[device]
  BY <1>1 DEF IInv, TypeOK
<1>4. Counting'
  BY <1>1, <1>2, <1>3 DEF IInv, Still, network, Counting
<1>5. Finish'
  BY <1>1 DEF IInv, Finish
<1>6. Numbering'
  BY <1>1, <1>2, <1>3 DEF IInv, Still, network, Numbering
<1>7. NoLoss' /\ Paced'
  BY <1>1, <1>2, <1>3 DEF IInv, Still, network, NoLoss, Paced
<1>8. Undisturbed'
  <2>1. \A tx \in transit : tx.device \in Device
    BY DEF IInv, TypeOK, Transaction
  <2>2. ASSUME staleLoads = 0 /\ disturbances' = 0 /\ restarts = 0, NEW tx \in transit
        PROVE  pc'[tx.device] = "await"
    <3>1. tx.device # actor /\ pc[tx.device] = "await"
      BY <1>1, <2>1, <2>2 DEF IInv, Undisturbed
    <3> QED
      BY <1>1, <2>1, <3>1 DEF IInv, TypeOK
  <2> QED
    BY <1>1, <1>2, <2>2 DEF IInv, Undisturbed, Still, network
<1> QED
  BY <1>4, <1>5, <1>6, <1>7, <1>8 DEF Parts

\* A log counts as sent.
LEMMA SuccessKeeps ==
  ASSUME IInv, NEW actor \in Device, Success(actor)
  PROVE  Parts'
<1>1. /\ Still /\ UNCHANGED <<process, canceled, disturbances>>
      /\ process = "running" /\ pc[actor] = "await" /\ answer[actor] = "ok"
      /\ pc' = [pc EXCEPT ![actor] = "loop"]
      /\ index' = [index EXCEPT ![actor] = index[actor] + 1]
  BY DEF Success, Still, At, Goto, network, counters
<1>2. \A device : /\ Accepted(device)' = Accepted(device)
                  /\ Known(device)' = Known(device)
                  /\ Current(device)' = Current(device)
                  /\ Base(device)' = Base(device)
  BY <1>1, StillSame
<1>3. /\ \A device \in Device \ {actor} :
           pc'[device] = pc[device] /\ index'[device] = index[device]
      /\ pc'[actor] = "loop" /\ index'[actor] = index[actor] + 1
  BY <1>1 DEF IInv, TypeOK
<1>4. /\ Current(actor) /\ request[actor] \in Transaction /\ request[actor].round = round
      /\ request[actor].index = index[actor] /\ request[actor].seq = account[actor]
      /\ index[actor] < LogsNumber /\ index[actor] \in Nat /\ account[actor] \in Nat
  BY <1>1 DEF IInv, TypeOK, Counting, Current
<1>5. Base(actor) = account[actor] - index[actor] - 1
  BY <1>4 DEF Base
<1>6. Counting'
  <2>1. account[actor] = Base(actor) + index'[actor]
    BY <1>3, <1>4, <1>5
  <2> QED
    BY <1>1, <1>2, <1>3, <2>1 DEF IInv, Still, network, Counting
<1>7. Finish'
  BY <1>1 DEF IInv, Finish
<1>8. Numbering'
  <2>1. \A tx \in Known(actor) : tx.round = round => tx.index < index'[actor]
    <3>1. \A tx \in Known(actor) : tx \in Transaction
      BY AcceptedType, Members DEF IInv, TypeOK, Known
    <3>2. \A tx \in Known(actor) : tx.index \in Nat
      BY <3>1, Fields
    <3> QED
      BY <1>3, <1>4, <3>2 DEF IInv, Numbering
  <2>2. \A tx \in Known(actor) : tx.round = round => tx.index <= index'[actor]
    <3>1. \A tx \in Known(actor) : tx \in Transaction
      BY AcceptedType, Members DEF IInv, TypeOK, Known
    <3> QED
      BY <1>3, <1>4, <2>1, <3>1, Fields
  <2> QED
    BY <1>1, <1>2, <1>3, <2>1, <2>2 DEF IInv, Still, network, Numbering
<1>9. NoLoss'
  <2> SUFFICES ASSUME losses = 0 PROVE NoLoss'
    BY <1>1 DEF NoLoss, Still
  <2>1. request[actor] \in ToSet(Accepted(actor))
    BY <1>1 DEF IInv, NoLoss
  <2>2. PICK k \in DOMAIN Accepted(actor) : Accepted(actor)[k] = request[actor]
    BY <2>1 DEF ToSet
  <2>3. k <= Len(Accepted(actor)) /\ k \in Nat /\ k = account[actor]
    BY <1>4, <2>2, AcceptedType DEF IInv, Numbering
  <2>4. \A i \in 0 .. index'[actor] - 1 : \E j \in DOMAIN Accepted(actor) :
          Accepted(actor)[j].round = round /\ Accepted(actor)[j].index = i
    <3> SUFFICES ASSUME NEW i \in 0 .. index'[actor] - 1
                 PROVE  \E j \in DOMAIN Accepted(actor) :
                          Accepted(actor)[j].round = round /\ Accepted(actor)[j].index = i
      OBVIOUS
    <3>1. i = index[actor] \/ i \in 0 .. index[actor] - 1
      BY <1>3, <1>4
    <3> QED
      BY <1>4, <2>2, <3>1 DEF IInv, NoLoss
  <2> QED
    BY <1>1, <1>2, <1>3, <2>3, <2>4 DEF IInv, Still, network, NoLoss
<1>10. Paced'
  <2> SUFFICES ASSUME sendTxTo = "horizon" PROVE Paced'
    BY <1>1 DEF Paced, Still
  <2>1. request[actor] \in ToSet(ledger[actor])
    BY <1>1 DEF IInv, Paced
  <2>2. \A i \in 0 .. index'[actor] - 1 :
          \E log \in ToSet(ledger[actor]) : log.round = round /\ log.index = i
    <3> SUFFICES ASSUME NEW i \in 0 .. index'[actor] - 1
                 PROVE  \E log \in ToSet(ledger[actor]) : log.round = round /\ log.index = i
      OBVIOUS
    <3>1. i = index[actor] \/ i \in 0 .. index[actor] - 1
      BY <1>3, <1>4
    <3> QED
      BY <1>4, <2>1, <3>1 DEF IInv, Paced
  <2> QED
    BY <1>1, <1>2, <1>3, <2>2 DEF IInv, Still, network, Paced
<1>11. Undisturbed'
  <2>1. \A tx \in transit : tx.device \in Device
    BY DEF IInv, TypeOK, Transaction
  <2>2. ASSUME staleLoads = 0 /\ disturbances = 0 /\ restarts = 0, NEW tx \in transit
        PROVE  pc'[tx.device] = "await"
    <3>1. tx.device # actor /\ pc[tx.device] = "await"
      BY <1>1, <2>1, <2>2 DEF IInv, Undisturbed
    <3> QED
      BY <1>3, <2>1, <3>1
  <2> QED
    BY <1>1, <1>2, <2>2 DEF IInv, Undisturbed, Still, network
<1> QED
  BY <1>6, <1>7, <1>8, <1>9, <1>10, <1>11 DEF Parts

-----------------------------------------------------------------------------
(***************************************************************************)
(* Requests and rounds.                                                    *)
(***************************************************************************)

\* What is known of a device are transactions.
LEMMA KnownType ==
  ASSUME TypeOK, NEW device \in Device
  PROVE  \A tx \in Known(device) : /\ tx \in Transaction /\ tx.index \in Nat
                                   /\ tx.seq \in Nat /\ tx.round \in Nat
BY AcceptedType, Members, Fields DEF TypeOK, Known

\* A request is sent: with the sequence number and the log that come next.
LEMMA SendKeeps ==
  ASSUME IInv, NEW actor \in Device, SendLogTx(actor)
  PROVE  Parts'
<1> DEFINE new == [device |-> actor, round |-> round, index |-> index[actor],
                   seq |-> account[actor] + 1]
<1>1. /\ process = "running" /\ pc[actor] = "send"
      /\ request' = [request EXCEPT ![actor] = new]
      /\ transit' = transit \cup {new}
      /\ account' = [account EXCEPT ![actor] = account[actor] + 1]
      /\ answer' = [answer EXCEPT ![actor] = "none"]
      /\ pc' = [pc EXCEPT ![actor] = "await"]
      /\ UNCHANGED <<sendTxTo, process, round, canceled, index, pending, ledger, horizon,
                     disturbances, staleLoads, losses, restarts>>
  BY DEF SendLogTx, At, Goto, Incremented, counters
<1>2. /\ new \in Transaction /\ new.device = actor /\ new.round = round
      /\ new.index = index[actor] /\ new.seq = account[actor] + 1
  BY SentType DEF IInv
<1> HIDE DEF new
<1>3. /\ \A device \in Device \ {actor} :
           /\ request'[device] = request[device] /\ account'[device] = account[device]
           /\ answer'[device] = answer[device] /\ pc'[device] = pc[device]
      /\ request'[actor] = new /\ account'[actor] = account[actor] + 1
      /\ answer'[actor] = "none" /\ pc'[actor] = "await"
  BY <1>1 DEF IInv, TypeOK
<1>4. /\ account[actor] = Base(actor) + index[actor] /\ index[actor] < LogsNumber
      /\ account[actor] \in Nat /\ index[actor] \in Nat /\ round \in Nat
      /\ Base(actor) \in Nat
  BY <1>1 DEF IInv, TypeOK, Counting
<1>5. \A device : Accepted(device)' = Accepted(device)
  BY <1>1 DEF Accepted
<1>6. \A device \in Device : Base(device)' = Base(device)
  <2>1. Current(actor)'
    BY <1>1, <1>2, <1>3 DEF Current
  <2>2. Base(actor)' = Base(actor)
    BY <1>2, <1>3, <1>4, <2>1 DEF Base
  <2>3. \A device \in Device \ {actor} : Base(device)' = Base(device)
    BY <1>1, <1>3 DEF Base, Current
  <2> QED
    BY <2>2, <2>3
<1>7. /\ Known(actor)' = Known(actor) \cup {new}
      /\ \A device \in Device \ {actor} : Known(device)' = Known(device)
  BY <1>1, <1>2, <1>5 DEF Known
<1>8. new \notin Known(actor)
  BY <1>1, <1>2, <1>4, KnownType DEF IInv, Numbering
<1>9. Counting'
  <2>1. Current(actor)'
    BY <1>1, <1>2, <1>3 DEF Current
  <2>2. \A device \in Device \ {actor} : Current(device)' = Current(device)
    BY <1>1, <1>3 DEF Current
  <2> QED
    BY <1>1, <1>2, <1>3, <1>4, <1>6, <2>1, <2>2 DEF IInv, Counting
<1>10. Finish'
  BY <1>1 DEF IInv, Finish
<1>11. Numbering'
  <2>1. \A tx \in Known(actor)' :
          /\ tx.round <= round /\ tx.index < LogsNumber
          /\ tx.round = round => tx.seq = Base(actor) + tx.index + 1
                                 /\ tx.index <= index[actor]
    BY <1>2, <1>4, <1>7, KnownType DEF IInv, Numbering
  <2>2. \A t, u \in Known(actor)' : t.round = u.round => t.seq - t.index = u.seq - u.index
    <3>1. \A t \in Known(actor) : t.round = round => t.seq - t.index = new.seq - new.index
      BY <1>2, <1>4, KnownType DEF IInv, Numbering
    <3> QED
      BY <1>2, <1>7, <3>1 DEF IInv, Numbering
  <2> QED
    BY <1>1, <1>3, <1>5, <1>6, <1>7, <2>1, <2>2 DEF IInv, Numbering
<1>12. NoLoss'
  <2> SUFFICES ASSUME losses = 0 PROVE NoLoss'
    BY <1>1 DEF NoLoss
  <2>1. Len(Accepted(actor)) \in Nat /\ account[actor] <= Len(Accepted(actor))
    BY <1>1, AcceptedType DEF IInv, NoLoss
  <2>2. new.seq <= Len(Accepted(actor)) + 1 /\ account'[actor] <= Len(Accepted(actor)) + 1
    BY <1>2, <1>3, <1>4, <2>1
  <2>3. \A k \in DOMAIN Accepted(actor) : ~(new.round < Accepted(actor)[k].round)
    <3> SUFFICES ASSUME NEW k \in DOMAIN Accepted(actor)
                 PROVE  ~(new.round < Accepted(actor)[k].round)
      OBVIOUS
    <3>1. Accepted(actor)[k] \in Known(actor)
      BY AcceptedType, Members DEF IInv, Known
    <3> QED
      BY <1>2, <1>4, <3>1, KnownType DEF IInv, Numbering
  <2> QED
    BY <1>1, <1>2, <1>3, <1>5, <2>2, <2>3 DEF IInv, NoLoss
<1>13. Paced'
  <2> SUFFICES ASSUME sendTxTo = "horizon" PROVE Paced'
    BY <1>1 DEF Paced
  <2>1. new.index > 0 =>
          \E log \in ToSet(ledger[actor]) : log.round = new.round /\ log.index = new.index - 1
    <3>1. new.index > 0 => new.index - 1 \in 0 .. index[actor] - 1
      BY <1>2, <1>4
    <3> QED
      BY <1>2, <3>1 DEF IInv, Paced
  <2> QED
    BY <1>1, <1>3, <1>7, <2>1 DEF IInv, Paced
<1>14. Undisturbed'
  <2> SUFFICES ASSUME staleLoads = 0 /\ disturbances = 0 /\ restarts = 0 PROVE Undisturbed'
    BY <1>1 DEF Undisturbed
  <2>1. new \notin ToSet(Accepted(actor))
    BY <1>8 DEF Known
  <2>2. \A tx \in transit : tx.device \in Device /\ tx.device # actor
    BY <1>1 DEF IInv, TypeOK, Transaction, Undisturbed
  <2> QED
    BY <1>1, <1>2, <1>3, <1>5, <1>6, <2>1, <2>2 DEF IInv, Undisturbed
<1> QED
  BY <1>9, <1>10, <1>11, <1>12, <1>13, <1>14 DEF Parts

\* The http client sends the request again that the goroutine still waits for.
LEMMA RetransmitKeeps ==
  ASSUME IInv, NEW actor \in Device, Retransmit(actor)
  PROVE  Parts'
<1> DEFINE again == request[actor]
<1>1. /\ process = "running" /\ pc[actor] = "await" /\ sendTxTo = "stellar-core"
      /\ disturbances' = disturbances + 1
      /\ transit' = transit \cup {again}
      /\ answer' = [answer EXCEPT ![actor] = "none"]
      /\ UNCHANGED <<sendTxTo, process, round, canceled, pc, index, account, request,
                     pending, ledger, horizon, staleLoads, losses, restarts>>
  BY DEF Retransmit, At
<1>2. /\ again \in Transaction /\ again.round = round /\ again.index = index[actor]
      /\ again.seq = account[actor] /\ again.device = actor
      /\ index[actor] < LogsNumber /\ again.index \in Nat /\ again.seq \in Nat
      /\ Base(actor) = again.seq - again.index - 1
      /\ round \in Nat
  BY <1>1 DEF IInv, TypeOK, Counting, Current, Base
<1> HIDE DEF again
<1>3. /\ \A device \in Device \ {actor} : answer'[device] = answer[device]
      /\ answer'[actor] = "none"
  BY <1>1 DEF IInv, TypeOK
<1>4. \A device : /\ Accepted(device)' = Accepted(device)
                  /\ Base(device)' = Base(device)
                  /\ Current(device)' = Current(device)
  BY <1>1 DEF Accepted, Base, Current
<1>5. /\ Known(actor)' = Known(actor) \cup {again}
      /\ \A device \in Device \ {actor} : Known(device)' = Known(device)
  BY <1>1, <1>2, <1>4 DEF Known
<1>6. Counting' /\ Finish'
  BY <1>1, <1>4 DEF IInv, Counting, Finish
<1>7. Numbering'
  <2>1. \A tx \in Known(actor)' :
          /\ tx.round <= round /\ tx.index < LogsNumber
          /\ tx.round = round => tx.seq = Base(actor) + tx.index + 1
                                 /\ tx.index <= index[actor]
    BY <1>2, <1>5, KnownType DEF IInv, Numbering
  <2>2. \A t, u \in Known(actor)' : t.round = u.round => t.seq - t.index = u.seq - u.index
    <3>1. \A t \in Known(actor) :
            t.round = round => t.seq - t.index = again.seq - again.index
      BY <1>2, KnownType DEF IInv, Numbering
    <3> QED
      BY <1>2, <1>5, <3>1 DEF IInv, Numbering
  <2> QED
    BY <1>1, <1>4, <1>5, <2>1, <2>2 DEF IInv, Numbering
<1>8. NoLoss'
  <2> SUFFICES ASSUME losses = 0 PROVE NoLoss'
    BY <1>1 DEF NoLoss
  <2>1. again.seq <= Len(Accepted(actor)) + 1
    BY <1>1, <1>2 DEF IInv, NoLoss
  <2>2. \A k \in DOMAIN Accepted(actor) : ~(again.round < Accepted(actor)[k].round)
    <3> SUFFICES ASSUME NEW k \in DOMAIN Accepted(actor)
                 PROVE  ~(again.round < Accepted(actor)[k].round)
      OBVIOUS
    <3>1. Accepted(actor)[k] \in Known(actor)
      BY AcceptedType, Members DEF IInv, Known
    <3> QED
      BY <1>2, <3>1, KnownType DEF IInv, Numbering
  <2> QED
    BY <1>1, <1>2, <1>3, <1>4, <2>1, <2>2, SMTT(30) DEF IInv, NoLoss
<1>9. Paced'
  BY <1>1 DEF Paced
<1>10. Undisturbed'
  BY <1>1 DEF IInv, TypeOK, Undisturbed
<1> QED
  BY <1>6, <1>7, <1>8, <1>9, <1>10 DEF Parts

\* A new round begins with what Horizon knows of the accounts.
LEMMA RoundKeeps ==
  ASSUME IInv, Reload \/ Restart
  PROVE  Parts'
<1>1. /\ process' = "running" /\ round' = round + 1 /\ canceled' = FALSE
      /\ account' = horizon
      /\ pc' = [device \in Device |-> "loop"]
      /\ index' = [device \in Device |-> 0]
      /\ UNCHANGED <<sendTxTo, request, answer, transit, pending, ledger, horizon,
                     disturbances, losses>>
      /\ round \in Nat
  BY DEF Reload, Restart, NextRound, network, IInv, TypeOK
<1>2. \A device \in Device : Accepted(device)' = Accepted(device)
                             /\ Known(device)' = Known(device)
  BY <1>1 DEF Accepted, Known
<1>3. \A device \in Device : ~Current(device)' /\ Base(device)' = horizon[device]
  <2> SUFFICES ASSUME NEW device \in Device
               PROVE  ~Current(device)' /\ Base(device)' = horizon[device]
    OBVIOUS
  <2>1. ~Current(device)'
    <3>1. request[device] \in Transaction => request[device].round <= round
                                             /\ request[device].round \in Nat
      BY Fields DEF IInv, Counting
    <3> QED
      BY <1>1, <3>1 DEF Current
  <2> QED
    BY <1>1, <2>1 DEF Base
<1>4. \A device \in Device : /\ horizon[device] \in Nat /\ Len(ledger[device]) \in Nat
                             /\ horizon[device] <= Len(ledger[device])
  BY DEF IInv, TypeOK, Counting
<1>5. Counting'
  <2>1. \A device \in Device :
          request[device] \in Transaction => request[device].round <= round + 1
    <3>1. \A device \in Device :
            request[device] \in Transaction => request[device].round <= round
                                               /\ request[device].round \in Nat
      BY Fields DEF IInv, Counting
    <3> QED
      BY <1>1, <3>1
  <2> QED
    BY <1>1, <1>3, <1>4, <2>1 DEF IInv, Counting
<1>6. Finish'
  BY <1>1 DEF Finish
<1>7. Numbering'
  <2>1. \A device \in Device : \A tx \in Known(device) :
          tx.round <= round' /\ tx.round # round'
    BY <1>1, KnownType DEF IInv, Numbering
  <2> QED
    BY <1>1, <1>2, <2>1 DEF IInv, Numbering
<1>8. NoLoss'
  <2>1. \A device \in Device : account'[device] <= Len(Accepted(device))
    BY <1>1, <1>4, AcceptedType DEF IInv
  <2> QED
    BY <1>1, <1>2, <2>1 DEF IInv, NoLoss
<1>9. Paced'
  BY <1>1, <1>2 DEF IInv, Paced
<1>10. Undisturbed'
  <2> SUFFICES ASSUME staleLoads' = 0 /\ disturbances = 0 /\ restarts' = 0
               PROVE  Undisturbed'
    BY <1>1 DEF Undisturbed
  <2>1. Reload /\ ~Stale /\ staleLoads = 0 /\ restarts = 0
    BY DEF IInv, TypeOK, Reload, Restart, NextRound
  <2>2. transit = {}
    BY <2>1 DEF IInv, Undisturbed, Reload
  <2>3. \A device \in Device : Base(device)' = Len(Accepted(device))
    BY <1>3, <2>1 DEF Stale, Accepted, IInv, TypeOK
  <2>4. \A device \in Device : \A k \in DOMAIN Accepted(device) : ~(k > Base(device)')
    BY <2>3, AcceptedType DEF IInv
  <2> QED
    BY <1>1, <1>2, <2>1, <2>2, <2>4 DEF IInv, Undisturbed
<1> QED
  BY <1>5, <1>6, <1>7, <1>8, <1>9, <1>10 DEF Parts

-----------------------------------------------------------------------------
(***************************************************************************)
(* stellar-core, the ledger and Horizon.                                   *)
(***************************************************************************)

\* An answer is read by the goroutine that waits for it, and by no other one.
LEMMA AnswerEffect ==
  ASSUME IInv, NEW tx \in transit, NEW body, Answer(tx, body)
  PROVE  /\ tx \in Transaction /\ tx.device \in Device
         /\ transit' = transit \ {tx}
         /\ \A device \in Device :
              \/ answer'[device] = answer[device]
              \/ tx.device = device /\ request[device] = tx /\ answer'[device] = body
         /\ UNCHANGED <<sendTxTo, process, round, canceled, pc, index, account, request,
                        ledger, horizon, disturbances, staleLoads, restarts>>
         /\ \A device : Base(device)' = Base(device) /\ Current(device)' = Current(device)
<1>1. tx \in Transaction /\ tx.device \in Device
  BY DEF IInv, TypeOK, Transaction
<1> QED
  BY <1>1 DEF IInv, TypeOK, Answer, Base, Current

\* An answer to a request core has not taken in, whether it says so or not.
LEMMA RejectKeeps ==
  ASSUME IInv, NEW tx \in transit,
         NEW body \in {"none", "ok", "error"}, Answer(tx, body),
         pending' = pending, losses' \in Nat, losses' = 0 => losses = 0,
         losses' = 0 /\ body = "ok" => tx \in ToSet(Accepted(tx.device)),
         sendTxTo = "horizon" => body # "ok"
  PROVE  Parts'
<1>1. /\ tx \in Transaction /\ tx.device \in Device
      /\ transit' = transit \ {tx}
      /\ \A device \in Device :
           \/ answer'[device] = answer[device]
           \/ tx.device = device /\ request[device] = tx /\ answer'[device] = body
      /\ UNCHANGED <<sendTxTo, process, round, canceled, pc, index, account, request,
                     ledger, horizon, disturbances, staleLoads, restarts>>
      /\ \A device : Base(device)' = Base(device) /\ Current(device)' = Current(device)
  BY AnswerEffect
<1>2. \A device : Accepted(device)' = Accepted(device)
  BY <1>1 DEF Accepted
<1>3. \A device : Known(device)' \subseteq Known(device)
  BY <1>1, <1>2 DEF Known
<1>4. Counting' /\ Finish'
  BY <1>1 DEF IInv, Counting, Finish
<1>5. Numbering'
  BY <1>1, <1>2, <1>3 DEF IInv, Numbering
<1>6. NoLoss'
  <2> SUFFICES ASSUME losses' = 0 PROVE NoLoss'
    BY DEF NoLoss
  <2>1. \A device \in Device : pc[device] = "await" /\ answer'[device] = "ok" =>
          request[device] \in ToSet(Accepted(device))
    BY <1>1 DEF IInv, NoLoss
  <2> QED
    BY <1>1, <1>2, <2>1 DEF IInv, NoLoss
<1>7. Paced'
  BY <1>1, <1>2, <1>3 DEF IInv, Paced
<1>8. Undisturbed'
  <2> SUFFICES ASSUME staleLoads = 0 /\ disturbances = 0 /\ restarts = 0 PROVE Undisturbed'
    BY <1>1 DEF Undisturbed
  <2>1. \A other \in transit \ {tx} : /\ other.device \in Device /\ other.device # tx.device
                                      /\ answer'[other.device] = answer[other.device]
    <3> SUFFICES ASSUME NEW other \in transit \ {tx}
                 PROVE  /\ other.device \in Device /\ other.device # tx.device
                        /\ answer'[other.device] = answer[other.device]
      OBVIOUS
    <3>1. other.device \in Device /\ tx.device \in Device
      BY <1>1, Fields DEF IInv, TypeOK
    <3>2. other = request[other.device] /\ tx = request[tx.device]
      BY <1>1 DEF IInv, Undisturbed
    <3>3. other.device # tx.device
      BY <3>2
    <3>4. answer \in [Device -> {"none", "ok", "error"}]
      BY DEF IInv, TypeOK
    <3> QED
      BY <1>1, <3>1, <3>3, <3>4
  <2> QED
    BY <1>1, <1>2, <2>1 DEF IInv, Undisturbed
<1> QED
  BY <1>4, <1>5, <1>6, <1>7, <1>8 DEF Parts

\* Core queues the transaction that comes next.
LEMMA QueueKeeps ==
  ASSUME IInv, NEW tx \in transit, Queue(tx)
  PROVE  Parts'
<1> DEFINE device == tx.device
           n == Len(Accepted(device))
<1>1. /\ tx \in Transaction /\ device \in Device
      /\ transit' = transit \ {tx}
      /\ \A d \in Device :
           \/ answer'[d] = answer[d]
           \/ device = d /\ request[d] = tx /\ answer'[d] = Queued
      /\ UNCHANGED <<sendTxTo, process, round, canceled, pc, index, account, request,
                     ledger, horizon, disturbances, staleLoads, restarts, losses>>
      /\ \A d : Base(d)' = Base(d) /\ Current(d)' = Current(d)
  BY AnswerEffect DEF Queue
<1>2. /\ tx.seq = n + 1 /\ tx.index \in Nat /\ tx.round \in Nat /\ tx \in Known(device)
      /\ n \in Nat /\ Accepted(device) \in Seq(Transaction)
      /\ DOMAIN Accepted(device) = 1 .. n
  BY <1>1, Fields, AcceptedType DEF Queue, NextInSequence, Known, IInv
<1>3. /\ Accepted(device)' = Append(Accepted(device), tx)
      /\ \A d \in Device \ {device} : Accepted(d)' = Accepted(d)
  BY <1>1, QueueEffect DEF IInv
<1>4. /\ Len(Accepted(device)') = n + 1
      /\ DOMAIN Accepted(device)' = 1 .. n + 1
      /\ \A k \in 1 .. n : Accepted(device)'[k] = Accepted(device)[k]
      /\ Accepted(device)'[n + 1] = tx
  BY <1>1, <1>2, <1>3
<1>5. ToSet(Accepted(device)') = ToSet(Accepted(device)) \cup {tx}
  <2>1. \A k \in 1 .. n + 1 : k \in 1 .. n \/ k = n + 1
    BY <1>2
  <2>2. 1 .. n \subseteq 1 .. n + 1 /\ n + 1 \in 1 .. n + 1
    BY <1>2
  <2> QED
    BY <1>2, <1>4, <2>1, <2>2 DEF ToSet
<1>6. \A d \in Device : Known(d)' \subseteq Known(d)
  <2>1. Known(device)' \subseteq Known(device)
    BY <1>1, <1>5 DEF Known
  <2>2. \A d \in Device \ {device} : Known(d)' \subseteq Known(d)
    BY <1>1, <1>3 DEF Known
  <2> QED
    BY <2>1, <2>2
<1> HIDE DEF device, n
<1>7. Counting' /\ Finish'
  BY <1>1 DEF IInv, Counting, Finish
<1>8. Numbering'
  <2>1. \A k \in DOMAIN Accepted(device)' :
          Accepted(device)'[k].seq = k /\ Accepted(device)'[k].device = device
    <3> SUFFICES ASSUME NEW k \in 1 .. n + 1
                 PROVE  /\ Accepted(device)'[k].seq = k
                        /\ Accepted(device)'[k].device = device
      BY <1>4
    <3>1. CASE k \in 1 .. n
      BY <1>1, <1>2, <1>4, <3>1 DEF IInv, Numbering
    <3>2. CASE k = n + 1
      BY <1>2, <1>4, <3>2 DEF device
    <3> QED
      BY <1>2, <3>1, <3>2
  <2> QED
    BY <1>1, <1>3, <1>6, <2>1 DEF IInv, Numbering
<1>9. NoLoss'
  <2> SUFFICES ASSUME losses = 0 PROVE NoLoss'
    BY <1>1 DEF NoLoss
  <2>1. \A d \in Device : pc[d] = "await" /\ answer'[d] = "ok" =>
          request[d] \in ToSet(Accepted(d)')
    BY <1>1, <1>3, <1>5 DEF IInv, NoLoss
  <2>2. \A k \in 1 .. n : Accepted(device)[k].round \in Nat
    BY <1>2, Fields
  <2>3. \A k \in 1 .. n : Accepted(device)[k].round <= tx.round
    <3> SUFFICES ASSUME NEW k \in 1 .. n, tx.round < Accepted(device)[k].round PROVE FALSE
      BY <1>2, <2>2
    <3>1. tx.seq <= n
      BY <1>1, <1>2 DEF IInv, NoLoss, device, n
    <3> QED
      BY <1>2, <3>1
  <2>4. \A j, k \in DOMAIN Accepted(device)' :
          j <= k => Accepted(device)'[j].round <= Accepted(device)'[k].round
    <3> SUFFICES ASSUME NEW j \in 1 .. n + 1, NEW k \in 1 .. n + 1, j <= k
                 PROVE  Accepted(device)'[j].round <= Accepted(device)'[k].round
      BY <1>4
    <3>1. CASE k \in 1 .. n
      <4>1. j \in 1 .. n
        BY <1>2, <3>1
      <4> QED
        BY <1>1, <1>2, <1>4, <3>1, <4>1 DEF IInv, NoLoss
    <3>2. CASE k = n + 1 /\ j \in 1 .. n
      BY <1>4, <2>3, <3>2
    <3>3. CASE k = n + 1 /\ j = n + 1
      BY <1>2, <1>4, <3>3
    <3> QED
      BY <1>2, <3>1, <3>2, <3>3
  <2>5. \A other \in transit : other.device = device => other.seq <= n + 1 /\ other.seq \in Nat
    BY <1>1, Fields DEF IInv, TypeOK, NoLoss, n
  <2>6. \A i \in 0 .. index[device] - 1 : \E k \in DOMAIN Accepted(device)' :
          Accepted(device)'[k].round = round /\ Accepted(device)'[k].index = i
    <3> SUFFICES ASSUME NEW i \in 0 .. index[device] - 1
                 PROVE  \E k \in 1 .. n + 1 : /\ Accepted(device)'[k].round = round
                                              /\ Accepted(device)'[k].index = i
      BY <1>4
    <3>1. PICK k \in 1 .. n : /\ Accepted(device)[k].round = round
                              /\ Accepted(device)[k].index = i
      BY <1>1, <1>2 DEF IInv, NoLoss
    <3>2. k \in 1 .. n + 1 /\ Accepted(device)'[k] = Accepted(device)[k]
      BY <1>2, <1>4
    <3> QED
      BY <3>1, <3>2
  <2>7. /\ \A other \in transit' : other.device = device =>
             other.seq <= Len(Accepted(device)') + 1
        /\ \A other \in transit', k \in DOMAIN Accepted(device)' :
             other.device = device /\ other.round < Accepted(device)'[k].round
               => other.seq <= Len(Accepted(device)')
    BY <1>1, <1>2, <1>4, <2>5
  <2>8. /\ pc[device] \in {"loop", "send"} => account[device] <= n + 1
        /\ pc[device] = "await" => account[device] <= n + 1 + 1
    BY <1>1, <1>2 DEF IInv, TypeOK, NoLoss, n
  <2>9. \A d \in Device :
          /\ \A other \in transit' : other.device = d => other.seq <= Len(Accepted(d)') + 1
          /\ pc[d] \in {"loop", "send"} => account[d] <= Len(Accepted(d)')
          /\ pc[d] = "await" => account[d] <= Len(Accepted(d)') + 1
          /\ \A j, k \in DOMAIN Accepted(d)' :
               j <= k => Accepted(d)'[j].round <= Accepted(d)'[k].round
          /\ \A other \in transit', k \in DOMAIN Accepted(d)' :
               other.device = d /\ other.round < Accepted(d)'[k].round
                 => other.seq <= Len(Accepted(d)')
          /\ \A i \in 0 .. index[d] - 1 : \E k \in DOMAIN Accepted(d)' :
               Accepted(d)'[k].round = round /\ Accepted(d)'[k].index = i
    <3> SUFFICES ASSUME NEW d \in Device
        PROVE /\ \A other \in transit' : other.device = d => other.seq <= Len(Accepted(d)') + 1
              /\ pc[d] \in {"loop", "send"} => account[d] <= Len(Accepted(d)')
              /\ pc[d] = "await" => account[d] <= Len(Accepted(d)') + 1
              /\ \A j, k \in DOMAIN Accepted(d)' :
                   j <= k => Accepted(d)'[j].round <= Accepted(d)'[k].round
              /\ \A other \in transit', k \in DOMAIN Accepted(d)' :
                   other.device = d /\ other.round < Accepted(d)'[k].round
                     => other.seq <= Len(Accepted(d)')
              /\ \A i \in 0 .. index[d] - 1 : \E k \in DOMAIN Accepted(d)' :
                   Accepted(d)'[k].round = round /\ Accepted(d)'[k].index = i
      OBVIOUS
    <3>1. CASE d = device
      BY <1>4, <2>4, <2>6, <2>7, <2>8, <3>1
    <3>2. CASE d # device
      BY <1>1, <1>3, <3>2 DEF IInv, NoLoss
    <3> QED
      BY <3>1, <3>2
  <2> QED
    BY <1>1, <2>1, <2>9 DEF NoLoss
<1>10. Paced'
  <2>1. sendTxTo = "horizon" => Queued # "ok"
    BY DEF Queued
  <2> QED
    BY <1>1, <1>6, <2>1 DEF IInv, Paced
<1>11. Undisturbed'
  <2> SUFFICES ASSUME staleLoads = 0 /\ disturbances = 0 /\ restarts = 0 PROVE Undisturbed'
    BY <1>1 DEF Undisturbed
  <2>1. \A other \in transit \ {tx} : /\ other.device \in Device /\ other.device # device
                                      /\ answer'[other.device] = answer[other.device]
                                      /\ Accepted(other.device)' = Accepted(other.device)
    <3> SUFFICES ASSUME NEW other \in transit \ {tx}
                 PROVE  /\ other.device \in Device /\ other.device # device
                        /\ answer'[other.device] = answer[other.device]
                        /\ Accepted(other.device)' = Accepted(other.device)
      OBVIOUS
    <3>1. other.device \in Device
      BY Fields DEF IInv, TypeOK
    <3>2. other = request[other.device] /\ tx = request[device]
      BY DEF IInv, Undisturbed, device
    <3>3. other.device # device
      BY <3>2
    <3> QED
      BY <1>1, <1>3, <3>1, <3>3
  <2>2. tx.round = round /\ pc[device] = "await"
    BY <1>1 DEF IInv, Undisturbed, Counting, Current, device
  <2>3. tx.seq = Base(device) + tx.index + 1 /\ Base(device) \in Nat
    BY <1>1, <1>2, <2>2 DEF IInv, Numbering, Counting
  <2>4. \A k \in 1 .. n + 1 : k > Base(device) => Accepted(device)'[k].round = round
    <3> SUFFICES ASSUME NEW k \in 1 .. n + 1, k > Base(device)
                 PROVE  Accepted(device)'[k].round = round
      OBVIOUS
    <3>1. CASE k \in 1 .. n
      BY <1>1, <1>2, <1>4, <3>1 DEF IInv, Undisturbed
    <3>2. CASE k = n + 1
      BY <1>4, <2>2, <3>2
    <3> QED
      BY <1>2, <3>1, <3>2
  <2>5. tx.index > 0 => /\ n \in 1 .. n /\ Accepted(device)[n].round = tx.round
                        /\ Accepted(device)[n].index = tx.index - 1
    <3> SUFFICES ASSUME tx.index > 0
                 PROVE  /\ n \in 1 .. n /\ Accepted(device)[n].round = tx.round
                        /\ Accepted(device)[n].index = tx.index - 1
      OBVIOUS
    <3>1. n = Base(device) + tx.index /\ n \in 1 .. n /\ n > Base(device)
      BY <1>2, <2>3
    <3>2. Accepted(device)[n].round = round /\ Accepted(device)[n].seq = n
          /\ Accepted(device)[n] \in Known(device)
      BY <1>1, <1>2, <3>1, Members DEF IInv, Undisturbed, Numbering, Known
    <3>3. n = Base(device) + Accepted(device)[n].index + 1 /\ Accepted(device)[n].index \in Nat
      BY <1>1, <1>2, <3>1, <3>2, KnownType DEF IInv, Numbering
    <3> QED
      BY <1>2, <2>2, <2>3, <3>1, <3>2, <3>3, SMTT(30)
  <2>6. \A k \in 1 .. n + 1 : Accepted(device)'[k].index > 0 =>
          \E i \in 1 .. k - 1 : /\ Accepted(device)'[i].round = Accepted(device)'[k].round
                                /\ Accepted(device)'[i].index = Accepted(device)'[k].index - 1
    <3> SUFFICES ASSUME NEW k \in 1 .. n + 1, Accepted(device)'[k].index > 0
                 PROVE  \E i \in 1 .. k - 1 :
                          /\ Accepted(device)'[i].round = Accepted(device)'[k].round
                          /\ Accepted(device)'[i].index = Accepted(device)'[k].index - 1
      OBVIOUS
    <3>1. CASE k \in 1 .. n
      <4>1. Accepted(device)'[k] = Accepted(device)[k]
        BY <1>4, <3>1
      <4>2. PICK i \in 1 .. k - 1 :
                   /\ Accepted(device)[i].round = Accepted(device)[k].round
                   /\ Accepted(device)[i].index = Accepted(device)[k].index - 1
        BY <1>1, <1>2, <3>1, <4>1 DEF IInv, Undisturbed
      <4>3. Accepted(device)'[i] = Accepted(device)[i]
        BY <1>2, <1>4, <3>1
      <4> QED
        BY <4>1, <4>2, <4>3
    <3>2. CASE k = n + 1
      <4>1. Accepted(device)'[k] = tx /\ k - 1 = n
        BY <1>2, <1>4, <3>2
      <4>2. n \in 1 .. n /\ Accepted(device)'[n] = Accepted(device)[n]
        BY <1>4, <2>5, <4>1
      <4> QED
        BY <2>5, <4>1, <4>2
    <3> QED
      BY <1>2, <3>1, <3>2
  <2>7. \A other \in transit' :
          /\ process' \in {"running", "killed"}
          /\ pc'[other.device] = "await" /\ answer'[other.device] = "none"
          /\ other = request'[other.device] /\ other \notin ToSet(Accepted(other.device)')
    BY <1>1, <2>1 DEF IInv, Undisturbed
  <2>8. \A d \in Device : \A k \in DOMAIN Accepted(d)' :
          k > Base(d)' => Accepted(d)'[k].round = round'
    BY <1>1, <1>3, <1>4, <2>4 DEF IInv, Undisturbed
  <2>9. \A d \in Device : \A k \in DOMAIN Accepted(d)' : Accepted(d)'[k].index > 0 =>
          \E i \in 1 .. k - 1 : /\ Accepted(d)'[i].round = Accepted(d)'[k].round
                                /\ Accepted(d)'[i].index = Accepted(d)'[k].index - 1
    <3> SUFFICES ASSUME NEW d \in Device, NEW k \in DOMAIN Accepted(d)',
                        Accepted(d)'[k].index > 0
                 PROVE  \E i \in 1 .. k - 1 :
                          /\ Accepted(d)'[i].round = Accepted(d)'[k].round
                          /\ Accepted(d)'[i].index = Accepted(d)'[k].index - 1
      OBVIOUS
    <3>1. CASE d = device
      BY <1>4, <2>6, <3>1
    <3>2. CASE d # device
      BY <1>3, <3>2 DEF IInv, Undisturbed
    <3> QED
      BY <3>1, <3>2
  <2> QED
    BY <2>7, <2>8, <2>9 DEF Undisturbed
<1> QED
  BY <1>7, <1>8, <1>9, <1>10, <1>11 DEF Parts

\* Whatever core makes of a request that reaches it.
LEMMA ReceiveKeeps ==
  ASSUME IInv, NEW tx \in transit, Receive(tx)
  PROVE  Parts'
<1>1. tx \in Transaction /\ tx.device \in Device /\ losses \in Nat
  BY DEF IInv, TypeOK, Transaction
<1>2. CASE Queue(tx)
  BY <1>2, QueueKeeps
<1>3. CASE Duplicate(tx)
  <2>1. tx \in ToSet(Accepted(tx.device))
    <3> DEFINE s == ledger[tx.device]
               t == pending[tx.device]
    <3>1. s \in Seq(Transaction) /\ t \in Seq(Transaction)
      BY <1>1 DEF IInv, TypeOK
    <3>2. tx \in ToSet(t) /\ Accepted(tx.device) = s \o t
      BY <1>3 DEF Duplicate, Accepted
    <3> HIDE DEF s, t
    <3>3. PICK i \in 1 .. Len(t) : t[i] = tx
      BY <3>1, <3>2, Members
    <3>4. Len(s) + i \in DOMAIN (s \o t) /\ (s \o t)[Len(s) + i] = tx
      BY <3>1, <3>3
    <3> QED
      BY <3>2, <3>4 DEF ToSet
  <2> QED
    BY <1>1, <1>3, <2>1, RejectKeeps DEF Duplicate, Queued
<1>4. CASE Refuse(tx)
  BY <1>1, <1>4, RejectKeeps DEF Refuse
<1>5. CASE TryAgainLater(tx)
  BY <1>1, <1>5, RejectKeeps DEF TryAgainLater
<1> QED
  BY <1>2, <1>3, <1>4, <1>5 DEF Receive

\* Core gives up on a queue: only the ledger remains.
LEMMA DropKeeps ==
  ASSUME IInv, NEW lost \in Device, Drop(lost)
  PROVE  Parts'
<1>1. /\ UNCHANGED <<sendTxTo, process, round, canceled, pc, index, account, request, answer,
                     transit, ledger, horizon, disturbances, staleLoads, restarts>>
      /\ losses' = losses + 1 /\ losses \in Nat
  BY DEF Drop, goroutines, IInv, TypeOK
<1>2. \A device : Base(device)' = Base(device) /\ Current(device)' = Current(device)
  BY <1>1 DEF Base, Current
<1>3. \A device \in Device :
        /\ DOMAIN Accepted(device)' \subseteq DOMAIN Accepted(device)
        /\ \A k \in DOMAIN Accepted(device)' : Accepted(device)'[k] = Accepted(device)[k]
        /\ DOMAIN Accepted(device) = 1 .. Len(Accepted(device))
        /\ Len(Accepted(device)) \in Nat
        /\ DOMAIN Accepted(device)' = 1 .. Len(Accepted(device)')
        /\ Len(Accepted(device)') \in Nat
  <2> SUFFICES ASSUME NEW device \in Device
      PROVE /\ DOMAIN Accepted(device)' \subseteq DOMAIN Accepted(device)
            /\ \A k \in DOMAIN Accepted(device)' : Accepted(device)'[k] = Accepted(device)[k]
            /\ DOMAIN Accepted(device) = 1 .. Len(Accepted(device))
            /\ Len(Accepted(device)) \in Nat
            /\ DOMAIN Accepted(device)' = 1 .. Len(Accepted(device)')
            /\ Len(Accepted(device)') \in Nat
    OBVIOUS
  <2>1. CASE device = lost
    <3>1. Accepted(device)' = ledger[device] /\ ledger[device] \in Seq(Transaction)
      BY <2>1, DropEffect DEF IInv, TypeOK
    <3>2. DOMAIN ledger[device] = 1 .. Len(ledger[device]) /\ Len(ledger[device]) \in Nat
      BY <3>1
    <3> QED
      BY <3>1, <3>2, AcceptedType DEF IInv
  <2>2. CASE device # lost
    BY <2>2, DropEffect, AcceptedType DEF IInv
  <2> QED
    BY <2>1, <2>2
<1>4. \A device \in Device : ToSet(Accepted(device)') \subseteq ToSet(Accepted(device))
  BY <1>3 DEF ToSet
<1>5. \A device \in Device : Known(device)' \subseteq Known(device)
  BY <1>1, <1>4 DEF Known
<1>6. Counting' /\ Finish'
  BY <1>1, <1>2 DEF IInv, Counting, Finish
<1>7. Numbering'
  BY <1>1, <1>2, <1>3, <1>5 DEF IInv, Numbering
<1>8. NoLoss'
  BY <1>1 DEF NoLoss
<1>9. Paced'
  BY <1>1, <1>5 DEF IInv, Paced
<1>10. Undisturbed'
  <2> SUFFICES ASSUME staleLoads = 0 /\ disturbances = 0 /\ restarts = 0 PROVE Undisturbed'
    BY <1>1 DEF Undisturbed
  <2>1. \A tx \in transit : /\ tx.device \in Device
                            /\ tx \notin ToSet(Accepted(tx.device)')
    BY <1>4 DEF IInv, TypeOK, Transaction, Undisturbed
  <2>2. \A device \in Device : \A k \in DOMAIN Accepted(device)' :
          k > Base(device) => Accepted(device)'[k].round = round
    BY <1>3 DEF IInv, Undisturbed
  <2>3. \A device \in Device : \A k \in DOMAIN Accepted(device)' :
          Accepted(device)'[k].index > 0 =>
            \E i \in 1 .. k - 1 :
              /\ Accepted(device)'[i].round = Accepted(device)'[k].round
              /\ Accepted(device)'[i].index = Accepted(device)'[k].index - 1
    <3> SUFFICES ASSUME NEW device \in Device, NEW k \in DOMAIN Accepted(device)',
                        Accepted(device)'[k].index > 0
                 PROVE  \E i \in 1 .. k - 1 :
                          /\ Accepted(device)'[i].round = Accepted(device)'[k].round
                          /\ Accepted(device)'[i].index = Accepted(device)'[k].index - 1
      OBVIOUS
    <3>1. PICK i \in 1 .. k - 1 :
                 /\ Accepted(device)[i].round = Accepted(device)[k].round
                 /\ Accepted(device)[i].index = Accepted(device)[k].index - 1
      BY <1>3 DEF IInv, Undisturbed
    <3>2. i \in DOMAIN Accepted(device)'
      BY <1>3
    <3> QED
      BY <1>3, <3>1, <3>2
  <2> QED
    BY <1>1, <1>2, <2>1, <2>2, <2>3 DEF IInv, Undisturbed
<1> QED
  BY <1>6, <1>7, <1>8, <1>9, <1>10 DEF Parts

\* A ledger closes, Horizon learns of it, and answers.
LEMMA LedgerKeeps ==
  ASSUME IInv, NEW actor \in Device, Apply(actor) \/ Ingest(actor) \/ HorizonAnswers(actor)
  PROVE  Parts'
<1>1. /\ UNCHANGED <<sendTxTo, process, round, canceled, pc, index, account, request,
                     transit, disturbances, staleLoads, losses, restarts>>
  BY DEF Apply, Ingest, HorizonAnswers, goroutines, network, counters
<1>2. \A device : Base(device)' = Base(device) /\ Current(device)' = Current(device)
  BY <1>1 DEF Base, Current
<1>3. \A device \in Device :
        /\ Accepted(device)' = Accepted(device)
        /\ Len(ledger[device]) \in Nat /\ Len(ledger'[device]) \in Nat
        /\ Len(ledger[device]) <= Len(ledger'[device])
        /\ ToSet(ledger[device]) \subseteq ToSet(ledger'[device])
  <2>1. CASE Apply(actor)
    <3>1. TypeOK'
      BY <2>1, TypeStep DEF IInv, Next
    <3>2. ledger \in [Device -> Seq(Transaction)] /\ ledger' \in [Device -> Seq(Transaction)]
      BY <3>1 DEF IInv, TypeOK
    <3>3. \A device \in Device : Len(ledger[device]) \in Nat /\ Len(ledger'[device]) \in Nat
      BY <3>2
    <3> QED
      BY <2>1, <3>3, ApplyEffect DEF IInv
  <2>2. CASE Ingest(actor) \/ HorizonAnswers(actor)
    <3>1. ledger' = ledger /\ pending' = pending
      BY <2>2 DEF Ingest, HorizonAnswers, network
    <3> QED
      BY <3>1 DEF Accepted, IInv, TypeOK
  <2> QED
    BY <2>1, <2>2
<1>4. \A device \in Device : Known(device)' = Known(device)
  BY <1>1, <1>3 DEF Known
<1>5. \A device \in Device : horizon'[device] <= Len(ledger'[device])
  <2>1. CASE Ingest(actor)
    BY <2>1, <1>3 DEF Ingest, IInv, TypeOK, Counting
  <2>2. CASE Apply(actor) \/ HorizonAnswers(actor)
    <3>1. horizon' = horizon
      BY <2>2 DEF Apply, HorizonAnswers, network
    <3>2. \A device \in Device : horizon[device] <= Len(ledger[device])
      BY DEF IInv, Counting
    <3>3. horizon \in [Device -> Nat]
      BY DEF IInv, TypeOK
    <3> QED
      BY <1>3, <3>1, <3>2, <3>3
  <2> QED
    BY <2>1, <2>2
<1>6. \A device \in Device :
        \/ answer'[device] = answer[device]
        \/ answer[device] = "none" /\ request[device] \in ToSet(ledger[device])
  BY DEF Apply, Ingest, HorizonAnswers, goroutines, IInv, TypeOK
<1>7. \A device \in Device : ToSet(ledger[device]) \subseteq ToSet(Accepted(device))
  <2> SUFFICES ASSUME NEW device \in Device, NEW tx \in ToSet(ledger[device])
               PROVE  tx \in ToSet(Accepted(device))
    OBVIOUS
  <2>1. ledger[device] \in Seq(Transaction)
    BY DEF IInv, TypeOK
  <2>2. PICK k \in 1 .. Len(ledger[device]) : ledger[device][k] = tx
    BY <2>1, Members
  <2>3. k \in 1 .. Len(Accepted(device)) /\ Accepted(device)[k] = tx
    BY <2>2, AcceptedType DEF IInv
  <2> QED
    BY <2>3, AcceptedType, Members DEF IInv
<1>8. Counting' /\ Finish'
  BY <1>1, <1>2, <1>3, <1>5 DEF IInv, Counting, Finish
<1>9. Numbering'
  BY <1>1, <1>2, <1>3, <1>4 DEF IInv, Numbering
<1>10. NoLoss'
  BY <1>1, <1>3, <1>6, <1>7 DEF IInv, NoLoss
<1>11. Paced'
  <2> SUFFICES ASSUME sendTxTo = "horizon", NEW device \in Device
               PROVE  /\ pc[device] = "await" /\ answer'[device] = "ok" =>
                           request[device] \in ToSet(ledger'[device])
                      /\ \A i \in 0 .. index[device] - 1 : \E log \in ToSet(ledger'[device]) :
                           log.round = round /\ log.index = i
                      /\ \A tx \in Known(device) : tx.index > 0 =>
                           \E log \in ToSet(ledger'[device]) :
                             log.round = tx.round /\ log.index = tx.index - 1
    BY <1>1, <1>4 DEF Paced
  <2>1. ToSet(ledger[device]) \subseteq ToSet(ledger'[device])
    BY <1>3
  <2>2. pc[device] = "await" /\ answer'[device] = "ok" =>
          request[device] \in ToSet(ledger[device])
    BY <1>6 DEF IInv, Paced
  <2> QED
    BY <2>1, <2>2 DEF IInv, Paced
<1>12. Undisturbed'
  <2> SUFFICES ASSUME staleLoads = 0 /\ disturbances = 0 /\ restarts = 0 PROVE Undisturbed'
    BY <1>1 DEF Undisturbed
  <2>1. \A tx \in transit : tx.device \in Device /\ answer'[tx.device] = answer[tx.device]
    BY <1>6, <1>7 DEF IInv, TypeOK, Transaction, Undisturbed
  <2> QED
    BY <1>1, <1>2, <1>3, <2>1 DEF IInv, Undisturbed
<1> QED
  BY <1>8, <1>9, <1>10, <1>11, <1>12 DEF Parts

-----------------------------------------------------------------------------
(***************************************************************************)
(* The theorems.                                                           *)
(***************************************************************************)

\* A generator that has just been started satisfies the invariant.
LEMMA IInvInit == Init => IInv
<1> SUFFICES ASSUME Init PROVE IInv
  OBVIOUS
<1>1. TypeOK
  <2>1. <<>> \in Seq(Transaction)
    OBVIOUS
  <2>2. /\ 0 \in 0 .. MaxDisturbances /\ 0 \in 0 .. MaxStaleLoads /\ 0 \in 0 .. MaxLosses
        /\ 0 \in 0 .. MaxRestarts /\ 0 \in 0 .. LogsNumber
    BY LogsNumberAssumption, BoundsAssumption
  <2>3. canceled \in BOOLEAN
    BY Zenon DEF Init
  <2>4. /\ request \in [Device -> Transaction \cup {<<>>}] /\ transit \subseteq Transaction
        /\ index \in [Device -> 0 .. LogsNumber] /\ account \in [Device -> Nat]
        /\ horizon \in [Device -> Nat]
        /\ pending \in [Device -> Seq(Transaction)] /\ ledger \in [Device -> Seq(Transaction)]
    BY <2>1, <2>2 DEF Init
  <2>5. /\ sendTxTo \in SendTxTo /\ round \in Nat \ {0}
        /\ process \in {"running", "sleeping", "finished", "killed"}
        /\ pc \in [Device -> {"loop", "send", "await", "exited"}]
        /\ answer \in [Device -> {"none", "ok", "error"}]
        /\ disturbances \in 0 .. MaxDisturbances /\ staleLoads \in 0 .. MaxStaleLoads
        /\ losses \in 0 .. MaxLosses /\ restarts \in 0 .. MaxRestarts
    BY <2>2 DEF Init
  <2> QED
    BY <2>3, <2>4, <2>5 DEF TypeOK
<1>2. \A device \in Device : /\ request[device] = <<>> /\ ledger[device] = <<>>
                             /\ Accepted(device) = <<>> /\ Known(device) = {}
                             /\ pc[device] = "loop" /\ index[device] = 0
                             /\ account[device] = 0 /\ horizon[device] = 0
  <2>1. \A device \in Device : Accepted(device) = <<>>
    BY DEF Init, Accepted
  <2>2. ToSet(<<>>) = {}
    BY DEF ToSet
  <2> QED
    BY <2>1, <2>2 DEF Init, Known
<1>3. \A device \in Device : ~Current(device) /\ Base(device) = 0
  BY <1>2, NoRequest DEF Current, Base
<1>4. Counting
  <2>1. \A device \in Device : Len(ledger[device]) = 0 /\ request[device] \notin Transaction
    BY <1>2, NoRequest
  <2> QED
    BY <1>2, <1>3, <2>1 DEF Counting
<1>5. \A device \in Device : DOMAIN Accepted(device) = {} /\ Len(Accepted(device)) = 0
  BY <1>2
<1>6. Finish /\ Numbering /\ NoLoss /\ Paced /\ Undisturbed
  BY <1>2, <1>5 DEF Init, Finish, Numbering, NoLoss, Paced, Undisturbed
<1> QED
  BY <1>1, <1>4, <1>6 DEF IInv

\* A stuttering step keeps it.
LEMMA StutterKeeps ==
  ASSUME IInv, UNCHANGED vars
  PROVE  Parts'
<1>1. \A device : /\ Accepted(device)' = Accepted(device)
                  /\ Known(device)' = Known(device)
                  /\ Current(device)' = Current(device)
                  /\ Base(device)' = Base(device)
  BY DEF vars, goroutines, network, Accepted, Known, Current, Base
<1> QED
  BY <1>1 DEF IInv, Parts, Counting, Finish, Numbering, NoLoss, Paced, Undisturbed, vars,
              goroutines, network, counters

\* Every step of the generator, of core and of Horizon keeps it.
LEMMA IInvStep == IInv /\ [Next]_vars => IInv'
<1> SUFFICES ASSUME IInv, [Next]_vars PROVE Parts'
  BY TypeStep DEF IInv, Parts
<1>1. CASE \E device \in Device : Goroutine(device)
  BY <1>1, NextLogKeeps, SendKeeps, SuccessKeeps, CancelKeeps, ProcessKeeps DEF Goroutine
<1>2. CASE \E device \in Device : Timeout(device) \/ Retransmit(device) \/ Fatal(device)
  BY <1>2, CancelKeeps, RetransmitKeeps, ProcessKeeps
<1>3. CASE RoundEnds \/ LoadFails
  BY <1>3, ProcessKeeps
<1>4. CASE Reload \/ Restart
  BY <1>4, RoundKeeps
<1>5. CASE \E tx \in transit : Receive(tx)
  BY <1>5, ReceiveKeeps
<1>6. CASE \E device \in Device : Drop(device) \/ Apply(device) \/ HorizonAnswers(device)
                                   \/ Ingest(device)
  BY <1>6, DropKeeps, LedgerKeeps
<1>7. CASE UNCHANGED vars
  BY <1>7, StutterKeeps
<1> QED
  BY <1>1, <1>2, <1>3, <1>4, <1>5, <1>6, <1>7 DEF Next

\* The inductive invariant, for any devices, logs, disturbances and losses.
THEOREM Invariance == Spec => []IInv
BY IInvInit, IInvStep, PTL DEF Spec

\* The types of the generator's variables (main.go:33-57, generator.go:93-187).
THEOREM TypeCorrect == Spec => []TypeOK
<1>1. IInv => TypeOK
  BY DEF IInv
<1> QED
  BY <1>1, Invariance, PTL

\* No log of a device comes behind one that was taken later, however late requests
\* of earlier rounds arrive (generator.go:130, main.go:54).
THEOREM OrderCorrect == Spec => []LogsInOrder
<1>1. ASSUME IInv PROVE LogsInOrder
  <2> SUFFICES ASSUME losses = 0, NEW device \in Device,
                      NEW j \in DOMAIN Accepted(device), NEW k \in DOMAIN Accepted(device),
                      j < k
               PROVE  LET earlier == Accepted(device)[j]
                          later == Accepted(device)[k]
                      IN  \/ earlier.round < later.round
                          \/ earlier.round = later.round /\ earlier.index < later.index
    BY DEF LogsInOrder
  <2>1. j \in Nat /\ k \in Nat
    BY <1>1, AcceptedType DEF IInv
  <2>2. Accepted(device)[j] \in Known(device) /\ Accepted(device)[k] \in Known(device)
    BY <1>1, AcceptedType, Members DEF IInv, Known
  <2>3. Accepted(device)[j].round <= Accepted(device)[k].round
    BY <1>1, <2>1 DEF IInv, NoLoss
  <2>4. Accepted(device)[j].seq = j /\ Accepted(device)[k].seq = k
    BY <1>1 DEF IInv, Numbering
  <2>5. Accepted(device)[j].round = Accepted(device)[k].round =>
          j - Accepted(device)[j].index = k - Accepted(device)[k].index
    BY <1>1, <2>2, <2>4 DEF IInv, Numbering
  <2> QED
    BY <1>1, <2>1, <2>2, <2>3, <2>5, KnownType DEF IInv
<1> QED
  BY <1>1, Invariance, PTL

\* A log that was reported as sent is in the ledger or on its way there
\* (generator.go:141-143).
THEOREM ReportedCorrect == Spec => []ReportedMeansAccepted
<1>1. IInv => ReportedMeansAccepted
  BY DEF IInv, NoLoss, ReportedMeansAccepted
<1> QED
  BY <1>1, Invariance, PTL

\* When the generator says that all was sent (main.go:48), core has exactly the logs
\* of the last round: they stand one behind the other from where the round began.
THEOREM SuccessCorrect == Spec => []SuccessMeansAllSent
<1>1. ASSUME IInv PROVE SuccessMeansAllSent
  <2> SUFFICES ASSUME process = "finished", losses = 0, NEW device \in Device
               PROVE  LogsNumber = Cardinality({k \in DOMAIN Accepted(device) :
                                                  Accepted(device)[k].round = round})
    BY DEF SuccessMeansAllSent
  <2> DEFINE base == Base(device)
             Sent == {k \in DOMAIN Accepted(device) : Accepted(device)[k].round = round}
  <2>1. index[device] = LogsNumber /\ LogsNumber \in Nat /\ base \in Nat
    BY <1>1, LogsNumberAssumption DEF IInv, Finish, Counting
  <2>2. \A k \in Sent : /\ k = base + Accepted(device)[k].index + 1
                        /\ Accepted(device)[k].index \in 0 .. LogsNumber - 1
    <3> SUFFICES ASSUME NEW k \in Sent
                 PROVE  /\ k = base + Accepted(device)[k].index + 1
                        /\ Accepted(device)[k].index \in 0 .. LogsNumber - 1
      OBVIOUS
    <3>1. Accepted(device)[k] \in Known(device)
      BY <1>1, AcceptedType, Members DEF IInv, Known
    <3>2. Accepted(device)[k].index \in Nat
      BY <1>1, <3>1, KnownType DEF IInv
    <3> QED
      BY <1>1, <2>1, <3>1, <3>2 DEF IInv, Numbering
  <2>3. \A i \in 0 .. LogsNumber - 1 : base + i + 1 \in Sent
    <3> SUFFICES ASSUME NEW i \in 0 .. LogsNumber - 1 PROVE base + i + 1 \in Sent
      OBVIOUS
    <3>1. PICK k \in DOMAIN Accepted(device) :
                 Accepted(device)[k].round = round /\ Accepted(device)[k].index = i
      BY <1>1, <2>1 DEF IInv, NoLoss
    <3> QED
      BY <2>2, <3>1
  <2> HIDE DEF base, Sent
  <2>4. Sent = base + 1 .. base + LogsNumber
    <3>1. \A k \in Sent : k \in base + 1 .. base + LogsNumber
      BY <2>1, <2>2
    <3>2. \A k \in base + 1 .. base + LogsNumber : k \in Sent
      <4> SUFFICES ASSUME NEW k \in base + 1 .. base + LogsNumber PROVE k \in Sent
        OBVIOUS
      <4>1. k - base - 1 \in 0 .. LogsNumber - 1 /\ base + (k - base - 1) + 1 = k
        BY <2>1
      <4> QED
        BY <2>3, <4>1
    <3> QED
      BY <3>1, <3>2
  <2>5. Cardinality(base + 1 .. base + LogsNumber) = LogsNumber
    <3>1. base + 1 \in Int /\ base + LogsNumber \in Int
      BY <2>1
    <3>2. Cardinality(base + 1 .. base + LogsNumber)
            = IF base + 1 > base + LogsNumber THEN 0
              ELSE (base + LogsNumber) - (base + 1) + 1
      BY <3>1, FS_Interval
    <3> QED
      BY <2>1, <3>2
  <2> QED
    BY <2>4, <2>5 DEF Sent
<1> QED
  BY <1>1, Invariance, PTL

\* Without a late request a lost log leaves no hole behind it (generator.go:141).
THEOREM NoGapCorrect == Spec => []LossesLeaveNoGap
<1>1. IInv => LossesLeaveNoGap
  BY DEF IInv, Undisturbed, LossesLeaveNoGap
<1> QED
  BY <1>1, Invariance, PTL

\* Sending to Horizon, a reported log is in the ledger and no log is taken in without
\* the one before it, whatever core drops and whenever the generator is killed and
\* started again (generator.go:88).
THEOREM HorizonPaceCorrect == Spec => []HorizonKeepsPace
<1>1. ASSUME IInv PROVE HorizonKeepsPace
  <2> SUFFICES ASSUME sendTxTo = "horizon", NEW device \in Device,
                      NEW j \in DOMAIN Accepted(device), Accepted(device)[j].index > 0
               PROVE  \E i \in 1 .. j - 1 :
                        /\ Accepted(device)[i].round = Accepted(device)[j].round
                        /\ Accepted(device)[i].index = Accepted(device)[j].index - 1
    BY <1>1 DEF HorizonKeepsPace, IInv, Paced
  <2>1. Accepted(device)[j] \in Known(device) /\ j \in Nat
    BY <1>1, AcceptedType, Members DEF IInv, Known
  <2>2. PICK log \in ToSet(ledger[device]) :
               /\ log.round = Accepted(device)[j].round
               /\ log.index = Accepted(device)[j].index - 1
    BY <1>1, <2>1 DEF IInv, Paced
  <2>3. PICK i \in 1 .. Len(ledger[device]) : ledger[device][i] = log
    <3>1. ledger[device] \in Seq(Transaction)
      BY <1>1 DEF IInv, TypeOK
    <3> QED
      BY <2>2, <3>1, Members
  <2>4. i \in DOMAIN Accepted(device) /\ Accepted(device)[i] = log /\ i \in Nat /\ i > 0
    BY <1>1, <2>3, AcceptedType DEF IInv
  <2>5. log \in Known(device)
    BY <1>1, <2>4, AcceptedType, Members DEF IInv, Known
  <2>6. log.seq = i /\ Accepted(device)[j].seq = j
    BY <1>1, <2>4 DEF IInv, Numbering
  <2>7. log.seq - log.index = Accepted(device)[j].seq - Accepted(device)[j].index
    BY <1>1, <2>1, <2>2, <2>5 DEF IInv, Numbering
  <2>8. log.index \in Nat /\ Accepted(device)[j].index \in Nat
    BY <1>1, <2>1, <2>5, KnownType DEF IInv
  <2>9. i = j - 1
    BY <2>1, <2>2, <2>4, <2>6, <2>7, <2>8
  <2> QED
    BY <2>1, <2>2, <2>4, <2>9
<1> QED
  BY <1>1, Invariance, PTL
=============================================================================
