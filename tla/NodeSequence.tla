---------------------------- MODULE NodeSequence ----------------------------
(***************************************************************************)
(* generator-nodejs at work: the pool of WorkerPool composed with          *)
(* stellar-core.  index.ts counts the sequence number of each device and   *)
(* hands its logs in one round after the other; which worker sends a log,  *)
(* and when, is up to the pool.  sendTxTask.js does not look at the answer *)
(* of core, so a transaction that arrives ahead of its turn is refused     *)
(* without anybody noticing, and so are those that follow it.              *)
(***************************************************************************)
EXTENDS WorkerPool

CONSTANTS
    NumDevices      \* NO_DEVICES

\* totalTasks is logsNumber * params.length.
ASSUME NumDevicesAssumption == NumDevices \in Nat \ {0} /\ Total % NumDevices = 0

VARIABLES
    underWay,       \* tasks whose request core has not answered
    accepted,       \* how many logs of a device core has taken in
    troubled        \* history: devices whose logs overlapped or were lost on the way

nodeVars == <<vars, underWay, accepted, troubled>>

Device == 1 .. NumDevices

\* What the loops of index.ts:150-166 put into a task: a log of each device in
\* turn, with the next sequence number of the device.
DeviceOf(task) == ((task - 1) % NumDevices) + 1
AccountSeq(task) == ((task - 1) \div NumDevices) + 1

NodeInit ==
    /\ Init
    /\ underWay = {}
    /\ accepted = [device \in Device |-> 0]
    /\ troubled = {}

\* The pool hands out tasks.  A thread sends the request of its task at once; a
\* thread that has died unnoticed is handed tasks too, and sends nothing.
HandOut ==
    /\ runTask \/ onMessage \/ onError \/ onErrorWhenFree
    /\ LET given(threads) ==
             {taskInfo'[w] : w \in {v \in Worker : /\ taskInfo'[v] \notin {taskInfo[v], null}
                                                /\ thread[v] \in threads}}
           after == underWay \cup given({"idle", "busy"})
           overlap == {t \in after : \E u \in after \ {t} : DeviceOf(u) = DeviceOf(t)}
       IN  /\ underWay' = after
           /\ troubled' = troubled \cup {DeviceOf(t) : t \in overlap \cup given({"dead"})}
    /\ UNCHANGED accepted

\* Core takes in the transaction with the next sequence number and refuses any
\* other.
Answer(task) ==
    /\ ~exited
    /\ underWay' = underWay \ {task}
    /\ accepted' = [accepted EXCEPT ![DeviceOf(task)] =
                      IF AccountSeq(task) = @ + 1 THEN @ + 1 ELSE @]
    /\ UNCHANGED <<vars, troubled>>

\* fetch answers, or its promise is rejected before core has (sendTxTask.js tells
\* the pool the one as well as the other), or the thread dies.  The request may
\* then be lost, and may also arrive later.
Settle(worker) ==
    /\ Work(worker) \/ Crash(worker)
    /\ troubled' = troubled \cup {DeviceOf(task) : task \in {taskInfo[worker]} \cap underWay}
    /\ UNCHANGED <<underWay, accepted>>

NodeNext ==
    \/ HandOut
    \/ \E task \in underWay : Answer(task)
    \/ \E worker \in Worker : Settle(worker)

(***************************************************************************)
(* The loop of index.ts and the event loop go on, and every request of     *)
(* sendTxTask.js is answered or fails: fetch has no timeout of its own.    *)
(* Nothing makes a thread die.                                             *)
(***************************************************************************)
NodeSpec ==
    /\ NodeInit /\ [][NodeNext]_nodeVars
    /\ WF_nodeVars(HandOut)
    /\ \A worker \in Worker : WF_nodeVars(Work(worker) /\ Settle(worker))

-----------------------------------------------------------------------------
\* A device loses a log only if two of its requests were under way at the same
\* time (index.ts:155 hands them to different workers), a request failed or a
\* thread died.  As long as none of this happens the pool keeps the logs of the
\* device in order, however many of them wait, and core has taken in every one
\* the pool has settled.
UntroubledDevicesLoseNothing ==
    \A task \in Task :
      callbacks[task] > 0 /\ DeviceOf(task) \notin troubled
        => AccountSeq(task) <= accepted[DeviceOf(task)]
=============================================================================
