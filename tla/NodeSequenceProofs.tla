------------------------- MODULE NodeSequenceProofs -------------------------
(***************************************************************************)
(* The pool of WorkerPool for any number of threads, tasks and deaths; and *)
(* the pool at work in NodeSequence: what holds of the pool alone holds of *)
(* it whatever core answers and in whatever order, and core keeps up with  *)
(* the devices nothing goes wrong with.                                    *)
(***************************************************************************)
EXTENDS NodeSequence, FiniteSetTheorems, FunctionTheorems, SequenceTheorems, TLAPS

-----------------------------------------------------------------------------
(***************************************************************************)
(* The inductive invariant.                                                *)
(***************************************************************************)

\* A dead worker stays in the pool until its error event is handled; then the next
\* number takes its place.
Dead == {worker \in Worker : thread[worker] = "dead"}
Crew ==
  /\ Cardinality(workers) = NumThreads
  /\ created = NumThreads + Cardinality(Dead \ workers)
  /\ Cardinality(Dead) <= MaxCrashes
  /\ \A worker \in Worker :
       worker > created => thread[worker] = "idle" /\ taskInfo[worker] = null

\* The stack holds the workers without a task, and no task waits while there is one.
Stack ==
  /\ \A i, j \in DOMAIN freeWorkers : freeWorkers[i] = freeWorkers[j] => i = j
  /\ \A worker \in Worker :
       (\E i \in DOMAIN freeWorkers : freeWorkers[i] = worker)
         <=> worker \in workers /\ taskInfo[worker] = null
  /\ listeners = <<>> \/ freeWorkers = <<>>

\* The events of a worker are a message, then an error, or one of the two.
Mail ==
  /\ \A worker \in Worker :
       thread[worker] = "busy" => worker \in workers /\ taskInfo[worker] # null
  /\ \A i \in DOMAIN events :
       LET worker == events[i].worker
       IN  /\ worker \in workers
           /\ events[i].kind = "message" => taskInfo[worker] # null /\ thread[worker] # "busy"
           /\ events[i].kind = "error" => thread[worker] = "dead"
  /\ \A i, j \in DOMAIN events :
       i < j /\ events[i].worker = events[j].worker
         => events[i].kind = "message" /\ events[j].kind = "error"

\* A task that was handed in waits, has one worker, or is settled.
Tasks ==
  /\ \A v, w \in workers : taskInfo[v] = taskInfo[w] /\ taskInfo[v] # null => v = w
  /\ \A w \in workers : taskInfo[w] # null =>
       /\ taskInfo[w] <= handedIn
       /\ callbacks[taskInfo[w]] = 0
       /\ \A i \in DOMAIN listeners : listeners[i] # taskInfo[w]
  /\ \A i \in DOMAIN listeners : listeners[i] <= handedIn /\ callbacks[listeners[i]] = 0
  /\ \A i, j \in DOMAIN listeners : listeners[i] = listeners[j] => i = j
  /\ \A task \in Task : task > handedIn => callbacks[task] = 0

Settled == {task \in Task : callbacks[task] > 0}
Count ==
  /\ callbacks \in [Task -> {0, 1}]
  /\ finished = Cardinality(Settled)
  /\ closed => Settled = Task

IInv == TypeOK /\ Crew /\ Stack /\ Mail /\ Tasks /\ Count

-----------------------------------------------------------------------------
(***************************************************************************)
(* What a freed worker does to the tasks that wait.                        *)
(***************************************************************************)
State == {"idle", "busy", "dead"}
Event == [kind : {"message", "error"}, worker : Worker]

\* With no listener, a freed worker stays on the stack.
LEMMA NoTaskWaits ==
  ASSUME NEW free \in Seq(Worker), NEW info \in [Worker -> Task \cup {null}],
         NEW threads \in [Worker -> State], runTasks(<<>>, free, info, threads)
  PROVE  /\ freeWorkers' = free /\ listeners' = <<>>
         /\ taskInfo' = info /\ thread' = threads
<1>1. Len(<<>>) = 0 /\ Len(free) \in Nat
  OBVIOUS
<1>2. (IF Len(<<>>) < Len(free) THEN Len(<<>>) ELSE Len(free)) = 0
  BY <1>1
<1>3. ToSet(SubSeq(Reverse(free), 1, 0)) = {}
  BY DEF ToSet
<1>4. /\ freeWorkers' = SubSeq(free, 1, Len(free) - 0)
      /\ listeners' = SubSeq(<<>>, 1, 0)
      /\ taskInfo' = [worker \in Worker |-> info[worker]]
      /\ thread' = [worker \in Worker |-> threads[worker]]
  BY <1>1, <1>2, <1>3 DEF runTasks
<1>5. SubSeq(free, 1, Len(free) - 0) = free /\ SubSeq(<<>>, 1, 0) = <<>>
  BY <1>1
<1> QED
  BY <1>4, <1>5

\* With one worker free, the first listener gets it and the others wait on.
LEMMA OneTaskStarts ==
  ASSUME NEW queue \in Seq(Task), queue # <<>>, NEW worker \in Worker,
         NEW info \in [Worker -> Task \cup {null}],
         NEW threads \in [Worker -> State], runTasks(queue, <<worker>>, info, threads)
  PROVE  /\ freeWorkers' = <<>> /\ listeners' = Tail(queue)
         /\ taskInfo' = [info EXCEPT ![worker] = Head(queue)]
         /\ thread' = [threads EXCEPT ![worker] = IF @ = "idle" THEN "busy" ELSE @]
<1> DEFINE n == IF Len(queue) < Len(<<worker>>) THEN Len(queue) ELSE Len(<<worker>>)
           popped == SubSeq(Reverse(<<worker>>), 1, n)
           starts(w) == w \in ToSet(popped)
           first(w) == CHOOSE i \in 1 .. n : popped[i] = w
<1>1. Len(queue) \in Nat \ {0} /\ Len(<<worker>>) = 1 /\ n = 1
  OBVIOUS
<1>2. /\ freeWorkers' = SubSeq(<<worker>>, 1, Len(<<worker>>) - n)
      /\ listeners' = SubSeq(queue, n + 1, Len(queue))
      /\ taskInfo' = [w \in Worker |-> IF starts(w) THEN queue[first(w)] ELSE info[w]]
      /\ thread' = [w \in Worker |-> IF starts(w) /\ threads[w] = "idle" THEN "busy"
                                                                        ELSE threads[w]]
  BY Zenon DEF runTasks
<1>3. DOMAIN popped = 1 .. 1 /\ popped[1] = worker
  <2>1. Reverse(<<worker>>)[1] = worker
    BY DEF Reverse
  <2>2. /\ popped \in Seq(Worker)
        /\ Len(popped) = 1
        /\ popped[1] = Reverse(<<worker>>)[1]
    <3>1. \A i \in 1 .. n : Reverse(<<worker>>)[i] \in Worker
      BY <1>1, <2>1
    <3> HIDE DEF n
    <3> QED
      BY <1>1, <3>1, SubSeqProperties
  <2> QED
    BY <2>1, <2>2
<1>4. ToSet(popped) = {worker}
  <2> HIDE DEF n, popped
  <2> QED
    BY <1>3 DEF ToSet
<1>5. first(worker) = 1
  <2> HIDE DEF n, popped
  <2> QED
    BY <1>1, <1>3
<1>6. freeWorkers' = <<>> /\ listeners' = Tail(queue)
  <2> HIDE DEF n, popped
  <2>1. freeWorkers' = SubSeq(<<worker>>, 1, 0) /\ listeners' = SubSeq(queue, 2, Len(queue))
    BY <1>1, <1>2
  <2> QED
    BY <2>1, <1>1
<1>7. taskInfo' = [info EXCEPT ![worker] = Head(queue)]
  <2> HIDE DEF n, popped, first
  <2>1. queue[first(worker)] = Head(queue)
    BY <1>1, <1>5
  <2> QED
    BY <1>2, <1>4, <2>1
<1>8. thread' = [threads EXCEPT ![worker] = IF @ = "idle" THEN "busy" ELSE @]
  <2> HIDE DEF n, popped, first
  <2> QED
    BY <1>2, <1>4
<1> QED
  BY <1>6, <1>7, <1>8

-----------------------------------------------------------------------------
(***************************************************************************)
(* The sets the invariant counts.                                          *)
(***************************************************************************)

\* Workers and tasks are finitely many, and so are the dead and the settled ones.
LEMMA SetsAreFinite ==
  ASSUME TypeOK
  PROVE  /\ IsFiniteSet(Worker) /\ IsFiniteSet(workers)
         /\ IsFiniteSet(Dead) /\ IsFiniteSet(Dead \ workers)
         /\ IsFiniteSet(Task) /\ Cardinality(Task) = Total /\ IsFiniteSet(Settled)
<1>1. IsFiniteSet(Worker)
  BY FS_Interval, NumThreadsAssumption, MaxCrashesAssumption DEF Worker
<1>2. IsFiniteSet(1 .. created)
  BY FS_Interval, NumThreadsAssumption, MaxCrashesAssumption DEF TypeOK
<1>3. IsFiniteSet(workers)
  BY <1>2, FS_Subset DEF TypeOK
<1>4. IsFiniteSet(Dead) /\ IsFiniteSet(Dead \ workers)
  <2>1. Dead \subseteq Worker /\ Dead \ workers \subseteq Worker
    BY DEF Dead
  <2> QED
    BY <1>1, <2>1, FS_Subset
<1>5. IsFiniteSet(Task) /\ Cardinality(Task) = Total
  BY FS_Interval, TotalAssumption DEF Task
<1>6. IsFiniteSet(Settled)
  <2>1. Settled \subseteq Task
    BY DEF Settled
  <2> QED
    BY <1>5, <2>1, FS_Subset
<1> QED
  BY <1>1, <1>3, <1>4, <1>5, <1>6

\* There is a number left for the worker that takes the place of a dead one.
LEMMA ReplacementExists ==
  ASSUME TypeOK, Crew, NEW worker \in Dead \cap workers
  PROVE  created + 1 \in Worker
<1>1. Cardinality(Dead \ workers) < Cardinality(Dead)
  <2>1. Cardinality(Dead \ {worker}) = Cardinality(Dead) - 1
    BY SetsAreFinite, FS_RemoveElement
  <2>2. /\ Dead \ workers \subseteq Dead \ {worker}
        /\ IsFiniteSet(Dead \ {worker})
    BY SetsAreFinite, FS_RemoveElement
  <2>3. Cardinality(Dead \ workers) <= Cardinality(Dead \ {worker})
    BY <2>2, FS_Subset
  <2>4. Cardinality(Dead) \in Nat /\ Cardinality(Dead \ workers) \in Nat
    BY SetsAreFinite, FS_CardinalityType
  <2> QED
    BY <2>1, <2>3, <2>4
<1>2. Cardinality(Dead) \in Nat /\ Cardinality(Dead \ workers) \in Nat
  BY SetsAreFinite, FS_CardinalityType
<1> QED
  BY <1>1, <1>2, NumThreadsAssumption, MaxCrashesAssumption DEF Crew, Worker

-----------------------------------------------------------------------------
(***************************************************************************)
(* What the handlers of the two events do.                                 *)
(***************************************************************************)

\* A worker that reports its result takes the first listener's task, or is free.
LEMMA MessageEffect ==
  ASSUME IInv, onMessage, NEW worker, worker = Head(events).worker
  PROVE  /\ worker \in workers /\ taskInfo[worker] \in Task
         /\ done(taskInfo[worker])
         /\ events # <<>> /\ events[1].kind = "message" /\ events' = Tail(events)
         /\ UNCHANGED <<handedIn, created, workers, exited>>
         /\ \/ /\ listeners = <<>> /\ listeners' = <<>>
               /\ freeWorkers' = Append(freeWorkers, worker)
               /\ taskInfo' = [taskInfo EXCEPT ![worker] = null]
               /\ thread' = thread
            \/ /\ listeners # <<>> /\ listeners' = Tail(listeners)
               /\ freeWorkers = <<>> /\ freeWorkers' = <<>>
               /\ taskInfo' = [taskInfo EXCEPT ![worker] = Head(listeners)]
               /\ thread' = [thread EXCEPT ![worker] = IF @ = "idle" THEN "busy" ELSE @]
<1> USE DEF IInv
<1>1. /\ events \in Seq(Event)
      /\ freeWorkers \in Seq(Worker) /\ listeners \in Seq(Task)
      /\ taskInfo \in [Worker -> Task \cup {null}] /\ thread \in [Worker -> State]
  BY DEF TypeOK, State, Event
<1>2. /\ events # <<>> /\ Head(events) = events[1] /\ 1 \in DOMAIN events
      /\ events[1].kind = "message" /\ events' = Tail(events)
  BY <1>1 DEF onMessage, Handles
<1>3. worker \in workers /\ worker \in Worker /\ taskInfo[worker] \in Task
  <2>1. events[1] \in Event
    BY <1>1, <1>2
  <2>2. worker \in workers /\ taskInfo[worker] # null
    BY <1>2 DEF Mail
  <2> QED
    BY <1>1, <1>2, <2>1, <2>2 DEF Event
<1>4. /\ done(taskInfo[worker])
      /\ runTasks(listeners, Append(freeWorkers, worker),
                  [taskInfo EXCEPT ![worker] = null], thread)
      /\ UNCHANGED <<handedIn, created, workers, exited>>
  BY DEF onMessage
<1>5. [taskInfo EXCEPT ![worker] = null] \in [Worker -> Task \cup {null}]
  BY <1>1
<1>6. CASE listeners = <<>>
  <2>1. Append(freeWorkers, worker) \in Seq(Worker)
    BY <1>1, <1>3
  <2> QED
    BY <1>1, <1>2, <1>3, <1>4, <1>5, <1>6, <2>1, NoTaskWaits
<1>7. CASE listeners # <<>>
  <2>1. freeWorkers = <<>>
    BY <1>7 DEF Stack
  <2>2. Append(freeWorkers, worker) = <<worker>>
    BY <2>1
  <2>3. /\ freeWorkers' = <<>> /\ listeners' = Tail(listeners)
        /\ taskInfo' = [[taskInfo EXCEPT ![worker] = null] EXCEPT ![worker] = Head(listeners)]
        /\ thread' = [thread EXCEPT ![worker] = IF @ = "idle" THEN "busy" ELSE @]
    <3> DEFINE info == [taskInfo EXCEPT ![worker] = null]
    <3>1. runTasks(listeners, <<worker>>, info, thread)
      BY <1>4, <2>2, Zenon
    <3> HIDE DEF info
    <3>2. info \in [Worker -> Task \cup {null}]
      BY <1>5 DEF info
    <3>3. /\ freeWorkers' = <<>> /\ listeners' = Tail(listeners)
          /\ taskInfo' = [info EXCEPT ![worker] = Head(listeners)]
          /\ thread' = [thread EXCEPT ![worker] = IF @ = "idle" THEN "busy" ELSE @]
      BY <1>1, <1>3, <1>7, <3>1, <3>2, OneTaskStarts, SMTT(60)
    <3> QED
      BY <3>3 DEF info
  <2> QED
    BY <1>1, <1>2, <1>3, <1>4, <1>7, <2>1, <2>3
<1> QED
  BY <1>6, <1>7

\* The worker that replaces a dead one takes the first listener's task, or is free.
LEMMA ErrorEffect ==
  ASSUME IInv, onError, NEW worker, worker = Head(events).worker,
         NEW new, new = created + 1
  PROVE  /\ worker \in workers /\ taskInfo[worker] \in Task /\ thread[worker] = "dead"
         /\ new \in Worker /\ taskInfo[new] = null /\ thread[new] = "idle"
         /\ done(taskInfo[worker])
         /\ events # <<>> /\ events[1].kind = "error" /\ events' = Tail(events)
         /\ created' = new /\ workers' = (workers \ {worker}) \cup {new}
         /\ UNCHANGED <<handedIn, exited>>
         /\ \/ /\ listeners = <<>> /\ listeners' = <<>>
               /\ freeWorkers' = Append(freeWorkers, new)
               /\ taskInfo' = taskInfo /\ thread' = thread
            \/ /\ listeners # <<>> /\ listeners' = Tail(listeners)
               /\ freeWorkers = <<>> /\ freeWorkers' = <<>>
               /\ taskInfo' = [taskInfo EXCEPT ![new] = Head(listeners)]
               /\ thread' = [thread EXCEPT ![new] = "busy"]
<1> USE DEF IInv
<1>1. /\ events \in Seq(Event)
      /\ freeWorkers \in Seq(Worker) /\ listeners \in Seq(Task)
      /\ taskInfo \in [Worker -> Task \cup {null}] /\ thread \in [Worker -> State]
      /\ created \in Nat
  BY NumThreadsAssumption DEF TypeOK, State, Event
<1>2. /\ events # <<>> /\ Head(events) = events[1] /\ 1 \in DOMAIN events
      /\ events[1].kind = "error" /\ events' = Tail(events)
  BY <1>1 DEF onError, Handles
<1>3. /\ worker \in workers /\ worker \in Worker /\ thread[worker] = "dead"
      /\ taskInfo[worker] \in Task
  <2>1. events[1] \in Event
    BY <1>1, <1>2
  <2>2. worker \in workers /\ thread[worker] = "dead"
    BY <1>2 DEF Mail
  <2>3. taskInfo[worker] # null
    BY DEF onError
  <2> QED
    BY <1>1, <1>2, <2>1, <2>2, <2>3 DEF Event
<1>4. new \in Worker /\ taskInfo[new] = null /\ thread[new] = "idle"
  <2>1. worker \in Dead \cap workers
    BY <1>3 DEF Dead
  <2>2. new \in Worker
    BY <2>1, ReplacementExists
  <2>3. new > created
    BY <1>1
  <2> QED
    BY <2>2, <2>3 DEF Crew
<1>5. /\ done(taskInfo[worker])
      /\ created' = new /\ workers' = (workers \ {worker}) \cup {new}
      /\ runTasks(listeners, Append(freeWorkers, new), taskInfo, thread)
      /\ UNCHANGED <<handedIn, exited>>
  BY DEF onError
<1>6. CASE listeners = <<>>
  <2>1. Append(freeWorkers, new) \in Seq(Worker)
    BY <1>1, <1>4
  <2> QED
    BY <1>1, <1>2, <1>3, <1>4, <1>5, <1>6, <2>1, NoTaskWaits
<1>7. CASE listeners # <<>>
  <2>1. freeWorkers = <<>>
    BY <1>7 DEF Stack
  <2>2. Append(freeWorkers, new) = <<new>>
    BY <2>1
  <2>3. /\ freeWorkers' = <<>> /\ listeners' = Tail(listeners)
        /\ taskInfo' = [taskInfo EXCEPT ![new] = Head(listeners)]
        /\ thread' = [thread EXCEPT ![new] = IF @ = "idle" THEN "busy" ELSE @]
    <3>1. runTasks(listeners, <<new>>, taskInfo, thread)
      BY <1>5, <2>2, Zenon
    <3> QED
      BY <1>1, <1>4, <1>7, <3>1, OneTaskStarts, SMTT(30)
  <2> QED
    BY <1>1, <1>2, <1>3, <1>4, <1>5, <1>7, <2>1, <2>3
<1> QED
  BY <1>6, <1>7

-----------------------------------------------------------------------------
(***************************************************************************)
(* Every action keeps the invariant.                                       *)
(***************************************************************************)

\* What the type invariant says, with the names the provers need.
LEMMA Types ==
  ASSUME TypeOK
  PROVE  /\ events \in Seq(Event) /\ freeWorkers \in Seq(Worker) /\ listeners \in Seq(Task)
         /\ taskInfo \in [Worker -> Task \cup {null}] /\ thread \in [Worker -> State]
         /\ created \in Nat /\ handedIn \in Nat /\ finished \in Nat
         /\ workers \subseteq Worker
<1>1. workers \subseteq Worker
  BY NumThreadsAssumption, MaxCrashesAssumption DEF TypeOK, Worker
<1> QED
  BY <1>1, NumThreadsAssumption, MaxCrashesAssumption DEF TypeOK, State, Event

\* The constructor leaves every worker on the stack.
LEMMA InitEstablishesIInv ==
  ASSUME Init
  PROVE  IInv
<1>1. /\ \A worker \in 1 .. NumThreads : worker \in Worker
      /\ freeWorkers \in Seq(Worker) /\ DOMAIN freeWorkers = 1 .. NumThreads
  BY NumThreadsAssumption, MaxCrashesAssumption DEF Init, Worker
<1>2. TypeOK
  <2>1. listeners \in Seq(Task) /\ events \in Seq([kind : {"message", "error"}, worker : Worker])
    BY DEF Init
  <2>2. /\ handedIn \in 0 .. Total /\ finished \in 0 .. Total
        /\ created \in NumThreads .. NumThreads + MaxCrashes
        /\ workers \subseteq 1 .. created
    BY NumThreadsAssumption, MaxCrashesAssumption, TotalAssumption DEF Init
  <2>3. /\ taskInfo \in [Worker -> Task \cup {null}] /\ callbacks \in [Task -> Nat]
        /\ thread \in [Worker -> {"idle", "busy", "dead"}]
        /\ closed \in BOOLEAN /\ exited \in BOOLEAN
    BY DEF Init
  <2> QED
    BY <1>1, <2>1, <2>2, <2>3 DEF TypeOK
<1>3. Crew
  <2>1. Dead = {}
    BY DEF Dead, Init
  <2>2. Cardinality(workers) = NumThreads
    BY FS_Interval, NumThreadsAssumption DEF Init
  <2>3. Cardinality(Dead) = 0 /\ Cardinality(Dead \ workers) = 0
    BY <2>1, FS_EmptySet
  <2> QED
    BY <2>2, <2>3, NumThreadsAssumption, MaxCrashesAssumption DEF Crew, Init
<1>4. Stack
  BY <1>1 DEF Stack, Init
<1>5. Mail
  BY DEF Mail, Init
<1>6. Tasks
  BY <1>1 DEF Tasks, Init
<1>7. Count
  <2>1. Settled = {}
    BY DEF Settled, Init
  <2> QED
    BY <2>1, FS_EmptySet DEF Count, Init
<1> QED
  BY <1>2, <1>3, <1>4, <1>5, <1>6, <1>7 DEF IInv

\* A task handed in gets the worker on top of the stack, or waits.
LEMMA RunTaskKeepsIInv ==
  ASSUME IInv, runTask
  PROVE  IInv'
<1> DEFINE task == handedIn + 1
<1> USE DEF IInv, null
<1>1. /\ task \in Task /\ handedIn' = task
      /\ UNCHANGED <<created, workers, events, callbacks, finished, closed, exited>>
  BY Types, TotalAssumption DEF runTask, Task
<1>2. Count'
  BY <1>1 DEF Count, Settled
<1>3. CASE freeWorkers = <<>>
  <2>1. listeners' = Append(listeners, task) /\ UNCHANGED <<freeWorkers, taskInfo, thread>>
    BY <1>3 DEF runTask
  <2>2. TypeOK'
    <3>1. listeners' \in Seq(Task)
      BY <1>1, <2>1, Types
    <3> QED
      BY <1>1, <2>1, <3>1 DEF TypeOK, Task
  <2>3. Crew'
    BY <1>1, <2>1 DEF Crew, Dead
  <2>4. Stack'
    BY <1>1, <1>3, <2>1 DEF Stack
  <2>5. Mail'
    BY <1>1, <2>1 DEF Mail
  <2>6. Tasks'
    <3>1. /\ Len(listeners) \in Nat /\ DOMAIN listeners = 1 .. Len(listeners)
          /\ DOMAIN listeners' = 1 .. Len(listeners) + 1
          /\ \A i \in 1 .. Len(listeners) : listeners'[i] = listeners[i]
          /\ listeners'[Len(listeners) + 1] = task
      BY <1>1, <2>1, Types
    <3>2. \A i \in DOMAIN listeners : listeners[i] <= handedIn /\ listeners[i] # task
      BY Types, ElementOfSeq DEF Tasks, Task
    <3>3. \A w \in workers : taskInfo[w] # null => taskInfo[w] <= handedIn /\ taskInfo[w] # task
      BY Types DEF Tasks, Task
    <3>4. \A w \in workers : taskInfo'[w] # null =>
            /\ taskInfo'[w] <= handedIn'
            /\ callbacks'[taskInfo'[w]] = 0
            /\ \A i \in DOMAIN listeners' : listeners'[i] # taskInfo'[w]
      BY <1>1, <2>1, <3>1, <3>3, Types DEF Tasks, Task
    <3>5. \A i \in DOMAIN listeners' : listeners'[i] <= handedIn' /\ callbacks'[listeners'[i]] = 0
      <4>1. callbacks[task] = 0
        BY <1>1, Types DEF Tasks
      <4>2. \A i \in DOMAIN listeners : listeners[i] <= handedIn' /\ callbacks[listeners[i]] = 0
        <5>1. \A i \in DOMAIN listeners : listeners[i] \in Task
          BY Types
        <5> QED
          BY <1>1, <3>2, <5>1, Types DEF Tasks, Task
      <4>3. \A i \in DOMAIN listeners' : i \in DOMAIN listeners \/ i = Len(listeners) + 1
        BY <3>1
      <4> QED
        BY <1>1, <3>1, <4>1, <4>2, <4>3
    <3>6. \A i, j \in DOMAIN listeners' : listeners'[i] = listeners'[j] => i = j
      BY <3>1, <3>2 DEF Tasks
    <3>7. \A t \in Task : t > handedIn' => callbacks'[t] = 0
      BY <1>1, Types DEF Tasks, Task
    <3> QED
      BY <1>1, <2>1, <3>4, <3>5, <3>6, <3>7 DEF Tasks
  <2> QED
    BY <1>2, <2>2, <2>3, <2>4, <2>5, <2>6
<1>4. CASE freeWorkers # <<>>
  <2> DEFINE worker == Last(freeWorkers)
  <2>1. /\ freeWorkers' = Front(freeWorkers) /\ taskInfo' = [taskInfo EXCEPT ![worker] = task]
        /\ thread' = [thread EXCEPT ![worker] = IF @ = "idle" THEN "busy" ELSE @]
        /\ listeners' = listeners
    BY <1>4 DEF runTask
  <2>2. /\ Len(freeWorkers) \in Nat \ {0} /\ worker = freeWorkers[Len(freeWorkers)]
        /\ freeWorkers' \in Seq(Worker) /\ Len(freeWorkers') = Len(freeWorkers) - 1
        /\ \A i \in 1 .. Len(freeWorkers) - 1 : freeWorkers'[i] = freeWorkers[i]
    <3>1. Len(freeWorkers) \in Nat \ {0} /\ freeWorkers' = SubSeq(freeWorkers, 1, Len(freeWorkers) - 1)
      BY <1>4, <2>1, Types DEF Front
    <3>2. \A i \in 1 .. Len(freeWorkers) - 1 : freeWorkers[i] \in Worker
      BY <3>1, Types, ElementOfSeq
    <3> DEFINE k == Len(freeWorkers) - 1
    <3>3. k \in Nat /\ k \in Int /\ 1 \in Int
      BY <3>1
    <3> HIDE DEF k
    <3>4. /\ SubSeq(freeWorkers, 1, k) \in Seq(Worker)
          /\ Len(SubSeq(freeWorkers, 1, k)) = k
          /\ \A i \in 1 .. k : SubSeq(freeWorkers, 1, k)[i] = freeWorkers[i]
      <4>1. \A i \in 1 .. k : freeWorkers[i] \in Worker
        BY <3>2 DEF k
      <4>2. /\ SubSeq(freeWorkers, 1, k) \in Seq(Worker)
            /\ Len(SubSeq(freeWorkers, 1, k)) = IF 1 <= k THEN k - 1 + 1 ELSE 0
            /\ \A i \in 1 .. k - 1 + 1 : SubSeq(freeWorkers, 1, k)[i] = freeWorkers[1 + i - 1]
        BY <3>3, <4>1, SubSeqProperties
      <4> QED
        BY <3>3, <4>2
    <3> QED
      BY <3>1, <3>4 DEF Last, k
  <2>3. worker \in Worker /\ worker \in workers /\ taskInfo[worker] = null
    BY <2>2, Types DEF Stack
  <2> HIDE DEF worker
  <2>4. thread[worker] # "busy"
    BY <2>3 DEF Mail
  <2>5. TypeOK'
    <3>1. taskInfo' \in [Worker -> Task \cup {null}]
      BY <1>1, <2>1, Types
    <3>2. thread' \in [Worker -> State]
      BY <2>1, Types DEF State
    <3> QED
      BY <1>1, <2>1, <2>2, <3>1, <3>2 DEF TypeOK, State, Task
  <2>6. Crew'
    <3>1. Dead' = Dead
      BY <2>1, Types DEF Dead
    <3>2. worker <= created
      BY <2>3, Types DEF TypeOK
    <3>3. \A w \in Worker : w > created => w # worker
      BY <2>3, <3>2, Types DEF Worker
    <3>4. \A w \in Worker : w > created => thread'[w] = "idle" /\ taskInfo'[w] = null
      BY <2>1, <3>3, Types DEF Crew
    <3> QED
      BY <1>1, <3>1, <3>4 DEF Crew
  <2>7. Stack'
    <3>0. /\ DOMAIN freeWorkers = 1 .. Len(freeWorkers)
          /\ DOMAIN freeWorkers' = 1 .. Len(freeWorkers) - 1
          /\ \A i, j \in DOMAIN freeWorkers : freeWorkers[i] = freeWorkers[j] => i = j
      BY <2>2, Types DEF Stack
    <3>1. \A w \in Worker : (\E i \in DOMAIN freeWorkers' : freeWorkers'[i] = w)
                              <=> (\E i \in DOMAIN freeWorkers : freeWorkers[i] = w) /\ w # worker
      <4>1. \A i \in DOMAIN freeWorkers' : freeWorkers'[i] = freeWorkers[i] /\ i \in DOMAIN freeWorkers
                                            /\ freeWorkers[i] # worker
        BY <2>2, <3>0
      <4>2. \A i \in DOMAIN freeWorkers : freeWorkers[i] # worker => i \in DOMAIN freeWorkers'
        BY <2>2, <3>0
      <4> QED
        BY <4>1, <4>2
    <3>2. \A w \in Worker : taskInfo'[w] = null <=> taskInfo[w] = null /\ w # worker
      BY <1>1, <2>1, <2>3, Types DEF Task
    <3>3. \A i, j \in DOMAIN freeWorkers' : freeWorkers'[i] = freeWorkers'[j] => i = j
      BY <2>2, <3>0
    <3>4. listeners' = <<>>
      BY <1>4, <2>1 DEF Stack
    <3> QED
      BY <1>1, <3>1, <3>2, <3>3, <3>4 DEF Stack
  <2>8. Mail'
    <3>1. \A i \in DOMAIN events : events[i] \in Event
      BY Types
    <3>2. \A i \in DOMAIN events : events[i].worker \in Worker
      BY <3>1 DEF Event
    <3> QED
      BY <1>1, <2>1, <2>3, <2>4, <3>2, Types DEF Mail, Task
  <2>9. Tasks'
    <3>1. listeners = <<>>
      BY <1>4 DEF Stack
    <3> QED
      BY <1>1, <2>1, <2>3, <3>1, Types DEF Tasks, Task
  <2> QED
    BY <1>2, <2>5, <2>6, <2>7, <2>8, <2>9
<1> QED
  BY <1>3, <1>4

\* The message a worker posts is the only one, and comes before its error.
LEMMA WorkKeepsIInv ==
  ASSUME IInv, NEW worker \in Worker, Work(worker)
  PROVE  IInv'
<1> DEFINE event == [kind |-> "message", worker |-> worker]
<1> USE DEF IInv
<1>1. /\ thread[worker] = "busy" /\ thread' = [thread EXCEPT ![worker] = "idle"]
      /\ events' = Append(events, event)
      /\ UNCHANGED <<handedIn, created, pool, callbacks, finished, closed, exited>>
  BY DEF Work
<1>2. worker \in workers /\ taskInfo[worker] # null
  BY <1>1 DEF Mail
<1>3. \A i \in DOMAIN events : events[i].worker # worker
  <2>1. \A i \in DOMAIN events : events[i] \in Event
    BY Types
  <2>2. \A i \in DOMAIN events : events[i].kind \in {"message", "error"}
    BY <2>1 DEF Event
  <2> QED
    BY <1>1, <2>2 DEF Mail
<1>4. /\ event \in Event /\ events' \in Seq(Event)
      /\ DOMAIN events' = 1 .. Len(events) + 1 /\ DOMAIN events = 1 .. Len(events)
      /\ Len(events) \in Nat
      /\ \A i \in 1 .. Len(events) : events'[i] = events[i]
      /\ events'[Len(events) + 1] = event
  <2>1. event \in Event
    BY DEF Event
  <2> HIDE DEF event
  <2> QED
    BY <1>1, <2>1, Types
<1>5. TypeOK'
  <2>1. thread' \in [Worker -> State]
    BY <1>1, Types DEF State
  <2> QED
    BY <1>1, <1>4, <2>1 DEF TypeOK, pool, State, Event
<1>6. Crew'
  <2>1. Dead' = Dead
    BY <1>1, Types DEF Dead
  <2>2. \A w \in Worker : w > created => w # worker
    BY <1>2, Types DEF Crew
  <2>3. \A w \in Worker : w > created => thread'[w] = "idle" /\ taskInfo'[w] = null
    BY <1>1, <2>2, Types DEF Crew, pool
  <2> QED
    BY <1>1, <2>1, <2>3 DEF Crew, pool
<1>7. Stack'
  BY <1>1 DEF Stack, pool
<1>8. Mail'
  <2>1. \A w \in Worker : thread'[w] = "busy" => w \in workers' /\ taskInfo'[w] # null
    BY <1>1, Types DEF Mail, pool
  <2>2. \A i \in 1 .. Len(events) :
          /\ events'[i].worker \in workers'
          /\ events'[i].kind = "message" => /\ taskInfo'[events'[i].worker] # null
                                            /\ thread'[events'[i].worker] # "busy"
          /\ events'[i].kind = "error" => thread'[events'[i].worker] = "dead"
    BY <1>1, <1>3, <1>4, Types DEF Mail, pool
  <2>3. event.worker \in workers' /\ event.kind = "message" /\ event.worker = worker
        /\ taskInfo'[worker] # null /\ thread'[worker] # "busy"
    BY <1>1, <1>2, Types DEF pool
  <2>4. \A i, j \in DOMAIN events' :
          i < j /\ events'[i].worker = events'[j].worker
            => events'[i].kind = "message" /\ events'[j].kind = "error"
    <3> SUFFICES ASSUME NEW i \in DOMAIN events', NEW j \in DOMAIN events',
                        i < j, events'[i].worker = events'[j].worker
                 PROVE  events'[i].kind = "message" /\ events'[j].kind = "error"
      OBVIOUS
    <3>1. i \in 1 .. Len(events)
      BY <1>4
    <3>2. j # Len(events) + 1
      BY <1>3, <1>4, <2>3, <3>1
    <3> QED
      BY <1>4, <3>1, <3>2 DEF Mail
  <2>5. \A i \in DOMAIN events' : i \in 1 .. Len(events) \/ i = Len(events) + 1
    BY <1>4
  <2> HIDE DEF event
  <2> QED
    BY <1>4, <2>1, <2>2, <2>3, <2>4, <2>5 DEF Mail
<1>9. Tasks'
  BY <1>1 DEF Tasks, pool
<1>10. Count'
  BY <1>1 DEF Count, Settled
<1> QED
  BY <1>5, <1>6, <1>7, <1>8, <1>9, <1>10

\* A thread dies once, and its worker stays in the pool until that is handled.
LEMMA CrashKeepsIInv ==
  ASSUME IInv, NEW worker \in Worker, Crash(worker)
  PROVE  IInv'
<1> DEFINE event == [kind |-> "error", worker |-> worker]
<1> USE DEF IInv
<1>1. /\ worker \in workers /\ thread[worker] # "dead" /\ Cardinality(Dead) < MaxCrashes
      /\ thread' = [thread EXCEPT ![worker] = "dead"]
      /\ events' = Append(events, event)
      /\ UNCHANGED <<handedIn, created, pool, callbacks, finished, closed, exited>>
  BY DEF Crash, Dead
<1>2. \A i \in DOMAIN events : events[i].worker = worker => events[i].kind = "message"
  <2>1. \A i \in DOMAIN events : events[i] \in Event
    BY Types
  <2>2. \A i \in DOMAIN events : events[i].kind \in {"message", "error"}
    BY <2>1 DEF Event
  <2> QED
    BY <1>1, <2>2 DEF Mail
<1>3. /\ event \in Event /\ events' \in Seq(Event)
      /\ DOMAIN events' = 1 .. Len(events) + 1 /\ DOMAIN events = 1 .. Len(events)
      /\ Len(events) \in Nat
      /\ \A i \in 1 .. Len(events) : events'[i] = events[i]
      /\ events'[Len(events) + 1] = event
  <2>1. event \in Event
    BY DEF Event
  <2> HIDE DEF event
  <2> QED
    BY <1>1, <2>1, Types
<1>4. TypeOK'
  <2>1. thread' \in [Worker -> State]
    BY <1>1, Types DEF State
  <2> QED
    BY <1>1, <1>3, <2>1 DEF TypeOK, pool, State, Event
<1>5. Crew'
  <2>1. Dead' = Dead \cup {worker}
    BY <1>1, Types DEF Dead
  <2>2. Dead' \ workers' = Dead \ workers
    BY <1>1, <2>1 DEF pool
  <2>3. Cardinality(Dead') <= Cardinality(Dead) + 1 /\ Cardinality(Dead) \in Nat
        /\ Cardinality(Dead') \in Nat
    <3>1. IsFiniteSet(Dead) /\ IsFiniteSet(Dead \cup {worker})
      BY SetsAreFinite, FS_AddElement
    <3>2. /\ Cardinality(Dead) \in Nat /\ Cardinality(Dead \cup {worker}) \in Nat
          /\ Cardinality(Dead \cup {worker}) = IF worker \in Dead THEN Cardinality(Dead)
                                                              ELSE Cardinality(Dead) + 1
      BY <3>1, FS_AddElement, FS_CardinalityType
    <3> QED
      BY <2>1, <3>2
  <2>4. \A w \in Worker : w > created => w # worker
    BY <1>1, Types DEF TypeOK
  <2>5. \A w \in Worker : w > created => thread'[w] = "idle" /\ taskInfo'[w] = null
    BY <1>1, <2>4, Types DEF Crew, pool
  <2> QED
    <3>1. Cardinality(Dead') <= MaxCrashes
      BY <1>1, <2>3, MaxCrashesAssumption
    <3> QED
      BY <1>1, <2>2, <2>5, <3>1 DEF Crew, pool
<1>6. Stack'
  BY <1>1 DEF Stack, pool
<1>7. Mail'
  <2>1. \A w \in Worker : thread'[w] = "busy" => w \in workers' /\ taskInfo'[w] # null
    BY <1>1, Types DEF Mail, pool
  <2>2. \A i \in 1 .. Len(events) :
          /\ events'[i].worker \in workers'
          /\ events'[i].kind = "message" => /\ taskInfo'[events'[i].worker] # null
                                            /\ thread'[events'[i].worker] # "busy"
          /\ events'[i].kind = "error" => thread'[events'[i].worker] = "dead"
    <3> SUFFICES ASSUME NEW i \in 1 .. Len(events)
                 PROVE  /\ events'[i].worker \in workers'
                        /\ events'[i].kind = "message" =>
                             /\ taskInfo'[events'[i].worker] # null
                             /\ thread'[events'[i].worker] # "busy"
                        /\ events'[i].kind = "error" => thread'[events'[i].worker] = "dead"
      OBVIOUS
    <3>1. events'[i] = events[i] /\ i \in DOMAIN events
      BY <1>1, <1>3, Types
    <3>2. /\ events[i].worker \in workers
          /\ events[i].kind = "message" => /\ taskInfo[events[i].worker] # null
                                           /\ thread[events[i].worker] # "busy"
          /\ events[i].kind = "error" => thread[events[i].worker] = "dead"
      BY <3>1 DEF Mail
    <3>3. events[i].worker \in Worker
      BY <3>2, Types
    <3> QED
      BY <1>1, <3>1, <3>2, <3>3, Types DEF pool
  <2>3. event.worker \in workers' /\ event.kind = "error" /\ event.worker = worker
        /\ thread'[worker] = "dead"
    BY <1>1, Types DEF pool
  <2>4. \A i, j \in DOMAIN events' :
          i < j /\ events'[i].worker = events'[j].worker
            => events'[i].kind = "message" /\ events'[j].kind = "error"
    <3> SUFFICES ASSUME NEW i \in DOMAIN events', NEW j \in DOMAIN events',
                        i < j, events'[i].worker = events'[j].worker
                 PROVE  events'[i].kind = "message" /\ events'[j].kind = "error"
      OBVIOUS
    <3>1. i \in 1 .. Len(events)
      BY <1>3
    <3>2. CASE j = Len(events) + 1
      BY <1>2, <1>3, <2>3, <3>1, <3>2
    <3>3. CASE j # Len(events) + 1
      BY <1>3, <3>1, <3>3 DEF Mail
    <3> QED
      BY <3>2, <3>3
  <2>5. \A i \in DOMAIN events' : i \in 1 .. Len(events) \/ i = Len(events) + 1
    BY <1>3
  <2> HIDE DEF event
  <2> QED
    BY <1>3, <2>1, <2>2, <2>3, <2>4, <2>5 DEF Mail
<1>8. Tasks'
  BY <1>1 DEF Tasks, pool
<1>9. Count'
  BY <1>1 DEF Count, Settled
<1> QED
  BY <1>4, <1>5, <1>6, <1>7, <1>8, <1>9

-----------------------------------------------------------------------------
(***************************************************************************)
(* The two handlers take an event and, perhaps, a listener off and settle a*)
(* task.                                                                   *)
(***************************************************************************)

\* Handling the first event leaves no message of its worker behind it.
LEMMA EventTaken ==
  ASSUME TypeOK, Mail, events # <<>>, events' = Tail(events)
  PROVE  /\ events' \in Seq(Event) /\ events[1] \in Event
         /\ \A i \in DOMAIN events' : i + 1 \in DOMAIN events /\ events'[i] = events[i + 1]
         /\ \A i \in DOMAIN events' :
              events'[i].worker = events[1].worker
                => events[1].kind = "message" /\ events'[i].kind = "error"
         /\ \A i, j \in DOMAIN events' :
              i < j /\ events'[i].worker = events'[j].worker
                => events'[i].kind = "message" /\ events'[j].kind = "error"
<1>1. /\ events' \in Seq(Event) /\ events[1] \in Event
      /\ DOMAIN events = 1 .. Len(events) /\ Len(events) \in Nat \ {0}
      /\ DOMAIN events' = 1 .. Len(events) - 1
      /\ \A i \in 1 .. Len(events) - 1 : events'[i] = events[i + 1]
  BY Types
<1>2. \A i \in DOMAIN events' : i + 1 \in DOMAIN events /\ i \in Nat \ {0}
                                /\ events'[i] = events[i + 1]
  BY <1>1
<1>3. \A i \in DOMAIN events' :
        events'[i].worker = events[1].worker
          => events[1].kind = "message" /\ events'[i].kind = "error"
  <2>1. 1 \in DOMAIN events
    BY <1>1
  <2>2. \A i \in DOMAIN events' : 1 < i + 1
    BY <1>2
  <2> QED
    BY <1>2, <2>1, <2>2 DEF Mail
<1>4. \A i, j \in DOMAIN events' :
        i < j /\ events'[i].worker = events'[j].worker
          => events'[i].kind = "message" /\ events'[j].kind = "error"
  <2>1. \A i, j \in DOMAIN events' : i < j => i + 1 < j + 1
    BY <1>2
  <2> QED
    BY <1>2, <2>1 DEF Mail
<1> QED
  BY <1>1, <1>2, <1>3, <1>4

\* The first listener leaves, and does not come back.
LEMMA ListenerTaken ==
  ASSUME TypeOK, Tasks, listeners # <<>>, listeners' = Tail(listeners)
  PROVE  /\ listeners' \in Seq(Task) /\ Head(listeners) = listeners[1]
         /\ Head(listeners) \in Task /\ 1 \in DOMAIN listeners
         /\ \A i \in DOMAIN listeners' :
              i + 1 \in DOMAIN listeners /\ listeners'[i] = listeners[i + 1]
         /\ \A i \in DOMAIN listeners' : listeners'[i] # Head(listeners)
         /\ \A i, j \in DOMAIN listeners' : listeners'[i] = listeners'[j] => i = j
<1>1. /\ listeners' \in Seq(Task) /\ Head(listeners) = listeners[1] /\ Head(listeners) \in Task
      /\ DOMAIN listeners = 1 .. Len(listeners) /\ Len(listeners) \in Nat \ {0}
      /\ DOMAIN listeners' = 1 .. Len(listeners) - 1
      /\ \A i \in 1 .. Len(listeners) - 1 : listeners'[i] = listeners[i + 1]
  BY Types
<1>2. \A i \in DOMAIN listeners' : i + 1 \in DOMAIN listeners /\ i \in Nat \ {0}
                                   /\ listeners'[i] = listeners[i + 1]
  BY <1>1
<1>3. 1 \in DOMAIN listeners
  BY <1>1
<1>4. \A i \in DOMAIN listeners' : listeners'[i] # Head(listeners)
  <2>1. \A i \in DOMAIN listeners' : i + 1 # 1
    BY <1>2
  <2> QED
    BY <1>1, <1>2, <1>3, <2>1 DEF Tasks
<1>5. \A i, j \in DOMAIN listeners' : listeners'[i] = listeners'[j] => i = j
  <2>1. \A i, j \in DOMAIN listeners' : i + 1 = j + 1 => i = j
    BY <1>2
  <2> QED
    BY <1>2, <2>1 DEF Tasks
<1> QED
  BY <1>1, <1>2, <1>3, <1>4, <1>5

\* Calling back a task that was not called back yet keeps the count.
LEMMA TaskSettled ==
  ASSUME TypeOK, Count, NEW task \in Task, callbacks[task] = 0, done(task)
  PROVE  /\ Count' /\ finished' \in 0 .. Total /\ closed' \in BOOLEAN
         /\ callbacks' \in [Task -> Nat] /\ callbacks' = [callbacks EXCEPT ![task] = 1]
<1>1. /\ callbacks' = [callbacks EXCEPT ![task] = 1] /\ callbacks' \in [Task -> {0, 1}]
      /\ finished' = finished + 1 /\ closed' = (closed \/ finished + 1 = Total)
  BY DEF done, Count
<1>2. Settled' = Settled \cup {task} /\ task \notin Settled
  BY <1>1 DEF Settled, Count
<1>3. /\ IsFiniteSet(Settled) /\ IsFiniteSet(Settled') /\ Settled' \subseteq Task
      /\ IsFiniteSet(Task) /\ Cardinality(Task) = Total
  BY <1>2, SetsAreFinite, FS_AddElement DEF Settled
<1>4. Cardinality(Settled') = Cardinality(Settled) + 1
  BY <1>2, <1>3, FS_AddElement
<1>5. /\ Cardinality(Settled') <= Total /\ Cardinality(Settled') \in Nat
      /\ Cardinality(Settled') = Total => Settled' = Task
  BY <1>3, FS_Subset, FS_CardinalityType
<1>6. ~closed
  BY <1>2 DEF Count
<1>7. finished' = Cardinality(Settled')
  BY <1>1, <1>4 DEF Count
<1>8. closed' \in BOOLEAN /\ (closed' => Settled' = Task)
  BY <1>1, <1>5, <1>6, <1>7
<1>9. finished' \in 0 .. Total /\ callbacks' \in [Task -> Nat]
  BY <1>1, <1>5, <1>7, TotalAssumption
<1> QED
  BY <1>1, <1>7, <1>8, <1>9 DEF Count

\* A worker has a result: it takes a listener's task, or goes on the stack.
LEMMA MessageKeepsIInv ==
  ASSUME IInv, onMessage
  PROVE  IInv'
<1> DEFINE worker == Head(events).worker
<1> DEFINE old == taskInfo[worker]
<1> USE DEF IInv
<1>1. /\ worker \in workers /\ worker \in Worker /\ old \in Task /\ old # null
      /\ done(old)
      /\ events # <<>> /\ events[1].kind = "message" /\ events' = Tail(events)
      /\ worker = events[1].worker
      /\ UNCHANGED <<handedIn, created, workers, exited>>
  <2>1. Head(events) = events[1] /\ \A v \in workers : v \in Worker
    BY MessageEffect, Types
  <2> QED
    BY MessageEffect, <2>1 DEF Task, null
<1>2. \/ /\ listeners = <<>> /\ listeners' = <<>>
         /\ freeWorkers' = Append(freeWorkers, worker)
         /\ taskInfo' = [taskInfo EXCEPT ![worker] = null]
         /\ thread' = thread
      \/ /\ listeners # <<>> /\ listeners' = Tail(listeners)
         /\ freeWorkers = <<>> /\ freeWorkers' = <<>>
         /\ taskInfo' = [taskInfo EXCEPT ![worker] = Head(listeners)]
         /\ thread' = [thread EXCEPT ![worker] = IF @ = "idle" THEN "busy" ELSE @]
  BY MessageEffect
<1> HIDE DEF worker
<1>3. thread[worker] # "busy" /\ callbacks[old] = 0
  <2>1. 1 \in DOMAIN events
    BY <1>1, Types
  <2> QED
    BY <1>1, <2>1 DEF Mail, Tasks
<1>4. /\ Count' /\ finished' \in 0 .. Total /\ closed' \in BOOLEAN
      /\ callbacks' \in [Task -> Nat] /\ callbacks' = [callbacks EXCEPT ![old] = 1]
  BY <1>1, <1>3, TaskSettled
<1>5. /\ events' \in Seq(Event)
      /\ \A i \in DOMAIN events' : i + 1 \in DOMAIN events /\ events'[i] = events[i + 1]
      /\ \A i \in DOMAIN events' :
           events'[i].worker = worker => events'[i].kind = "error"
      /\ \A i, j \in DOMAIN events' :
           i < j /\ events'[i].worker = events'[j].worker
             => events'[i].kind = "message" /\ events'[j].kind = "error"
  BY <1>1, EventTaken
<1>6. \A v \in workers : v # worker /\ taskInfo[v] # null => taskInfo[v] # old
  BY <1>1 DEF Tasks
<1>7. \A i \in DOMAIN listeners : listeners[i] # old /\ listeners[i] \in Task
  BY <1>1, Types DEF Tasks
<1>8. Dead' = Dead
  BY <1>2, Types DEF Dead
<1>9. worker <= created
  BY <1>1 DEF TypeOK
<1>10. CASE listeners = <<>>
  <2>1. /\ listeners' = <<>> /\ freeWorkers' = Append(freeWorkers, worker)
        /\ taskInfo' = [taskInfo EXCEPT ![worker] = null] /\ thread' = thread
    BY <1>2, <1>10
  <2>2. freeWorkers' \in Seq(Worker) /\ taskInfo' \in [Worker -> Task \cup {null}]
    BY <1>1, <2>1, Types
  <2>3. TypeOK'
    BY <1>1, <1>4, <1>5, <2>1, <2>2 DEF TypeOK, Event
  <2>4. Crew'
    <3>1. \A w \in Worker : w > created => thread'[w] = "idle" /\ taskInfo'[w] = null
      BY <1>1, <2>1, Types DEF Crew
    <3> QED
      BY <1>1, <1>8, <3>1 DEF Crew
  <2>5. Stack'
    <3>1. /\ DOMAIN freeWorkers = 1 .. Len(freeWorkers) /\ Len(freeWorkers) \in Nat
          /\ DOMAIN freeWorkers' = 1 .. Len(freeWorkers) + 1
          /\ \A i \in 1 .. Len(freeWorkers) : freeWorkers'[i] = freeWorkers[i]
          /\ freeWorkers'[Len(freeWorkers) + 1] = worker
      BY <1>1, <2>1, Types
    <3>2. \A i \in DOMAIN freeWorkers : freeWorkers[i] # worker
      BY <1>1 DEF Stack
    <3>3. \A i, j \in DOMAIN freeWorkers' : freeWorkers'[i] = freeWorkers'[j] => i = j
      BY <3>1, <3>2 DEF Stack
    <3>4. \A w \in Worker : (\E i \in DOMAIN freeWorkers' : freeWorkers'[i] = w)
                              <=> (\E i \in DOMAIN freeWorkers : freeWorkers[i] = w) \/ w = worker
      BY <3>1
    <3>5. \A w \in Worker : w \in workers' /\ taskInfo'[w] = null
                              <=> (w \in workers /\ taskInfo[w] = null) \/ w = worker
      BY <1>1, <2>1, Types
    <3> QED
      BY <2>1, <3>3, <3>4, <3>5 DEF Stack
  <2>6. Mail'
    <3>1. \A w \in Worker : thread'[w] = "busy" => w \in workers' /\ taskInfo'[w] # null
      BY <1>1, <1>3, <2>1, Types DEF Mail
    <3>2. \A i \in DOMAIN events' : events'[i] \in Event
      BY <1>5
    <3>3. \A i \in DOMAIN events' : events'[i].worker \in Worker
      BY <3>2 DEF Event
    <3>4. \A i \in DOMAIN events' :
            /\ events'[i].worker \in workers'
            /\ events'[i].kind = "message" => /\ taskInfo'[events'[i].worker] # null
                                              /\ thread'[events'[i].worker] # "busy"
            /\ events'[i].kind = "error" => thread'[events'[i].worker] = "dead"
      BY <1>1, <1>5, <2>1, <3>3, Types DEF Mail
    <3> QED
      BY <1>5, <3>1, <3>4 DEF Mail
  <2>7. Tasks'
    <3>1. \A v \in workers : taskInfo'[v] # null => v # worker /\ taskInfo'[v] = taskInfo[v]
      BY <1>1, <2>1, Types
    <3>2. \A v \in workers : taskInfo'[v] # null =>
            taskInfo'[v] \in Task /\ taskInfo'[v] <= handedIn /\ callbacks'[taskInfo'[v]] = 0
      BY <1>1, <1>4, <1>6, <3>1, Types DEF Tasks, Count
    <3>3. \A v, w \in workers' : taskInfo'[v] = taskInfo'[w] /\ taskInfo'[v] # null => v = w
      BY <1>1, <3>1 DEF Tasks
    <3>4. \A t \in Task : t > handedIn => callbacks'[t] = 0
      <4>1. old <= handedIn
        BY <1>1 DEF Tasks
      <4> QED
        BY <1>1, <1>4, <4>1, Types DEF Tasks, Count, Task
    <3> QED
      BY <1>1, <2>1, <3>2, <3>3, <3>4 DEF Tasks
  <2> QED
    BY <1>4, <2>3, <2>4, <2>5, <2>6, <2>7
<1>11. CASE listeners # <<>>
  <2> DEFINE next == Head(listeners)
  <2>1. /\ listeners' = Tail(listeners) /\ freeWorkers = <<>> /\ freeWorkers' = <<>>
        /\ taskInfo' = [taskInfo EXCEPT ![worker] = next]
        /\ thread' = [thread EXCEPT ![worker] = IF @ = "idle" THEN "busy" ELSE @]
    BY <1>2, <1>11
  <2>2. /\ listeners' \in Seq(Task) /\ next = listeners[1] /\ next \in Task
        /\ 1 \in DOMAIN listeners
        /\ \A i \in DOMAIN listeners' :
             i + 1 \in DOMAIN listeners /\ listeners'[i] = listeners[i + 1]
        /\ \A i \in DOMAIN listeners' : listeners'[i] # next
        /\ \A i, j \in DOMAIN listeners' : listeners'[i] = listeners'[j] => i = j
    BY <1>11, <2>1, ListenerTaken
  <2> HIDE DEF next
  <2>3. /\ next # null /\ next # old /\ callbacks[next] = 0 /\ next <= handedIn
        /\ \A v \in workers : taskInfo[v] # next
    BY <1>7, <2>2 DEF Tasks, Task, null
  <2>4. taskInfo' \in [Worker -> Task \cup {null}] /\ thread' \in [Worker -> State]
    BY <2>1, <2>2, Types DEF State
  <2>5. TypeOK'
    BY <1>1, <1>4, <1>5, <2>1, <2>2, <2>4 DEF TypeOK, Event, State
  <2>6. Crew'
    <3>1. \A w \in Worker : w > created => w # worker
      BY <1>9, Types DEF Worker
    <3>2. \A w \in Worker : w > created => thread'[w] = "idle" /\ taskInfo'[w] = null
      BY <2>1, <3>1, Types DEF Crew
    <3> QED
      BY <1>1, <1>8, <3>2 DEF Crew
  <2>7. Stack'
    <3>1. \A w \in Worker : ~(w \in workers' /\ taskInfo'[w] = null)
      BY <1>1, <2>1, <2>3, Types DEF Stack
    <3> QED
      BY <2>1, <3>1 DEF Stack
  <2>8. Mail'
    <3>1. \A w \in Worker : thread'[w] = "busy" => w \in workers' /\ taskInfo'[w] # null
      BY <1>1, <2>1, <2>3, Types DEF Mail
    <3>2. \A i \in DOMAIN events' : events'[i] \in Event
      BY <1>5
    <3>3. \A i \in DOMAIN events' : events'[i].worker \in Worker
      BY <3>2 DEF Event
    <3>4. \A i \in DOMAIN events' :
            /\ events'[i].worker \in workers'
            /\ events'[i].kind = "message" => /\ taskInfo'[events'[i].worker] # null
                                              /\ thread'[events'[i].worker] # "busy"
            /\ events'[i].kind = "error" => thread'[events'[i].worker] = "dead"
      BY <1>1, <1>5, <2>1, <3>3, Types DEF Mail
    <3> QED
      BY <1>5, <3>1, <3>4 DEF Mail
  <2>9. Tasks'
    <3>1. taskInfo'[worker] = next /\ \A v \in workers : v # worker => taskInfo'[v] = taskInfo[v]
      BY <1>1, <2>1, Types
    <3>2. \A v \in workers : taskInfo'[v] # null =>
            /\ taskInfo'[v] \in Task /\ taskInfo'[v] # old
            /\ taskInfo'[v] <= handedIn /\ callbacks[taskInfo'[v]] = 0
      BY <1>6, <2>2, <2>3, <3>1, Types DEF Tasks
    <3>3. \A v \in workers : taskInfo'[v] # null =>
            \A i \in DOMAIN listeners' : listeners'[i] # taskInfo'[v]
      BY <2>2, <3>1 DEF Tasks
    <3>4. \A i \in DOMAIN listeners' : listeners'[i] <= handedIn /\ callbacks'[listeners'[i]] = 0
      BY <1>1, <1>4, <1>7, <2>2 DEF Tasks, Count
    <3>5. \A v, w \in workers' : taskInfo'[v] = taskInfo'[w] /\ taskInfo'[v] # null => v = w
      BY <1>1, <2>3, <3>1 DEF Tasks
    <3>6. \A t \in Task : t > handedIn => callbacks'[t] = 0
      <4>1. old <= handedIn
        BY <1>1 DEF Tasks
      <4> QED
        BY <1>1, <1>4, <4>1, Types DEF Tasks, Count, Task
    <3>7. \A v \in workers : taskInfo'[v] # null => callbacks'[taskInfo'[v]] = 0
      BY <1>1, <1>4, <3>2 DEF Count
    <3> QED
      BY <1>1, <2>2, <3>2, <3>3, <3>4, <3>5, <3>6, <3>7 DEF Tasks
  <2> QED
    BY <1>4, <2>5, <2>6, <2>7, <2>8, <2>9
<1> QED
  BY <1>10, <1>11

\* The task of a dead worker is settled; a new worker takes its place, and a
\* listener's task or a place on the stack.
LEMMA ErrorKeepsIInv ==
  ASSUME IInv, onError
  PROVE  IInv'
<1> DEFINE worker == Head(events).worker
<1> DEFINE new == created + 1
<1> DEFINE old == taskInfo[worker]
<1> USE DEF IInv
<1>1. /\ worker \in workers /\ worker \in Worker /\ old \in Task /\ old # null
      /\ thread[worker] = "dead"
      /\ new \in Worker /\ taskInfo[new] = null /\ thread[new] = "idle"
      /\ done(old)
      /\ events # <<>> /\ events[1].kind = "error" /\ events' = Tail(events)
      /\ worker = events[1].worker
      /\ created' = new /\ workers' = (workers \ {worker}) \cup {new}
      /\ UNCHANGED <<handedIn, exited>>
  <2>1. Head(events) = events[1] /\ \A v \in workers : v \in Worker
    BY ErrorEffect, Types
  <2> QED
    BY ErrorEffect, <2>1 DEF Task, null
<1>2. \/ /\ listeners = <<>> /\ listeners' = <<>>
         /\ freeWorkers' = Append(freeWorkers, new)
         /\ taskInfo' = taskInfo /\ thread' = thread
      \/ /\ listeners # <<>> /\ listeners' = Tail(listeners)
         /\ freeWorkers = <<>> /\ freeWorkers' = <<>>
         /\ taskInfo' = [taskInfo EXCEPT ![new] = Head(listeners)]
         /\ thread' = [thread EXCEPT ![new] = "busy"]
  BY ErrorEffect
<1> HIDE DEF worker
<1>3. /\ new \notin workers /\ new # worker /\ new \in Nat /\ created \in Nat
      /\ \A w \in Worker : w > new => w > created
  BY <1>1, Types, SMTT(30) DEF TypeOK, Worker
<1> HIDE DEF new
<1>4. callbacks[old] = 0
  BY <1>1 DEF Tasks
<1>5. /\ Count' /\ finished' \in 0 .. Total /\ closed' \in BOOLEAN
      /\ callbacks' \in [Task -> Nat] /\ callbacks' = [callbacks EXCEPT ![old] = 1]
  BY <1>1, <1>4, TaskSettled
<1>6. /\ events' \in Seq(Event)
      /\ \A i \in DOMAIN events' : i + 1 \in DOMAIN events /\ events'[i] = events[i + 1]
      /\ \A i \in DOMAIN events' : events'[i].worker # worker
      /\ \A i, j \in DOMAIN events' :
           i < j /\ events'[i].worker = events'[j].worker
             => events'[i].kind = "message" /\ events'[j].kind = "error"
  BY <1>1, EventTaken
<1>7. \A v \in workers : v # worker /\ taskInfo[v] # null => taskInfo[v] # old
  BY <1>1 DEF Tasks
<1>8. \A i \in DOMAIN listeners : listeners[i] # old /\ listeners[i] \in Task
  BY <1>1, Types DEF Tasks
<1>9. /\ created' \in NumThreads .. NumThreads + MaxCrashes
      /\ workers' \subseteq 1 .. created'
  <2>1. new = created + 1
    BY DEF new
  <2> QED
    <3>1. created \in NumThreads .. NumThreads + MaxCrashes /\ workers \subseteq 1 .. created
      BY DEF TypeOK
    <3>2. created' \in NumThreads .. NumThreads + MaxCrashes
      BY <1>1, <2>1, <3>1, NumThreadsAssumption, MaxCrashesAssumption DEF Worker
    <3>3. \A w \in workers' : w \in 1 .. created'
      BY <1>1, <2>1, <3>1, NumThreadsAssumption
    <3> QED
      BY <3>2, <3>3
\* One more of the dead has left the pool.
<1>10. /\ Cardinality(workers') = NumThreads
       /\ Cardinality(Dead') <= MaxCrashes
       /\ created' = NumThreads + Cardinality(Dead' \ workers')
  <2>1. Dead' = Dead
    BY <1>1, <1>2, Types DEF Dead
  <2>2. Dead' \ workers' = (Dead \ workers) \cup {worker} /\ worker \notin Dead \ workers
    BY <1>1, <2>1 DEF Dead
  <2>3. Cardinality(Dead' \ workers') = Cardinality(Dead \ workers) + 1
    BY <2>2, SetsAreFinite, FS_AddElement
  <2>4. Cardinality(workers \ {worker}) = NumThreads - 1 /\ IsFiniteSet(workers \ {worker})
    BY <1>1, SetsAreFinite, FS_RemoveElement DEF Crew
  <2>5. Cardinality(workers') = NumThreads - 1 + 1
    <3>1. new \notin workers \ {worker} /\ workers' = (workers \ {worker}) \cup {new}
      BY <1>1, <1>3
    <3>2. Cardinality((workers \ {worker}) \cup {new}) = Cardinality(workers \ {worker}) + 1
      BY <2>4, <3>1, FS_AddElement
    <3> QED
      BY <2>4, <3>1, <3>2
  <2>6. Cardinality(Dead \ workers) \in Nat
    BY SetsAreFinite, FS_CardinalityType
  <2> QED
    BY <1>1, <2>1, <2>3, <2>5, <2>6, NumThreadsAssumption DEF Crew, new
<1>11. \A i \in DOMAIN events' : /\ events'[i].worker \in workers
                                 /\ events'[i].worker \in workers'
                                 /\ events'[i].worker \in Worker
                                 /\ events'[i].worker # new
  <2>1. \A i \in DOMAIN events' : events'[i] \in Event
    BY <1>6
  <2>2. \A i \in DOMAIN events' : events'[i].worker \in Worker
    BY <2>1 DEF Event
  <2> QED
    BY <1>1, <1>3, <1>6, <2>2 DEF Mail
<1>12. \A t \in Task : t > handedIn' => callbacks'[t] = 0
  <2>1. old <= handedIn
    BY <1>1 DEF Tasks
  <2> QED
    BY <1>1, <1>5, <2>1, Types DEF Tasks, Count, Task
<1>13. CASE listeners = <<>>
  <2>1. /\ listeners' = <<>> /\ freeWorkers' = Append(freeWorkers, new)
        /\ taskInfo' = taskInfo /\ thread' = thread
    BY <1>2, <1>13
  <2>2. TypeOK'
    <3>1. freeWorkers' \in Seq(Worker)
      BY <1>1, <2>1, Types
    <3> QED
      BY <1>1, <1>5, <1>6, <1>9, <2>1, <3>1, SMTT(30) DEF TypeOK, Event
  <2>3. Crew'
    BY <1>1, <1>3, <1>10, <2>1 DEF Crew
  <2>4. Stack'
    <3>1. /\ DOMAIN freeWorkers = 1 .. Len(freeWorkers) /\ Len(freeWorkers) \in Nat
          /\ DOMAIN freeWorkers' = 1 .. Len(freeWorkers) + 1
          /\ \A i \in 1 .. Len(freeWorkers) : freeWorkers'[i] = freeWorkers[i]
          /\ freeWorkers'[Len(freeWorkers) + 1] = new
      BY <1>1, <2>1, Types
    <3>2. \A i \in DOMAIN freeWorkers : freeWorkers[i] # new
      BY <1>1, <1>3 DEF Stack
    <3>3. \A i, j \in DOMAIN freeWorkers' : freeWorkers'[i] = freeWorkers'[j] => i = j
      BY <3>1, <3>2 DEF Stack
    <3>4. \A w \in Worker : (\E i \in DOMAIN freeWorkers' : freeWorkers'[i] = w)
                              <=> (\E i \in DOMAIN freeWorkers : freeWorkers[i] = w) \/ w = new
      BY <3>1
    <3>5. \A w \in Worker : w \in workers' /\ taskInfo'[w] = null
                              <=> (w \in workers /\ taskInfo[w] = null) \/ w = new
      BY <1>1, <2>1
    <3> QED
      BY <2>1, <3>3, <3>4, <3>5 DEF Stack
  <2>5. Mail'
    <3>1. \A w \in Worker : thread'[w] = "busy" => w \in workers' /\ taskInfo'[w] # null
      BY <1>1, <2>1 DEF Mail
    <3>2. \A i \in DOMAIN events' :
            /\ events'[i].kind = "message" => /\ taskInfo'[events'[i].worker] # null
                                              /\ thread'[events'[i].worker] # "busy"
            /\ events'[i].kind = "error" => thread'[events'[i].worker] = "dead"
      BY <1>6, <2>1 DEF Mail
    <3> QED
      BY <1>6, <1>11, <3>1, <3>2 DEF Mail
  <2>6. Tasks'
    <3>1. \A v \in workers' : taskInfo'[v] # null => v \in workers /\ v # worker
      BY <1>1, <2>1
    <3>2. \A v \in workers' : taskInfo'[v] # null =>
            taskInfo'[v] <= handedIn /\ callbacks'[taskInfo'[v]] = 0
      <4>1. \A v \in workers : taskInfo[v] # null => taskInfo[v] \in Task
        BY Types
      <4> QED
        BY <1>1, <1>5, <1>7, <2>1, <3>1, <4>1 DEF Tasks, Count
    <3> QED
      BY <1>1, <1>12, <2>1, <3>1, <3>2 DEF Tasks
  <2> QED
    BY <1>5, <2>2, <2>3, <2>4, <2>5, <2>6
<1>14. CASE listeners # <<>>
  <2> DEFINE next == Head(listeners)
  <2>1. /\ listeners' = Tail(listeners) /\ freeWorkers = <<>> /\ freeWorkers' = <<>>
        /\ taskInfo' = [taskInfo EXCEPT ![new] = next]
        /\ thread' = [thread EXCEPT ![new] = "busy"]
    BY <1>2, <1>14
  <2>2. /\ listeners' \in Seq(Task) /\ next = listeners[1] /\ next \in Task
        /\ 1 \in DOMAIN listeners
        /\ \A i \in DOMAIN listeners' :
             i + 1 \in DOMAIN listeners /\ listeners'[i] = listeners[i + 1]
        /\ \A i \in DOMAIN listeners' : listeners'[i] # next
        /\ \A i, j \in DOMAIN listeners' : listeners'[i] = listeners'[j] => i = j
    BY <1>14, <2>1, ListenerTaken
  <2> HIDE DEF next
  <2>3. /\ next # null /\ next # old /\ callbacks[next] = 0 /\ next <= handedIn
        /\ \A v \in workers : taskInfo[v] # next
    BY <1>8, <2>2 DEF Tasks, Task, null
  <2>4. TypeOK'
    <3>1. taskInfo' \in [Worker -> Task \cup {null}] /\ thread' \in [Worker -> State]
      BY <2>1, <2>2, Types DEF State
    <3> QED
      BY <1>1, <1>5, <1>6, <1>9, <2>1, <2>2, <3>1 DEF TypeOK, Event, State
  <2>5. Crew'
    <3>0. \A w \in Worker : w > new => w # new /\ w > created
      BY <1>3 DEF Worker
    <3>1. \A w \in Worker : w > new => thread'[w] = "idle" /\ taskInfo'[w] = null
      BY <2>1, <3>0, Types DEF Crew
    <3> QED
      BY <1>1, <1>10, <3>1 DEF Crew
  <2>6. Stack'
    <3>1. \A w \in Worker : ~(w \in workers' /\ taskInfo'[w] = null)
      BY <1>1, <2>1, <2>3, Types DEF Stack
    <3> QED
      BY <2>1, <3>1 DEF Stack
  <2>7. Mail'
    <3>1. \A w \in Worker : thread'[w] = "busy" => w \in workers' /\ taskInfo'[w] # null
      BY <1>1, <2>1, <2>3, Types DEF Mail
    <3>2. \A i \in DOMAIN events' :
            /\ events'[i].kind = "message" => /\ taskInfo'[events'[i].worker] # null
                                              /\ thread'[events'[i].worker] # "busy"
            /\ events'[i].kind = "error" => thread'[events'[i].worker] = "dead"
      BY <1>6, <1>11, <2>1, Types, SMTT(30) DEF Mail
    <3> QED
      BY <1>6, <1>11, <3>1, <3>2 DEF Mail
  <2>8. Tasks'
    <3>1. taskInfo'[new] = next /\ \A v \in workers' : v # new =>
                                     taskInfo'[v] = taskInfo[v] /\ v \in workers /\ v # worker
      BY <1>1, <2>1, Types
    <3>2. \A v \in workers' : taskInfo'[v] # null =>
            /\ taskInfo'[v] \in Task /\ taskInfo'[v] # old
            /\ taskInfo'[v] <= handedIn /\ callbacks[taskInfo'[v]] = 0
      BY <1>7, <2>2, <2>3, <3>1, Types DEF Tasks
    <3>3. \A v \in workers' : taskInfo'[v] # null =>
            \A i \in DOMAIN listeners' : listeners'[i] # taskInfo'[v]
      BY <2>2, <3>1 DEF Tasks
    <3>4. \A i \in DOMAIN listeners' : listeners'[i] <= handedIn /\ callbacks'[listeners'[i]] = 0
      BY <1>1, <1>5, <1>8, <2>2 DEF Tasks, Count
    <3>5. \A v, w \in workers' : taskInfo'[v] = taskInfo'[w] /\ taskInfo'[v] # null => v = w
      BY <2>3, <3>1 DEF Tasks
    <3>6. \A v \in workers' : taskInfo'[v] # null => callbacks'[taskInfo'[v]] = 0
      BY <1>1, <1>5, <3>2 DEF Count
    <3> QED
      BY <1>1, <1>12, <2>2, <3>2, <3>3, <3>4, <3>5, <3>6 DEF Tasks
  <2> QED
    BY <1>5, <2>4, <2>5, <2>6, <2>7, <2>8
<1> QED
  BY <1>13, <1>14

\* Every step keeps the invariant.
LEMMA StepKeepsIInv ==
  ASSUME IInv, [Next]_vars
  PROVE  IInv'
<1>1. CASE runTask
  BY <1>1, RunTaskKeepsIInv
<1>2. CASE \E worker \in Worker : Work(worker) \/ Crash(worker)
  BY <1>2, WorkKeepsIInv, CrashKeepsIInv
<1>3. CASE onMessage
  BY <1>3, MessageKeepsIInv
<1>4. CASE onError
  BY <1>4, ErrorKeepsIInv
<1>5. CASE onErrorWhenFree
  <2>1. /\ events # <<>> /\ events' = Tail(events) /\ exited' = TRUE
        /\ UNCHANGED <<handedIn, created, pool, thread, callbacks, finished, closed>>
    BY <1>5 DEF onErrorWhenFree, Handles
  <2>2. TypeOK /\ Mail
    BY DEF IInv
  <2>3. TypeOK'
    BY <2>1, <2>2, EventTaken DEF TypeOK, pool, Event
  <2>4. Mail'
    BY <2>1, <2>2, EventTaken DEF Mail, pool
  <2>5. Crew' /\ Stack' /\ Tasks' /\ Count'
    BY <2>1 DEF IInv, Crew, Dead, Stack, Tasks, Count, Settled, pool
  <2> QED
    BY <2>3, <2>4, <2>5 DEF IInv
<1>6. CASE UNCHANGED vars
  BY <1>6 DEF vars, pool, IInv, TypeOK, Crew, Dead, Stack, Mail, Tasks, Count, Settled
<1> QED
  BY <1>1, <1>2, <1>3, <1>4, <1>5, <1>6 DEF Next

-----------------------------------------------------------------------------
(***************************************************************************)
(* The theorems.                                                           *)
(***************************************************************************)

\* The pool keeps its workers, its stack and its listeners in step, for any number
\* of threads, tasks and deaths.
THEOREM Invariance == Spec => []IInv
<1>1. Init => IInv
  BY InitEstablishesIInv
<1>2. IInv /\ [Next]_vars => IInv'
  BY StepKeepsIInv
<1> QED
  BY <1>1, <1>2, PTL DEF Spec

\* Every variable keeps its type.
THEOREM TypeCorrect == Spec => []TypeOK
<1>1. IInv => TypeOK
  BY DEF IInv
<1> QED
  BY <1>1, Invariance, PTL

\* The stack, seen as a set, and its length.
LEMMA StackIsASet ==
  ASSUME IInv
  PROVE  /\ ToSet(freeWorkers) = {worker \in workers : taskInfo[worker] = null}
         /\ Cardinality(ToSet(freeWorkers)) = Len(freeWorkers)
<1>1. TypeOK /\ Stack
  BY DEF IInv
<1>2. freeWorkers \in Seq(Worker) /\ workers \subseteq Worker
  BY <1>1, Types
<1>3. ToSet(freeWorkers) = {worker \in workers : taskInfo[worker] = null}
  BY <1>1, <1>2 DEF Stack, ToSet
<1>4. Cardinality(ToSet(freeWorkers)) = Len(freeWorkers)
  <2> DEFINE n == Len(freeWorkers)
             S == ToSet(freeWorkers)
  <2>1. n \in Nat /\ DOMAIN freeWorkers = 1 .. n
    BY <1>2
  <2>2. freeWorkers \in [1 .. n -> S]
    BY <1>2, <2>1 DEF ToSet
  <2>3. \A s \in S : \E i \in 1 .. n : freeWorkers[i] = s
    BY <2>1 DEF ToSet
  <2>4. \A i, j \in 1 .. n : freeWorkers[i] = freeWorkers[j] => i = j
    BY <1>1, <2>1 DEF Stack
  <2> HIDE DEF n, S
  <2>5. freeWorkers \in Bijection(1 .. n, S)
    BY <2>2, <2>3, <2>4, Fun_IsBij
  <2>6. ExistsBijection(1 .. n, S)
    BY <2>5 DEF ExistsBijection
  <2>7. Cardinality(S) = n
    BY <2>1, <2>6, FS_CountingElements
  <2> QED
    BY <2>7 DEF n, S
<1> QED
  BY <1>3, <1>4

\* Workers, stack and messages agree on who has a task (worker_pool.ts:46-48,
\* :64, :75-76), for any number of threads, tasks and deaths.
THEOREM WorkersCorrect == Spec => []WorkersKnowTheirTasks
<1>1. IInv => WorkersKnowTheirTasks
  <2> SUFFICES ASSUME IInv PROVE WorkersKnowTheirTasks
    OBVIOUS
  <2>1. Cardinality(workers) = NumThreads
    BY DEF IInv, Crew
  <2>2. \A i \in DOMAIN events :
          events[i].kind = "message" => taskInfo[events[i].worker] # null
    BY DEF IInv, Mail
  <2> QED
    BY <2>1, <2>2, StackIsASet DEF WorkersKnowTheirTasks
<1> QED
  BY <1>1, Invariance, PTL

\* No task is cut off by close() (index.ts:170).
THEOREM ClosedCorrect == Spec => []ClosedWhenAllSettled
<1>1. IInv => ClosedWhenAllSettled
  BY DEF IInv, Count, Settled, ClosedWhenAllSettled
<1> QED
  BY <1>1, Invariance, PTL

-----------------------------------------------------------------------------
(***************************************************************************)
(* The pool implements TaskPool.                                           *)
(***************************************************************************)

Running == {taskInfo[worker] : worker \in workers} \ {null}

\* No two workers have one task, so fewer than NumThreads tasks run exactly if a
\* worker is free.
LEMMA RunningCounts ==
  ASSUME IInv
  PROVE  (Cardinality(Running) < NumThreads) <=> (freeWorkers # <<>>)
<1> DEFINE Busy == {worker \in workers : taskInfo[worker] # null}
<1>1. TypeOK /\ Crew /\ Stack /\ Tasks
  BY DEF IInv
<1>2. /\ IsFiniteSet(workers) /\ Cardinality(workers) = NumThreads
      /\ freeWorkers \in Seq(Worker) /\ workers \subseteq Worker
  BY <1>1, SetsAreFinite, Types DEF Crew
<1>3. IsFiniteSet(Busy)
  BY <1>2, FS_Subset
<1>4. Cardinality(Running) = Cardinality(Busy)
  <2> DEFINE f == [worker \in Busy |-> taskInfo[worker]]
  <2>1. f \in [Busy -> Running]
    BY DEF Running
  <2>2. \A task \in Running : \E worker \in Busy : f[worker] = task
    BY DEF Running
  <2>3. \A v, w \in Busy : f[v] = f[w] => v = w
    BY <1>1 DEF Tasks
  <2> HIDE DEF f, Busy
  <2>4. f \in Bijection(Busy, Running)
    BY <2>1, <2>2, <2>3, Fun_IsBij
  <2>5. ExistsBijection(Busy, Running)
    BY <2>4 DEF ExistsBijection
  <2> QED
    BY <1>3, <2>5, FS_Bijection
<1>5. CASE freeWorkers = <<>>
  <2>1. Busy = workers
    BY <1>1, <1>2, <1>5 DEF Stack
  <2> HIDE DEF Busy
  <2>2. Cardinality(Running) = NumThreads
    BY <1>2, <1>4, <2>1
  <2> QED
    BY <1>5, <2>2, NumThreadsAssumption
<1>6. CASE freeWorkers # <<>>
  <2>1. PICK worker \in workers : taskInfo[worker] = null
    <3>1. 1 \in DOMAIN freeWorkers /\ freeWorkers[1] \in Worker
      BY <1>2, <1>6
    <3> QED
      BY <1>1, <3>1 DEF Stack
  <2>2. IsFiniteSet(workers \ {worker}) /\ Cardinality(workers \ {worker}) = NumThreads - 1
    BY <1>2, <2>1, FS_RemoveElement
  <2>3. Busy \subseteq workers \ {worker}
    BY <2>1
  <2> HIDE DEF Busy
  <2>4. Cardinality(Busy) <= NumThreads - 1 /\ Cardinality(Busy) \in Nat
    BY <1>3, <2>2, <2>3, FS_Subset, FS_CardinalityType
  <2> QED
    BY <1>4, <1>6, <2>4, NumThreadsAssumption
<1> QED
  BY <1>5, <1>6

\* The event loop settles the task of a worker, and the task that waits longest
\* takes its place.
LEMMA SettleSimulates ==
  ASSUME IInv, NEW worker \in workers, taskInfo[worker] \in Task, done(taskInfo[worker]),
         NEW place \in workers', workers' = (workers \ {worker}) \cup {place},
         UNCHANGED handedIn,
         \A w \in workers \ {worker} : w # place /\ taskInfo'[w] = taskInfo[w],
         \/ /\ listeners = <<>> /\ listeners' = <<>> /\ taskInfo'[place] = null
         \/ /\ listeners # <<>> /\ listeners' = Tail(listeners)
            /\ taskInfo'[place] = Head(listeners)
  PROVE  Contract!Settle(taskInfo[worker])
<1> DEFINE task == taskInfo[worker]
<1>1. TypeOK /\ Tasks /\ Count
  BY DEF IInv
<1>2. listeners \in Seq(Task) /\ null \notin Task
  BY <1>1, Types DEF Task, null
<1>3. task \in Running
  BY <1>2 DEF Running
<1>4. Settled' = Settled \cup {task}
  <2>1. callbacks[task] = 0
    BY <1>1, <1>2 DEF Tasks
  <2> QED
    BY <1>1, <2>1 DEF done, Count, Settled
<1>5. Running \ {task} = {taskInfo[w] : w \in workers \ {worker}} \ {null}
  BY <1>1, <1>2 DEF Tasks, Running
<1>6. Running' = ((Running \ {task}) \cup {taskInfo'[place]}) \ {null}
  BY <1>5 DEF Running
<1>7. CASE listeners = <<>>
  BY <1>3, <1>4, <1>6, <1>7 DEF Contract!Settle, Running, Settled
<1>8. CASE listeners # <<>>
  <2>1. Head(listeners) \in Task
    BY <1>2, <1>8
  <2>2. Running' = (Running \ {task}) \cup {Head(listeners)}
    BY <1>2, <1>6, <1>8, <2>1 DEF Running
  <2> QED
    BY <1>3, <1>4, <1>8, <2>2 DEF Contract!Settle, Running, Settled
<1> QED
  BY <1>7, <1>8

\* A task handed in takes a free worker, or waits.
LEMMA HandInSimulates ==
  ASSUME IInv, runTask
  PROVE  Contract!HandIn
<1> DEFINE task == handedIn + 1
<1>1. TypeOK /\ Stack /\ Tasks
  BY DEF IInv
<1>2. /\ freeWorkers \in Seq(Worker) /\ workers \subseteq Worker
      /\ taskInfo \in [Worker -> Task \cup {null}]
      /\ task # null
  BY <1>1, Types DEF null
<1>3. /\ handedIn < Total /\ handedIn' = handedIn + 1
      /\ Settled' = Settled /\ workers' = workers
  BY DEF runTask, Settled
<1>4. (Contract!Cardinality(Running) < NumThreads) <=> (freeWorkers # <<>>)
  BY RunningCounts DEF Contract!Cardinality, Cardinality
<1>5. CASE freeWorkers = <<>>
  <2>1. listeners' = Append(listeners, task) /\ Running' = Running
    BY <1>3, <1>5 DEF runTask, Running
  <2> QED
    BY <1>3, <1>4, <1>5, <2>1 DEF Contract!HandIn, Running, Settled
<1>6. CASE freeWorkers # <<>>
  <2> DEFINE worker == Last(freeWorkers)
  <2>1. worker = freeWorkers[Len(freeWorkers)] /\ Len(freeWorkers) \in DOMAIN freeWorkers
    BY <1>2, <1>6 DEF Last
  <2>2. worker \in workers /\ taskInfo[worker] = null /\ worker \in Worker
    BY <1>1, <1>2, <2>1 DEF Stack
  <2>3. taskInfo' = [taskInfo EXCEPT ![worker] = task] /\ listeners' = listeners
    BY <1>6 DEF runTask
  <2> HIDE DEF worker
  <2>4. Running' = Running \cup {task}
    BY <1>2, <1>3, <2>2, <2>3 DEF Running
  <2> QED
    BY <1>3, <1>4, <1>6, <2>3, <2>4 DEF Contract!HandIn, Running, Settled
<1> QED
  BY <1>5, <1>6

\* Every step of the pool is one of TaskPool, or none.
LEMMA StepSimulation ==
  ASSUME IInv, [Next]_vars
  PROVE  [Contract!Next]_Contract!vars
<1>1. CASE runTask
  BY <1>1, HandInSimulates DEF Contract!Next
<1>2. CASE onMessage
  <2> DEFINE worker == Head(events).worker
  <2>1. Contract!Settle(taskInfo[worker])
    <3>1. workers' = (workers \ {worker}) \cup {worker}
      BY <1>2, MessageEffect
    <3>2. \A w \in workers \ {worker} : taskInfo'[w] = taskInfo[w]
      BY <1>2, MessageEffect, Types DEF IInv
    <3>3. \/ listeners = <<>> /\ listeners' = <<>> /\ taskInfo'[worker] = null
          \/ /\ listeners # <<>> /\ listeners' = Tail(listeners)
             /\ taskInfo'[worker] = Head(listeners)
      BY <1>2, MessageEffect, Types DEF IInv
    <3>4. /\ worker \in workers /\ taskInfo[worker] \in Task /\ done(taskInfo[worker])
          /\ handedIn' = handedIn /\ worker \in workers'
      BY <1>2, MessageEffect
    <3> HIDE DEF worker
    <3>5. \A w \in workers \ {worker} : w # worker /\ taskInfo'[w] = taskInfo[w]
      BY <3>2
    <3> QED
      BY <3>1, <3>3, <3>4, <3>5, SettleSimulates
  <2> QED
    BY <2>1 DEF Contract!Next, Contract!Settle
<1>3. CASE onError
  <2> DEFINE worker == Head(events).worker
             new == created + 1
  <2>1. Contract!Settle(taskInfo[worker])
    <3>1. new \in Worker /\ new \notin workers
      <4>1. new \notin 1 .. created
        BY Types DEF IInv
      <4> QED
        BY <1>3, <4>1, ErrorEffect DEF IInv, TypeOK
    <3>2. \A w \in workers \ {worker} : w # new /\ taskInfo'[w] = taskInfo[w]
      BY <1>3, <3>1, ErrorEffect, Types DEF IInv
    <3>3. \/ listeners = <<>> /\ listeners' = <<>> /\ taskInfo'[new] = null
          \/ /\ listeners # <<>> /\ listeners' = Tail(listeners)
             /\ taskInfo'[new] = Head(listeners)
      BY <1>3, ErrorEffect, Types DEF IInv
    <3>4. /\ worker \in workers /\ taskInfo[worker] \in Task /\ done(taskInfo[worker])
          /\ handedIn' = handedIn /\ workers' = (workers \ {worker}) \cup {new}
      BY <1>3, ErrorEffect
    <3> HIDE DEF worker, new
    <3>5. new \in workers'
      BY <3>4
    <3> QED
      BY <3>2, <3>3, <3>4, <3>5, SettleSimulates
  <2> QED
    BY <2>1 DEF Contract!Next, Contract!Settle
<1>4. ASSUME UNCHANGED <<handedIn, listeners, taskInfo, workers, callbacks>>
      PROVE  UNCHANGED Contract!vars
  BY <1>4 DEF Contract!vars
<1>5. CASE \E worker \in Worker : Work(worker) \/ Crash(worker)
  BY <1>4, <1>5 DEF Work, Crash, pool
<1>6. CASE onErrorWhenFree
  BY <1>4, <1>6 DEF onErrorWhenFree, pool
<1>7. CASE UNCHANGED vars
  BY <1>4, <1>7 DEF vars, pool
<1> QED
  BY <1>1, <1>2, <1>3, <1>5, <1>6, <1>7 DEF Next

\* The pool implements TaskPool, errors of workers included: tasks start in the
\* order they were handed in and each is settled once (worker_pool.ts:29-78).
THEOREM Refinement == Spec => ImplementsTaskPool
<1>1. Init => Contract!Init
  <2> SUFFICES ASSUME Init PROVE Contract!Init
    OBVIOUS
  <2>1. \A worker \in workers : worker \in Worker
    BY NumThreadsAssumption, MaxCrashesAssumption DEF Init, Worker
  <2>2. Running = {} /\ Settled = {}
    BY <2>1 DEF Init, Running, Settled
  <2> QED
    BY <2>2 DEF Init, Contract!Init, Running, Settled
<1> QED
  BY <1>1, StepSimulation, Invariance, PTL DEF Spec, ImplementsTaskPool, Contract!Spec

-----------------------------------------------------------------------------
(***************************************************************************)
(* The pool composed with stellar-core.                                    *)
(***************************************************************************)

\* Core and the requests under way give the pool no step it does not have alone.
LEMMA ThePoolAtWork == NodeSpec => Spec
<1>1. NodeInit => Init
  BY DEF NodeInit
<1>2. [NodeNext]_nodeVars => [Next]_vars
  <2> SUFFICES ASSUME [NodeNext]_nodeVars PROVE [Next]_vars
    OBVIOUS
  <2>1. CASE HandOut
    BY <2>1 DEF HandOut, Next
  <2>2. CASE \E task \in underWay : Answer(task)
    BY <2>2 DEF Answer
  <2>3. CASE \E worker \in Worker : Settle(worker)
    BY <2>3 DEF Settle, Next
  <2>4. CASE UNCHANGED nodeVars
    BY <2>4 DEF nodeVars
  <2> QED
    BY <2>1, <2>2, <2>3, <2>4 DEF NodeNext
<1> QED
  BY <1>1, <1>2, PTL DEF NodeSpec, Spec

\* The load generator's workers, stack of free workers and messages agree on who
\* has a task (worker_pool.ts:46-48, :64, :75-76).
THEOREM NodeWorkersCorrect == NodeSpec => []WorkersKnowTheirTasks
BY ThePoolAtWork, WorkersCorrect, PTL

\* The load generator closes its pool (index.ts:170) only when every log's callback
\* was called.
THEOREM NodeClosedCorrect == NodeSpec => []ClosedWhenAllSettled
BY ThePoolAtWork, ClosedCorrect, PTL

\* The load generator's logs start in the order index.ts hands them in, at most
\* NumThreads at a time, and each is settled once.
THEOREM NodeRefinement == NodeSpec => ImplementsTaskPool
BY ThePoolAtWork, Refinement, PTL

-----------------------------------------------------------------------------
(***************************************************************************)
(* The logs of a device.                                                   *)
(***************************************************************************)

\* How many tasks have been given to a worker: the first ones.
Started == handedIn - Len(listeners)
Untroubled(task) == DeviceOf(task) \notin troubled

\* The tasks that wait are the ones that come after them, in order.
Queue == \A i \in DOMAIN listeners : listeners[i] = Started + i

\* The request of a task is under way from its start until core answers, and if
\* nothing goes wrong the thread waits for the answer.
Requests ==
  /\ \A task \in underWay : task <= Started
  /\ \A worker \in workers :
       taskInfo[worker] # null /\ Untroubled(taskInfo[worker]) /\ thread[worker] # "busy"
         => taskInfo[worker] \notin underWay
  /\ \A task \in Task : callbacks[task] > 0 /\ Untroubled(task) => task \notin underWay

\* Core has taken in the logs of an untroubled device that were started, but for
\* the one whose request is under way.
Ledger == \A task \in Task : Untroubled(task) =>
  /\ task > Started => AccountSeq(task) > accepted[DeviceOf(task)]
  /\ task <= Started => task \in underWay \/ AccountSeq(task) <= accepted[DeviceOf(task)]
  /\ task \in underWay =>
       /\ AccountSeq(task) > accepted[DeviceOf(task)]
       /\ \A other \in underWay : DeviceOf(other) = DeviceOf(task) => other = task

NodeTypeOK ==
  /\ underWay \subseteq Task
  /\ accepted \in [Device -> Nat]

NodeIInv == IInv /\ Queue /\ NodeTypeOK /\ Requests /\ Ledger

-----------------------------------------------------------------------------
(***************************************************************************)
(* The loops of index.ts:150-166 number the logs of each device.           *)
(***************************************************************************)

\* Dividing by the number of devices.
LEMMA Division ==
  ASSUME NEW n \in Nat \ {0}, NEW a \in Nat
  PROVE  a = n * (a \div n) + (a % n) /\ a \div n \in Nat /\ a % n \in 0 .. n - 1
OBVIOUS

\* One round of the loop earlier.
LEMMA RoundBefore ==
  ASSUME NEW n \in Nat \ {0}, NEW a \in Nat
  PROVE  /\ a >= n => (a - n) \div n = (a \div n) - 1 /\ (a - n) % n = a % n
         /\ a < n => a \div n = 0
<1>1. CASE a >= n
  BY <1>1
<1>2. CASE a < n
  BY <1>2
<1> QED
  BY <1>1, <1>2

\* Rounds grow with the number of the task.
LEMMA RoundsGrow ==
  ASSUME NEW n \in Nat \ {0}, NEW q \in Nat, NEW p \in Nat, NEW r \in 0 .. n - 1,
         n * q + r < n * p + r
  PROVE  q < p
OBVIOUS

\* A task is a log of one device, and its sequence number counts from one.
LEMMA TaskIsALog ==
  ASSUME NEW task \in Task
  PROVE  DeviceOf(task) \in Device /\ AccountSeq(task) \in Nat \ {0}
<1>1. task - 1 \in Nat
  BY DEF Task
<1>2. (task - 1) \div NumDevices \in Nat /\ (task - 1) % NumDevices \in 0 .. NumDevices - 1
  BY <1>1, NumDevicesAssumption, Division
<1> QED
  BY <1>2, NumDevicesAssumption DEF DeviceOf, AccountSeq, Device

\* The sequence numbers of a device grow in the order its logs are handed in.
LEMMA LaterLogs ==
  ASSUME NEW task \in Task, NEW later \in Task, task < later,
         DeviceOf(task) = DeviceOf(later)
  PROVE  AccountSeq(task) < AccountSeq(later)
<1> DEFINE a == task - 1
           b == later - 1
<1>1. a \in Nat /\ b \in Nat /\ a < b
  BY DEF Task
<1> HIDE DEF a, b
<1>2. /\ a = NumDevices * (a \div NumDevices) + (a % NumDevices)
      /\ b = NumDevices * (b \div NumDevices) + (b % NumDevices)
      /\ a \div NumDevices \in Nat /\ b \div NumDevices \in Nat
      /\ a % NumDevices \in 0 .. NumDevices - 1 /\ b % NumDevices \in 0 .. NumDevices - 1
  BY <1>1, NumDevicesAssumption, Division
<1>3. a % NumDevices = b % NumDevices
  BY <1>2, NumDevicesAssumption DEF DeviceOf, a, b
<1>4. a \div NumDevices < b \div NumDevices
  <2> DEFINE q == a \div NumDevices
             p == b \div NumDevices
             r == a % NumDevices
  <2>1. NumDevices * q + r < NumDevices * p + r
    BY <1>1, <1>2, <1>3
  <2>2. q \in Nat /\ p \in Nat /\ r \in 0 .. NumDevices - 1
    BY <1>2
  <2> HIDE DEF q, p, r
  <2>3. q < p
    BY <2>1, <2>2, NumDevicesAssumption, RoundsGrow
  <2> QED
    BY <2>3 DEF q, p
<1> QED
  BY <1>2, <1>4 DEF AccountSeq, a, b

\* A log that is not the first of its device comes right after one of the same
\* device.
LEMMA LogBefore ==
  ASSUME NEW task \in Task, AccountSeq(task) # 1
  PROVE  \E before \in Task : /\ before < task
                              /\ DeviceOf(before) = DeviceOf(task)
                              /\ AccountSeq(before) = AccountSeq(task) - 1
<1> DEFINE a == task - 1
           before == task - NumDevices
<1>1. a \in Nat /\ NumDevices \in Nat \ {0}
  BY NumDevicesAssumption DEF Task
<1>2. a >= NumDevices
  <2>1. a \div NumDevices # 0
    BY <1>1 DEF AccountSeq
  <2> HIDE DEF a
  <2> QED
    BY <1>1, <2>1, RoundBefore
<1>3. /\ (a - NumDevices) \div NumDevices = (a \div NumDevices) - 1
      /\ (a - NumDevices) % NumDevices = a % NumDevices
      /\ a \div NumDevices \in Nat
  <2> HIDE DEF a
  <2> QED
    BY <1>1, <1>2, RoundBefore, Division
<1>4. before \in Task /\ before < task /\ before - 1 = a - NumDevices
  BY <1>1, <1>2, TotalAssumption DEF Task
<1>5. DeviceOf(before) = DeviceOf(task)
  BY <1>3, <1>4 DEF DeviceOf
<1>6. AccountSeq(before) = AccountSeq(task) - 1
  <2> DEFINE q == a \div NumDevices
  <2>1. AccountSeq(before) = (q - 1) + 1 /\ AccountSeq(task) = q + 1 /\ q \in Nat
    BY <1>3, <1>4 DEF AccountSeq
  <2> HIDE DEF q
  <2> QED
    BY <2>1
<1> QED
  BY <1>4, <1>5, <1>6

-----------------------------------------------------------------------------
(***************************************************************************)
(* A step of the pool starts the next task, or none.                       *)
(***************************************************************************)

NothingStarts ==
  /\ Started' = Started
  /\ \A worker \in Worker : taskInfo'[worker] \in {taskInfo[worker], null}
  /\ \A worker \in workers' :
       taskInfo'[worker] # null => worker \in workers /\ thread'[worker] = thread[worker]

Starts(worker) ==
  /\ Started + 1 \in Task /\ Started' = Started + 1
  /\ worker \in workers' /\ worker \in Worker
  /\ taskInfo[worker] # Started + 1 /\ taskInfo'[worker] = Started + 1
  /\ thread[worker] \in {"idle", "dead"}
  /\ thread'[worker] = IF thread[worker] = "idle" THEN "busy" ELSE "dead"
  /\ \A other \in Worker \ {worker} :
       /\ taskInfo'[other] = taskInfo[other] /\ thread'[other] = thread[other]
       /\ other \in workers' => other \in workers

\* The tasks that wait, and the number of the next one to start.
LEMMA NextTask ==
  ASSUME IInv, Queue
  PROVE  /\ Started \in Nat
         /\ listeners # <<>> => Head(listeners) = Started + 1 /\ Started + 1 \in Task
         /\ \A worker \in workers : taskInfo[worker] # Started + 1
         /\ \A task \in Task : callbacks[task] > 0 => task <= Started
<1>1. TypeOK /\ Tasks
  BY DEF IInv
<1>2. /\ listeners \in Seq(Task) /\ Len(listeners) \in Nat /\ handedIn \in Nat
      /\ DOMAIN listeners = 1 .. Len(listeners)
      /\ taskInfo \in [Worker -> Task \cup {null}] /\ workers \subseteq Worker
  BY <1>1, Types
<1>3. listeners # <<>> => Head(listeners) = Started + 1 /\ Started + 1 \in Task
  BY <1>2 DEF Queue
<1>4. Started \in Nat
  <2>1. CASE listeners = <<>>
    BY <1>2, <2>1 DEF Started
  <2>2. CASE listeners # <<>>
    <3>1. Started \in Int
      BY <1>2 DEF Started
    <3>2. Started + 1 \in 1 .. Total
      BY <1>3, <2>2 DEF Task
    <3> HIDE DEF Started
    <3> QED
      BY <3>1, <3>2, TotalAssumption
  <2> QED
    BY <2>1, <2>2
<1>5. \A task \in Task : Started < task /\ task <= handedIn =>
        \E i \in DOMAIN listeners : listeners[i] = task
  <2> SUFFICES ASSUME NEW task \in Task, Started < task, task <= handedIn
               PROVE  \E i \in DOMAIN listeners : listeners[i] = task
    OBVIOUS
  <2>1. task - Started \in 1 .. Len(listeners)
    BY <1>2, <1>4 DEF Task, Started
  <2>2. listeners[task - Started] = Started + (task - Started)
    BY <1>2, <2>1 DEF Queue
  <2> QED
    BY <1>2, <1>4, <2>1, <2>2 DEF Task
<1>6. \A worker \in workers : taskInfo[worker] # Started + 1
  <2> SUFFICES ASSUME NEW worker \in workers, taskInfo[worker] = Started + 1 PROVE FALSE
    OBVIOUS
  <2>1. taskInfo[worker] # null /\ taskInfo[worker] \in Task
    BY <1>2, <1>4 DEF null
  <2>2. taskInfo[worker] <= handedIn /\ \A i \in DOMAIN listeners : listeners[i] # taskInfo[worker]
    BY <1>1, <2>1 DEF Tasks
  <2> QED
    BY <1>4, <1>5, <2>1, <2>2
<1>7. \A task \in Task : callbacks[task] > 0 => task <= Started
  <2> SUFFICES ASSUME NEW task \in Task, callbacks[task] > 0 PROVE task <= Started
    OBVIOUS
  <2>1. task \in Nat /\ ~(callbacks[task] = 0)
    BY DEF Task
  <2>2. task <= handedIn
    BY <1>1, <1>2, <2>1 DEF Tasks
  <2>3. \A i \in DOMAIN listeners : listeners[i] # task
    BY <1>1, <2>1 DEF Tasks
  <2> QED
    BY <1>4, <1>5, <2>1, <2>2, <2>3
<1> QED
  BY <1>3, <1>4, <1>6, <1>7

\* Taking the first listener off leaves the others in order.
LEMMA QueueMovesUp ==
  ASSUME IInv, Queue, listeners # <<>>, listeners' = Tail(listeners), handedIn' = handedIn
  PROVE  Queue' /\ Started' = Started + 1
<1>1. /\ listeners \in Seq(Task) /\ handedIn \in Nat
      /\ Len(listeners) \in Nat \ {0} /\ DOMAIN listeners = 1 .. Len(listeners)
  BY Types DEF IInv
<1>2. /\ Len(listeners') = Len(listeners) - 1
      /\ DOMAIN listeners' = 1 .. Len(listeners) - 1
      /\ \A i \in 1 .. Len(listeners) - 1 : listeners'[i] = listeners[i + 1]
  BY <1>1
<1>3. Started' = Started + 1 /\ Started \in Int
  BY <1>1, <1>2 DEF Started
<1>4. \A i \in 1 .. Len(listeners) - 1 : listeners'[i] = Started' + i
  <2> SUFFICES ASSUME NEW i \in 1 .. Len(listeners) - 1
               PROVE  listeners'[i] = Started' + i
    OBVIOUS
  <2>1. i + 1 \in DOMAIN listeners /\ i \in Int
    BY <1>1
  <2>2. listeners'[i] = Started + (i + 1)
    BY <1>2, <2>1 DEF Queue
  <2> QED
    BY <1>3, <2>1, <2>2
<1> QED
  BY <1>2, <1>3, <1>4 DEF Queue

\* What a task handed in changes.
LEMMA HandInStarts ==
  ASSUME IInv, Queue, runTask
  PROVE  Queue' /\ (NothingStarts \/ \E worker \in Worker : Starts(worker))
<1>1. TypeOK /\ Stack /\ Mail
  BY DEF IInv
<1>2. /\ freeWorkers \in Seq(Worker) /\ workers \subseteq Worker
      /\ listeners \in Seq(Task) /\ handedIn \in Nat /\ Len(listeners) \in Nat
      /\ taskInfo \in [Worker -> Task \cup {null}] /\ thread \in [Worker -> State]
  BY <1>1, Types
<1>3. /\ handedIn < Total /\ handedIn' = handedIn + 1 /\ workers' = workers
  BY DEF runTask
<1>4. CASE freeWorkers = <<>>
  <2>1. listeners' = Append(listeners, handedIn + 1) /\ taskInfo' = taskInfo /\ thread' = thread
    BY <1>4 DEF runTask
  <2>2. Started' = Started
    BY <1>2, <1>3, <2>1 DEF Started
  <2>3. Queue'
    <3>1. /\ DOMAIN listeners' = 1 .. Len(listeners) + 1
          /\ listeners'[Len(listeners) + 1] = handedIn + 1
          /\ \A i \in 1 .. Len(listeners) : listeners'[i] = listeners[i]
      BY <1>2, <2>1
    <3>2. \A i \in 1 .. Len(listeners) : listeners'[i] = Started + i
      BY <1>2, <3>1 DEF Queue
    <3>3. Started + (Len(listeners) + 1) = handedIn + 1
      BY <1>2 DEF Started
    <3>4. \A i \in DOMAIN listeners' : listeners'[i] = Started + i
      BY <1>2, <3>1, <3>2, <3>3
    <3> QED
      BY <2>2, <3>4 DEF Queue
  <2>4. NothingStarts
    BY <1>3, <2>1, <2>2 DEF NothingStarts
  <2> QED
    BY <2>3, <2>4
<1>5. CASE freeWorkers # <<>>
  <2> DEFINE worker == Last(freeWorkers)
  <2>1. worker = freeWorkers[Len(freeWorkers)] /\ Len(freeWorkers) \in DOMAIN freeWorkers
    BY <1>2, <1>5 DEF Last
  <2>2. worker \in workers /\ taskInfo[worker] = null /\ worker \in Worker
    BY <1>1, <1>2, <2>1 DEF Stack
  <2>3. /\ taskInfo' = [taskInfo EXCEPT ![worker] = handedIn + 1]
        /\ thread' = [thread EXCEPT ![worker] = IF @ = "idle" THEN "busy" ELSE @]
        /\ listeners' = listeners
    BY <1>5 DEF runTask
  <2> HIDE DEF worker
  <2>4. listeners = <<>>
    BY <1>1, <1>5 DEF Stack
  <2>5. Started = handedIn /\ Started' = handedIn + 1
    BY <1>2, <1>3, <2>3, <2>4 DEF Started
  <2>6. Queue'
    BY <2>3, <2>4 DEF Queue
  <2>7. handedIn + 1 \in Task /\ taskInfo[worker] # handedIn + 1
    BY <1>2, <1>3, <2>2, TotalAssumption DEF Task, null
  <2>8. thread[worker] \in {"idle", "dead"}
    BY <1>1, <1>2, <2>2 DEF Mail, State
  <2>9. Starts(worker)
    BY <1>2, <1>3, <2>2, <2>3, <2>5, <2>7, <2>8 DEF Starts
  <2> QED
    BY <2>2, <2>6, <2>9
<1> QED
  BY <1>4, <1>5

\* What the result of a task changes.
LEMMA MessageStarts ==
  ASSUME IInv, Queue, onMessage
  PROVE  Queue' /\ (NothingStarts \/ \E worker \in Worker : Starts(worker))
<1> DEFINE worker == Head(events).worker
<1>1. /\ worker \in workers /\ taskInfo[worker] \in Task
      /\ events # <<>> /\ events[1].kind = "message"
      /\ UNCHANGED <<handedIn, created, workers, exited>>
      /\ \/ /\ listeners = <<>> /\ listeners' = <<>>
            /\ taskInfo' = [taskInfo EXCEPT ![worker] = null] /\ thread' = thread
         \/ /\ listeners # <<>> /\ listeners' = Tail(listeners)
            /\ taskInfo' = [taskInfo EXCEPT ![worker] = Head(listeners)]
            /\ thread' = [thread EXCEPT ![worker] = IF @ = "idle" THEN "busy" ELSE @]
  BY MessageEffect
<1>2. thread[worker] # "busy"
  <2>1. 1 \in DOMAIN events /\ Head(events) = events[1]
    BY <1>1, Types DEF IInv
  <2> QED
    BY <1>1, <2>1 DEF IInv, Mail
<1> HIDE DEF worker
<1>3. /\ workers \subseteq Worker /\ worker \in Worker
      /\ taskInfo \in [Worker -> Task \cup {null}] /\ thread \in [Worker -> State]
  BY <1>1, Types DEF IInv
<1>4. CASE listeners = <<>>
  <2>1. /\ taskInfo' = [taskInfo EXCEPT ![worker] = null] /\ thread' = thread
        /\ listeners' = listeners
    BY <1>1, <1>4
  <2>2. Queue' /\ Started' = Started
    BY <1>1, <1>4, <2>1 DEF Queue, Started
  <2> QED
    BY <1>1, <1>3, <2>1, <2>2 DEF NothingStarts
<1>5. CASE listeners # <<>>
  <2>1. /\ taskInfo' = [taskInfo EXCEPT ![worker] = Head(listeners)]
        /\ thread' = [thread EXCEPT ![worker] = IF @ = "idle" THEN "busy" ELSE @]
        /\ listeners' = Tail(listeners)
    BY <1>1, <1>5
  <2>2. Queue' /\ Started' = Started + 1
    BY <1>1, <1>5, <2>1, QueueMovesUp
  <2>3. /\ Head(listeners) = Started + 1 /\ Started + 1 \in Task
        /\ taskInfo[worker] # Started + 1
    BY <1>1, <1>5, NextTask
  <2>4. thread[worker] \in {"idle", "dead"}
    BY <1>2, <1>3 DEF State
  <2>5. Starts(worker)
    BY <1>1, <1>3, <2>1, <2>2, <2>3, <2>4 DEF Starts
  <2> QED
    BY <1>3, <2>2, <2>5
<1> QED
  BY <1>4, <1>5

\* What the death of a worker changes.
LEMMA ErrorStarts ==
  ASSUME IInv, Queue, onError
  PROVE  Queue' /\ (NothingStarts \/ \E worker \in Worker : Starts(worker))
<1> DEFINE worker == Head(events).worker
           new == created + 1
<1>1. /\ new \in Worker /\ taskInfo[new] = null /\ thread[new] = "idle"
      /\ workers' = (workers \ {worker}) \cup {new}
      /\ UNCHANGED <<handedIn, exited>>
      /\ \/ /\ listeners = <<>> /\ listeners' = <<>>
            /\ taskInfo' = taskInfo /\ thread' = thread
         \/ /\ listeners # <<>> /\ listeners' = Tail(listeners)
            /\ taskInfo' = [taskInfo EXCEPT ![new] = Head(listeners)]
            /\ thread' = [thread EXCEPT ![new] = "busy"]
  BY ErrorEffect
<1> HIDE DEF worker, new
<1>2. /\ workers \subseteq Worker
      /\ taskInfo \in [Worker -> Task \cup {null}] /\ thread \in [Worker -> State]
  BY Types DEF IInv
<1>3. CASE listeners = <<>>
  <2>1. taskInfo' = taskInfo /\ thread' = thread /\ listeners' = listeners
    BY <1>1, <1>3
  <2>2. Queue' /\ Started' = Started
    BY <1>1, <1>3, <2>1 DEF Queue, Started
  <2> QED
    BY <1>1, <1>2, <2>1, <2>2 DEF NothingStarts
<1>4. CASE listeners # <<>>
  <2>1. /\ taskInfo' = [taskInfo EXCEPT ![new] = Head(listeners)]
        /\ thread' = [thread EXCEPT ![new] = "busy"]
        /\ listeners' = Tail(listeners)
    BY <1>1, <1>4
  <2>2. Queue' /\ Started' = Started + 1
    BY <1>1, <1>4, <2>1, QueueMovesUp
  <2>3. Head(listeners) = Started + 1 /\ Started + 1 \in Task /\ Started + 1 # null
    BY <1>4, NextTask DEF Task, null
  <2>4. Starts(new)
    BY <1>1, <1>2, <2>1, <2>2, <2>3 DEF Starts
  <2> QED
    BY <1>1, <2>2, <2>4
<1> QED
  BY <1>3, <1>4

\* A callback is called for a task whose worker has done with it.
LEMMA SettledByWorker ==
  ASSUME IInv, HandOut, NEW task \in Task, callbacks'[task] > 0
  PROVE  \/ callbacks[task] > 0
         \/ \E worker \in workers : taskInfo[worker] = task /\ thread[worker] # "busy"
<1> DEFINE worker == Head(events).worker
<1>1. callbacks \in [Task -> Nat]
  BY DEF IInv, TypeOK
<1>2. CASE runTask \/ onErrorWhenFree
  BY <1>2 DEF runTask, onErrorWhenFree
<1>3. CASE onMessage
  <2>1. /\ worker \in workers /\ taskInfo[worker] \in Task /\ done(taskInfo[worker])
        /\ events # <<>> /\ events[1].kind = "message"
    BY <1>3, MessageEffect
  <2>2. thread[worker] # "busy"
    <3>1. 1 \in DOMAIN events /\ Head(events) = events[1]
      BY <2>1, Types DEF IInv
    <3> QED
      BY <2>1, <3>1 DEF IInv, Mail
  <2> HIDE DEF worker
  <2> QED
    BY <1>1, <2>1, <2>2 DEF done
<1>4. CASE onError
  <2>1. /\ worker \in workers /\ taskInfo[worker] \in Task /\ done(taskInfo[worker])
        /\ thread[worker] = "dead"
    BY <1>4, ErrorEffect
  <2> HIDE DEF worker
  <2> QED
    BY <1>1, <2>1 DEF done
<1> QED
  BY <1>2, <1>3, <1>4 DEF HandOut

-----------------------------------------------------------------------------
(***************************************************************************)
(* The steps keep the invariant.                                           *)
(***************************************************************************)

\* A step of the pool that starts no task sends no request.
LEMMA NothingIsSent ==
  ASSUME NodeIInv, HandOut, NothingStarts
  PROVE  underWay' = underWay /\ troubled \subseteq troubled'
<1>1. \A w \in Worker : taskInfo'[w] \in {taskInfo[w], null}
  BY DEF NothingStarts
<1>2. \A threads : {taskInfo'[w] : w \in {v \in Worker : /\ taskInfo'[v] \notin {taskInfo[v], null}
                                                   /\ thread[v] \in threads}} = {}
  BY <1>1
<1>3. underWay' = underWay \cup {}
  BY <1>2 DEF HandOut
<1>4. troubled \subseteq troubled'
  BY DEF HandOut
<1> QED
  BY <1>3, <1>4

\* The request of the task that starts is sent, unless its worker is dead, and a
\* device with two requests under way is troubled.
LEMMA NextIsSent ==
  ASSUME NodeIInv, HandOut, NEW worker \in Worker, Starts(worker)
  PROVE  /\ troubled \subseteq troubled'
         /\ thread[worker] = "dead" =>
              underWay' = underWay /\ DeviceOf(Started + 1) \in troubled'
         /\ thread[worker] = "idle" =>
              /\ underWay' = underWay \cup {Started + 1}
              /\ \A task, other \in underWay' :
                   DeviceOf(task) = DeviceOf(other) /\ task # other
                     => DeviceOf(task) \in troubled'
<1> DEFINE given(threads) ==
             {taskInfo'[w] : w \in {v \in Worker : /\ taskInfo'[v] \notin {taskInfo[v], null}
                                                /\ thread[v] \in threads}}
           after == underWay \cup given({"idle", "busy"})
           overlap == {t \in after : \E u \in after \ {t} : DeviceOf(u) = DeviceOf(t)}
<1>1. /\ underWay' = after
      /\ troubled' = troubled \cup {DeviceOf(t) : t \in overlap \cup given({"dead"})}
  BY DEF HandOut
<1>2. Started + 1 # null
  BY DEF Starts, Task, null
<1>3. {v \in Worker : taskInfo'[v] \notin {taskInfo[v], null}} = {worker}
  BY <1>2 DEF Starts
<1>4. taskInfo'[worker] = Started + 1
  BY DEF Starts
<1>5. ASSUME NEW threads
      PROVE  given(threads) = IF thread[worker] \in threads THEN {Started + 1} ELSE {}
  BY <1>3, <1>4
<1>6. troubled \subseteq troubled'
  BY <1>1
<1>7. CASE thread[worker] = "dead"
  <2>1. given({"idle", "busy"}) = {} /\ given({"dead"}) = {Started + 1}
    BY <1>5, <1>7
  <2> HIDE DEF given, overlap
  <2> QED
    BY <1>1, <1>6, <1>7, <2>1
<1>8. CASE thread[worker] = "idle"
  <2>1. given({"idle", "busy"}) = {Started + 1}
    BY <1>5, <1>8
  <2>2. underWay' = underWay \cup {Started + 1}
    BY <1>1, <2>1
  <2>3. \A task, other \in underWay' :
          DeviceOf(task) = DeviceOf(other) /\ task # other => task \in overlap
    <3> HIDE DEF after, given
    <3> QED
      BY <1>1
  <2> HIDE DEF overlap, given, after
  <2> QED
    BY <1>1, <1>6, <1>8, <2>2, <2>3
<1>9. thread[worker] \in {"idle", "dead"}
  BY DEF Starts
<1> QED
  BY <1>7, <1>8, <1>9

\* A step of the pool that starts no task.
LEMMA NothingStartsKeeps ==
  ASSUME NodeIInv, IInv', HandOut, NothingStarts
  PROVE  NodeTypeOK' /\ Requests' /\ Ledger'
<1>1. underWay' = underWay /\ troubled \subseteq troubled' /\ accepted' = accepted
  BY NothingIsSent DEF HandOut
<1>2. Started' = Started
  BY DEF NothingStarts
<1>3. \A task : Untroubled(task)' => Untroubled(task)
  BY <1>1 DEF Untroubled
<1>4. NodeTypeOK'
  BY <1>1 DEF NodeIInv, NodeTypeOK
<1>5. \A task \in underWay' : task <= Started'
  BY <1>1, <1>2 DEF NodeIInv, Requests
<1>6. \A worker \in workers' :
        taskInfo'[worker] # null /\ DeviceOf(taskInfo'[worker]) \notin troubled' /\ thread'[worker] # "busy"
          => taskInfo'[worker] \notin underWay'
  <2>1. workers' \subseteq Worker
    BY NumThreadsAssumption, MaxCrashesAssumption DEF IInv, TypeOK, Worker
  <2> QED
    BY <1>1, <2>1 DEF NodeIInv, Requests, NothingStarts, Untroubled
<1>7. \A task \in Task : callbacks'[task] > 0 /\ Untroubled(task)' => task \notin underWay'
  <2> SUFFICES ASSUME NEW task \in Task, callbacks'[task] > 0, Untroubled(task)'
               PROVE  task \notin underWay
    BY <1>1
  <2>1. \/ callbacks[task] > 0
        \/ \E worker \in workers : taskInfo[worker] = task /\ thread[worker] # "busy"
    BY SettledByWorker DEF NodeIInv
  <2>2. Untroubled(task) /\ task # null
    BY <1>3 DEF Task, null
  <2> QED
    BY <2>1, <2>2 DEF NodeIInv, Requests
<1>8. Ledger'
  BY <1>1, <1>2, <1>3 DEF NodeIInv, Ledger
<1> QED
  BY <1>4, <1>5, <1>6, <1>7, <1>8 DEF Requests, Untroubled

\* A step of the pool that starts the next task.
LEMMA NextStartsKeeps ==
  ASSUME NodeIInv, IInv', HandOut, NEW worker \in Worker, Starts(worker)
  PROVE  NodeTypeOK' /\ Requests' /\ Ledger'
<1> DEFINE next == Started + 1
<1>1. /\ troubled \subseteq troubled' /\ accepted' = accepted
      /\ \/ /\ thread[worker] = "dead" /\ thread'[worker] = "dead"
            /\ underWay' = underWay /\ DeviceOf(next) \in troubled'
         \/ /\ thread[worker] = "idle" /\ thread'[worker] = "busy"
            /\ underWay' = underWay \cup {next}
            /\ \A task, other \in underWay' :
                 DeviceOf(task) = DeviceOf(other) /\ task # other
                   => DeviceOf(task) \in troubled'
  BY NextIsSent DEF HandOut, Starts
<1>2. next \in Task /\ Started' = next /\ Started \in Nat
  BY NextTask DEF Starts, NodeIInv
<1>3. \A task : Untroubled(task)' => Untroubled(task)
  BY <1>1 DEF Untroubled
<1>4. \A task \in Task : task <= next <=> task <= Started \/ task = next
  BY <1>2 DEF Task
<1>5. \A task \in Task : task > next => task > Started
  BY <1>2 DEF Task
<1>6. /\ underWay \subseteq Task /\ \A task \in underWay : task <= Started
      /\ next \notin underWay
  <2>1. \A task \in underWay : task <= Started
    BY DEF NodeIInv, Requests
  <2>2. ~(next <= Started)
    BY <1>2
  <2> QED
    BY <2>1, <2>2 DEF NodeIInv, NodeTypeOK
<1>7. /\ taskInfo'[worker] = next /\ worker \in workers'
      /\ \A other \in Worker \ {worker} :
           /\ taskInfo'[other] = taskInfo[other] /\ thread'[other] = thread[other]
           /\ other \in workers' => other \in workers
  BY DEF Starts
<1>8. next > Started /\ next <= next /\ ~(next > next)
  BY <1>2
<1> HIDE DEF next
<1>9. NodeTypeOK'
  BY <1>1, <1>2 DEF NodeIInv, NodeTypeOK
<1>10. \A task \in underWay' : task <= Started'
  BY <1>1, <1>2, <1>4, <1>6
<1>11. \A w \in workers' :
         taskInfo'[w] # null /\ DeviceOf(taskInfo'[w]) \notin troubled' /\ thread'[w] # "busy"
           => taskInfo'[w] \notin underWay'
  <2> SUFFICES ASSUME NEW w \in workers', taskInfo'[w] # null, DeviceOf(taskInfo'[w]) \notin troubled',
                      thread'[w] # "busy"
               PROVE  taskInfo'[w] \notin underWay'
    OBVIOUS
  <2>1. w \in Worker
    BY NumThreadsAssumption, MaxCrashesAssumption DEF IInv, TypeOK, Worker
  <2>2. CASE w = worker
    BY <1>1, <1>7, <2>2
  <2>3. CASE w # worker
    <3>1. w \in workers /\ taskInfo'[w] = taskInfo[w] /\ thread'[w] = thread[w]
      BY <1>7, <2>1, <2>3
    <3>2. taskInfo[w] \notin underWay
      BY <1>1, <3>1 DEF NodeIInv, Requests, Untroubled
    <3>3. taskInfo[w] # next
      <4>1. taskInfo[w] # Started + 1
        BY <3>1, NextTask DEF NodeIInv
      <4> QED
        BY <4>1 DEF next
    <3> QED
      BY <1>1, <3>1, <3>2, <3>3
  <2> QED
    BY <2>2, <2>3
<1>12. \A task \in Task : callbacks'[task] > 0 /\ Untroubled(task)' => task \notin underWay'
  <2> SUFFICES ASSUME NEW task \in Task, callbacks'[task] > 0, Untroubled(task)'
               PROVE  task \notin underWay'
    OBVIOUS
  <2>1. \/ callbacks[task] > 0
        \/ \E w \in workers : taskInfo[w] = task /\ thread[w] # "busy"
    BY SettledByWorker DEF NodeIInv
  <2>2. Untroubled(task) /\ task # null
    BY <1>3 DEF Task, null
  <2>3. task \notin underWay
    BY <2>1, <2>2 DEF NodeIInv, Requests
  <2>4. task # next
    <3>1. callbacks[task] > 0 => task <= Started
      BY NextTask DEF NodeIInv
    <3>2. \A w \in workers : taskInfo[w] # Started + 1
      BY NextTask DEF NodeIInv
    <3>3. ~(next <= Started)
      BY <1>2 DEF next
    <3> QED
      BY <2>1, <3>1, <3>2, <3>3 DEF next
  <2> QED
    BY <1>1, <2>3, <2>4
<1>13. Ledger'
  <2> SUFFICES ASSUME NEW task \in Task, Untroubled(task)'
               PROVE  /\ task > Started' => AccountSeq(task) > accepted'[DeviceOf(task)]
                      /\ task <= Started' => \/ task \in underWay'
                                             \/ AccountSeq(task) <= accepted'[DeviceOf(task)]
                      /\ task \in underWay' =>
                           /\ AccountSeq(task) > accepted'[DeviceOf(task)]
                           /\ \A other \in underWay' :
                                DeviceOf(other) = DeviceOf(task) => other = task
    BY DEF Ledger
  <2>1. /\ task > Started => AccountSeq(task) > accepted[DeviceOf(task)]
        /\ task <= Started => task \in underWay \/ AccountSeq(task) <= accepted[DeviceOf(task)]
        /\ task \in underWay =>
             /\ AccountSeq(task) > accepted[DeviceOf(task)]
             /\ \A other \in underWay : DeviceOf(other) = DeviceOf(task) => other = task
    BY <1>3 DEF NodeIInv, Ledger
  <2>2. task > Started' => AccountSeq(task) > accepted'[DeviceOf(task)]
    BY <1>1, <1>2, <1>5, <2>1
  <2>3. task = next => task \in underWay'
    BY <1>1 DEF Untroubled
  <2>4. task <= Started' => task \in underWay' \/ AccountSeq(task) <= accepted'[DeviceOf(task)]
    BY <1>1, <1>2, <1>4, <2>1, <2>3
  <2>5. task \in underWay' => AccountSeq(task) > accepted'[DeviceOf(task)]
    BY <1>1, <1>8, <2>1
  <2>6. task \in underWay' => \A other \in underWay' :
          DeviceOf(other) = DeviceOf(task) => other = task
    BY <1>1, <2>1 DEF Untroubled
  <2> QED
    BY <2>2, <2>4, <2>5, <2>6
<1> QED
  BY <1>9, <1>10, <1>11, <1>12, <1>13 DEF Requests, Untroubled

\* A task of an untroubled device whose request is under way is the next one core
\* expects.
LEMMA NextForCore ==
  ASSUME NodeIInv, NEW task \in underWay, Untroubled(task)
  PROVE  AccountSeq(task) = accepted[DeviceOf(task)] + 1
<1>1. task \in Task /\ task <= Started /\ accepted \in [Device -> Nat] /\ Started \in Nat
  BY NextTask DEF NodeIInv, NodeTypeOK, Requests
<1>2. AccountSeq(task) \in Nat \ {0} /\ accepted[DeviceOf(task)] \in Nat
  BY <1>1, TaskIsALog
<1>3. /\ AccountSeq(task) > accepted[DeviceOf(task)]
      /\ \A other \in underWay : DeviceOf(other) = DeviceOf(task) => other = task
  BY <1>1 DEF NodeIInv, Ledger
<1>4. CASE AccountSeq(task) = 1
  BY <1>2, <1>3, <1>4
<1>5. CASE AccountSeq(task) # 1
  <2>1. PICK before \in Task : /\ before < task
                               /\ DeviceOf(before) = DeviceOf(task)
                               /\ AccountSeq(before) = AccountSeq(task) - 1
    BY <1>1, <1>5, LogBefore
  <2>2. before <= Started /\ before # task
    BY <1>1, <2>1 DEF Task
  <2>3. Untroubled(before) /\ before \notin underWay
    BY <1>3, <2>1, <2>2 DEF Untroubled
  <2>4. AccountSeq(before) <= accepted[DeviceOf(before)]
    BY <2>2, <2>3 DEF NodeIInv, Ledger
  <2>5. AccountSeq(task) - 1 <= accepted[DeviceOf(task)]
    BY <2>1, <2>4
  <2> QED
    BY <1>2, <1>3, <2>5
<1> QED
  BY <1>4, <1>5

\* Core answers.
LEMMA AnswerKeeps ==
  ASSUME NodeIInv, NEW task \in underWay, Answer(task)
  PROVE  NodeIInv'
<1>1. /\ underWay' = underWay \ {task} /\ troubled' = troubled
      /\ accepted' = [accepted EXCEPT ![DeviceOf(task)] =
                        IF AccountSeq(task) = @ + 1 THEN @ + 1 ELSE @]
      /\ UNCHANGED vars
  BY DEF Answer
<1>2. task \in Task /\ task <= Started /\ Started \in Nat
      /\ accepted \in [Device -> Nat] /\ underWay \subseteq Task
  BY NextTask DEF NodeIInv, NodeTypeOK, Requests
<1>3. Started' = Started /\ \A t : Untroubled(t)' <=> Untroubled(t)
  BY <1>1 DEF Started, Untroubled, vars, pool
<1>4. IInv' /\ Queue'
  BY <1>1, <1>3 DEF NodeIInv, IInv, TypeOK, Crew, Dead, Stack, Mail, Tasks, Count, Settled, Queue,
                    vars, pool
<1>5. NodeTypeOK'
  BY <1>1, <1>2, TaskIsALog DEF NodeTypeOK
<1>6. Requests'
  BY <1>1, <1>3 DEF NodeIInv, Requests, vars, pool
<1>7. Ledger'
  <2> SUFFICES ASSUME NEW t \in Task, Untroubled(t)
               PROVE  /\ t > Started => AccountSeq(t) > accepted'[DeviceOf(t)]
                      /\ t <= Started => \/ t \in underWay'
                                         \/ AccountSeq(t) <= accepted'[DeviceOf(t)]
                      /\ t \in underWay' =>
                           /\ AccountSeq(t) > accepted'[DeviceOf(t)]
                           /\ \A other \in underWay' :
                                DeviceOf(other) = DeviceOf(t) => other = t
    BY <1>3 DEF Ledger
  <2>1. /\ t > Started => AccountSeq(t) > accepted[DeviceOf(t)]
        /\ t <= Started => t \in underWay \/ AccountSeq(t) <= accepted[DeviceOf(t)]
        /\ t \in underWay =>
             /\ AccountSeq(t) > accepted[DeviceOf(t)]
             /\ \A other \in underWay : DeviceOf(other) = DeviceOf(t) => other = t
    BY DEF NodeIInv, Ledger
  <2>2. CASE DeviceOf(t) # DeviceOf(task)
    <3>1. accepted'[DeviceOf(t)] = accepted[DeviceOf(t)] /\ t # task
      BY <1>1, <1>2, <2>2, TaskIsALog
    <3> QED
      BY <1>1, <2>1, <3>1
  <2>3. CASE DeviceOf(t) = DeviceOf(task)
    <3>1. AccountSeq(task) = accepted[DeviceOf(task)] + 1
      BY <2>3, NextForCore DEF Untroubled
    <3>2. accepted'[DeviceOf(t)] = AccountSeq(task)
      BY <1>1, <1>2, <2>3, <3>1, TaskIsALog
    <3>3. t \notin underWay'
      <4>1. t \in underWay => task = t
        BY <2>1, <2>3
      <4> QED
        BY <1>1, <4>1
    <3>4. t > Started => AccountSeq(t) > AccountSeq(task)
      <4> SUFFICES ASSUME t > Started PROVE AccountSeq(t) > AccountSeq(task)
        OBVIOUS
      <4>1. task < t
        BY <1>2 DEF Task
      <4>2. AccountSeq(task) < AccountSeq(t)
        BY <1>2, <2>3, <4>1, LaterLogs
      <4> QED
        BY <1>2, <4>2, TaskIsALog
    <3>5. t <= Started => AccountSeq(t) <= AccountSeq(task)
      <4> SUFFICES ASSUME t <= Started, t # task PROVE AccountSeq(t) <= AccountSeq(task)
        BY <1>2, TaskIsALog
      <4>1. t \notin underWay
        BY <1>1, <3>3
      <4>2. AccountSeq(t) <= accepted[DeviceOf(t)]
        BY <2>1, <4>1
      <4>3. accepted[DeviceOf(task)] \in Nat /\ AccountSeq(t) \in Nat
        BY <1>2, TaskIsALog
      <4> QED
        BY <2>3, <3>1, <4>2, <4>3
    <3> QED
      BY <3>2, <3>3, <3>4, <3>5
  <2> QED
    BY <2>2, <2>3
<1> QED
  BY <1>4, <1>5, <1>6, <1>7 DEF NodeIInv

\* A thread reports its result, or dies.
LEMMA SettleKeeps ==
  ASSUME NodeIInv, NEW worker \in Worker, Settle(worker)
  PROVE  NodeIInv'
<1>1. IInv'
  BY WorkKeepsIInv, CrashKeepsIInv DEF Settle, NodeIInv
<1>2. /\ UNCHANGED <<handedIn, workers, taskInfo, listeners, callbacks, underWay, accepted>>
      /\ troubled' = troubled \cup {DeviceOf(task) : task \in {taskInfo[worker]} \cap underWay}
      /\ \E state \in State : state # "busy" /\ thread' = [thread EXCEPT ![worker] = state]
  BY DEF Settle, Work, Crash, pool, State
<1>3. thread \in [Worker -> State] /\ workers \subseteq Worker
  BY Types DEF NodeIInv, IInv
<1>4. Started' = Started /\ \A task : Untroubled(task)' => Untroubled(task)
  BY <1>2 DEF Started, Untroubled
<1>5. Queue' /\ NodeTypeOK'
  BY <1>2, <1>4 DEF NodeIInv, Queue, NodeTypeOK
<1>6. Requests'
  <2>1. \A w \in workers :
          taskInfo[w] # null /\ DeviceOf(taskInfo[w]) \notin troubled' /\ thread'[w] # "busy"
            => taskInfo[w] \notin underWay
    <3> SUFFICES ASSUME NEW w \in workers, taskInfo[w] # null, DeviceOf(taskInfo[w]) \notin troubled',
                        thread'[w] # "busy"
                 PROVE  taskInfo[w] \notin underWay
      OBVIOUS
    <3>1. CASE w = worker
      BY <1>2, <3>1
    <3>2. CASE w # worker
      <4>1. thread'[w] = thread[w]
        BY <1>2, <1>3, <3>2
      <4> QED
        BY <1>2, <4>1 DEF NodeIInv, Requests, Untroubled
    <3> QED
      BY <3>1, <3>2
  <2>2. \A task \in Task : callbacks[task] > 0 /\ Untroubled(task)' => task \notin underWay
    BY <1>4 DEF NodeIInv, Requests
  <2>3. \A task \in underWay : task <= Started
    BY DEF NodeIInv, Requests
  <2> QED
    BY <1>2, <1>4, <2>1, <2>2, <2>3 DEF Requests, Untroubled
<1>7. Ledger'
  BY <1>2, <1>4 DEF NodeIInv, Ledger
<1> QED
  BY <1>1, <1>5, <1>6, <1>7 DEF NodeIInv

\* A step of the pool at work.
LEMMA HandOutKeeps ==
  ASSUME NodeIInv, HandOut
  PROVE  NodeIInv'
<1>1. IInv /\ Queue
  BY DEF NodeIInv
<1>2. IInv'
  BY <1>1, StepKeepsIInv DEF HandOut, Next
<1>3. Queue' /\ (NothingStarts \/ \E worker \in Worker : Starts(worker))
  <2>1. CASE onErrorWhenFree
    <3>1. UNCHANGED <<handedIn, workers, taskInfo, listeners, thread>>
      BY <2>1 DEF onErrorWhenFree, pool
    <3>2. Started' = Started /\ workers \subseteq Worker
      BY <1>1, <3>1, Types DEF Started, IInv
    <3> QED
      BY <1>1, <3>1, <3>2 DEF Queue, NothingStarts
  <2> QED
    BY <1>1, <2>1, HandInStarts, MessageStarts, ErrorStarts DEF HandOut
<1>4. NodeTypeOK' /\ Requests' /\ Ledger'
  BY <1>2, <1>3, NothingStartsKeeps, NextStartsKeeps
<1> QED
  BY <1>2, <1>3, <1>4 DEF NodeIInv

\* What core has taken in follows what the pool has started, for any number of
\* devices, logs, threads and deaths.
THEOREM NodeInvariance == NodeSpec => []NodeIInv
<1>1. NodeInit => NodeIInv
  <2> SUFFICES ASSUME NodeInit PROVE NodeIInv
    OBVIOUS
  <2>1. /\ IInv /\ handedIn = 0 /\ listeners = <<>> /\ underWay = {}
        /\ accepted = [device \in Device |-> 0]
        /\ callbacks = [task \in Task |-> 0]
    BY InitEstablishesIInv DEF NodeInit, Init
  <2>2. Started = 0 /\ Queue /\ NodeTypeOK
    <3>1. Len(listeners) = 0 /\ DOMAIN listeners = 1 .. 0
      BY <2>1
    <3>2. Started = 0
      <4>1. handedIn = 0
        BY <2>1
      <4> QED
        BY <3>1, <4>1 DEF Started
    <3>3. \A i \in DOMAIN listeners : FALSE
      BY <3>1
    <3>4. Queue
      BY <3>3 DEF Queue
    <3>5. NodeTypeOK
      BY <2>1 DEF NodeTypeOK
    <3> QED
      BY <3>2, <3>4, <3>5
  <2>3. Requests
    BY <2>1 DEF Requests
  <2>4. Ledger
    <3> SUFFICES ASSUME NEW task \in Task
                 PROVE  AccountSeq(task) > accepted[DeviceOf(task)] /\ ~(task <= Started)
      BY <2>1 DEF Ledger
    <3>1. task > 0 /\ task \in Nat
      BY DEF Task
    <3> QED
      BY <2>1, <2>2, <3>1, TaskIsALog
  <2> QED
    BY <2>1, <2>2, <2>3, <2>4 DEF NodeIInv
<1>2. NodeIInv /\ [NodeNext]_nodeVars => NodeIInv'
  <2> SUFFICES ASSUME NodeIInv, [NodeNext]_nodeVars PROVE NodeIInv'
    OBVIOUS
  <2>1. CASE HandOut
    BY <2>1, HandOutKeeps
  <2>2. CASE \E task \in underWay : Answer(task)
    BY <2>2, AnswerKeeps
  <2>3. CASE \E worker \in Worker : Settle(worker)
    BY <2>3, SettleKeeps
  <2>4. CASE UNCHANGED nodeVars
    <3>1. IInv'
      BY <2>4 DEF nodeVars, vars, pool, NodeIInv, IInv, TypeOK, Crew, Dead, Stack, Mail, Tasks,
                  Count, Settled
    <3>2. Started' = Started /\ \A task : Untroubled(task)' <=> Untroubled(task)
      BY <2>4 DEF nodeVars, vars, pool, Started, Untroubled
    <3>3. Queue' /\ NodeTypeOK' /\ Requests' /\ Ledger'
      BY <2>4, <3>2 DEF nodeVars, vars, pool, NodeIInv, Queue, NodeTypeOK, Requests, Ledger
    <3> QED
      BY <3>1, <3>3 DEF NodeIInv
  <2> QED
    BY <2>1, <2>2, <2>3, <2>4 DEF NodeNext
<1> QED
  BY <1>1, <1>2, PTL DEF NodeSpec

\* A device whose requests never overlapped and never failed has lost none of its
\* settled logs (index.ts:150-166, worker_pool.ts:71), for any number of devices,
\* logs, threads and deaths.
THEOREM UntroubledCorrect == NodeSpec => []UntroubledDevicesLoseNothing
<1>1. NodeIInv => UntroubledDevicesLoseNothing
  <2> SUFFICES ASSUME NodeIInv, NEW task \in Task,
                      callbacks[task] > 0, DeviceOf(task) \notin troubled
               PROVE  AccountSeq(task) <= accepted[DeviceOf(task)]
    BY DEF UntroubledDevicesLoseNothing
  <2>1. task <= Started
    BY NextTask DEF NodeIInv
  <2>2. task \notin underWay
    BY DEF NodeIInv, Requests, Untroubled
  <2> QED
    BY <2>1, <2>2 DEF NodeIInv, Ledger, Untroubled
<1> QED
  BY <1>1, NodeInvariance, PTL
=============================================================================
