----------------------------- MODULE WorkerPool -----------------------------
(***************************************************************************)
(* The pool of worker threads of generator-nodejs/src/worker_pool.ts, as   *)
(* index.ts uses it: all tasks are handed in by a loop that never yields   *)
(* to the event loop, and the pool is closed by the callback of the last   *)
(* one.                                                                    *)
(*                                                                         *)
(* The pool has no queue of tasks.  A task that finds no free worker       *)
(* becomes a listener, registered with once(), of the event "worker        *)
(* freed".  Emitting it calls every listener there is; each calls runTask  *)
(* again, and those that find no worker register again.                    *)
(***************************************************************************)
EXTENDS Naturals, Sequences, SequencesExt, FiniteSets

CONSTANTS
    NumThreads,     \* workers the pool is created with
    Total,          \* tasks, logsNumber * params.length
    MaxCrashes      \* bound: worker threads that die of an uncaught exception

ASSUME NumThreadsAssumption == NumThreads \in Nat \ {0}
\* With no task at all no callback closes the pool.
ASSUME TotalAssumption == Total \in Nat \ {0}
ASSUME MaxCrashesAssumption == MaxCrashes \in Nat

VARIABLES
    handedIn,       \* tasks the loop of index.ts has handed in
    created,        \* workers created so far, numbered from 1
    workers,        \* this.workers
    freeWorkers,    \* this.freeWorkers, a stack
    taskInfo,       \* worker[kTaskInfo], 0 stands for null
    listeners,      \* tasks registered for kWorkerFreedEvent, the first one first
    thread,         \* what the thread of a worker does: "idle", "busy" or "dead"
    events,         \* message and error events the event loop has not handled
    callbacks,      \* how often the callback of a task was called
    finished,       \* index.ts:151
    closed,         \* close() was called
    exited          \* an error event nobody listens to ended the process

pool == <<workers, freeWorkers, taskInfo, listeners>>
vars == <<handedIn, created, pool, thread, events, callbacks, finished, closed, exited>>

\* Workers are numbered in the order they are created.
Worker == 1 .. NumThreads + MaxCrashes
Task == 1 .. Total
null == 0

\* The constructor adds NumThreads workers; nobody listens yet.
Init ==
    /\ handedIn = 0
    /\ created = NumThreads
    /\ workers = 1 .. NumThreads
    /\ freeWorkers = [i \in 1 .. NumThreads |-> i]
    /\ taskInfo = [worker \in Worker |-> null]
    /\ listeners = <<>>
    /\ thread = [worker \in Worker |-> "idle"]
    /\ events = <<>>
    /\ callbacks = [task \in Task |-> 0]
    /\ finished = 0
    /\ closed = FALSE
    /\ exited = FALSE

\* A faulty variant of runTasks: the listeners are called last one first.
runTasksLastFirst(queue, free, info, threads) ==
    LET n == IF Len(queue) < Len(free) THEN Len(queue) ELSE Len(free)
        popped == SubSeq(Reverse(free), 1, n)
        task(worker) == Reverse(queue)[CHOOSE i \in 1 .. n : popped[i] = worker]
        starts(worker) == worker \in ToSet(popped)
    IN  /\ freeWorkers' = SubSeq(free, 1, Len(free) - n)
        /\ listeners' = SubSeq(queue, 1, Len(queue) - n)
        /\ taskInfo' = [worker \in Worker |->
                          IF starts(worker) THEN task(worker) ELSE info[worker]]
        /\ thread' = [worker \in Worker |->
                        IF starts(worker) /\ threads[worker] = "idle" THEN "busy"
                                                                      ELSE threads[worker]]

\* Every task in queue calls runTask: the first ones pop a worker off the stack
\* free and post their task to it, the others register as listeners again, in
\* the same order.
runTasks(queue, free, info, threads) ==
    LET n == IF Len(queue) < Len(free) THEN Len(queue) ELSE Len(free)
        popped == SubSeq(Reverse(free), 1, n)
        task(worker) == queue[CHOOSE i \in 1 .. n : popped[i] = worker]
        starts(worker) == worker \in ToSet(popped)
    IN  /\ freeWorkers' = SubSeq(free, 1, Len(free) - n)
        /\ listeners' = SubSeq(queue, n + 1, Len(queue))
        /\ taskInfo' = [worker \in Worker |->
                          IF starts(worker) THEN task(worker) ELSE info[worker]]
        /\ thread' = [worker \in Worker |->
                        IF starts(worker) /\ threads[worker] = "idle" THEN "busy"
                                                                      ELSE threads[worker]]

\* index.ts:152-174 hands in the next task, which joins the listeners if there
\* is no free worker.
runTask ==
    /\ ~exited
    /\ handedIn < Total
    /\ handedIn' = handedIn + 1
    /\ IF freeWorkers = <<>>
         THEN /\ listeners' = Append(listeners, handedIn + 1)
              /\ UNCHANGED <<freeWorkers, taskInfo, thread>>
         ELSE LET worker == Last(freeWorkers)
              IN  /\ freeWorkers' = Front(freeWorkers)
                  /\ taskInfo' = [taskInfo EXCEPT ![worker] = handedIn + 1]
                  /\ thread' = [thread EXCEPT ![worker] = IF @ = "idle" THEN "busy" ELSE @]
                  /\ UNCHANGED listeners
    /\ UNCHANGED <<created, workers, events, callbacks, finished, closed, exited>>

\* A faulty variant of Work: the message is posted once more after the catch.
WorkPostingTwice(worker) ==
    /\ thread[worker] = "busy"
    /\ ~closed /\ ~exited
    /\ thread' = [thread EXCEPT ![worker] = "idle"]
    /\ events' = events \o <<[kind |-> "message", worker |-> worker],
                             [kind |-> "message", worker |-> worker]>>
    /\ UNCHANGED <<handedIn, created, pool, callbacks, finished, closed, exited>>

\* sendTxTask.js posts one message for each task, whether it failed or not.
Work(worker) ==
    /\ thread[worker] = "busy"
    /\ ~closed /\ ~exited
    /\ thread' = [thread EXCEPT ![worker] = "idle"]
    /\ events' = Append(events, [kind |-> "message", worker |-> worker])
    /\ UNCHANGED <<handedIn, created, pool, callbacks, finished, closed, exited>>

\* The thread dies, while it works on a task or when it has none.
Crash(worker) ==
    /\ worker \in workers
    /\ thread[worker] # "dead"
    /\ Cardinality({w \in Worker : thread[w] = "dead"}) < MaxCrashes
    /\ ~closed /\ ~exited
    /\ thread' = [thread EXCEPT ![worker] = "dead"]
    /\ events' = Append(events, [kind |-> "error", worker |-> worker])
    /\ UNCHANGED <<handedIn, created, pool, callbacks, finished, closed, exited>>

\* A faulty variant of done: the pool is closed one task too early.
doneOneTooEarly(task) ==
    /\ callbacks' = [callbacks EXCEPT ![task] = @ + 1]
    /\ finished' = finished + 1
    /\ closed' = (closed \/ finished + 2 = Total)

\* The callback of index.ts:167-171, called through done().
done(task) ==
    /\ callbacks' = [callbacks EXCEPT ![task] = @ + 1]
    /\ finished' = finished + 1
    /\ closed' = (closed \/ finished + 1 = Total)

\* The event loop runs once the loop of index.ts is over.
Handles(kind) ==
    /\ handedIn = Total
    /\ ~exited
    /\ events # <<>>
    /\ Head(events).kind = kind
    /\ events' = Tail(events)

\* A worker has a result: it becomes free, and the waiting tasks are told.
onMessage ==
    /\ Handles("message")
    /\ LET worker == Head(events).worker
       IN  /\ done(taskInfo[worker])
           /\ runTasks(listeners, Append(freeWorkers, worker),
                       [taskInfo EXCEPT ![worker] = null], thread)
    /\ UNCHANGED <<handedIn, created, workers, exited>>

\* A faulty variant of onError: the task of the dead worker is forgotten.
onErrorForgettingTask ==
    /\ Handles("error")
    /\ LET worker == Head(events).worker
           new == created + 1
       IN  /\ taskInfo[worker] # null
           /\ created' = new
           /\ workers' = (workers \ {worker}) \cup {new}
           /\ runTasks(listeners, Append(freeWorkers, new), taskInfo, thread)
    /\ UNCHANGED <<handedIn, callbacks, finished, closed, exited>>

\* A busy worker died: its task is settled with the error and a new worker
\* takes its place.
onError ==
    /\ Handles("error")
    /\ LET worker == Head(events).worker
           new == created + 1
       IN  /\ taskInfo[worker] # null
           /\ done(taskInfo[worker])
           /\ created' = new
           /\ workers' = (workers \ {worker}) \cup {new}
           /\ runTasks(listeners, Append(freeWorkers, new), taskInfo, thread)
    /\ UNCHANGED <<handedIn, exited>>

\* A free worker died: the pool emits "error", which nobody listens to.
onErrorWhenFree ==
    /\ Handles("error")
    /\ taskInfo[Head(events).worker] = null
    /\ exited' = TRUE
    /\ UNCHANGED <<handedIn, created, pool, thread, callbacks, finished, closed>>

Next ==
    \/ runTask
    \/ \E worker \in Worker : Work(worker) \/ Crash(worker)
    \/ onMessage
    \/ onError
    \/ onErrorWhenFree

Spec == Init /\ [][Next]_vars

-----------------------------------------------------------------------------
TypeOK ==
    /\ handedIn \in 0 .. Total
    /\ created \in NumThreads .. NumThreads + MaxCrashes
    /\ workers \subseteq 1 .. created
    /\ freeWorkers \in Seq(Worker)
    /\ taskInfo \in [Worker -> Task \cup {null}]
    /\ listeners \in Seq(Task)
    /\ thread \in [Worker -> {"idle", "busy", "dead"}]
    /\ events \in Seq([kind : {"message", "error"}, worker : Worker])
    /\ callbacks \in [Task -> Nat]
    /\ finished \in 0 .. Total
    /\ closed \in BOOLEAN
    /\ exited \in BOOLEAN

\* A worker is on the stack of free workers exactly if it has no task
\* (worker_pool.ts:47-48, :64, :75-76), and it is there once: a worker replaced
\* after an error does not come back, and no task is posted to a busy one.  A message
\* finds the task it answers (worker_pool.ts:46 would otherwise call done of null),
\* also when the worker died after posting it.
WorkersKnowTheirTasks ==
    /\ ToSet(freeWorkers) = {worker \in workers : taskInfo[worker] = null}
    /\ Cardinality(ToSet(freeWorkers)) = Len(freeWorkers)
    /\ Cardinality(workers) = NumThreads
    /\ \A i \in DOMAIN events :
         events[i].kind = "message" => taskInfo[events[i].worker] # null

\* The pool is closed (index.ts:170) only when the callback of every task was
\* called, so no task is cut off by terminate().
ClosedWhenAllSettled ==
    closed => \A task \in Task : callbacks[task] = 1

Contract == INSTANCE TaskPool
              WITH waiting <- listeners,
                   running <- {taskInfo[worker] : worker \in workers} \ {null},
                   settled <- {task \in Task : callbacks[task] > 0}

\* The listeners make a first-in first-out queue, although every freed worker
\* calls all of them and all but one register again (worker_pool.ts:71): the
\* pool keeps the promise of TaskPool, errors of workers included.
ImplementsTaskPool == Contract!Spec

\* Every task is settled and the pool closed, unless the death of a worker
\* without a task has ended the process.
PoolCloses == <>(closed \/ exited)
=============================================================================
