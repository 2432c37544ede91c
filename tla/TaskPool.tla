------------------------------ MODULE TaskPool ------------------------------
(***************************************************************************)
(* What generator-nodejs/src/worker_pool.ts promises index.ts: at most     *)
(* NumThreads tasks run at a time, tasks start in the order they were      *)
(* handed in, none waits while a thread is free, and each is settled, that *)
(* is its callback is called, exactly once.                                *)
(***************************************************************************)
EXTENDS Naturals, Sequences, FiniteSets

CONSTANTS
    NumThreads,     \* threads of the pool
    Total           \* tasks handed in, totalTasks in index.ts

VARIABLES
    handedIn,       \* how many tasks were handed in; they are numbered from 1
    waiting,        \* tasks that wait for a thread, the next one first
    running,        \* tasks a thread works on
    settled         \* tasks whose callback was called

vars == <<handedIn, waiting, running, settled>>

Init ==
    /\ handedIn = 0
    /\ waiting = <<>>
    /\ running = {}
    /\ settled = {}

\* A task starts at once if a thread is free and waits otherwise.
HandIn ==
    /\ handedIn < Total
    /\ handedIn' = handedIn + 1
    /\ IF Cardinality(running) < NumThreads
         THEN running' = running \cup {handedIn + 1} /\ UNCHANGED waiting
         ELSE waiting' = Append(waiting, handedIn + 1) /\ UNCHANGED running
    /\ UNCHANGED settled

\* A task ends, and the next one takes its thread.
Settle(task) ==
    /\ task \in running
    /\ settled' = settled \cup {task}
    /\ IF waiting = <<>>
         THEN running' = running \ {task} /\ UNCHANGED waiting
         ELSE /\ running' = (running \ {task}) \cup {Head(waiting)}
              /\ waiting' = Tail(waiting)
    /\ UNCHANGED handedIn

Next == HandIn \/ \E task \in running : Settle(task)

Spec == Init /\ [][Next]_vars
=============================================================================
