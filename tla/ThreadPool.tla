----------------------------- MODULE ThreadPool -----------------------------
(***************************************************************************)
(* ThreadPool.h: workers that take tasks from one queue, clients that      *)
(* enqueue and wait in join, and the destructor.                           *)
(*                                                                         *)
(* A section under queueMutex is one action.  A wait on a condition        *)
(* variable that finds its predicate false releases the mutex and sleeps;  *)
(* a sleeper runs again when notified, or spuriously, and then tests its   *)
(* predicate under the mutex.  notify_one of enqueue and notify_all of the *)
(* destructor happen after the mutex is released and are steps of their    *)
(* own; the notify_all of joinCondition happens under it.                  *)
(***************************************************************************)
EXTENDS Naturals, Sequences, FiniteSets

CONSTANTS
  Worker,   \* the threads of the pool
  Client,   \* threads that call enqueue and join
  Owner,    \* the client that destroys the pool
  Task,     \* tasks, each enqueued at most once
  NoTask

ASSUME PoolAssumption ==
  /\ Worker # {}
  /\ IsFiniteSet(Worker)
  /\ Owner \in Client
  /\ NoTask \notin Task

VARIABLES
  tasks,     \* the queue
  active,    \* activeTasks
  stop,
  worker,    \* where each worker is
  holding,   \* the task each worker took
  client,    \* where each client is
  finished   \* how often each task ran to its end

vars == <<tasks, active, stop, worker, holding, client, finished>>

Enqueued == {t \in Task : \/ \E i \in 1 .. Len(tasks) : tasks[i] = t
                          \/ \E w \in Worker : holding[w] = t
                          \/ finished[t] > 0}

\* "awake" workers are about to test the predicate of the wait
Init ==
  /\ tasks = << >>
  /\ active = 0
  /\ stop = FALSE
  /\ worker = [w \in Worker |-> "awake"]
  /\ holding = [w \in Worker |-> NoTask]
  /\ client = [c \in Client |-> "idle"]
  /\ finished = [t \in Task |-> 0]

-----------------------------------------------------------------------------
(* Workers *)

\* The predicate of join.  The mutant forgets the tasks in hand.
QueueEmpty == tasks = << >>

Idle == tasks = << >> /\ active = 0

Sleep(w) ==
  /\ worker[w] = "awake"
  /\ ~stop /\ tasks = << >>
  /\ worker' = [worker EXCEPT ![w] = "asleep"]
  /\ UNCHANGED <<tasks, active, stop, holding, client, finished>>

\* Mutant of Exit: leaves tasks behind.
ExitAtOnce(w) ==
  /\ worker[w] = "awake"
  /\ stop
  /\ worker' = [worker EXCEPT ![w] = "exited"]
  /\ UNCHANGED <<tasks, active, stop, holding, client, finished>>

Exit(w) ==
  /\ worker[w] = "awake"
  /\ stop /\ tasks = << >>
  /\ worker' = [worker EXCEPT ![w] = "exited"]
  /\ UNCHANGED <<tasks, active, stop, holding, client, finished>>

\* Mutants of Take: the task is not counted; it is not popped.
TakeUncounted(w) ==
  /\ worker[w] = "awake"
  /\ tasks # << >>
  /\ worker' = [worker EXCEPT ![w] = "running"]
  /\ holding' = [holding EXCEPT ![w] = Head(tasks)]
  /\ tasks' = Tail(tasks)
  /\ UNCHANGED <<active, stop, client, finished>>

TakeCopy(w) ==
  /\ worker[w] = "awake"
  /\ tasks # << >>
  /\ finished[Head(tasks)] < 2
  /\ worker' = [worker EXCEPT ![w] = "running"]
  /\ holding' = [holding EXCEPT ![w] = Head(tasks)]
  /\ active' = active + 1
  /\ UNCHANGED <<tasks, stop, client, finished>>

Take(w) ==
  /\ worker[w] = "awake"
  /\ tasks # << >>
  /\ worker' = [worker EXCEPT ![w] = "running"]
  /\ holding' = [holding EXCEPT ![w] = Head(tasks)]
  /\ tasks' = Tail(tasks)
  /\ active' = active + 1
  /\ UNCHANGED <<stop, client, finished>>

\* task() returns
Run(w) ==
  /\ worker[w] = "running"
  /\ worker' = [worker EXCEPT ![w] = "ran"]
  /\ finished' = [finished EXCEPT ![holding[w]] = @ + 1]
  /\ UNCHANGED <<tasks, active, stop, holding, client>>

\* Mutant of WakeJoiners: joinCondition is not notified.
WakeNobody == client

\* notify_all of joinCondition
WakeJoiners == [c \in Client |-> IF client[c] = "joinAsleep" THEN "joining" ELSE client[c]]

Finish(w) ==
  /\ worker[w] = "ran"
  /\ active' = active - 1
  /\ client' = IF tasks = << >> /\ active' = 0 THEN WakeJoiners ELSE client
  /\ holding' = [holding EXCEPT ![w] = NoTask]
  /\ worker' = [worker EXCEPT ![w] = "awake"]
  /\ UNCHANGED <<tasks, stop, finished>>

-----------------------------------------------------------------------------
(* Clients *)

Enqueue(c, t) ==
  /\ client[c] = "idle"
  /\ t \notin Enqueued
  /\ ~stop   \* the destructor runs after the last use of the pool
  /\ tasks' = Append(tasks, t)
  /\ client' = [client EXCEPT ![c] = "notifying"]
  /\ UNCHANGED <<active, stop, worker, holding, finished>>

Sleepers == {w \in Worker : worker[w] = "asleep"}

\* Mutant of NotifyOne: the notification is left out.
NotifyNobody(c) ==
  /\ client[c] = "notifying"
  /\ client' = [client EXCEPT ![c] = "idle"]
  /\ UNCHANGED <<tasks, active, stop, worker, holding, finished>>

NotifyOne(c) ==
  /\ client[c] = "notifying"
  /\ client' = [client EXCEPT ![c] = "idle"]
  /\ IF Sleepers = {} THEN UNCHANGED worker
     ELSE \E w \in Sleepers : worker' = [worker EXCEPT ![w] = "awake"]
  /\ UNCHANGED <<tasks, active, stop, holding, finished>>

Join(c) ==
  /\ client[c] = "idle"
  /\ ~stop
  /\ client' = [client EXCEPT ![c] = "joining"]
  /\ UNCHANGED <<tasks, active, stop, worker, holding, finished>>

JoinSleep(c) ==
  /\ client[c] = "joining"
  /\ ~Idle
  /\ client' = [client EXCEPT ![c] = "joinAsleep"]
  /\ UNCHANGED <<tasks, active, stop, worker, holding, finished>>

JoinReturn(c) ==
  /\ client[c] = "joining"
  /\ Idle
  /\ client' = [client EXCEPT ![c] = "idle"]
  /\ UNCHANGED <<tasks, active, stop, worker, holding, finished>>

\* A condition variable may wake without a notification.
Spurious ==
  /\ \/ \E w \in Sleepers : /\ worker' = [worker EXCEPT ![w] = "awake"]
                            /\ UNCHANGED client
     \/ \E c \in Client : /\ client[c] = "joinAsleep"
                          /\ client' = [client EXCEPT ![c] = "joining"]
                          /\ UNCHANGED worker
  /\ UNCHANGED <<tasks, active, stop, holding, finished>>

\* The destructor, when no other client is inside the pool.
Stop ==
  /\ \A c \in Client : client[c] = "idle"
  /\ ~stop
  /\ stop' = TRUE
  /\ client' = [client EXCEPT ![Owner] = "stopping"]
  /\ UNCHANGED <<tasks, active, worker, holding, finished>>

\* Mutant of NotifyAll: wakes one worker.
NotifyAny ==
  /\ client[Owner] = "stopping"
  /\ client' = [client EXCEPT ![Owner] = "reaping"]
  /\ IF Sleepers = {} THEN UNCHANGED worker
     ELSE \E w \in Sleepers : worker' = [worker EXCEPT ![w] = "awake"]
  /\ UNCHANGED <<tasks, active, stop, holding, finished>>

NotifyAll ==
  /\ client[Owner] = "stopping"
  /\ client' = [client EXCEPT ![Owner] = "reaping"]
  /\ worker' = [w \in Worker |-> IF worker[w] = "asleep" THEN "awake" ELSE worker[w]]
  /\ UNCHANGED <<tasks, active, stop, holding, finished>>

\* worker.join() of every thread
Reap ==
  /\ client[Owner] = "reaping"
  /\ \A w \in Worker : worker[w] = "exited"
  /\ client' = [client EXCEPT ![Owner] = "destroyed"]
  /\ UNCHANGED <<tasks, active, stop, worker, holding, finished>>

-----------------------------------------------------------------------------

WorkerStep(w) == Sleep(w) \/ Exit(w) \/ Take(w) \/ Run(w) \/ Finish(w)

InPool(c) == NotifyOne(c) \/ JoinSleep(c) \/ JoinReturn(c)

Next ==
  \/ \E w \in Worker : WorkerStep(w)
  \/ \E c \in Client : InPool(c) \/ Join(c) \/ \E t \in Task : Enqueue(c, t)
  \/ Stop \/ NotifyAll \/ Reap
  \/ Spurious

\* Threads that can run do run, and tasks return; nobody has to call the pool,
\* and no spurious wakeup is relied on.
Fairness ==
  /\ \A w \in Worker : WF_vars(WorkerStep(w))
  /\ \A c \in Client : WF_vars(InPool(c))
  /\ WF_vars(NotifyAll) /\ WF_vars(Reap)

Spec == Init /\ [][Next]_vars

FairSpec == Spec /\ Fairness

-----------------------------------------------------------------------------
(* Properties *)

WorkerState == {"awake", "asleep", "running", "ran", "exited"}
ClientState == {"idle", "notifying", "joining", "joinAsleep", "stopping", "reaping",
                "destroyed"}

\* Types of the variables.
TypeOK ==
  /\ tasks \in Seq(Task)
  /\ active \in Nat
  /\ stop \in BOOLEAN
  /\ worker \in [Worker -> WorkerState]
  /\ holding \in [Worker -> Task \cup {NoTask}]
  /\ client \in [Client -> ClientState]
  /\ finished \in [Task -> Nat]

Busy(w) == worker[w] \in {"running", "ran"}

\* activeTasks counts the workers between taking a task and reporting it.
ActiveCounts == active = Cardinality({w \in Worker : Busy(w)})

\* No task runs twice, and none is in two hands (queue, worker, done) at once.
RunsOnce ==
  \A t \in Task :
    /\ finished[t] <= 1
    /\ \A v, w \in Worker : holding[v] = t /\ holding[w] = t => v = w
    /\ (\E i \in 1 .. Len(tasks) : tasks[i] = t)
         => finished[t] = 0 /\ \A w \in Worker : holding[w] # t

\* join returns only when every task enqueued by then has run to its end.
JoinMeansDone ==
  [][\A c \in Client : client[c] = "joining" /\ client'[c] = "idle"
       => \A t \in Enqueued : finished[t] = 1]_vars

\* The destructor returns only when every task ever enqueued has run: the
\* workers drain the queue before they exit.
DestroyedMeansDone ==
  client[Owner] = "destroyed" => \A t \in Enqueued : finished[t] = 1

\* Every task is run although enqueue notifies after it released the mutex and
\* a notification may find nobody asleep: no wakeup is lost.
TasksRun == \A t \in Task : (t \in Enqueued) ~> (finished[t] = 1)

\* The destructor returns.
DestructorReturns == stop ~> (client[Owner] = "destroyed")

\* No join sleeps through the end of the work: whoever empties the pool last
\* wakes it (the notify under the mutex, ThreadPool.h:41-46).
JoinNeverSleepsIdle == \A c \in Client : client[c] = "joinAsleep" => ~Idle
=============================================================================
