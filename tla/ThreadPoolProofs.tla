-------------------------- MODULE ThreadPoolProofs --------------------------
(***************************************************************************)
(* Proofs about ThreadPool, for any number of workers, clients and tasks.  *)
(***************************************************************************)
EXTENDS ThreadPool, FiniteSetTheorems, TLAPS

-----------------------------------------------------------------------------
(* The inductive invariant *)

Crew == {w \in Worker : Busy(w)}

\* A worker holds a task exactly while it is busy with it, and the task's count
\* says how far it is.
Custody ==
  /\ \A w \in Worker : holding[w] # NoTask <=> Busy(w)
  /\ \A w \in Worker : worker[w] = "running" => finished[holding[w]] = 0
  /\ \A w \in Worker : worker[w] = "ran" => finished[holding[w]] = 1

\* The queue holds no task twice.
NoDoubles == \A i, j \in 1 .. Len(tasks) : tasks[i] = tasks[j] => i = j

\* Workers leave an empty queue that stays empty, and the destructor returns
\* after the last of them.
Drained ==
  /\ \A w \in Worker : worker[w] = "exited" => stop /\ tasks = << >>
  /\ client[Owner] = "destroyed" => \A w \in Worker : worker[w] = "exited"

IInv ==
  /\ TypeOK
  /\ ActiveCounts
  /\ Custody
  /\ NoDoubles
  /\ RunsOnce
  /\ Drained
  /\ JoinNeverSleepsIdle

-----------------------------------------------------------------------------
(* Counting the busy workers *)

LEMMA CrewFinite == IsFiniteSet(Crew) /\ Cardinality(Crew) \in Nat
<1>1. Crew \subseteq Worker
  BY DEF Crew
<1>2. IsFiniteSet(Crew)
  BY <1>1, PoolAssumption, FS_Subset
<1> QED BY <1>2, FS_CardinalityType

\* Nobody becomes busy and nobody stops being busy.
LEMMA CrewKept ==
  ASSUME ActiveCounts, UNCHANGED active,
         \A w \in Worker : worker'[w] \in {"running", "ran"} <=> worker[w] \in {"running", "ran"}
  PROVE  ActiveCounts'
<1>1. Crew' = Crew
  BY DEF Crew, Busy
<1> QED BY <1>1 DEF ActiveCounts, Crew

LEMMA CrewGrows ==
  ASSUME TypeOK, ActiveCounts, NEW w \in Worker, ~Busy(w),
         worker' = [worker EXCEPT ![w] = "running"], active' = active + 1
  PROVE  ActiveCounts'
<1>1. Crew' = Crew \cup {w}
  BY DEF Crew, Busy, TypeOK
<1>2. w \notin Crew
  BY DEF Crew
<1>3. Cardinality(Crew') = Cardinality(Crew) + 1
  BY <1>1, <1>2, CrewFinite, FS_AddElement
<1> QED BY <1>3 DEF ActiveCounts, Crew

LEMMA CrewShrinks ==
  ASSUME TypeOK, ActiveCounts, NEW w \in Worker, Busy(w),
         worker' = [worker EXCEPT ![w] = "awake"], active' = active - 1
  PROVE  ActiveCounts' /\ active' \in Nat
<1>1. Crew' = Crew \ {w}
  BY DEF Crew, Busy, TypeOK
<1>2. w \in Crew
  BY DEF Crew
<1>3. Cardinality(Crew') = Cardinality(Crew) - 1
  BY <1>1, <1>2, CrewFinite, FS_RemoveElement
<1>4. Cardinality(Crew') \in Nat
  BY <1>1, CrewFinite, FS_RemoveElement, FS_CardinalityType
<1> QED BY <1>3, <1>4 DEF ActiveCounts, Crew

\* An idle pool has no busy worker.
LEMMA IdleMeansNobodyBusy ==
  ASSUME IInv, Idle
  PROVE  \A w \in Worker : ~Busy(w) /\ holding[w] = NoTask
<1>1. Cardinality(Crew) = 0
  BY DEF IInv, ActiveCounts, Idle, Crew
<1>2. Crew = {}
  BY <1>1, CrewFinite, FS_EmptySet
<1> QED BY <1>2 DEF Crew, IInv, Custody

-----------------------------------------------------------------------------
(* Steps *)

LEMMA InitInv == ASSUME Init PROVE IInv
<1>1. TypeOK
  <2>1. << >> \in Seq(Task)
    OBVIOUS
  <2>2. /\ worker \in [Worker -> WorkerState]
        /\ client \in [Client -> ClientState]
        /\ holding \in [Worker -> Task \cup {NoTask}]
        /\ finished \in [Task -> Nat]
    BY DEF Init, WorkerState, ClientState
  <2> QED BY <2>1, <2>2 DEF Init, TypeOK
<1>2. ActiveCounts
  <2>1. Crew = {}
    BY DEF Init, Crew, Busy
  <2> QED BY <2>1, FS_EmptySet DEF Init, ActiveCounts, Crew
<1>3. Custody /\ NoDoubles /\ RunsOnce /\ Drained /\ JoinNeverSleepsIdle
  BY PoolAssumption DEF Init, Custody, NoDoubles, RunsOnce, Drained,
                        JoinNeverSleepsIdle, Busy
<1> QED BY <1>1, <1>2, <1>3 DEF IInv

\* Steps that only move workers that have nothing in hand, or clients.
LEMMA WaitingInv ==
  ASSUME IInv, TypeOK', Drained', JoinNeverSleepsIdle',
         UNCHANGED <<tasks, active, holding, finished>>,
         \A w \in Worker :
           \/ worker'[w] = worker[w]
           \/ worker[w] \notin {"running", "ran"} /\ worker'[w] \notin {"running", "ran"}
  PROVE  IInv'
<1>1. ActiveCounts'
  BY CrewKept DEF IInv
<1>2. Custody' /\ NoDoubles' /\ RunsOnce'
  BY DEF IInv, Custody, NoDoubles, RunsOnce, Busy
<1> QED BY <1>1, <1>2 DEF IInv

LEMMA SleepInv ==
  ASSUME IInv, NEW w \in Worker, Sleep(w)
  PROVE  IInv'
<1>1. TypeOK' /\ Drained' /\ JoinNeverSleepsIdle'
  BY DEF Sleep, IInv, TypeOK, WorkerState, Drained, JoinNeverSleepsIdle, Idle
<1> QED BY <1>1, WaitingInv DEF Sleep, IInv, TypeOK

LEMMA ExitInv ==
  ASSUME IInv, NEW w \in Worker, Exit(w)
  PROVE  IInv'
<1>1. TypeOK' /\ Drained' /\ JoinNeverSleepsIdle'
  BY DEF Exit, IInv, TypeOK, WorkerState, Drained, JoinNeverSleepsIdle, Idle
<1> QED BY <1>1, WaitingInv DEF Exit, IInv, TypeOK

LEMMA TakeInv ==
  ASSUME IInv, NEW w \in Worker, Take(w)
  PROVE  IInv'
<1> DEFINE t == Head(tasks)
<1>1. /\ worker[w] = "awake" /\ tasks # << >>
      /\ worker' = [worker EXCEPT ![w] = "running"]
      /\ holding' = [holding EXCEPT ![w] = t]
      /\ tasks' = Tail(tasks)
      /\ active' = active + 1
      /\ UNCHANGED <<stop, client, finished>>
  BY DEF Take
<1>2. /\ tasks \in Seq(Task) /\ Len(tasks) \in Nat \ {0}
      /\ t \in Task /\ t = tasks[1]
      /\ Tail(tasks) \in Seq(Task)
      /\ Len(Tail(tasks)) = Len(tasks) - 1
      /\ \A i \in 1 .. Len(Tail(tasks)) : Tail(tasks)[i] = tasks[i + 1]
  BY <1>1 DEF IInv, TypeOK
<1>3. TypeOK'
  BY <1>1, <1>2 DEF IInv, TypeOK, WorkerState
<1>4. ActiveCounts'
  BY <1>1, CrewGrows DEF IInv, Busy
<1>5. finished[t] = 0 /\ \A v \in Worker : holding[v] # t
  BY <1>2 DEF IInv, RunsOnce
<1> HIDE DEF t
<1>6. Custody'
  BY <1>1, <1>2, <1>5, PoolAssumption DEF IInv, Custody, TypeOK, Busy
<1>7. NoDoubles'
  BY <1>1, <1>2 DEF IInv, NoDoubles
<1>8. RunsOnce'
  <2>1. \A i \in 1 .. Len(tasks') :
          tasks'[i] # t /\ \E j \in 1 .. Len(tasks) : tasks'[i] = tasks[j]
    BY <1>1, <1>2 DEF IInv, NoDoubles
  <2> QED BY <1>1, <1>2, <1>5, <2>1 DEF IInv, RunsOnce, TypeOK
<1>9. Drained' /\ JoinNeverSleepsIdle'
  BY <1>1 DEF IInv, Drained, JoinNeverSleepsIdle, Idle, TypeOK
<1> QED BY <1>3, <1>4, <1>6, <1>7, <1>8, <1>9 DEF IInv

LEMMA RunInv ==
  ASSUME IInv, NEW w \in Worker, Run(w)
  PROVE  IInv'
<1>1. /\ worker[w] = "running"
      /\ worker' = [worker EXCEPT ![w] = "ran"]
      /\ finished' = [finished EXCEPT ![holding[w]] = @ + 1]
      /\ UNCHANGED <<tasks, active, stop, holding, client>>
  BY DEF Run
<1>2. /\ holding[w] \in Task
      /\ finished[holding[w]] = 0
      /\ \A v \in Worker : holding[v] = holding[w] => v = w
      /\ \A i \in 1 .. Len(tasks) : tasks[i] # holding[w]
  BY <1>1 DEF IInv, Custody, RunsOnce, TypeOK, Busy
<1>3. TypeOK'
  BY <1>1, <1>2 DEF IInv, TypeOK, WorkerState
<1>4. ActiveCounts'
  BY <1>1, CrewKept DEF IInv, TypeOK
<1>5. Custody'
  BY <1>1, <1>2 DEF IInv, Custody, TypeOK, Busy
<1>6. NoDoubles' /\ RunsOnce'
  BY <1>1, <1>2 DEF IInv, NoDoubles, RunsOnce, TypeOK
<1>7. Drained' /\ JoinNeverSleepsIdle'
  BY <1>1 DEF IInv, Drained, JoinNeverSleepsIdle, Idle, TypeOK
<1> QED BY <1>3, <1>4, <1>5, <1>6, <1>7 DEF IInv

LEMMA FinishInv ==
  ASSUME IInv, NEW w \in Worker, Finish(w)
  PROVE  IInv'
<1>1. /\ worker[w] = "ran"
      /\ active' = active - 1
      /\ client' = IF tasks = << >> /\ active' = 0 THEN WakeJoiners ELSE client
      /\ holding' = [holding EXCEPT ![w] = NoTask]
      /\ worker' = [worker EXCEPT ![w] = "awake"]
      /\ UNCHANGED <<tasks, stop, finished>>
  BY DEF Finish
<1>2. ActiveCounts' /\ active' \in Nat
  BY <1>1, CrewShrinks DEF IInv, Busy
<1>3. client' \in [Client -> ClientState]
  BY <1>1 DEF IInv, TypeOK, WakeJoiners, ClientState
<1>4. TypeOK'
  BY <1>1, <1>2, <1>3 DEF IInv, TypeOK, WorkerState
<1>5. Custody' /\ NoDoubles'
  BY <1>1 DEF IInv, Custody, NoDoubles, TypeOK, Busy
<1>6. RunsOnce'
  BY <1>1, PoolAssumption DEF IInv, RunsOnce, TypeOK
<1>7. Drained'
  <2>1. client'[Owner] = "destroyed" => client[Owner] = "destroyed"
    BY <1>1, PoolAssumption DEF WakeJoiners, IInv, TypeOK
  <2> QED BY <1>1, <2>1 DEF IInv, Drained, TypeOK
<1>8. JoinNeverSleepsIdle'
  BY <1>1 DEF IInv, JoinNeverSleepsIdle, Idle, WakeJoiners
<1> QED BY <1>2, <1>4, <1>5, <1>6, <1>7, <1>8 DEF IInv

LEMMA EnqueueInv ==
  ASSUME IInv, NEW c \in Client, NEW t \in Task, Enqueue(c, t)
  PROVE  IInv'
<1>1. /\ client[c] = "idle" /\ t \notin Enqueued /\ ~stop
      /\ tasks' = Append(tasks, t)
      /\ client' = [client EXCEPT ![c] = "notifying"]
      /\ UNCHANGED <<active, stop, worker, holding, finished>>
  BY DEF Enqueue
<1>2. /\ Len(tasks) \in Nat
      /\ tasks' \in Seq(Task)
      /\ Len(tasks') = Len(tasks) + 1
      /\ \A i \in 1 .. Len(tasks) : tasks'[i] = tasks[i]
      /\ tasks'[Len(tasks) + 1] = t
  BY <1>1 DEF IInv, TypeOK
<1>3. /\ \A i \in 1 .. Len(tasks) : tasks[i] # t
      /\ \A w \in Worker : holding[w] # t
      /\ finished[t] = 0
  BY <1>1 DEF IInv, TypeOK, Enqueued
<1>4. TypeOK'
  BY <1>1, <1>2 DEF IInv, TypeOK, ClientState
<1>5. ActiveCounts' /\ Custody'
  BY <1>1, CrewKept DEF IInv, Custody, Busy
<1>6. NoDoubles'
  BY <1>2, <1>3 DEF IInv, NoDoubles
<1>7. RunsOnce'
  <2>1. \A i \in 1 .. Len(tasks') :
          tasks'[i] = t \/ \E j \in 1 .. Len(tasks) : tasks'[i] = tasks[j]
    BY <1>2
  <2> QED BY <1>1, <1>3, <2>1 DEF IInv, RunsOnce
<1>8. Drained' /\ JoinNeverSleepsIdle'
  <2>1. tasks' # << >>
    BY <1>2
  <2> QED BY <1>1, <2>1, PoolAssumption DEF IInv, Drained, JoinNeverSleepsIdle, Idle, TypeOK
<1> QED BY <1>4, <1>5, <1>6, <1>7, <1>8 DEF IInv

LEMMA NotifyOneInv ==
  ASSUME IInv, NEW c \in Client, NotifyOne(c)
  PROVE  IInv'
<1>1. \/ UNCHANGED worker
      \/ \E w \in Worker : worker[w] = "asleep" /\ worker' = [worker EXCEPT ![w] = "awake"]
  BY DEF NotifyOne, Sleepers
<1>2. TypeOK' /\ Drained' /\ JoinNeverSleepsIdle'
  BY <1>1, PoolAssumption DEF NotifyOne, IInv, TypeOK, WorkerState, ClientState, Drained,
                              JoinNeverSleepsIdle, Idle
<1>3. \A w \in Worker :
        \/ worker'[w] = worker[w]
        \/ worker[w] \notin {"running", "ran"} /\ worker'[w] \notin {"running", "ran"}
  BY <1>1 DEF IInv, TypeOK
<1> QED BY <1>2, <1>3, WaitingInv DEF NotifyOne

LEMMA JoinInv ==
  ASSUME IInv, NEW c \in Client, Join(c) \/ JoinSleep(c) \/ JoinReturn(c)
  PROVE  IInv'
<1>1. TypeOK' /\ Drained' /\ JoinNeverSleepsIdle'
  BY PoolAssumption DEF Join, JoinSleep, JoinReturn, IInv, TypeOK, ClientState, Drained,
                        JoinNeverSleepsIdle, Idle
<1> QED BY <1>1, WaitingInv DEF Join, JoinSleep, JoinReturn

LEMMA SpuriousInv ==
  ASSUME IInv, Spurious
  PROVE  IInv'
<1>1. TypeOK' /\ Drained' /\ JoinNeverSleepsIdle'
  BY PoolAssumption DEF Spurious, Sleepers, IInv, TypeOK, WorkerState, ClientState, Drained,
                        JoinNeverSleepsIdle, Idle
<1>2. \A w \in Worker :
        \/ worker'[w] = worker[w]
        \/ worker[w] \notin {"running", "ran"} /\ worker'[w] \notin {"running", "ran"}
  BY DEF Spurious, Sleepers, IInv, TypeOK
<1> QED BY <1>1, <1>2, WaitingInv DEF Spurious

LEMMA DestructorInv ==
  ASSUME IInv, Stop \/ NotifyAll \/ Reap
  PROVE  IInv'
<1>1. TypeOK' /\ Drained' /\ JoinNeverSleepsIdle'
  BY PoolAssumption DEF Stop, NotifyAll, Reap, IInv, TypeOK, WorkerState, ClientState,
                        Drained, JoinNeverSleepsIdle, Idle
<1>2. \A w \in Worker :
        \/ worker'[w] = worker[w]
        \/ worker[w] \notin {"running", "ran"} /\ worker'[w] \notin {"running", "ran"}
  BY DEF Stop, NotifyAll, Reap, IInv, TypeOK
<1> QED BY <1>1, <1>2, WaitingInv DEF Stop, NotifyAll, Reap

LEMMA StutterInv ==
  ASSUME IInv, UNCHANGED vars
  PROVE  IInv'
<1>1. TypeOK' /\ Drained' /\ JoinNeverSleepsIdle'
  BY DEF vars, IInv, TypeOK, Drained, JoinNeverSleepsIdle, Idle
<1> QED BY <1>1, WaitingInv DEF vars

-----------------------------------------------------------------------------
(* Theorems *)

\* The pool's books are right in every state: the queue, the workers' hands and
\* the counts agree (ThreadPool.h:14-86).
THEOREM InductiveInvariant == Spec => []IInv
<1>1. Init => IInv
  BY InitInv
<1>2. IInv /\ [Next]_vars => IInv'
  <2> SUFFICES ASSUME IInv, [Next]_vars PROVE IInv'
    OBVIOUS
  <2>1. ASSUME NEW w \in Worker, WorkerStep(w) PROVE IInv'
    BY <2>1, SleepInv, ExitInv, TakeInv, RunInv, FinishInv DEF WorkerStep
  <2>2. ASSUME NEW c \in Client, InPool(c) \/ Join(c) PROVE IInv'
    BY <2>2, NotifyOneInv, JoinInv DEF InPool
  <2>3. ASSUME NEW c \in Client, NEW t \in Task, Enqueue(c, t) PROVE IInv'
    BY <2>3, EnqueueInv
  <2>4. CASE Stop \/ NotifyAll \/ Reap
    BY <2>4, DestructorInv
  <2>5. CASE Spurious
    BY <2>5, SpuriousInv
  <2>6. CASE UNCHANGED vars
    BY <2>6, StutterInv
  <2> QED BY <2>1, <2>2, <2>3, <2>4, <2>5, <2>6 DEF Next
<1> QED BY <1>1, <1>2, PTL DEF Spec

\* Every worker and client of the pool is in a state its code has, and the queue holds
\* tasks (ThreadPool.h:88-97).
THEOREM TypeCorrect == Spec => []TypeOK
<1>1. IInv => TypeOK
  BY DEF IInv
<1> QED BY <1>1, InductiveInvariant, PTL

\* activeTasks is the number of tasks being run (ThreadPool.h:34, 42).
THEOREM ActiveIsExact == Spec => []ActiveCounts
<1>1. IInv => ActiveCounts
  BY DEF IInv
<1> QED BY <1>1, InductiveInvariant, PTL

\* No task is run twice or is in two places (ThreadPool.h:32-38).
THEOREM EveryTaskOnce == Spec => []RunsOnce
<1>1. IInv => RunsOnce
  BY DEF IInv
<1> QED BY <1>1, InductiveInvariant, PTL

\* A joiner never sleeps on an idle pool (ThreadPool.h:41-46, 68-71).
THEOREM JoinersAreWoken == Spec => []JoinNeverSleepsIdle
<1>1. IInv => JoinNeverSleepsIdle
  BY DEF IInv
<1> QED BY <1>1, InductiveInvariant, PTL

\* When nothing is queued or in hand, every task that was enqueued has run.
LEMMA NothingLeft ==
  ASSUME IInv, tasks = << >>, \A w \in Worker : ~Busy(w)
  PROVE  \A t \in Enqueued : finished[t] = 1
<1> SUFFICES ASSUME NEW t \in Task, t \in Enqueued PROVE finished[t] = 1
  BY DEF Enqueued
<1>1. \A w \in Worker : holding[w] # t
  BY PoolAssumption DEF IInv, Custody
<1>2. finished[t] > 0
  BY <1>1 DEF Enqueued
<1> QED BY <1>2 DEF IInv, RunsOnce, TypeOK

\* The destructor returns after every task ever enqueued has run: stopping
\* drains the queue (ThreadPool.h:29, 74-86).
THEOREM DestructorDrains == Spec => []DestroyedMeansDone
<1>1. IInv => DestroyedMeansDone
  <2> SUFFICES ASSUME IInv, client[Owner] = "destroyed"
               PROVE  \A t \in Enqueued : finished[t] = 1
    BY DEF DestroyedMeansDone
  <2>1. tasks = << >> /\ \A w \in Worker : worker[w] = "exited"
    BY PoolAssumption DEF IInv, Drained
  <2> QED BY <2>1, NothingLeft DEF Busy
<1> QED BY <1>1, InductiveInvariant, PTL

\* join returns after every task enqueued before has run (ThreadPool.h:66-72).
THEOREM JoinWaits == Spec => JoinMeansDone
<1>1. ASSUME IInv, [Next]_vars, NEW c \in Client, client[c] = "joining", client'[c] = "idle"
      PROVE  \A t \in Enqueued : finished[t] = 1
  <2>1. Idle
    BY <1>1 DEF Next, WorkerStep, Sleep, Exit, Take, Run, Finish, WakeJoiners, InPool,
                NotifyOne, Join, JoinSleep, JoinReturn, Enqueue, Stop, NotifyAll, Reap,
                Spurious, vars, IInv, TypeOK
  <2> QED BY <1>1, <2>1, IdleMeansNobodyBusy, NothingLeft DEF Idle
<1>2. IInv /\ [Next]_vars =>
        [\A c \in Client : client[c] = "joining" /\ client'[c] = "idle"
           => \A t \in Enqueued : finished[t] = 1]_vars
  BY <1>1
<1> QED BY <1>2, InductiveInvariant, PTL DEF Spec, JoinMeansDone
=============================================================================
