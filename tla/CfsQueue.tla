------------------------------ MODULE CfsQueue ------------------------------
(***************************************************************************)
(* The shared CFS run queue of os/src/task/scheduler/cfs.rs: how vruntime, *)
(* the heap keys and min_vruntime move as tasks run, sleep and wake.  The  *)
(* SMP protocol around the queue is Scheduler; here every operation is one *)
(* step under READY_QUEUE's lock.                                          *)
(***************************************************************************)
EXTENDS Integers, FiniteSets

CONSTANTS Tasks,       \* tids, numbers: the tie-break of QueueKey
          Harts,
          NoTask,
          Weight,      \* NICE_WEIGHTS of the task's nice value
          Affinity,    \* the harts each task may run on
          MaxSlice,    \* bound: ticks of one run segment
          MaxVruntime  \* bound: nothing is charged beyond it

NICE_0_LOAD == 1024

ASSUME CfsAssumption ==
    /\ Tasks \subseteq Nat /\ NoTask \notin Tasks
    /\ Weight \in [Tasks -> Nat \ {0}]
    /\ Affinity \in [Tasks -> SUBSET Harts]
    /\ MaxSlice \in Nat /\ MaxVruntime \in Nat

VARIABLES vruntime,      \* SchedEntity.vruntime
          queued,        \* the tasks with a heap item (on_rq)
          key,           \* the vruntime part of a queued task's heap key, else 0
          running,       \* the task each hart runs
          min_vruntime,  \* CfsRunQueue.min_vruntime
          passed         \* history: the tasks fetched since a queued task was pushed

vars == <<vruntime, queued, key, running, min_vruntime, passed>>

Larger(a, b) == IF a < b THEN b ELSE a

\* Ord for CfsEntry: the smaller (vruntime, tid) is popped first.
Before(t, u) == key[t] < key[u] \/ (key[t] = key[u] /\ t <= u)
Leftmost(t) == t \in queued /\ \A u \in queued : Before(t, u)

\* Mutant: a plain assignment.
AdvanceToCurrent(Q, current) == min_vruntime' = current

\* advance_min_vruntime(current), with Q the items then in the heap: the smallest
\* of current and the keys, unless the base is already beyond it.
Advance(Q, current) ==
    \E m \in {current} \cup {key[t] : t \in Q} :
        /\ m <= current /\ \A t \in Q : m <= key[t]
        /\ min_vruntime' = Larger(min_vruntime, m)

\* place_at: lift a sleeper to the queue's time base.
PlaceAt(t) == Larger(vruntime[t], min_vruntime)

\* delta_exec * NICE_0_LOAD / weight.
Charge(t, delta) == (delta * NICE_0_LOAD) \div Weight[t]

\* Mutant: exec_start is not moved, so the tick and the switch charge the segment.
ChargedTwice(t, delta) == vruntime[t] + 2 * Charge(t, delta)

\* account_runtime: the vruntime after the segment.
Charged(t, delta) == vruntime[t] + Charge(t, delta)

\* Mutant: add_task does not ask whether the task is still on a CPU.
NotQueued == Tasks \ queued

\* The tasks that are neither queued nor on a CPU.
Idle == Tasks \ (queued \cup {running[h] : h \in Harts})

-----------------------------------------------------------------------------
Init ==
    /\ vruntime = [t \in Tasks |-> 0]
    /\ queued = {}
    /\ key = [t \in Tasks |-> 0]
    /\ running = [h \in Harts |-> NoTask]
    /\ min_vruntime = 0
    /\ passed = [t \in Tasks |-> {}]

\* add_task of a task that is Ready, off every CPU and not yet queued.
AddTask(t) ==
    /\ t \in Idle
    /\ vruntime' = [vruntime EXCEPT ![t] = PlaceAt(t)]
    /\ key' = [key EXCEPT ![t] = PlaceAt(t)]
    /\ queued' = queued \cup {t}
    /\ passed' = [passed EXCEPT ![t] = {}]
    /\ UNCHANGED <<running, min_vruntime>>

\* fetch_task: the head of the heap, if this hart may run it.  A head that may not
\* run here is pushed back under the same key and popped again until the loop has
\* counted every item: fetch_task then returns None, and nothing has changed.
FetchTask(h, t) ==
    /\ running[h] = NoTask
    /\ Leftmost(t)
    /\ h \in Affinity[t]
    /\ queued' = queued \ {t}
    /\ Advance(queued \ {t}, key[t])
    /\ running' = [running EXCEPT ![h] = t]
    /\ key' = [key EXCEPT ![t] = 0]
    /\ passed' = [u \in Tasks |-> IF u \in queued \ {t} THEN passed[u] \cup {t} ELSE {}]
    /\ UNCHANGED vruntime

\* take_current_task: account_current charges the segment and advances the base.
\* The task may sleep or be queued again by a later AddTask.
AccountCurrent(h, delta) ==
    /\ running[h] # NoTask
    /\ vruntime[running[h]] >= MaxVruntime => delta = 0
    /\ LET t == running[h]
           v == Charged(t, delta)
       IN /\ vruntime' = [vruntime EXCEPT ![t] = v]
          /\ Advance(queued, v)
    /\ running' = [running EXCEPT ![h] = NoTask]
    /\ UNCHANGED <<queued, key, passed>>

Next ==
    \/ \E t \in Tasks : AddTask(t)
    \/ \E h \in Harts : \/ \E t \in Tasks : FetchTask(h, t)
                        \/ \E delta \in 0 .. MaxSlice : AccountCurrent(h, delta)

Spec == Init /\ [][Next]_vars

-----------------------------------------------------------------------------
\* Properties.

\* The type invariant.
TypeOK ==
    /\ vruntime \in [Tasks -> Nat] /\ key \in [Tasks -> Nat] /\ min_vruntime \in Nat
    /\ queued \subseteq Tasks
    /\ running \in [Harts -> Tasks \cup {NoTask}]
    /\ passed \in [Tasks -> SUBSET Tasks]

\* The time base never passes a queued item: advance_min_vruntime takes the
\* smaller of the head and the task that ran, so no item becomes unreachable
\* behind newcomers that are all placed at the base.
BaseIsFloor == \A t \in queued : min_vruntime <= key[t]

\* A queued task cannot be passed over without limit: whoever was fetched while
\* it waited has at most one charged segment more than its key.  Sleeping and
\* waking does not help the other (place_at), nor does running on another hart.
BoundedOvertaking ==
    \A t \in queued, u \in Tasks :
        u \in passed[t] => vruntime[u] <= key[t] + Charge(u, MaxSlice)

\* What TLAPS proves inductive.  A running task was at most as late as those it
\* left behind in the queue, and is charged once.
Inv ==
    /\ TypeOK
    /\ BaseIsFloor
    /\ BoundedOvertaking
    /\ \A t \in queued : key[t] = vruntime[t] /\ \A h \in Harts : running[h] # t
    /\ \A h, g \in Harts : running[h] = running[g] /\ running[h] # NoTask => h = g
    /\ \A t \in queued, h \in Harts :
          running[h] \in passed[t] => vruntime[running[h]] <= key[t]
=============================================================================
