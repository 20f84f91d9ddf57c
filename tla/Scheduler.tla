------------------------------ MODULE Scheduler ------------------------------
(***************************************************************************)
(* The SMP task scheduler: os/src/task/processor.rs (the run_tasks loop of *)
(* every hart, the idle publication and the scheduler IPIs), the shared    *)
(* CFS ready queue of os/src/task/scheduler/cfs.rs, and the task-side      *)
(* entry points of os/src/task/mod.rs that hand a hart back to the loop.   *)
(*                                                                         *)
(* One step is one access to shared state: a critical section of the ready *)
(* queue lock or of a TCB inner lock, or one atomic load or store.  The    *)
(* order in which fetch_task visits its heap is left open here (any        *)
(* eligible entry); CfsQueue models the vruntime order.                    *)
(***************************************************************************)
EXTENDS Integers, FiniteSets

CONSTANTS HartCount,  \* hart_count(), at least one
          Tasks,      \* the TCBs that may ever exist
          BootTasks,  \* the tasks queued before the harts enter run_tasks
          NoTask,     \* Option::None in a task slot
          Masks,      \* the masks sched_setaffinity may be called with
          Script      \* what each task may do besides computing and being preempted

\* The ways a task's program enters the scheduler.  "exit" is also being killed.
Deeds == {"yield", "block", "stop", "wake", "thread", "fork", "vfork", "exit"}

Harts == 0 .. HartCount - 1

ASSUME SchedulerAssumption ==
    /\ HartCount \in Nat \ {0}
    /\ NoTask \notin Tasks
    /\ BootTasks \subseteq Tasks
    /\ Masks \subseteq (SUBSET Harts) \ {{}}
    /\ IsFiniteSet(Tasks)
    /\ Script \in [Tasks -> SUBSET Deeds]

VARIABLES
    status,          \* TaskControlBlockInner.task_status
    cpu_affinity,    \* TaskControlBlock.cpu_affinity, as a set of harts
    scheduled_hart,  \* TaskControlBlock.scheduled_hart
    on_cpu,          \* TaskControlBlock.on_cpu
    on_rq,           \* SchedEntity.on_rq
    entries,         \* how many CfsEntry items of READY_QUEUE name the task
    pc,              \* where the hart is in run_tasks or in a task's kernel code
    ret,             \* where the hart returns to after add_task
    current,         \* Processor.current
    stack,           \* the task on whose kernel stack the hart executes
    arg,             \* the task operand of the operation in progress
    mask, budget, target, old_hart,  \* locals of the notification and affinity code
    hart_idle,       \* HART_IDLE
    ipi              \* a software interrupt is pending at the hart

tcbVars == <<status, cpu_affinity, scheduled_hart, on_cpu, on_rq, entries>>
locals == <<mask, budget, target, old_hart>>
vars == <<tcbVars, pc, ret, current, stack, arg, locals, hart_idle, ipi>>

\* TaskStatus, and Unborn for a TCB that clone has not built yet.
Asleep == {"Blocked", "Stopped", "VforkBlocked"}
Statuses == Asleep \cup {"Unborn", "Ready", "Running", "Zombie"}

\* Program locations in the kernel code of a task, and in run_tasks.
TaskPCs == {"run", "blocking", "switch", "suspend", "leaving", "exiting", "zombie",
            "aff_load", "aff_store", "aff_test", "aff_ipi"}
Dispatching == {"check", "place", "start", "claim"}
Calls == {"add", "mask", "notify"}
LoopPCs == {"loop", "finish", "finish2", "requeue", "fetch", "publish",
            "recheck", "wfi", "unidle"} \cup Dispatching

can_run_on(u, h) == h \in cpu_affinity[u]

\* has_ready_for_hart: any heap item whose task the hart may run.
has_ready_for_hart(h) == \E u \in Tasks : entries[u] > 0 /\ can_run_on(u, h)

\* tasks.len(): no task has two items (QueueSound), so this counts the heap.
QueueLen == Cardinality({u \in Tasks : entries[u] > 0})

\* Mutants of Enqueues: add_task without its on_cpu, or its on_rq, test.
EnqueuesOnCpu(u) == status[u] = "Ready" /\ ~on_rq[u]
EnqueuesTwice(u) == status[u] = "Ready" /\ ~on_cpu[u]

\* The condition under which cfs::add_task pushes a heap item.
Enqueues(u) == status[u] = "Ready" /\ ~on_cpu[u] /\ ~on_rq[u]

Push(u) ==
    /\ on_rq' = [on_rq EXCEPT ![u] = TRUE]
    /\ entries' = [entries EXCEPT ![u] = @ + 1]

Goto(h, l) == pc' = [pc EXCEPT ![h] = l]

\* Leaving scope: a dead local goes back to its initial value.
DropArg(h) == arg' = [arg EXCEPT ![h] = NoTask]

\* Return from ready_queue::add_task or notify_harts_of_runnable_task.
Return(h) ==
    /\ Goto(h, ret[h])
    /\ arg' = [arg EXCEPT ![h] = IF ret[h] = "aff_ipi" THEN @ ELSE NoTask]
    /\ ret' = [ret EXCEPT ![h] = "loop"]
    /\ mask' = [mask EXCEPT ![h] = {}]
    /\ budget' = [budget EXCEPT ![h] = 0]
    /\ target' = [target EXCEPT ![h] = 0]

-----------------------------------------------------------------------------
\* A task's kernel code on hart h.

\* The program of the task on hart h may do this now.
Does(h, deed) == pc[h] = "run" /\ deed \in Script[stack[h]]

\* suspend_current_and_run_next: publish Ready (a vfork parent stays
\* VforkBlocked) and enter schedule().  Its first line makes the task exit where
\* a group exit or a SIGKILL is pending: Exit from "run", LeaveInCall from "suspend".
Suspend(h) ==
    /\ status' = [status EXCEPT ![stack[h]] =
                    IF @ = "VforkBlocked" THEN @ ELSE "Ready"]
    /\ Goto(h, "switch")
    /\ UNCHANGED <<cpu_affinity, scheduled_hart, on_cpu, on_rq, entries, ret,
                   current, stack, hart_idle>>

\* A cooperative wait loop suspends whether or not anybody else is queued.
SuspendCurrent(h) ==
    /\ Does(h, "yield")
    /\ Suspend(h)
    /\ UNCHANGED <<arg, locals, ipi>>

\* The timer trap: preempt_current_and_run_next.
Preempt(h) ==
    /\ pc[h] = "run"
    /\ scheduled_hart[stack[h]] # h \/ has_ready_for_hart(h)
    /\ Suspend(h)
    /\ UNCHANGED <<arg, locals, ipi>>

\* The software interrupt trap: clear_ipi, then migrate_current_if_needed.
IpiTrap(h) ==
    /\ pc[h] = "run"
    /\ ipi[h]
    /\ ipi' = [ipi EXCEPT ![h] = FALSE]
    /\ \/ scheduled_hart[stack[h]] # h /\ Suspend(h)
       \/ /\ scheduled_hart[stack[h]] = h
          /\ UNCHANGED <<tcbVars, pc, ret, current, stack, hart_idle>>
    /\ UNCHANGED <<arg, locals>>

\* Every wait primitive publishes Blocked while still on its kernel stack.
PublishBlocked(h) ==
    /\ Does(h, "block")
    /\ status' = [status EXCEPT ![stack[h]] = "Blocked"]
    /\ Goto(h, "blocking")
    /\ UNCHANGED <<cpu_affinity, scheduled_hart, on_cpu, on_rq, entries, ret,
                   current, stack, arg, locals, hart_idle, ipi>>

\* The pipe waits recheck their condition after publishing Blocked and may
\* take the publication back.
RevokeBlocked(h) ==
    /\ pc[h] = "blocking"
    /\ status' = [status EXCEPT ![stack[h]] = "Running"]
    /\ Goto(h, "run")
    /\ UNCHANGED <<cpu_affinity, scheduled_hart, on_cpu, on_rq, entries, ret,
                   current, stack, arg, locals, hart_idle, ipi>>

\* schedule_blocked_current.
CommitBlocked(h) ==
    /\ pc[h] = "blocking"
    /\ Goto(h, "switch")
    /\ UNCHANGED <<tcbVars, ret, current, stack, arg, locals, hart_idle, ipi>>

\* stop_current_and_run_next.
StopCurrent(h) ==
    /\ Does(h, "stop")
    /\ status' = [status EXCEPT ![stack[h]] = "Stopped"]
    /\ Goto(h, "switch")
    /\ UNCHANGED <<cpu_affinity, scheduled_hart, on_cpu, on_rq, entries, ret,
                   current, stack, arg, locals, hart_idle, ipi>>

\* clone: a new TCB is Ready before add_task; CLONE_VFORK marks the parent
\* VforkBlocked before the child is published.  A thread inherits the
\* affinity, a process starts with every hart.
Clone(h, u, kind) ==
    /\ Does(h, kind)
    /\ status[u] = "Unborn"
    /\ status' = [status EXCEPT ![u] = "Ready",
                    ![stack[h]] = IF kind = "vfork" THEN "VforkBlocked" ELSE @]
    /\ cpu_affinity' = [cpu_affinity EXCEPT ![u] =
                          IF kind = "thread" THEN cpu_affinity[stack[h]] ELSE Harts]
    /\ \E s \in cpu_affinity'[u] :
          scheduled_hart' = [scheduled_hart EXCEPT ![u] = s]
    /\ arg' = [arg EXCEPT ![h] = u]
    /\ ret' = [ret EXCEPT ![h] = IF kind = "vfork" THEN "suspend" ELSE "run"]
    /\ Goto(h, "add")
    /\ UNCHANGED <<on_cpu, on_rq, entries, current, stack, locals, hart_idle, ipi>>

\* The system calls that end in suspend_current_and_run_next: sys_clone of a vfork
\* parent, once the child is queued, and sched_setaffinity of a caller that moves.
SuspendInCall(h) ==
    /\ pc[h] = "suspend"
    /\ Suspend(h)
    /\ UNCHANGED <<arg, locals, ipi>>

\* exit_current_if_group_exited_or_killed at the top of it.  A vfork parent gets
\* here VforkBlocked, or Ready where the signal that kills it has woken it.
LeaveInCall(h) ==
    /\ pc[h] = "suspend"
    /\ "exit" \in Script[stack[h]]
    /\ Goto(h, "leaving")
    /\ UNCHANGED <<tcbVars, ret, current, stack, arg, locals, hart_idle, ipi>>

\* exit_current_and_run_next takes the processor's current slot ...
TakeForExit(h) ==
    /\ current' = [current EXCEPT ![h] = NoTask]
    /\ Goto(h, "exiting")
    /\ UNCHANGED <<tcbVars, ret, stack, arg, locals, hart_idle, ipi>>

Exit(h) == Does(h, "exit") /\ TakeForExit(h)
ExitInCall(h) == pc[h] = "leaving" /\ TakeForExit(h)

\* ... publishes Zombie ...
PublishZombie(h) ==
    /\ pc[h] = "exiting"
    /\ status' = [status EXCEPT ![stack[h]] = "Zombie"]
    /\ Goto(h, "zombie")
    /\ UNCHANGED <<cpu_affinity, scheduled_hart, on_cpu, on_rq, entries, ret,
                   current, stack, arg, locals, hart_idle, ipi>>

\* ... and ends with abandon(), which drops the kernel stack; on_cpu stays set.
Abandon(h) ==
    /\ pc[h] = "zombie"
    /\ stack' = [stack EXCEPT ![h] = NoTask]
    /\ Goto(h, "loop")
    /\ UNCHANGED <<tcbVars, ret, current, arg, locals, hart_idle, ipi>>

-----------------------------------------------------------------------------
\* Wakeups.  A waker is a task in kernel code, an exiting task, or the timer
\* maintenance at the top of run_tasks.

\* The state change of every wakeup (futex, Waker, pipe, SIGCONT, SIGKILL,
\* vfork release), made under the woken task's inner lock.
MakeReady(h, u) ==
    /\ \/ pc[h] = "loop"
       \/ pc[h] \in {"run", "leaving", "exiting", "zombie"} /\ "wake" \in Script[stack[h]]
    /\ status[u] \in Asleep
    /\ status' = [status EXCEPT ![u] = "Ready"]
    /\ arg' = [arg EXCEPT ![h] = u]
    /\ ret' = [ret EXCEPT ![h] = pc[h]]
    /\ Goto(h, "add")
    /\ UNCHANGED <<cpu_affinity, scheduled_hart, on_cpu, on_rq, entries,
                   current, stack, locals, hart_idle, ipi>>

\* cfs::add_task under the READY_QUEUE lock.
AddTask(h) ==
    /\ pc[h] = "add"
    /\ \/ /\ Enqueues(arg[h])
          /\ Push(arg[h])
          /\ budget' = [budget EXCEPT ![h] =
                IF QueueLen + 1 < HartCount THEN QueueLen + 1 ELSE HartCount - 1]
          /\ Goto(h, "mask")
          /\ UNCHANGED <<ret, arg, mask, target>>
       \/ /\ ~Enqueues(arg[h])
          /\ Return(h)
          /\ UNCHANGED <<on_rq, entries>>
    /\ UNCHANGED <<status, cpu_affinity, scheduled_hart, on_cpu, current, stack,
                   old_hart, hart_idle, ipi>>

\* ready_queue::add_task reads the affinity after the push.
ReadMask(h) ==
    /\ pc[h] = "mask"
    /\ mask' = [mask EXCEPT ![h] = cpu_affinity[arg[h]]]
    /\ Goto(h, "notify")
    /\ UNCHANGED <<tcbVars, ret, current, stack, arg, budget, target, old_hart,
                   hart_idle, ipi>>

\* Mutant: 0..=hart_count.
MoreTargetsInclusive(h) == target[h] \in 0 .. HartCount

\* The bound of the loop over target_hart.
MoreTargets(h) == target[h] \in Harts

\* One iteration of notify_harts_of_runnable_task, and its return.
Notify(h) ==
    /\ pc[h] = "notify"
    /\ \/ /\ MoreTargets(h)
          /\ target' = [target EXCEPT ![h] = @ + 1]
          /\ IF /\ target[h] # h
                /\ target[h] \in mask[h]
                /\ hart_idle[target[h]]
                /\ budget[h] # 0
             THEN /\ ipi' = [ipi EXCEPT ![target[h]] = TRUE]
                  /\ budget' = [budget EXCEPT ![h] = @ - 1]
             ELSE UNCHANGED <<ipi, budget>>
          /\ UNCHANGED <<pc, ret, arg, mask>>
       \/ /\ ~MoreTargets(h)
          /\ Return(h)
          /\ UNCHANGED ipi
    /\ UNCHANGED <<tcbVars, current, stack, old_hart, hart_idle>>

-----------------------------------------------------------------------------
\* sched_setaffinity of task u to the mask m, called by a task on hart h.

\* set_cpu_affinity: store the mask ...
SetAffinity(h, u, m) ==
    /\ pc[h] = "run"
    /\ status[u] \notin {"Unborn", "Zombie"}
    /\ cpu_affinity' = [cpu_affinity EXCEPT ![u] = m]
    /\ arg' = [arg EXCEPT ![h] = u]
    /\ mask' = [mask EXCEPT ![h] = m]
    /\ Goto(h, "aff_load")
    /\ UNCHANGED <<status, scheduled_hart, on_cpu, on_rq, entries, ret, current,
                   stack, budget, target, old_hart, hart_idle, ipi>>

\* ... then load scheduled_hart ...
AffLoad(h) ==
    /\ pc[h] = "aff_load"
    /\ old_hart' = [old_hart EXCEPT ![h] = scheduled_hart[arg[h]]]
    /\ Goto(h, IF scheduled_hart[arg[h]] \in mask[h] THEN "aff_test" ELSE "aff_store")
    /\ UNCHANGED <<tcbVars, ret, current, stack, arg, mask, budget, target,
                   hart_idle, ipi>>

\* ... and move a placement the mask forbids to a hart choose_hart picks.
AffStore(h) ==
    /\ pc[h] = "aff_store"
    /\ \E s \in mask[h] : scheduled_hart' = [scheduled_hart EXCEPT ![arg[h]] = s]
    /\ Goto(h, "aff_test")
    /\ UNCHANGED <<status, cpu_affinity, on_cpu, on_rq, entries, ret, current,
                   stack, arg, locals, hart_idle, ipi>>

\* Only a moved placement notifies the new mask, with a budget of one task.
AffTest(h) ==
    /\ pc[h] = "aff_test"
    /\ \/ /\ scheduled_hart[arg[h]] = old_hart[h]
          /\ Goto(h, "run")
          /\ DropArg(h)
          /\ mask' = [mask EXCEPT ![h] = {}]
          /\ old_hart' = [old_hart EXCEPT ![h] = 0]
          /\ UNCHANGED <<ret, budget, target>>
       \/ /\ scheduled_hart[arg[h]] # old_hart[h]
          /\ mask' = [mask EXCEPT ![h] = cpu_affinity[arg[h]]]
          /\ budget' = [budget EXCEPT ![h] = IF HartCount > 1 THEN 1 ELSE 0]
          /\ ret' = [ret EXCEPT ![h] = "aff_ipi"]
          /\ Goto(h, "notify")
          /\ UNCHANGED <<arg, target, old_hart>>
    /\ UNCHANGED <<tcbVars, current, stack, hart_idle, ipi>>

\* The caller suspends itself, or interrupts the hart the target ran on.
AffIpi(h) ==
    /\ pc[h] = "aff_ipi"
    /\ DropArg(h)
    /\ old_hart' = [old_hart EXCEPT ![h] = 0]
    /\ \/ arg[h] = stack[h] /\ Goto(h, "suspend") /\ UNCHANGED ipi
       \/ /\ arg[h] # stack[h]
          /\ ipi' = [ipi EXCEPT ![old_hart[h]] = TRUE]
          /\ Goto(h, "run")
    /\ UNCHANGED <<tcbVars, ret, current, stack, mask, budget, target, hart_idle>>

-----------------------------------------------------------------------------
\* The run_tasks loop of hart h.

\* __switch has saved the task context; the hart is on its idle stack.
SwitchToIdle(h) ==
    /\ pc[h] = "switch"
    /\ stack' = [stack EXCEPT ![h] = NoTask]
    /\ Goto(h, "loop")
    /\ UNCHANGED <<tcbVars, ret, current, arg, locals, hart_idle, ipi>>

\* take_current_task.
TakeCurrent(h) ==
    /\ pc[h] = "loop"
    /\ \/ /\ current[h] = NoTask
          /\ Goto(h, "fetch")
          /\ UNCHANGED <<current, arg>>
       \/ /\ current[h] # NoTask
          /\ arg' = [arg EXCEPT ![h] = current[h]]
          /\ current' = [current EXCEPT ![h] = NoTask]
          /\ Goto(h, "finish")
    /\ UNCHANGED <<tcbVars, ret, stack, locals, hart_idle, ipi>>

\* finish_task(prev): only now may another hart queue the task.
MarkOffCpu(h) ==
    /\ pc[h] = "finish"
    /\ on_cpu' = [on_cpu EXCEPT ![arg[h]] = FALSE]
    /\ Goto(h, "finish2")
    /\ UNCHANGED <<status, cpu_affinity, scheduled_hart, on_rq, entries, ret,
                   current, stack, arg, locals, hart_idle, ipi>>

\* Mutant: only a preempted task counts as runnable.
RunnableRunning == {"Running"}

\* The statuses of a previous task that run_tasks requeues.
Runnable == {"Ready", "Running"}

ReadPrev(h) ==
    /\ pc[h] = "finish2"
    /\ \/ /\ status[arg[h]] \in Runnable
          /\ Goto(h, "requeue")
          /\ UNCHANGED arg
       \/ /\ status[arg[h]] \notin Runnable
          /\ Goto(h, "fetch")
          /\ DropArg(h)
    /\ UNCHANGED <<tcbVars, ret, current, stack, locals, hart_idle, ipi>>

\* requeue_current: add_task without a notification.
Requeue(h) ==
    /\ pc[h] = "requeue"
    /\ IF Enqueues(arg[h]) THEN Push(arg[h]) ELSE UNCHANGED <<on_rq, entries>>
    /\ Goto(h, "fetch")
    /\ DropArg(h)
    /\ UNCHANGED <<status, cpu_affinity, scheduled_hart, on_cpu, ret, current,
                   stack, locals, hart_idle, ipi>>

Eligible(h) == {u \in Tasks : entries[u] > 0 /\ status[u] = "Ready" /\ can_run_on(u, h)}
StaleEntries == {u \in Tasks : entries[u] > 0 /\ status[u] # "Ready"}

\* fetch_task: pop items until one is Ready and allowed here; the items popped
\* before it that are not Ready are discarded with their on_rq claim.
FetchTask(h, u) ==
    /\ pc[h] = "fetch"
    /\ u \in Eligible(h)
    /\ \E D \in SUBSET StaleEntries :
          /\ on_rq' = [t \in Tasks |-> on_rq[t] /\ t # u /\ t \notin D]
          /\ entries' = [t \in Tasks |-> IF t = u THEN entries[t] - 1
                                         ELSE IF t \in D THEN 0 ELSE entries[t]]
    /\ status' = [status EXCEPT ![u] = "Running"]
    /\ arg' = [arg EXCEPT ![h] = u]
    /\ Goto(h, "check")
    /\ UNCHANGED <<cpu_affinity, scheduled_hart, on_cpu, ret, current, stack,
                   locals, hart_idle, ipi>>

\* Ready items this hart may not run.  fetch_task pushes one back under its old
\* key and so pops it again: at the head of the heap it hides the items behind it.
Blocking(h) == {u \in Tasks : entries[u] > 0 /\ status[u] = "Ready" /\ ~can_run_on(u, h)}

FetchNone(h) ==
    /\ pc[h] = "fetch"
    /\ \E D \in SUBSET StaleEntries :
          /\ Blocking(h) # {} \/ (Eligible(h) = {} /\ D = StaleEntries)
          /\ on_rq' = [t \in Tasks |-> on_rq[t] /\ t \notin D]
          /\ entries' = [t \in Tasks |-> IF t \in D THEN 0 ELSE entries[t]]
    /\ Goto(h, "publish")
    /\ UNCHANGED <<status, cpu_affinity, scheduled_hart, on_cpu, ret, current,
                   stack, arg, locals, hart_idle, ipi>>

\* Mutant: the reservation is not returned before add_task.
CheckAffinityKeepsRunning(h) ==
    /\ pc[h] = "check"
    /\ ret' = [ret EXCEPT ![h] = "loop"]
    /\ Goto(h, IF can_run_on(arg[h], h) THEN "place" ELSE "add")
    /\ UNCHANGED <<tcbVars, current, stack, arg, locals, hart_idle, ipi>>

\* The affinity may have changed since the selection: give the task back.
CheckAffinity(h) ==
    /\ pc[h] = "check"
    /\ \/ /\ can_run_on(arg[h], h)
          /\ Goto(h, "place")
          /\ UNCHANGED <<status, ret>>
       \/ /\ ~can_run_on(arg[h], h)
          /\ status' = [status EXCEPT ![arg[h]] = "Ready"]
          /\ ret' = [ret EXCEPT ![h] = "loop"]
          /\ Goto(h, "add")
    /\ UNCHANGED <<cpu_affinity, scheduled_hart, on_cpu, on_rq, entries, current,
                   stack, arg, locals, hart_idle, ipi>>

\* set_scheduled_hart.
Place(h) ==
    /\ pc[h] = "place"
    /\ scheduled_hart' = [scheduled_hart EXCEPT ![arg[h]] = h]
    /\ Goto(h, "start")
    /\ UNCHANGED <<status, cpu_affinity, on_cpu, on_rq, entries, ret, current,
                   stack, arg, locals, hart_idle, ipi>>

\* Publish Running, then mark_running on the scheduling entity.
Start(h) ==
    /\ pc[h] = "start"
    /\ status' = [status EXCEPT ![arg[h]] = "Running"]
    /\ on_rq' = [on_rq EXCEPT ![arg[h]] = FALSE]
    /\ Goto(h, "claim")
    /\ UNCHANGED <<cpu_affinity, scheduled_hart, on_cpu, entries, ret, current,
                   stack, arg, locals, hart_idle, ipi>>

\* prepare_task(next): own the context, then switch to it.
Claim(h) ==
    /\ pc[h] = "claim"
    /\ on_cpu' = [on_cpu EXCEPT ![arg[h]] = TRUE]
    /\ current' = [current EXCEPT ![h] = arg[h]]
    /\ stack' = [stack EXCEPT ![h] = arg[h]]
    /\ Goto(h, "run")
    /\ DropArg(h)
    /\ UNCHANGED <<status, cpu_affinity, scheduled_hart, on_rq, entries, ret,
                   locals, hart_idle, ipi>>

-----------------------------------------------------------------------------
\* idle_until_runnable.

SetIdle(h, from, to, idle) ==
    /\ pc[h] = from
    /\ hart_idle' = [hart_idle EXCEPT ![h] = idle]
    /\ Goto(h, to)
    /\ UNCHANGED <<tcbVars, ret, current, stack, arg, locals, ipi>>

PublishIdle(h) == SetIdle(h, "publish", "recheck", TRUE)
ClearIdle(h) == SetIdle(h, "unidle", "loop", FALSE)

\* Mutant: wfi without the second look at the queue.
RecheckSkipped(h) ==
    /\ pc[h] = "recheck"
    /\ Goto(h, "wfi")
    /\ UNCHANGED <<tcbVars, ret, current, stack, arg, locals, hart_idle, ipi>>

\* The second look at the queue, after the idle state is published.
Recheck(h) ==
    /\ pc[h] = "recheck"
    /\ Goto(h, IF has_ready_for_hart(h) THEN "unidle" ELSE "wfi")
    /\ UNCHANGED <<tcbVars, ret, current, stack, arg, locals, hart_idle, ipi>>

\* wfi returns on a pending software interrupt or on the timer, and the
\* software interrupt is cleared either way.
WakeFromWfi(h) ==
    /\ pc[h] = "wfi"
    /\ ipi' = [ipi EXCEPT ![h] = FALSE]
    /\ Goto(h, "unidle")
    /\ UNCHANGED <<tcbVars, ret, current, stack, arg, locals, hart_idle>>

IpiWake(h) == ipi[h] /\ WakeFromWfi(h)
TimerTick(h) == WakeFromWfi(h)

-----------------------------------------------------------------------------
Init ==
    /\ status = [u \in Tasks |-> IF u \in BootTasks THEN "Ready" ELSE "Unborn"]
    /\ cpu_affinity = [u \in Tasks |-> Harts]
    /\ scheduled_hart = [u \in Tasks |-> 0]
    /\ on_cpu = [u \in Tasks |-> FALSE]
    /\ on_rq = [u \in Tasks |-> u \in BootTasks]
    /\ entries = [u \in Tasks |-> IF u \in BootTasks THEN 1 ELSE 0]
    /\ pc = [h \in Harts |-> "loop"]
    /\ ret = [h \in Harts |-> "loop"]
    /\ current = [h \in Harts |-> NoTask]
    /\ stack = [h \in Harts |-> NoTask]
    /\ arg = [h \in Harts |-> NoTask]
    /\ mask = [h \in Harts |-> {}]
    /\ budget = [h \in Harts |-> 0]
    /\ target = [h \in Harts |-> 0]
    /\ old_hart = [h \in Harts |-> 0]
    /\ hart_idle = [h \in Harts |-> FALSE]
    /\ ipi = [h \in Harts |-> FALSE]

\* What a task chooses to do, and what others choose to do to it.
TaskStep(h) ==
    \/ SuspendCurrent(h) \/ Preempt(h) \/ IpiTrap(h)
    \/ PublishBlocked(h) \/ RevokeBlocked(h) \/ CommitBlocked(h) \/ StopCurrent(h)
    \/ SuspendInCall(h) \/ LeaveInCall(h)
    \/ Exit(h) \/ ExitInCall(h) \/ PublishZombie(h) \/ Abandon(h)
    \/ \E u \in Tasks : \/ MakeReady(h, u)
                        \/ \E k \in {"thread", "fork", "vfork"} : Clone(h, u, k)
                        \/ \E m \in Masks : SetAffinity(h, u, m)
    \/ AffLoad(h) \/ AffStore(h) \/ AffTest(h) \/ AffIpi(h)

\* What the scheduler does by itself.
LoopStep(h) ==
    \/ AddTask(h) \/ ReadMask(h) \/ Notify(h)
    \/ SwitchToIdle(h) \/ TakeCurrent(h) \/ MarkOffCpu(h) \/ ReadPrev(h) \/ Requeue(h)
    \/ \E u \in Tasks : FetchTask(h, u)
    \/ FetchNone(h) \/ CheckAffinity(h) \/ Place(h) \/ Start(h) \/ Claim(h)
    \/ PublishIdle(h) \/ Recheck(h) \/ IpiWake(h) \/ ClearIdle(h)

Next == \E h \in Harts : TaskStep(h) \/ LoopStep(h) \/ TimerTick(h)

Spec == Init /\ [][Next]_vars

\* Kernel code of a task between two places where it may linger.
KernelStep(h) ==
    \/ CommitBlocked(h) \/ SuspendInCall(h) \/ LeaveInCall(h)
    \/ ExitInCall(h) \/ PublishZombie(h) \/ Abandon(h)
    \/ AffLoad(h) \/ AffStore(h) \/ AffTest(h) \/ AffIpi(h)

\* What follows the wakeups of a hart's loop, or of an exiting task.
EndWakes(h) == TakeCurrent(h) \/ ExitInCall(h) \/ PublishZombie(h) \/ Abandon(h)

\* A hart never stops in the middle of kernel code.  The timer interrupts it in
\* user mode (the pending trap is taken at the next return to user mode, hence
\* SF) and in wfi.  The timer maintenance at the top of run_tasks, and an exit,
\* wake finitely many tasks (hence SF on what follows).  CFS charges a task for what
\* it runs, so fetch_task does not pass over the same eligible task forever
\* (CfsQueue, hence SF).
Fairness ==
    /\ \A h \in Harts :
          /\ WF_vars(LoopStep(h) \/ KernelStep(h))
          /\ WF_vars(TimerTick(h))
          /\ SF_vars(Preempt(h))
          /\ SF_vars(EndWakes(h))
    /\ \A u \in Tasks : SF_vars(\E h \in Harts : FetchTask(h, u))

FairSpec == Spec /\ Fairness

-----------------------------------------------------------------------------
\* Properties.

TaskTypeOK ==
    /\ status \in [Tasks -> Statuses]
    /\ cpu_affinity \in [Tasks -> (SUBSET Harts) \ {{}}]
    /\ scheduled_hart \in [Tasks -> Harts]
    /\ on_cpu \in [Tasks -> BOOLEAN]
    /\ on_rq \in [Tasks -> BOOLEAN]
    /\ entries \in [Tasks -> Nat]

HartTypeOK ==
    /\ pc \in [Harts -> TaskPCs \cup Calls \cup LoopPCs]
    /\ ret \in [Harts -> {"run", "suspend", "leaving", "exiting", "zombie", "aff_ipi", "loop"}]
    /\ current \in [Harts -> Tasks \cup {NoTask}]
    /\ stack \in [Harts -> Tasks \cup {NoTask}]
    /\ arg \in [Harts -> Tasks \cup {NoTask}]

LocalTypeOK ==
    /\ mask \in [Harts -> SUBSET Harts]
    /\ target \in [Harts -> 0 .. HartCount]
    /\ old_hart \in [Harts -> Harts]
    /\ hart_idle \in [Harts -> BOOLEAN]
    /\ ipi \in [Harts -> BOOLEAN]

BudgetTypeOK == budget \in [Harts -> 0 .. HartCount - 1]

\* The type invariant.
TypeOK == TaskTypeOK /\ HartTypeOK /\ LocalTypeOK /\ BudgetTypeOK

\* Hart h owns the live context of task t, or has reserved the task and will.
Holds(h, t) ==
    \/ current[h] = t
    \/ stack[h] = t
    \/ pc[h] \in Dispatching \cup {"finish"} /\ arg[h] = t

\* No two harts ever own or reserve the same task: nobody resumes a context
\* that another hart is still executing or saving (the prepare_task /
\* finish_task protocol of run_tasks, the reservation made by fetch_task).
OneHartPerTask ==
    \A t \in Tasks : \A h, g \in Harts : Holds(h, t) /\ Holds(g, t) => h = g

\* The heap and on_rq agree, a task has at most one item, and a queued task is
\* Ready and off every CPU; so fetch_task's "discard stale CFS entry" branch is
\* never taken.
QueueSound ==
    \A t \in Tasks :
        /\ entries[t] = IF on_rq[t] THEN 1 ELSE 0
        /\ on_rq[t] => status[t] = "Ready" /\ ~on_cpu[t]

\* Hart h is going to enqueue t: it has not yet finished switching t out, or it
\* woke t and is about to call add_task.
WillEnqueue(h, t) ==
    \/ current[h] = t
    \/ pc[h] \in {"finish", "finish2", "requeue", "add"} /\ arg[h] = t

\* Where hart h is, as seen through a call of add_task or of the notification.
At(h, L) == pc[h] \in L \/ (pc[h] \in Calls /\ ret[h] \in L)

\* Hart h is taking t through its exit: t never needs a queue again.
Exits(h, t) == stack[h] = t /\ At(h, {"exiting"})

\* A Ready task is queued, or some hart is still going to queue it: an add_task
\* that on_cpu or on_rq turned into a no-op never loses the wakeup.  The one Ready
\* task no hart will queue is a vfork parent that the signal has woken on its way
\* to suspend_current_and_run_next and that exits there.
NoLostReady ==
    \A t \in Tasks :
        status[t] = "Ready" =>
            entries[t] = 1 \/ \E h \in Harts : WillEnqueue(h, t) \/ Exits(h, t)

\* A task that is Running in its TCB is reserved or executed by some hart: no
\* error path of the dispatch leaves a reservation behind (the affinity re-check
\* of run_tasks).
RunningIsHeld ==
    \A t \in Tasks : status[t] = "Running" => \E h \in Harts : Holds(h, t)

\* Asleep in wfi with nothing pending to end it before the timer.
DeepIdle(h) == pc[h] = "wfi" /\ ~ipi[h]

\* The hart executes a task and is not about to queue or to notify anything.
Settled(h) == DeepIdle(h) \/ (pc[h] \in {"run", "blocking"} /\ ~ipi[h])

\* Once every hart has settled, no task is queued that a sleeping hart may run:
\* neither the idle publication, nor the wake budget, nor an enqueue without a
\* notification leaves work behind while a hart sleeps (processor.rs: the
\* order of HART_IDLE, the queue check and wfi).
WorkConserving ==
    (\A h \in Harts : Settled(h)) =>
        \A t \in Tasks, h \in Harts :
            entries[t] > 0 /\ can_run_on(t, h) => ~DeepIdle(h)

\* Every Ready task is eventually dispatched, or has exited, whatever wakes,
\* blocks, clones or exits meanwhile, and with more tasks than harts: the wakeup,
\* the idle publication and the requeue always bring it before fetch_task, where
\* the CFS order (the last fairness assumption) picks it.
ReadyEventuallyRuns ==
    \A t \in Tasks :
        status[t] = "Ready" ~>
            status[t] = "Zombie" \/ \E h \in Harts : pc[h] = "run" /\ stack[h] = t

-----------------------------------------------------------------------------
\* The inductive invariant behind the four safety properties.

\* Hart h executes on the kernel stack of a task.
InTask(h) == At(h, TaskPCs)

\* The slots of hart h agree with where it is.
SlotsAgree(h) ==
    /\ stack[h] \in Tasks <=> InTask(h)
    /\ At(h, {"exiting", "zombie"}) => current[h] = NoTask
    /\ InTask(h) /\ ~At(h, {"exiting", "zombie"}) => current[h] = stack[h]
    /\ pc[h] \in LoopPCs \ {"loop"} => current[h] = NoTask
    /\ pc[h] \in Calls \cup Dispatching \cup {"finish", "finish2", "requeue",
          "aff_load", "aff_store", "aff_test", "aff_ipi"} => arg[h] \in Tasks
    /\ At(h, {"run", "aff_load", "aff_store", "aff_test", "aff_ipi"})
          => status[stack[h]] = "Running"
    /\ At(h, {"zombie"}) => status[stack[h]] = "Zombie"
    /\ At(h, {"blocking", "switch"}) => status[stack[h]] # "Running"
    /\ At(h, {"loop"}) /\ current[h] \in Tasks => status[current[h]] # "Running"
    /\ pc[h] = "finish" => status[arg[h]] # "Running"

\* Hart h has claimed the task and not yet released it.
Executes(h, t) ==
    current[h] = t \/ stack[h] = t \/ (pc[h] = "finish" /\ arg[h] = t)

Reserves(h, t) == pc[h] \in Dispatching /\ arg[h] = t

\* An executed task is on_cpu; a reserved one is Running and not yet on_cpu.
OwnershipAgrees(h) ==
    \A t \in Tasks :
        /\ Executes(h, t) => on_cpu[t]
        /\ Reserves(h, t) => status[t] = "Running" /\ ~on_cpu[t]

\* Only an executed or an exited task is on_cpu.
OnCpuIsExecuted ==
    \A t \in Tasks :
        on_cpu[t] => \/ status[t] = "Zombie"
                     \/ status[t] # "Unborn" /\ \E h \in Harts : Executes(h, t)

\* What TLAPS proves inductive.
Inv ==
    /\ TaskTypeOK /\ HartTypeOK /\ LocalTypeOK
    /\ \A h \in Harts : SlotsAgree(h) /\ OwnershipAgrees(h)
    /\ OnCpuIsExecuted /\ OneHartPerTask /\ QueueSound
    /\ NoLostReady /\ RunningIsHeld

=============================================================================
