# Ya2yOS: a TLA+ model of the concurrent core of the kernel

Ya2yOS is an SMP kernel in Rust for RISC-V64 and LoongArch64. This directory
models the parts of it whose correctness depends on the order of steps of
several harts, threads, interrupts and signals; TLC checks the models on small
instances and TLAPS proves the main safety properties for every value of the
constants. `PROJECT.json` has the map from every definition to the source lines
it translates, the list of runs, findings, hazards and theorems.

Paths below are relative to `src/os/src`.

## The parts and how they interact

    user threads ──trap──► system calls
                            │
      ┌──────────┬──────────┼──────────────┬─────────────────┐
    futex      pipes     exit, wait    storage locks    address spaces
      │          │          │              │                 │
      └──── Blocked / Ready, signals ──────┘             TLB mailboxes
                     │                                       │
                 scheduler  ───── CFS run queue              │
                     └──────────── IPIs, harts ──────────────┘

Every blocking part follows one protocol. A thread publishes `Blocked` under its
TCB lock, looks again at the condition it waits for, and gives the hart back;
whoever makes the condition true finds the thread in a list, makes it `Ready`
and calls `add_task`. `Scheduler` models what happens from there on. The
waiting parts are modelled one by one, each with its own lists, locks and
wakers, and with the part of signal delivery that reaches its sleepers; for them
a `Ready` thread eventually continues, which is what `Scheduler` shows
(`ReadyEventuallyRuns`). `RemoteTlb` models the harts' translation caches, which
do not depend on what the threads do.

| Part | Source | Modules | Proofs |
|---|---|---|---|
| SMP scheduler | `task/processor.rs`, `task/mod.rs`, `task/scheduler/` | `Scheduler` | `SchedulerProofs` |
| CFS queue | `task/scheduler/cfs.rs` | `CfsQueue` | `CfsQueueProofs` |
| Futexes | `task/futex.rs`, `task/manager.rs`, `timer/timer_condvar.rs` | `Futex` | `FutexProofs` |
| TLB shootdown | `mm/remote_tlb.rs`, `mm/memory_set/handle.rs`, `sync/remote_tlb.rs` | `RemoteTlb` | `RemoteTlbProofs` |
| Exit, reparenting, wait | `task/mod.rs`, `task/process/process.rs`, `syscall/task/wait.rs` | `ProcessExit` | `ProcessExitProofs` |
| Pipes | `fs/files/pipe/` | `PipeBuffer`, `Pipe`; `ByteChannel` (abstract), `PipeChannel` (mapping) | `PipeProofs` |
| Storage locks | `fs/ext4_lw/mod.rs`, `drivers/disk.rs`, `task/future/mod.rs`, `utils/poll.rs` | `StorageLocks` | `StorageLocksInvariant`, `StorageLocksProofs` |

A module `MCx` gives the constants of module `x` their values; `MCx*.cfg` are
its TLC configurations. In every module one step is one critical section of a
lock, or one atomic access, so that what other harts may do between two of them
is not lost. Definitions marked "Mutant" state a plausible slip in the code (a
dropped guard, a swapped order); with it in place of the definition it is named
for, the property it is paired with fails, which shows that the property depends
on that piece of code.

## The models

### Scheduler

State: per task `status`, `cpu_affinity`, `scheduled_hart`, `on_cpu`, `on_rq`
and the number of heap items that name it (`entries`); per hart the place in
`run_tasks` or in kernel code (`pc`, `ret`), `Processor.current`, the task whose
kernel stack it is on (`stack`), the locals of the notification and affinity
code, `HART_IDLE` and a pending software interrupt.

Actions: the loop of `run_tasks` (`TakeCurrent`, `ReadPrev`, `MarkOffCpu`,
`Requeue`, `FetchTask`/`FetchNone`, `CheckAffinity`, `Claim`, `Start`), idling
(`SetIdle`, `PublishIdle`, `Recheck`, `ClearIdle`, the timer tick and the IPI in
`wfi`), `add_task` and the search for an idle hart to notify, the entry points of
`task/mod.rs` (suspend, preempt, block, stop, exit, the wakeup that finds a task
before it has gone to sleep), `clone`, `vfork`, and `sched_setaffinity`, split at
the load and the store of `scheduled_hart`. `suspend_current_and_run_next` begins
with `exit_current_if_group_exited_or_killed`: a vfork parent, or a caller of
`sched_setaffinity` that has to move, suspends (`SuspendInCall`) or exits there
(`LeaveInCall`, `ExitInCall`). The constant `Script` says what the program of each
task may do. `fetch_task` may take any eligible entry; the order is the subject of
`CfsQueue`.

### CfsQueue

`vruntime`, heap keys, `min_vruntime` and the task each hart runs, with the
weights of `NICE_WEIGHTS` (`account_runtime` divides, so rounding is in the
model). `passed` is a history variable: the tasks fetched since a queued task
was pushed. Each operation is one step under the lock of `READY_QUEUE`.

### Futex

User words, the queues of `FUTEX_QUEUE_BITMAP` with generations and bitsets, the
queue version that a waiter compares, the timeout heap, the fields of the TCB
that identify a wait, pending signals and the flag between seeing a task
`Blocked` and waking it. Actions follow `futex_wait_bitset` step by step
(`ReadWord`, `LoadVersion`, `ClearTimedout`, `Publish`, `AddTimer`, `Resume`,
`Clean`), and `DoWake`, `DoRequeue`, `Expire`/`HandleTimer`, `Signal`,
`SignalWake`, `HandleSignal`; `Sleep`/`EndSleep` is any other sleep of the same
thread, which stale futex wakeups may meet. A mix says who waits, who calls what,
on which words, and which signals there are.

### RemoteTlb

An address space has one page, its entry is a version number, and a hart's TLB
holds the version it has cached. `Retire`, `Mprotect`, `Vma` and the scheduler's
switch are the entry points of `MemorySet`. A page fault takes the locks like
`Retire` and then has three ways: it maps a missing page and republishes the hart
after both locks are released (`FinishFault`, `RepublishAfterFault`), it fails or
finds the page present (`FaultChangesNothing`), or it replaces a copy-on-write page
and republishes under the locks (`Finish`). `Shootdown`, `PrepareMailbox`,
`SetPending`, `SendIpi`, `WaitAck` the sender, `Poll`, `Flush`, `LoadSequence`,
`Acknowledge` the receiver. `LockUpdates` spins and polls as `RemoteTlbMutex`
does. `Fill` is the page-table walker (external). `FlushOnActivate` tells RISC-V
(always flush) from LoongArch (flush for a new root only).

### ProcessExit

The exit of a thread (`ExitZombie`, `ExitRetain`, `ExitSnapshot`, `ExitWake`,
`CheckSnapshot`, `CheckZombies`), the teardown by the one that finds all zombies
(`PublishUsage`, `ReleaseOwner`, `SetCode`, `TakeOrphans`, `FindReaper`,
`AdoptChild`, `LinkChild`, `Notify`, `ParentSnapshot`, `WakeParent`), group exit
(`GroupSnapshot` … `GroupKill`), `waitpid` on `block_on` (`WaitTop`, `WaitPoll`,
`WaitScan`, `WaitReap`, `WaitUnmap`, `WaitSignals`, `WaitBlock`, `WaitResume`) and
`CloneThread`. Exit codes are reduced to whether there is one; `released` counts
the releases of the owner counts.

### PipeBuffer, Pipe, ByteChannel, PipeChannel

`PipeBuffer` is the data structure: a sequence of segments, what `pop_bufs` and
`clone_bufs` take, what they leave (the rest of a cut segment goes back to the
front), with recursive functions only, so that it can be reasoned about. `Pipe`
has the counters, end counts, waiter lists and the calls: read, write,
nonblocking and kernel writes, `splice`, `tee`, file pages, `F_SETPIPE_SZ`, the
closing of ends, `SIGPIPE`, `SIGIO` and interruption. A byte is a number no other
byte has, so a lost, doubled or reordered byte is visible. `ByteChannel` is what
a pipe promises: a first-in first-out channel of bytes with limited room.
`PipeChannel` states that `Pipe` implements it.

### StorageLocks

The sleeping locks below a file operation: the inode's `TaskMutex` with its
`PollSet`, the lwext4 `TaskRwLock` (recursive, ticket queue, readers and writer),
the token of `DeviceSubmission` and the device behind it, `block_on` with its
waker, signals, SIGKILL and the clean-up (`cancel_tid`) of an exit that abandons
the kernel stack. A waker cloned in a critical section is woken in a later step.
A scenario is a script of nested sections per task, the number of kills and
signals, and the capacity of a `PollSet`. `wasted` is a history variable: a
`wake_one` of the free mutex met the entry of a task that no longer waits.

## The runs

Deadlock is checked except where a script of calls simply ends (`exit`,
`pipe`, `storage`).

**sched_pinned** (`MCSchedulerPinned.cfg`). Two harts, two tasks of which one is
cloned, every script allowed, affinity masks {0} and {1}. `QueueSound`: heap and `on_rq` agree, at most
one item per task, queued tasks are `Ready` and off every CPU, so the "discard
stale entry" branch of `fetch_task` is dead. `NoLostReady`: a `Ready` task is
queued, or a hart is bound to queue it, or it is on its way out of the system (a
vfork parent that the killing signal has woken). `RunningIsHeld`: the affinity check of
`run_tasks` leaves no reservation behind.

**sched_live** (`MCSchedulerLive.cfg`). Two harts, three tasks, no masks: one that
never sleeps, one that forks the third and exits, and the third, which blocks and
stops until it exits. So there are more runnable tasks than harts.
`OneHartPerTask`: no context is resumed while another hart executes or saves it.
`WorkConserving`: when all harts have settled no hart sleeps beside a task it may
run. `ReadyEventuallyRuns`: a `Ready` task is eventually dispatched.

**cfs_fair** (`MCCfsQueueFair.cfg`). Three tasks of weights 1024, 1277 and 526 on
two harts, task 1 pinned to hart 0. `BaseIsFloor`: `min_vruntime` never passes a
queued key. `BoundedOvertaking`: whoever is fetched while a task waits gets at
most one charged segment beyond it. `Inv` is the inductive invariant of the proof.

**futex** (`MCFutex.cfg`). Three mixes: a thread wakes and requeues two waiters
between two words; two threads wait with a timeout, wake each other and are
interrupted by signals; a thread alternates timed waits and other sleeps while
masked signals and wakeups reach it.
`WaiterIsQueued`: a thread blocked in FUTEX_WAIT is in the queue its TCB names.
`OneEntryPerWait`: one entry per generation in all queues together.
`TimeoutIsReal`: ETIMEDOUT only when the timer completed this very wait.
`TimedWaitEnds`: a wait with a timeout returns.

**futex_lost** (`MCFutexLost.cfg`, violation). See the findings.

**tlb** (`MCRemoteTlb.cfg`). Two harts that share a space, all operations, three
updates, RISC-V. `NoStaleUser`: user code never runs on a translation that a
completed update has replaced. `Inv` is the inductive invariant.
`UpdateCompletes`: two senders never wait for each other's interrupt.

**tlb_vma** (`MCRemoteTlbVma.cfg`, violation). See the findings.

**exit** (`MCProcessExit.cfg`). Seven trees and workloads: two waiters for one child;
two threads that exit alone or as a group; every `waitpid` option with a child and
a clone child; a process and its child exiting together below init, and below a
subreaper; `exit_group` while a sibling clones, and while a sibling waits for a
child. `NoPanic`: a zombie is removed from
the PID map once. `TornDownWhenDead`, `ExitIsFinished`: the teardown waits for all
threads, and it happens at least once. `LinkedToParent`: child lists and `parent_pid` agree.
`ExitNotMissed`: no waiter sleeps beside a child it could reap (one case is left
out, see "Known disagreements"). `GroupDies`: `exit_group` ends every thread, also
one that sleeps in `waitpid`, which the signal has to wake; exempt is a thread that
the signal met just before it slept (same place).

**exit_early** (`MCProcessExitEarly.cfg`), **exit_twice** (`MCProcessExitTwice.cfg`),
violations. See the findings.

**pipe** (`MCPipe.cfg`). Five scenarios: writer and reader with signals and cut
segments; two readers; two writers with a pipe that shrinks and grows and a reader
that leaves; `tee` and `splice` between two pipes; nonblocking and kernel writes
with SIGIO and SIGPIPE. `WithinCapacity` (the subtraction of `available_write`
never wraps), `BytesCounted` (count and segments agree), `NoMissedHangup`,
`NoLostWakeup` (for a thread that has its end to itself), `PipeIsChannel` (the
refinement of `ByteChannel`), `Terminates`. The assumption `BytesAreFlat` checks
the operator `Bytes` of the refinement mapping against `FlattenSeq`.

**storage** (`MCStorageLocks.cfg`). Readers, one recursive, around a writer with a
kill and a signal; nested writers with two kills; three tasks at one inode, with a
`PollSet` that overflows, and with room for all and a signal.
`SectionsExclude`, `HeldAsEntered` (no "released by non-owner"),
`GuardComesWithToken` (the token never lacks the device), `ExitClears` (a killed
task leaves nothing in a resource lock or in the device queue), `NoLostWaiter`
(who sleeps before something it could have is owed a wakeup), `FifoGrants`
(nobody passes one that queued before), `AllServed` (every operation ends, or its
task is killed, or it sleeps behind a wasted `wake_one` of an inode mutex; see
"Known disagreements").

### The bounds, and why they are enough

The named bounds are `MaxSlice` and `MaxVruntime` (`CfsQueue`), `MaxWaits`
(`Futex`), `MaxUpdates` (`RemoteTlb`), and the scripts of the scenarios. The
protocols are between pairs: a waiter and a waker, a sender and a receiver, two
threads that exit. Two harts or threads with a third party give every pairwise
interleaving; three threads are used where a third one can slip in between
(requeue, tickets, two readers). Two waits let a stale wakeup of the first meet
the second, three updates let an early acknowledgement meet the next update, and
`PollSetCapacity` 1 (64 in the code) makes the poll set overflow while 2 has room
for every waiter. Three tasks on two harts make one of them wait while both harts
are busy. `SmallLength` 1
(10 in the code) makes short transfers take both paths. Where a theorem states
the property no bound on threads, pipes, harts or scripts remains.

### Fairness

- `Scheduler`: a hart does not stop inside kernel code (weak). The timer
  interrupts `wfi` (weak) and user mode; a trap that is pending is taken at the
  next return to user mode, so `Preempt` is strongly fair. The timer maintenance
  at the top of `run_tasks`, and an exit, wake finitely many tasks before they go
  on (strong on `EndWakes`). CFS charges what runs, so `fetch_task` does not pass over the same
  eligible task forever (strong per task; `BoundedOvertaking` is the reason).
- `Futex`: calls in progress go on and the periodic maintenance runs (weak).
- `RemoteTlb`: a hart goes on in the kernel and takes a pending interrupt (weak).
- `ProcessExit`, `Pipe`, `StorageLocks`: a thread that is `Ready` or running goes
  on (weak), which is what the scheduler provides. Signals and kills may never
  come; only the second half of a delivery that has begun is fair.

## What is proved

The theorems hold for every value of the constants that satisfies the
`ASSUME` of the module: any finite number of tasks and harts, any process tree and
workload, any futex words and mixes of calls, any pipes and scripts of calls, any
scripts of lock sections. TLC
evaluates the assumptions on the instances. Unless a theorem says so, nothing else
is assumed. Each proof has an inductive invariant, one lemma per action or per
group of actions that touch the same state, and a last temporal step.

**Scheduler** (`SchedulerProofs`): `Invariance`, `ExclusiveOwnership`
(OneHartPerTask), `QueueIntegrity` (QueueSound), `NoWakeupLost` (NoLostReady),
`RunningHeld` (RunningIsHeld), `TypeCorrect`. None of the four safety properties is
inductive alone: that a queued task is off every CPU needs to know who set
`on_cpu`. `Scheduler!Inv` adds that the slots of a hart agree with its place
(`SlotsAgree`), that an executed task is `on_cpu` and a reserved one is not
(`OwnershipAgrees`), and that only executed or exited tasks are `on_cpu`. A step
of hart h is reduced to obligations on what it may do to other harts' tasks
(`LocalStep`). Assumption: `Tasks` finite, masks not empty.

`WorkIsConserved` (WorkConserving) is proved for any number of harts and tasks
under `Unpinned`: no mask excludes a hart. With masks the property is false
(below). No per-hart invariant gives it, because a wakeup reaches an idle hart and
not a particular task. The invariant counts (`Supply`): while some hart sleeps,
there are at least as many harts on their way to the queue (`Seekers`) as tasks in
it, or a hart is inside `add_task` and its wake budget covers the difference
(`Covers`). `Covers` says what `notify_harts_of_runnable_task` has passed and what
it may still interrupt; the budget is taken under the queue lock, so it is the
number of tasks that were queued then, or of all other harts if they are fewer.
`fetch_task` takes one of each, and the second look before `wfi` lets a hart stop
seeking only when the queue holds nothing for it.

**CFS** (`CfsQueueProofs`): `CfsInvariance`, `BaseFloor`, `Overtaking`. `Inv` adds
that a running task was not later than those it left in the queue, so one charge
is all it can get ahead. The arithmetic of `account_runtime` enters only through
the monotonicity of the charge.

**Futexes** (`FutexProofs`): `FutexInvariance`, `FutexTypes`, `WaitersQueued`
(WaiterIsQueued), `EntriesUnique` (OneEntryPerWait), `TimeoutsReal`
(TimeoutIsReal). The runs keep requeues and timeouts apart; the theorems hold for
every mix of the calls, for any masks and any number of waits. The argument is
about generations. A generation belongs to one thread (`Owned`): to the one whose
call drew it, whose TCB records it or whose entry is in a queue. It is open while
it is in a queue or on its way there (`Open`), so what the timer or a wakeup
completes has not been completed before, and the flag of a waiting thread is that
of its wait (`Timely`). A thread blocked in its wait records the generation it has
drawn, and its entry is where its TCB says (`Queued`); the entry is then `Live`, so
a scan that removes it also completes the wait. A wait that ends because of a
masked signal leaves its entry and its generation behind, and a wakeup may find
them during another sleep of the thread; the invariant allows that. The scans
select, rotate, split and join queues: `ChosenEntries`, `SuffixEntries` and
`JoinedEntries` say what is in the result, from the fact that every rank up to the
number of positions is taken (`NthRank`, a counting argument over
`FiniteSetTheorems`). When `panicked` is set the program has stopped, and the
invariant still holds. Assumption: `Tasks` finite.

**TLB** (`RemoteTlbProofs`): `TlbInvariance`, `NoStaleTranslation`, both under
`VmaFlushes`: with `with_vma_mut` or page faults in use, `PageTable::activate`
flushes (RISC-V).
The finding `tlb_vma` shows that the assumption is needed. The heart of `Inv` is
`StaleIsCovered`: a stale translation of a hart in the mask has a sender that has
not yet reached it, or a pending mailbox with an interrupt on the way, or its hart
is in the kernel and flushes before it returns.

**Exit** (`ProcessExitProofs`): `OneHand`, `ReapedOnlyOnce` (NoPanic),
`LifeInvariance`, `ExitTypes`, `TeardownIsLate` (TornDownWhenDead),
`TeardownHappens` (ExitIsFinished), `ListsAgree` (LinkedToParent). `ReapInv` says a
process is in one hand: in one child list, or with one thread that moves it to a
reaper, or with one waiter that won it. `Path` says who is listed and which
siblings the snapshot of the last check contains: all that can still run, so the
thread that finds only zombies is right, and the last one to become a zombie finds
only zombies. `LinkInv` says `parent_pid` is set before the child is linked.

`NoExitMissed` (ExitNotMissed) is proved under `OneWaiter`: at most one thread of a
process calls `waitpid`, and it was not cloned meanwhile. `child_exit_event` has
one waker slot, so with two waiters the property depends on the workload, and a
cloned thread may outlive its process (`task/mod.rs:535`). `WaitInv` says that a
child which the waiter's scan overlooked has somebody who will still wake the
waiter (`ToldOf`, `Rings`): the thread that ends the child, or the one that moves
it. For the second case the tree must be followed: the first children of a process
that can run stay with it (`FirstChildren`), and an orphan of such a child goes to
it at once or never (`FirstOrphans`), because `find_child_reaper` passes a process
by only for reasons that last (subreapers are fixed per workload). From the poll on the waiter is registered until
somebody wakes it (`Registered`), so the wakeup finds it.

**Pipes** (`PipeProofs`): `PipeInvariance`, `PipeTypes`,
`CapacityRespected`, `HangupsSeen`, `WakeupsKept`, `CountIsRight` (BytesCounted)
and the refinement `PipesAreChannels` (`Spec => PipeIsChannel`). The invariant adds
that a thread in a call is at a call that uses the end it waits at, and that only
those who use an end are listed there; each action owes the sleepers of the two
ends that those it leaves blocked stay listed, keep their other end and get nothing
they alone wait for (`KeptIn`, `KeptOut`). The refinement maps `content` to the
concatenation of the segments, `room` to `capacity`, `readers` to
`read_end_count` and `sent` to the number of bytes made. It rests on `CutBytes`:
what `pop_bufs` takes, followed by what it leaves, is what was there. That is a
fact about every sequence of segments; it is proved with the least counterexample
(`WellFoundedInduction`) and not with the library's induction theorems.

**Storage** (`StorageLocksInvariant`, `StorageLocksProofs`): `StorageInvariance`,
`StorageTypes`, `WriterAlone`, `TokenBringsDevice` (GuardComesWithToken),
`DeadLeavesNothing` (ExitClears), `NoWaiterIsLost` (NoLostWaiter), `GrantsAreFifo`
(FifoGrants), `CountsAreSections` (HeldAsEntered), `SectionsAreExclusive`
(SectionsExclude). `Inv` says that the ticket of a future stands for its entry in
the queue and every entry for a task that waits or has not got to it in its exit;
where token and device are; that a writer excludes; what an exiting task has given
up; and `Owed`: a task that goes to sleep, or sleeps, before something it could
have is owed a wakeup. The step that matters is that such a task is the front of
its queue, so that whatever frees the resource wakes it: release, cancellation of
the one before it, and the recursive section that ends. `HeldAsEntered` counts the
steps of the script behind a task with `Cardinality`; it is inductive over `Inv`,
also for scripts that do not nest, because an unlock without a count is the
panic that stops the program (the action is not enabled).

In the larger proof modules a leaf that names no prover is for Zenon (`USE
Zenon`); leaves with arithmetic, functions or records cite `SMT`.

## What is only model-checked

- Liveness (`ReadyEventuallyRuns`, `TimedWaitEnds`, `UpdateCompletes`,
  `GroupDies`, `Terminates`, `AllServed`): fairness and `ENABLED` are out of
  the prover's reach.
- `ExitNotMissed` with two waiters in one process (the first workload of `exit`):
  it holds when both wait for the same child and not for every choice of children
  (one waker slot; below).
- `BytesAreFlat`, which compares `Bytes` with the library's `FlattenSeq` on bounded
  inputs: a fact about a recursive definition for every input.

## Findings

Each has a run in which TLC finds the behaviour.

- `futex_lost`: `futex_wait_bitset` reads the user word (`task/futex.rs:210`)
  before it loads the queue version (line 214). A store and a complete FUTEX_WAKE
  between the two leave the waiter asleep on the old value; the comment at lines
  84-85 says that the version prevents it.
- `tlb_vma`: `with_vma_mut` (`mm/memory_set/handle.rs:855`) restores the active
  bit it read before it waited for the lock. On LoongArch, where `activate` does
  not flush for an unchanged root, the hart returns to user mode with a retired
  translation; lines 790-793 say that a hart that was absent flushes first.
- `exit_early`: `all_tasks_exited` (`task/process/process.rs:371`) relies on the
  exit code being published last, but `exit_group` publishes it first, so a waiter
  may reap a process that is not torn down; lines 368-370 say that it must not.
- `exit_twice`: a thread leaves the task list (`task/mod.rs:535` takes the snapshot
  later) before it decides whether it is the last one. Two threads that have both
  left it, or are both zombies, both find everybody dead and both release the
  owner counts (lines 597-598), which lines 593-594 say happens exactly once.

### Known disagreements without a run

The models contain these behaviours; the properties are stated so that they hold
in spite of them.

- `task/scheduler/cfs.rs:242` says that the search goes on behind a head that this
  hart may not run; line 278 pushes the head back and pops it again.
- `syscall/task/schedule.rs:126`: the idle harts of a new mask are notified before
  the caller is queued, so with masks a hart may sleep beside work until its timer
  (`WorkConserving` is checked without masks). `task/processor.rs:323`: a placement
  that a concurrent `sched_setaffinity` forbids can be stored.
- `task/futex.rs:343`: with two bitsets the FIFO order of lines 307-308 is not kept.
  `task/futex.rs:712`: a requeue, a signal and a timed wait together reach the
  `expect()`. `task/manager.rs:21`: a stale queue entry can end another sleep.
- `mm/remote_tlb.rs:83`: an acknowledgement may come before the flush it stands
  for (lines 5-6 say otherwise); it is harmless because the flag stays pending.
- `task/mod.rs:535`: a thread cloned during the last check is not seen by it.
- `task/process/process.rs:82-86`: an orphan that exits between the zombie test and
  the link wakes an adopter that does not list it yet. `syscall/task/wait.rs:191`:
  with one waker slot, two waiters for different children may miss an exit.
  `task/future/mod.rs:66`: a kill between the signal check of `waitpid` and the
  sleep wakes nobody, and the thread sleeps until a child wakes it. `GroupDies`
  exempts a thread that is asleep with the kill pending, and demands that a kill
  wakes a thread that is asleep already.
- `fs/files/pipe/ring_buffer.rs:229`: with two readers, a write of two bytes may
  leave one of them asleep beside a byte until the next write or close.
- `fs/ext4_lw/mod.rs:99`: the `TaskMutex` of a killed task stays locked, although
  `task/mod.rs:391-392` says that the exit clears every task-owned lock. The
  scenarios with the inode mutex therefore have no kills.
- `fs/ext4_lw/mod.rs:76`: when the first try of a later poll succeeds, the entry
  that an earlier poll registered stays in the `PollSet`. That needs no signal: a
  wakeup from `Blocked` leaves `woke` set (`task/future/mod.rs:88-97`), so the next
  `block_current_if_not_woken` returns at once and the future is polled again. A
  later `wake_one` spends itself on the entry, and the waiter behind it sleeps in
  front of a free mutex until the next operation on the inode, although the comment
  at lines 80-81 promises that no wakeup is lost. `AllServed` exempts a sleeper at a
  free mutex one of whose wakeups was wasted so (`Overlooked`), and no other.

## What is not modelled

`PROJECT.json` lists every part with the reason. In short: the round-robin queue
(not in the default build); `clone` and `execve` beyond their effect on scheduling
and on the family of processes; signal frames and masks; interval timers; the
frame allocator, page tables and areas (their locking and shootdown is in
`RemoteTlb`); VFS, page cache and ext4 (their sleeping locks are in
`StorageLocks`); epoll, event files and file locks; the network stack; drivers
and register-level code of the two architectures. They are sequential data
structures under one lock, input and output, or third-party code. The models
cover a small share of the kernel's lines, and most of the concurrent protocols
of its core.

Within the modelled parts the left-out pieces are: stopped and continued children
(`WUNTRACED`), the private and shared key computation of futexes, the
registration of pollers at pipes and the opening of FIFOs, the spinning fallback
of the storage locks before the first task exists, and all counters kept for
statistics.

## Running

In this directory:

    tlc -workers 2 -config MCPipe.cfg MCPipe      # any run of PROJECT.json
    tlapm PipeProofs.tla                          # any proof module

The longest runs are `sched_pinned` (3,225,000 states), `sched_live` (61,000 states,
with liveness), `storage` (483,000) and `pipe` (162,000), two minutes each; the longest proofs are `PipeProofs`, `StorageLocksInvariant`,
`SchedulerProofs` and `ProcessExitProofs`, four to nine minutes each.
