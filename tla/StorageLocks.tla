---------------------------- MODULE StorageLocks ----------------------------
(***************************************************************************)
(* The sleeping locks under a file operation, in the order in which it     *)
(* takes them: the inode mutexes and the lwext4 resource locks             *)
(* (fs/ext4_lw/mod.rs: TaskMutex, TaskRwLock), the submission queue of the *)
(* block device (drivers/disk.rs: DeviceSubmission); block_on and its      *)
(* waker, on which they all sleep (task/future/mod.rs); and what a signal, *)
(* a SIGKILL and the exit that abandons the kernel stack do to them.       *)
(*                                                                         *)
(* One step is one critical section of a spin lock.  A waker cloned in it  *)
(* is woken after it, in a step of its own.  A scenario gives each task    *)
(* the sections it goes through, properly nested, as lwext4 and the VFS    *)
(* call them.                                                              *)
(***************************************************************************)
EXTENDS Integers, Sequences, FiniteSets

CONSTANTS Tasks,
          Resources,        \* C addresses of struct ext4_fs_rwlock
          Inodes,           \* inodes, each with a TaskMutex
          None,             \* no task
          Scenarios         \* records [script, kills, signals, capacity]

Modes == {"Read", "Write"}
Steps == [op : {"lock", "unlock"}, on : Resources, mode : Modes]
             \cup [op : {"enter", "leave"}, on : Inodes]
             \cup [op : {"request"}]

ASSUME StorageAssumption ==
    /\ None \notin Tasks
    /\ \A s \in Scenarios :
          /\ s.script \in [Tasks -> Seq(Steps)] /\ s.kills \in Nat /\ s.signals \in Nat
          /\ s.capacity \in Nat \ {0}

VARIABLES
    scene,                                  \* the scenario of this behaviour
    readers, writer, writer_depth,          \* TaskRwLockState, by resource
    waiters, next_ticket,
    owner, dev,                             \* DeviceSubmissionState, and who has the device
    dev_waiters, dev_next_ticket,
    mutex, mutex_waiters,                   \* TaskMutex: its holder and its PollSet
    ticket,       \* the ticket of a task's future, 0 when it has none
    call, woke,   \* which block_on a task is in, and the flag of its waker
    status,       \* "Ready" (or running) or "Blocked"
    wakes,        \* the wakers that a task still has to wake
    killed,       \* SIGKILL is pending
    sig_wake,     \* a sender has seen the task Blocked
    kills, alarms,\* SIGKILLs and other signals still to come
    pc, at,       \* where a task is, and in which step of its script
    left,         \* the resources that an exiting task has not cleared yet
    wasted        \* history: a wake_one of a free mutex met an entry left behind

resource == <<readers, writer, writer_depth, waiters, next_ticket>>
device == <<owner, dev, dev_waiters, dev_next_ticket>>
inode == <<mutex, mutex_waiters, wasted>>
future == <<ticket, call, woke>>
signals == <<killed, sig_wake, kills, alarms>>
vars == <<scene, resource, device, inode, future, status, wakes, signals, pc, at, left>>

Script(t) == scene.script[t]
Now(t) == Script(t)[at[t]]

\* POLL_SET_CAPACITY, 64 in the code.
PollSetCapacity == scene.capacity

Goto(t, l) == pc' = [pc EXCEPT ![t] = l]

\* A task wakes what it owes before it goes on.
At(t, l) == pc[t] = l /\ wakes[t] = {}
Doing(t, l, op) == At(t, l) /\ at[t] <= Len(Script(t)) /\ Now(t).op = op

Advance(t) ==
    /\ Goto(t, "run")
    /\ at' = [at EXCEPT ![t] = @ + 1]

-----------------------------------------------------------------------------
\* block_on and MyWaker.

BlockOn(t) ==
    /\ call' = [call EXCEPT ![t] = @ + 1]
    /\ woke' = [woke EXCEPT ![t] = FALSE]
    /\ Goto(t, "loop")

\* The waker of the block_on a task is in.
Waker(t) == [tid |-> t, call |-> call[t]]

\* The head of the loop: a killed task leaves for good, its stack abandoned.
LoopHead(t) ==
    /\ At(t, "loop")
    /\ IF killed[t]
       THEN Goto(t, "exit") /\ left' = [left EXCEPT ![t] = Resources]
       ELSE Goto(t, "poll") /\ UNCHANGED left
    /\ UNCHANGED <<scene, resource, device, inode, future, status, wakes, signals, at>>

\* Mutant: the task blocks although its waker has been woken.
BlockAnyway(t) ==
    /\ At(t, "pending")
    /\ woke' = [woke EXCEPT ![t] = FALSE]
    /\ status' = [status EXCEPT ![t] = "Blocked"]
    /\ Goto(t, "asleep")
    /\ UNCHANGED <<scene, resource, device, inode, ticket, call, wakes, signals, at, left>>

\* block_current_if_not_woken.
BlockIfNotWoken(t) ==
    /\ At(t, "pending")
    /\ \/ /\ woke[t]
          /\ woke' = [woke EXCEPT ![t] = FALSE]
          /\ Goto(t, "loop")
          /\ UNCHANGED status
       \/ /\ ~woke[t]
          /\ status' = [status EXCEPT ![t] = "Blocked"]
          /\ Goto(t, "asleep")
          /\ UNCHANGED woke
    /\ UNCHANGED <<scene, resource, device, inode, ticket, call, wakes, signals, at, left>>

Resume(t) ==
    /\ At(t, "asleep") /\ status[t] = "Ready"
    /\ Goto(t, "loop")
    /\ UNCHANGED <<scene, resource, device, inode, future, status, wakes, signals, at, left>>

\* wake_by_ref: the waker may belong to a block_on that is over.
Wake(t) ==
    \E w \in wakes[t] :
        /\ wakes' = [wakes EXCEPT ![t] = @ \ {w}]
        /\ woke' = [woke EXCEPT ![w.tid] = @ \/ w.call = call[w.tid]]
        /\ status' = [status EXCEPT ![w.tid] = "Ready"]
        /\ UNCHANGED <<scene, resource, device, inode, ticket, call, signals, pc, at, left>>

-----------------------------------------------------------------------------
\* TaskRwLock.  A queue is a set of waiters ordered by their tickets, which
\* next_ticket hands out in the order of push_back.

\* The front of a queue: nobody, or the one waiter with the smallest ticket.
Front(q) == {w \in q : \A v \in q : w.ticket <= v.ticket}

\* Mutant: a newcomer that may share the lock does not look at the queue.
ReadersPass(t, l, mode, k) ==
    IF writer[l] # None THEN k = 0 /\ writer[l] = t
    ELSE \/ k = 0 /\ mode = "Read"
         \/ /\ IF k = 0 THEN waiters[l] = {}
               ELSE \E w \in Front(waiters[l]) : w.ticket = k /\ w.mode = mode
            /\ mode = "Write" => \A u \in Tasks : readers[l][u] = 0

\* Mutant: a writer does not wait for the readers.
WritersPass(t, l, mode, k) ==
    IF writer[l] # None THEN k = 0 /\ writer[l] = t
    ELSE \/ k = 0 /\ mode = "Read" /\ readers[l][t] # 0
         \/ IF k = 0 THEN waiters[l] = {}
            ELSE \E w \in Front(waiters[l]) : w.ticket = k /\ w.mode = mode

\* can_acquire, with ticket k or with none (0).
CanAcquire(t, l, mode, k) ==
    IF writer[l] # None THEN k = 0 /\ writer[l] = t
    ELSE \/ k = 0 /\ mode = "Read" /\ readers[l][t] # 0
         \/ /\ IF k = 0 THEN waiters[l] = {}
               ELSE \E w \in Front(waiters[l]) : w.ticket = k /\ w.mode = mode
            /\ mode = "Write" => \A u \in Tasks : readers[l][u] = 0

\* wake_waiters: the readers up to the first writer, and that writer when there
\* are no readers.
WakeWaiters(q, w, r) ==
    IF w # None THEN {}
    ELSE {[tid |-> v.tid, call |-> v.call] :
             v \in {u \in q : /\ \A x \in q : x.ticket < u.ticket => x.mode = "Read"
                              /\ u.mode = "Write" => \A x \in Tasks : r[x] = 0}}

\* acquire, after the queue has become q, and the wakeups that follow.
Acquire(t, l, mode, q) ==
    /\ waiters' = [waiters EXCEPT ![l] = q]
    /\ \/ /\ mode = "Read"
          /\ readers' = [readers EXCEPT ![l][t] = @ + 1]
          /\ UNCHANGED <<writer, writer_depth>>
       \/ /\ mode = "Write"
          /\ writer' = [writer EXCEPT ![l] = t]
          /\ writer_depth' = [writer_depth EXCEPT ![l] = IF writer[l] = t THEN @ + 1 ELSE 1]
          /\ UNCHANGED readers
    /\ wakes' = [wakes EXCEPT ![t] = WakeWaiters(q, writer'[l], readers'[l])]
    /\ UNCHANGED next_ticket

\* lock: try_lock without a ticket, then the future.
Lock(t) ==
    /\ Doing(t, "run", "lock")
    /\ LET l == Now(t).on
           mode == Now(t).mode
       IN \/ /\ CanAcquire(t, l, mode, 0)
             /\ Acquire(t, l, mode, waiters[l])
             /\ Advance(t)
             /\ UNCHANGED future
          \/ /\ ~CanAcquire(t, l, mode, 0)
             /\ BlockOn(t)
             /\ UNCHANGED <<resource, wakes, ticket, at>>
    /\ UNCHANGED <<scene, device, inode, status, signals, left>>

\* TaskRwLockFuture::poll.
PollLock(t) ==
    /\ Doing(t, "poll", "lock")
    /\ LET l == Now(t).on
           mode == Now(t).mode
           k == ticket[t]
       IN \/ /\ CanAcquire(t, l, mode, k)
             /\ Acquire(t, l, mode, IF k = 0 THEN waiters[l] ELSE waiters[l] \ Front(waiters[l]))
             /\ ticket' = [ticket EXCEPT ![t] = 0]
             /\ Advance(t)
          \/ /\ ~CanAcquire(t, l, mode, k) /\ k # 0
             /\ Goto(t, "pending")
             /\ UNCHANGED <<resource, wakes, ticket, at>>
          \/ /\ ~CanAcquire(t, l, mode, k) /\ k = 0
             /\ waiters' = [waiters EXCEPT ![l] = @ \cup
                   {[ticket |-> next_ticket[l], tid |-> t, mode |-> mode, call |-> call[t]]}]
             /\ next_ticket' = [next_ticket EXCEPT ![l] = @ + 1]
             /\ ticket' = [ticket EXCEPT ![t] = next_ticket[l]]
             /\ Goto(t, "pending")
             /\ UNCHANGED <<readers, writer, writer_depth, wakes, at>>
    /\ UNCHANGED <<scene, device, inode, call, woke, status, signals, left>>

\* Mutant: the lock is given up with the first of nested sections.
ReleaseOutright(t, l, mode) ==
    \/ /\ mode = "Read"
       /\ readers' = [readers EXCEPT ![l][t] = 0]
       /\ UNCHANGED <<writer, writer_depth>>
    \/ /\ mode = "Write"
       /\ writer' = [writer EXCEPT ![l] = None]
       /\ writer_depth' = [writer_depth EXCEPT ![l] = 0]
       /\ UNCHANGED readers

\* Mutant: a read section is counted off twice.
ReleaseTwice(t, l, mode) ==
    \/ /\ mode = "Read"
       /\ readers' = [readers EXCEPT ![l][t] = @ - 2]
       /\ UNCHANGED <<writer, writer_depth>>
    \/ /\ mode = "Write"
       /\ writer' = [writer EXCEPT ![l] = None]
       /\ writer_depth' = [writer_depth EXCEPT ![l] = @ - 1]
       /\ UNCHANGED readers

\* The count that unlock takes off; it panics for one who does not hold the lock.
ReleaseOnce(t, l, mode) ==
    \/ /\ mode = "Read" /\ readers[l][t] > 0
       /\ readers' = [readers EXCEPT ![l][t] = @ - 1]
       /\ UNCHANGED <<writer, writer_depth>>
    \/ /\ mode = "Write" /\ writer[l] = t
       /\ writer_depth' = [writer_depth EXCEPT ![l] = @ - 1]
       /\ writer' = [writer EXCEPT ![l] = IF writer_depth[l] = 1 THEN None ELSE @]
       /\ UNCHANGED readers

Unlock(t) ==
    /\ Doing(t, "run", "unlock")
    /\ LET l == Now(t).on
       IN /\ ReleaseOnce(t, l, Now(t).mode)
          /\ wakes' = [wakes EXCEPT ![t] = WakeWaiters(waiters[l], writer'[l], readers'[l])]
    /\ Advance(t)
    /\ UNCHANGED <<scene, waiters, next_ticket, device, inode, future, status, signals, left>>

-----------------------------------------------------------------------------
\* DeviceSubmission: one request at a time, first come first served.

\* can_acquire.
DevCanAcquire(k) ==
    /\ owner = None
    /\ IF k = 0 THEN dev_waiters = {} ELSE \E w \in Front(dev_waiters) : w.ticket = k

\* wake_front.
WakeFront(q, o) ==
    IF o # None THEN {} ELSE {[tid |-> w.tid, call |-> w.call] : w \in Front(q)}

\* read_at, write_at: lock.
Submit(t) ==
    /\ Doing(t, "run", "request")
    /\ \/ /\ DevCanAcquire(0)
          /\ owner' = t
          /\ Goto(t, "guard")
          /\ UNCHANGED future
       \/ /\ ~DevCanAcquire(0)
          /\ BlockOn(t)
          /\ UNCHANGED <<owner, ticket>>
    /\ UNCHANGED <<scene, resource, dev, dev_waiters, dev_next_ticket, inode, status, wakes,
                   signals, at, left>>

\* DeviceSubmissionFuture::poll.
PollSubmission(t) ==
    /\ Doing(t, "poll", "request")
    /\ LET k == ticket[t]
       IN \/ /\ DevCanAcquire(k)
             /\ dev_waiters' = IF k = 0 THEN dev_waiters ELSE dev_waiters \ Front(dev_waiters)
             /\ ticket' = [ticket EXCEPT ![t] = 0]
             /\ owner' = t
             /\ Goto(t, "guard")
             /\ UNCHANGED dev_next_ticket
          \/ /\ ~DevCanAcquire(k) /\ k # 0
             /\ Goto(t, "pending")
             /\ UNCHANGED <<owner, dev_waiters, dev_next_ticket, ticket>>
          \/ /\ ~DevCanAcquire(k) /\ k = 0
             /\ dev_waiters' = dev_waiters \cup
                   {[ticket |-> dev_next_ticket, tid |-> t, call |-> call[t]]}
             /\ dev_next_ticket' = dev_next_ticket + 1
             /\ ticket' = [ticket EXCEPT ![t] = dev_next_ticket]
             /\ Goto(t, "pending")
             /\ UNCHANGED owner
    /\ UNCHANGED <<scene, resource, dev, inode, call, woke, status, wakes, signals, at, left>>

\* guard: takes the device without waiting; it panics when the device is taken.
Guard(t) ==
    /\ At(t, "guard") /\ dev = None
    /\ dev' = t
    /\ Goto(t, "device")
    /\ UNCHANGED <<scene, resource, owner, dev_waiters, dev_next_ticket, inode, future, status,
                   wakes, signals, at, left>>

\* Mutant: the token goes back before the device.
TokenFirst(t) ==
    /\ At(t, "device") /\ owner = t
    /\ owner' = None
    /\ wakes' = [wakes EXCEPT ![t] = WakeFront(dev_waiters, None)]
    /\ Goto(t, "release")
    /\ UNCHANGED <<scene, resource, dev, dev_waiters, dev_next_ticket, inode, future, status,
                   signals, at, left>>

\* The request is done, and the guard gives the device back.
DropDevice(t) ==
    /\ At(t, "device")
    /\ dev' = None
    /\ Goto(t, "release")
    /\ UNCHANGED <<scene, resource, owner, dev_waiters, dev_next_ticket, inode, future, status,
                   wakes, signals, at, left>>

\* release; it panics for one who is not the owner.
Release(t) ==
    /\ At(t, "release") /\ owner = t
    /\ owner' = None
    /\ wakes' = [wakes EXCEPT ![t] = WakeFront(dev_waiters, None)]
    /\ Advance(t)
    /\ UNCHANGED <<scene, resource, dev, dev_waiters, dev_next_ticket, inode, future, status,
                   signals, left>>

-----------------------------------------------------------------------------
\* TaskMutex and the PollSet of its waiters.

Enter(t) ==
    /\ Doing(t, "run", "enter")
    /\ \/ /\ mutex[Now(t).on] = None
          /\ mutex' = [mutex EXCEPT ![Now(t).on] = t]
          /\ Advance(t)
          /\ UNCHANGED future
       \/ /\ mutex[Now(t).on] # None
          /\ BlockOn(t)
          /\ UNCHANGED <<mutex, ticket, at>>
    /\ UNCHANGED <<scene, resource, device, mutex_waiters, wasted, status, wakes, signals, left>>

\* The first try of the future.
PollMutex(t) ==
    /\ Doing(t, "poll", "enter")
    /\ \/ /\ mutex[Now(t).on] = None
          /\ mutex' = [mutex EXCEPT ![Now(t).on] = t]
          /\ Advance(t)
       \/ /\ mutex[Now(t).on] # None
          /\ Goto(t, "register")
          /\ UNCHANGED <<mutex, at>>
    /\ UNCHANGED <<scene, resource, device, mutex_waiters, wasted, future, status, wakes,
                   signals, left>>

\* PollSet::register: once, and a full set displaces its oldest entry.
Register(t) ==
    /\ At(t, "register")
    /\ LET q == mutex_waiters[Now(t).on]
           full == Len(q) = PollSetCapacity
       IN \/ /\ \E i \in DOMAIN q : q[i] = Waker(t)
             /\ UNCHANGED <<mutex_waiters, wakes>>
          \/ /\ \A i \in DOMAIN q : q[i] # Waker(t)
             /\ mutex_waiters' = [mutex_waiters EXCEPT ![Now(t).on] =
                                     Append(IF full THEN Tail(q) ELSE q, Waker(t))]
             /\ wakes' = [wakes EXCEPT ![t] = IF full THEN {Head(q)} ELSE {}]
    /\ Goto(t, "retry")
    /\ UNCHANGED <<scene, resource, device, mutex, wasted, future, status, signals, at, left>>

\* Mutant: the task does not look again once it is registered.
NoRetry(t) ==
    /\ At(t, "retry")
    /\ Goto(t, "pending")
    /\ UNCHANGED <<scene, resource, device, inode, future, status, wakes, signals, at, left>>

\* The second try.
Retry(t) ==
    /\ At(t, "retry")
    /\ \/ /\ mutex[Now(t).on] = None
          /\ mutex' = [mutex EXCEPT ![Now(t).on] = t]
          /\ Goto(t, "unregister")
       \/ /\ mutex[Now(t).on] # None
          /\ Goto(t, "pending")
          /\ UNCHANGED mutex
    /\ UNCHANGED <<scene, resource, device, mutex_waiters, wasted, future, status, wakes,
                   signals, at, left>>

\* Unregister, which finds at most the one entry that register made.
Unregister(t) ==
    /\ At(t, "unregister")
    /\ LET q == mutex_waiters[Now(t).on]
       IN \/ /\ \A i \in DOMAIN q : q[i] # Waker(t)
             /\ UNCHANGED mutex_waiters
          \/ \E i \in DOMAIN q :
                /\ q[i] = Waker(t)
                /\ mutex_waiters' = [mutex_waiters EXCEPT ![Now(t).on] =
                                        SubSeq(q, 1, i - 1) \o SubSeq(q, i + 1, Len(q))]
    /\ Advance(t)
    /\ UNCHANGED <<scene, resource, device, mutex, wasted, future, status, wakes, signals, left>>

\* The guard is dropped: unlock, then wake_one.
Leave(t) ==
    /\ Doing(t, "run", "leave")
    /\ mutex' = [mutex EXCEPT ![Now(t).on] = None]
    /\ Goto(t, "wake_one")
    /\ UNCHANGED <<scene, resource, device, mutex_waiters, wasted, future, status, wakes,
                   signals, at, left>>

\* The waker is of a task that still waits for the mutex.
AwaitsMutex(w, i) ==
    /\ w.call = call[w.tid] /\ pc[w.tid] \notin {"run", "unregister"}
    /\ at[w.tid] <= Len(Script(w.tid)) /\ Now(w.tid) = [op |-> "enter", on |-> i]

WakeOne(t) ==
    /\ At(t, "wake_one")
    /\ LET i == Now(t).on
           q == mutex_waiters[i]
       IN \/ q = <<>> /\ UNCHANGED <<mutex_waiters, wakes, wasted>>
          \/ /\ q # <<>>
             /\ mutex_waiters' = [mutex_waiters EXCEPT ![i] = Tail(@)]
             /\ wakes' = [wakes EXCEPT ![t] = {Head(q)}]
             /\ wasted' = [wasted EXCEPT ![i] = @ \/ (mutex[i] = None /\ ~AwaitsMutex(Head(q), i))]
    /\ Advance(t)
    /\ UNCHANGED <<scene, resource, device, mutex, future, status, signals, left>>

-----------------------------------------------------------------------------
\* Signals: add_signal_with_info makes a task Ready that it has seen Blocked.

Signal(u) ==
    /\ alarms > 0 /\ status[u] = "Blocked"
    /\ alarms' = alarms - 1
    /\ sig_wake' = [sig_wake EXCEPT ![u] = TRUE]
    /\ UNCHANGED <<scene, resource, device, inode, future, status, wakes, killed, kills, pc, at,
                   left>>

Kill(u) ==
    /\ kills > 0 /\ ~killed[u]
    /\ kills' = kills - 1
    /\ killed' = [killed EXCEPT ![u] = TRUE]
    /\ sig_wake' = [sig_wake EXCEPT ![u] = @ \/ status[u] = "Blocked"]
    /\ UNCHANGED <<scene, resource, device, inode, future, status, wakes, alarms, pc, at, left>>

SignalWake(t) ==
    /\ sig_wake[t]
    /\ sig_wake' = [sig_wake EXCEPT ![t] = FALSE]
    /\ status' = [status EXCEPT ![t] = "Ready"]
    /\ UNCHANGED <<scene, resource, device, inode, future, wakes, killed, kills, alarms, pc, at,
                   left>>

\* exit_current_and_run_next: cancel_ext4_op_waiter, then cancel_disk_waiter.

\* Mutant: the queue is left alone.
KeepWaiting(q, t) == q

\* retain.
Retained(q, t) == {w \in q : w.tid # t}

CancelResource(t, l) ==
    /\ At(t, "exit") /\ l \in left[t]
    /\ left' = [left EXCEPT ![t] = @ \ {l}]
    /\ waiters' = [waiters EXCEPT ![l] = Retained(@, t)]
    /\ readers' = [readers EXCEPT ![l][t] = 0]
    /\ writer' = [writer EXCEPT ![l] = IF @ = t THEN None ELSE @]
    /\ writer_depth' = [writer_depth EXCEPT ![l] = IF writer[l] = t THEN 0 ELSE @]
    /\ wakes' = [wakes EXCEPT ![t] = WakeWaiters(waiters'[l], writer'[l], readers'[l])]
    /\ UNCHANGED <<scene, next_ticket, device, inode, future, status, signals, pc, at>>

CancelSubmission(t) ==
    /\ At(t, "exit") /\ left[t] = {}
    /\ dev_waiters' = Retained(dev_waiters, t)
    /\ wakes' = [wakes EXCEPT ![t] = WakeFront(dev_waiters', owner)]
    /\ Goto(t, "dead")
    /\ UNCHANGED <<scene, resource, owner, dev, dev_next_ticket, inode, future, status, signals,
                   at, left>>

-----------------------------------------------------------------------------
Init ==
    /\ scene \in Scenarios
    /\ readers = [l \in Resources |-> [t \in Tasks |-> 0]]
    /\ writer = [l \in Resources |-> None]
    /\ writer_depth = [l \in Resources |-> 0]
    /\ waiters = [l \in Resources |-> {}]
    /\ next_ticket = [l \in Resources |-> 1]
    /\ owner = None
    /\ dev = None
    /\ dev_waiters = {}
    /\ dev_next_ticket = 1
    /\ mutex = [i \in Inodes |-> None]
    /\ mutex_waiters = [i \in Inodes |-> <<>>]
    /\ ticket = [t \in Tasks |-> 0]
    /\ call = [t \in Tasks |-> 0]
    /\ woke = [t \in Tasks |-> FALSE]
    /\ status = [t \in Tasks |-> "Ready"]
    /\ wakes = [t \in Tasks |-> {}]
    /\ killed = [t \in Tasks |-> FALSE]
    /\ sig_wake = [t \in Tasks |-> FALSE]
    /\ kills = scene.kills
    /\ alarms = scene.signals
    /\ pc = [t \in Tasks |-> "run"]
    /\ at = [t \in Tasks |-> 1]
    /\ left = [t \in Tasks |-> {}]
    /\ wasted = [i \in Inodes |-> FALSE]

Step(t) ==
    \/ LoopHead(t) \/ BlockIfNotWoken(t) \/ Resume(t) \/ Wake(t)
    \/ Lock(t) \/ PollLock(t) \/ Unlock(t)
    \/ Submit(t) \/ PollSubmission(t) \/ Guard(t) \/ DropDevice(t) \/ Release(t)
    \/ Enter(t) \/ PollMutex(t) \/ Register(t) \/ Retry(t) \/ Unregister(t) \/ Leave(t)
    \/ WakeOne(t)
    \/ (\E l \in Resources : CancelResource(t, l)) \/ CancelSubmission(t)

Next ==
    \E t \in Tasks : Step(t) \/ SignalWake(t) \/ Signal(t) \/ Kill(t)

Spec == Init /\ [][Next]_vars

\* Every task that can run does, and a sender goes on; signals may never come.
FairSpec == Spec /\ \A t \in Tasks : WF_vars(Step(t)) /\ WF_vars(SignalWake(t))

-----------------------------------------------------------------------------
\* Properties.

Labels == {"run", "loop", "poll", "pending", "asleep", "guard", "device", "release",
           "register", "retry", "unregister", "wake_one", "exit", "dead"}

Queue == [ticket : Nat \ {0}, tid : Tasks, mode : Modes, call : Nat]
DevQueue == [ticket : Nat \ {0}, tid : Tasks, call : Nat]
Wakers == [tid : Tasks, call : Nat]

PlaceOK ==
    /\ scene \in Scenarios /\ pc \in [Tasks -> Labels] /\ at \in [Tasks -> Nat \ {0}]
    /\ left \in [Tasks -> SUBSET Resources]
ResourceOK ==
    /\ readers \in [Resources -> [Tasks -> Nat]]
    /\ writer \in [Resources -> Tasks \cup {None}] /\ writer_depth \in [Resources -> Nat]
    /\ waiters \in [Resources -> SUBSET Queue] /\ next_ticket \in [Resources -> Nat \ {0}]
DeviceOK ==
    /\ owner \in Tasks \cup {None} /\ dev \in Tasks \cup {None}
    /\ dev_waiters \in SUBSET DevQueue /\ dev_next_ticket \in Nat \ {0}
InodeOK ==
    /\ mutex \in [Inodes -> Tasks \cup {None}] /\ mutex_waiters \in [Inodes -> Seq(Wakers)]
    /\ wasted \in [Inodes -> BOOLEAN]
FutureOK ==
    /\ ticket \in [Tasks -> Nat] /\ call \in [Tasks -> Nat] /\ woke \in [Tasks -> BOOLEAN]
WakeOK ==
    /\ status \in [Tasks -> {"Ready", "Blocked"}] /\ wakes \in [Tasks -> SUBSET Wakers]
SignalOK == killed \in [Tasks -> BOOLEAN] /\ sig_wake \in [Tasks -> BOOLEAN]

\* The type invariant.
TypeOK ==
    PlaceOK /\ ResourceOK /\ DeviceOK /\ InodeOK /\ FutureOK /\ WakeOK /\ SignalOK

Gone(t) == pc[t] \in {"exit", "dead"}
Finished(t) == pc[t] = "run" /\ at[t] > Len(Script(t))
Asleep(t) == pc[t] = "asleep" /\ status[t] = "Blocked"

\* How many sections of a lock the program is in, by its script.
Passed(t, op, l, mode) ==
    {i \in 1 .. at[t] - 1 : Script(t)[i] = [op |-> op, on |-> l, mode |-> mode]}
Depth(t, l, mode) ==
    Cardinality(Passed(t, "lock", l, mode)) - Cardinality(Passed(t, "unlock", l, mode))

\* While one task is in a write section of a resource, no other is in a section
\* of it, however they nest and whoever was killed: what the C code relies on.
SectionsExclude ==
    \A l \in Resources : \A t, u \in Tasks :
        t # u /\ ~Gone(t) /\ ~Gone(u) /\ Depth(t, l, "Write") > 0
            => Depth(u, l, "Write") = 0 /\ Depth(u, l, "Read") = 0

\* "released by non-owner" never happens: the lock counts exactly the sections its
\* program is in, so that every unlock finds the count that the matching lock made.
HeldAsEntered ==
    \A l \in Resources : \A t \in Tasks : ~Gone(t) =>
        /\ readers[l][t] = Depth(t, l, "Read")
        /\ Depth(t, l, "Write") = IF writer[l] = t THEN writer_depth[l] ELSE 0

\* "device submission token lost its block-device guard" never happens: the token
\* comes with a free device, and stays with its holder until the request is over.
GuardComesWithToken ==
    \A t \in Tasks :
        /\ pc[t] = "guard" => owner = t /\ dev = None
        /\ pc[t] = "device" => owner = t /\ dev = t
        /\ pc[t] = "release" => owner = t /\ dev = None

\* A killed task abandons its stack; nothing of it stays behind in a resource lock
\* or in the device queue.
ExitClears ==
    \A t \in Tasks : pc[t] = "dead" =>
        /\ \A l \in Resources :
              /\ readers[l][t] = 0 /\ writer[l] # t
              /\ \A w \in waiters[l] : w.tid # t
        /\ owner # t /\ \A w \in dev_waiters : w.tid # t

\* A task never sleeps in front of a lock or device that it could have: whoever
\* made it available still owes the wakeup.
NoLostWaiter ==
    \A t \in Tasks : Asleep(t) =>
        LET free == \/ Now(t).op = "lock" /\ CanAcquire(t, Now(t).on, Now(t).mode, ticket[t])
                    \/ Now(t).op = "request" /\ DevCanAcquire(ticket[t])
        IN free => \E u \in Tasks : Waker(t) \in wakes[u]

\* "Do not pass a queued writer": a task that had no part of a resource gets it
\* only when nobody queued before it still waits, also after cancellations; the
\* same for the device.
Holds(t, l) == readers[l][t] > 0 \/ writer[l] = t
Ahead(q, t) == {w \in q : w.tid # t /\ (ticket[t] = 0 \/ w.ticket < ticket[t])}
FifoGrants ==
    [][\A t \in Tasks :
          /\ \A l \in Resources : ~Holds(t, l) /\ Holds(t, l)' => Ahead(waiters[l], t) = {}
          /\ owner # t /\ owner' = t => Ahead(dev_waiters, t) = {}]_vars

\* TaskMutex::lock leaves the entry of its waiter in the PollSet when the first
\* try of a later poll succeeds, after a signal or on a wake flag that is still
\* set.  wake_one then spends itself on that entry, and t, registered behind it,
\* sleeps in front of a free mutex until the next operation on the inode.
Overlooked(t) ==
    /\ Asleep(t) /\ Now(t).op = "enter"
    /\ mutex[Now(t).on] = None /\ wasted[Now(t).on]

\* Every operation comes to its end, or its task was killed, and nothing keeps one
\* asleep for ever but the entry that another waiter left behind in the PollSet
\* of an inode mutex.
AllServed == <>[](\A t \in Tasks : Finished(t) \/ pc[t] = "dead" \/ Overlooked(t))
=============================================================================
