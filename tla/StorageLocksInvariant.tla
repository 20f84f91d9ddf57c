----------------------- MODULE StorageLocksInvariant ------------------------
(***************************************************************************)
(* The inductive invariant of StorageLocks, and that a step preserves it:  *)
(* first what does not look at the queues (types, where a task is, the     *)
(* device token, that a writer excludes every other holder), then the      *)
(* queues (every ticket stands for an entry, every entry for a task that   *)
(* waits or has not finished its exit, and what a step of one task does to *)
(* the others in a queue), then the wakeups (a task that could go on is    *)
(* the front of its queue, and whatever lets it go on wakes the front).    *)
(***************************************************************************)
EXTENDS StorageLocks, TLAPS

\* A leaf that does not name its prover is for Zenon.
USE Zenon

Calling == {"loop", "poll", "pending", "asleep"}
Using == {"guard", "device", "release"}
Trying == {"register", "retry", "unregister"}

\* A task in a call is at a step of its script that makes it.
PlacedAt(t) ==
    /\ pc[t] \in Calling \cup Using \cup Trying \cup {"wake_one"} => at[t] <= Len(Script(t))
    /\ pc[t] \in Calling => Now(t).op \in {"lock", "request", "enter"}
    /\ pc[t] \in Using => Now(t).op = "request"
    /\ pc[t] \in Trying => Now(t).op = "enter"
    /\ pc[t] = "wake_one" => Now(t).op = "leave"
    /\ pc[t] = "dead" => left[t] = {}
Placed == \A t \in Tasks : PlacedAt(t)

\* The ticket of a future stands for its entry in a queue.
LockEntry(t) == [ticket |-> ticket[t], tid |-> t, mode |-> Now(t).mode, call |-> call[t]]
DevEntry(t) == [ticket |-> ticket[t], tid |-> t, call |-> call[t]]
TicketOf(t) ==
    /\ ticket[t] # 0 => Gone(t) \/ (pc[t] \in Calling /\ Now(t).op # "enter")
    /\ ticket[t] # 0 /\ pc[t] \in Calling =>
          /\ Now(t).op = "lock" => LockEntry(t) \in waiters[Now(t).on]
          /\ Now(t).op = "request" => DevEntry(t) \in dev_waiters
    /\ pc[t] \in {"pending", "asleep"} /\ Now(t).op # "enter" => ticket[t] # 0
Ticketed == \A t \in Tasks : TicketOf(t)

\* An entry belongs to a task that waits, or that has not got to it in its exit.
Waits(t, op) == pc[t] \in Calling /\ Now(t).op = op
QueueOf(l) ==
    \A w \in waiters[l] :
        /\ w.ticket < next_ticket[l]
        /\ \/ Waits(w.tid, "lock") /\ Now(w.tid).on = l /\ w = LockEntry(w.tid)
           \/ pc[w.tid] = "exit" /\ l \in left[w.tid]
        /\ \A v \in waiters[l] : v.ticket = w.ticket => v = w
Queues == \A l \in Resources : QueueOf(l)
DevQueued ==
    \A w \in dev_waiters :
        /\ w.ticket < dev_next_ticket
        /\ \/ Waits(w.tid, "request") /\ w = DevEntry(w.tid)
           \/ pc[w.tid] = "exit"
        /\ \A v \in dev_waiters : v.ticket = w.ticket => v = w

\* The token and the device are where the program counters say.
Token ==
    \A t \in Tasks : (owner = t <=> pc[t] \in Using) /\ (dev = t <=> pc[t] = "device")

\* A writer excludes every other holder.
WriterExcludes ==
    \A l \in Resources : writer[l] # None =>
        /\ writer_depth[l] > 0
        /\ \A u \in Tasks : u # writer[l] => readers[l][u] = 0

\* A task that exits has given up the resources it has got to.
GivenUp ==
    \A t \in Tasks, l \in Resources :
        Gone(t) /\ l \notin left[t] => readers[l][t] = 0 /\ writer[l] # t

\* Whoever goes to sleep, or sleeps, before something it could have is owed a
\* wakeup.
Drowsy(t) == (pc[t] = "pending" /\ ~woke[t]) \/ Asleep(t)
Free(t) ==
    \/ Now(t).op = "lock" /\ CanAcquire(t, Now(t).on, Now(t).mode, ticket[t])
    \/ Now(t).op = "request" /\ DevCanAcquire(ticket[t])
OwedTo(t) == Drowsy(t) /\ Free(t) => \E u \in Tasks : Waker(t) \in wakes[u]
Owed == \A t \in Tasks : OwedTo(t)

\* The inductive invariant.
Inv ==
    /\ TypeOK /\ Placed /\ Ticketed /\ Queues /\ DevQueued /\ Token /\ WriterExcludes
    /\ GivenUp /\ Owed

-----------------------------------------------------------------------------
\* Types.

\* What a step leaves alone keeps its type.
LEMMA PartsKept ==
    /\ ResourceOK /\ UNCHANGED resource => ResourceOK'
    /\ DeviceOK /\ UNCHANGED device => DeviceOK'
    /\ InodeOK /\ UNCHANGED inode => InodeOK'
    /\ FutureOK /\ UNCHANGED future => FutureOK'
    /\ SignalOK /\ UNCHANGED signals => SignalOK'
    /\ WakeOK /\ UNCHANGED <<status, wakes>> => WakeOK'
<1>1. ResourceOK /\ UNCHANGED resource => ResourceOK'
  BY DEF ResourceOK, resource
<1>2. DeviceOK /\ UNCHANGED device => DeviceOK'
  BY DEF DeviceOK, device
<1>3. InodeOK /\ UNCHANGED inode => InodeOK'
  BY DEF InodeOK, inode
<1>4. FutureOK /\ UNCHANGED future => FutureOK'
  BY DEF FutureOK, future
<1>5. SignalOK /\ UNCHANGED signals => SignalOK'
  BY DEF SignalOK, signals
<1>6. WakeOK /\ UNCHANGED <<status, wakes>> => WakeOK'
  BY DEF WakeOK
<1> QED
  BY <1>1, <1>2, <1>3, <1>4, <1>5, <1>6

\* The step of a script that a task is in.
LEMMA NowTyped ==
    ASSUME TypeOK, NEW t \in Tasks, at[t] <= Len(Script(t))
    PROVE  /\ Now(t).op \in {"lock", "unlock"} => Now(t).on \in Resources /\ Now(t).mode \in Modes
           /\ Now(t).op \in {"enter", "leave"} => Now(t).on \in Inodes
<1>1. Script(t) \in Seq(Steps) /\ at[t] \in Nat \ {0}
  BY StorageAssumption DEF TypeOK, PlaceOK, Script
<1>2. at[t] \in DOMAIN Script(t) /\ Now(t) \in Steps
  BY <1>1, SMT DEF Now
<1> QED
  BY <1>2 DEF Steps

LEMMA WakeWaitersTyped ==
    ASSUME NEW q \in SUBSET Queue, NEW w, NEW r
    PROVE  WakeWaiters(q, w, r) \in SUBSET Wakers
BY SMT DEF WakeWaiters, Queue, Wakers

LEMMA WakeFrontTyped ==
    ASSUME NEW q \in SUBSET DevQueue, NEW o
    PROVE  WakeFront(q, o) \in SUBSET Wakers
BY SMT DEF WakeFront, Front, DevQueue, Wakers

LEMMA WakerTyped == ASSUME FutureOK, NEW t \in Tasks PROVE Waker(t) \in Wakers
BY DEF FutureOK, Waker, Wakers

\* A task that goes to a label, or to the next step of its script.
LEMMA GotoTyped ==
    ASSUME PlaceOK, NEW t \in Tasks, NEW l \in Labels, Goto(t, l),
           UNCHANGED <<scene, at, left>>
    PROVE  PlaceOK'
BY DEF PlaceOK, Goto

LEMMA AdvanceTyped ==
    ASSUME PlaceOK, NEW t \in Tasks, Advance(t), UNCHANGED <<scene, left>>
    PROVE  PlaceOK'
<1>1. pc' \in [Tasks -> Labels]
  BY DEF PlaceOK, Advance, Goto, Labels
<1>2. at' \in [Tasks -> Nat \ {0}]
  BY SMT DEF PlaceOK, Advance
<1> QED
  BY <1>1, <1>2 DEF PlaceOK

LEMMA BlockOnTyped ==
    ASSUME PlaceOK, FutureOK, NEW t \in Tasks, BlockOn(t), UNCHANGED <<scene, at, left, ticket>>
    PROVE  PlaceOK' /\ FutureOK'
<1>1. PlaceOK'
  BY DEF PlaceOK, BlockOn, Goto, Labels
<1>2. FutureOK'
  BY SMT DEF FutureOK, BlockOn
<1> QED
  BY <1>1, <1>2

LEMMA WakesTyped ==
    ASSUME WakeOK, NEW t \in Tasks, NEW d \in SUBSET Wakers,
           wakes' = [wakes EXCEPT ![t] = d], UNCHANGED status
    PROVE  WakeOK'
BY DEF WakeOK

LEMMA TicketTyped ==
    ASSUME FutureOK, NEW t \in Tasks, NEW k \in Nat, ticket' = [ticket EXCEPT ![t] = k],
           UNCHANGED <<call, woke>>
    PROVE  FutureOK'
BY DEF FutureOK

\* A task in block_on, and its waker.
LEMMA BlockingTyped ==
    ASSUME TypeOK, NEW t \in Tasks
    PROVE  /\ LoopHead(t) => TypeOK'
           /\ BlockIfNotWoken(t) => TypeOK'
           /\ Resume(t) => TypeOK'
           /\ Wake(t) => TypeOK'
<1> USE DEF TypeOK
<1>1. ASSUME LoopHead(t) PROVE TypeOK'
  <2>1. UNCHANGED <<resource, device, inode, future, status, wakes, signals>>
    BY <1>1 DEF LoopHead
  <2>2. PlaceOK'
    BY <1>1 DEF LoopHead, PlaceOK, Goto, Labels
  <2> QED
    BY <2>1, <2>2, PartsKept
<1>2. ASSUME BlockIfNotWoken(t) PROVE TypeOK'
  <2>1. UNCHANGED <<resource, device, inode, ticket, call, wakes, signals, scene, at, left>>
    BY <1>2 DEF BlockIfNotWoken
  <2>2. PlaceOK'
    BY <1>2 DEF BlockIfNotWoken, PlaceOK, Goto, Labels
  <2>3. FutureOK'
    BY <1>2 DEF BlockIfNotWoken, FutureOK
  <2>4. WakeOK'
    BY <1>2 DEF BlockIfNotWoken, WakeOK
  <2> QED
    BY <2>1, <2>2, <2>3, <2>4, PartsKept
<1>3. ASSUME Resume(t) PROVE TypeOK'
  <2>1. UNCHANGED <<resource, device, inode, future, status, wakes, signals>>
    BY <1>3 DEF Resume
  <2>2. PlaceOK'
    BY <1>3 DEF Resume, PlaceOK, Goto, Labels
  <2> QED
    BY <2>1, <2>2, PartsKept
<1>4. ASSUME Wake(t) PROVE TypeOK'
  <2>1. PICK w \in wakes[t] :
            /\ wakes' = [wakes EXCEPT ![t] = @ \ {w}]
            /\ woke' = [woke EXCEPT ![w.tid] = @ \/ w.call = call[w.tid]]
            /\ status' = [status EXCEPT ![w.tid] = "Ready"]
            /\ UNCHANGED <<scene, resource, device, inode, ticket, call, signals, pc, at, left>>
    BY <1>4 DEF Wake
  <2>2. w.tid \in Tasks
    BY SMT DEF WakeOK, Wakers
  <2>3. WakeOK'
    BY <2>1, <2>2 DEF WakeOK
  <2>4. FutureOK'
    <3>1. (woke[w.tid] \/ w.call = call[w.tid]) \in BOOLEAN
      OBVIOUS
    <3>2. woke' \in [Tasks -> BOOLEAN]
      BY <2>1, <2>2, <3>1 DEF FutureOK
    <3> QED
      BY <2>1, <3>2 DEF FutureOK
  <2>5. PlaceOK'
    BY <2>1 DEF PlaceOK
  <2> QED
    BY <2>1, <2>3, <2>4, <2>5, PartsKept
<1> QED
  BY <1>1, <1>2, <1>3, <1>4

LEMMA AcquireTyped ==
    ASSUME ResourceOK, WakeOK, NEW t \in Tasks, NEW l \in Resources, NEW mode \in Modes,
           NEW q \in SUBSET Queue, Acquire(t, l, mode, q), UNCHANGED status
    PROVE  ResourceOK' /\ WakeOK'
<1>1. WakeOK'
  <2>1. WakeWaiters(q, writer'[l], readers'[l]) \in SUBSET Wakers
    BY WakeWaitersTyped
  <2>2. wakes' = [wakes EXCEPT ![t] = WakeWaiters(q, writer'[l], readers'[l])]
    BY DEF Acquire
  <2> QED
    BY <2>1, <2>2, WakesTyped
<1>2. waiters' \in [Resources -> SUBSET Queue] /\ next_ticket' \in [Resources -> Nat \ {0}]
  <2>1. waiters' = [waiters EXCEPT ![l] = q] /\ next_ticket' = next_ticket
    BY DEF Acquire
  <2> QED
    BY <2>1 DEF ResourceOK
<1>3. CASE mode = "Read"
  <2>1. /\ readers' = [readers EXCEPT ![l][t] = @ + 1]
        /\ writer' = writer /\ writer_depth' = writer_depth
    BY <1>3 DEF Acquire
  <2>2. readers' \in [Resources -> [Tasks -> Nat]]
    <3>1. readers \in [Resources -> [Tasks -> Nat]]
      BY DEF ResourceOK
    <3>2. [readers[l] EXCEPT ![t] = @ + 1] \in [Tasks -> Nat]
      BY <3>1, SMT
    <3> QED
      BY <2>1, <3>1, <3>2
  <2> QED
    BY <1>1, <1>2, <2>1, <2>2 DEF ResourceOK
<1>4. CASE mode = "Write"
  <2>1. /\ writer' = [writer EXCEPT ![l] = t]
        /\ writer_depth' = [writer_depth EXCEPT ![l] = IF writer[l] = t THEN @ + 1 ELSE 1]
        /\ readers' = readers
    BY <1>4 DEF Acquire
  <2>2. writer' \in [Resources -> Tasks \cup {None}]
    BY <2>1 DEF ResourceOK
  <2>3. writer_depth' \in [Resources -> Nat]
    BY <2>1, SMT DEF ResourceOK
  <2> QED
    BY <1>1, <1>2, <2>1, <2>2, <2>3 DEF ResourceOK
<1> QED
  BY <1>3, <1>4 DEF Modes

LEMMA ReleaseTyped ==
    ASSUME ResourceOK, WriterExcludes, NEW t \in Tasks, NEW l \in Resources, NEW mode \in Modes,
           ReleaseOnce(t, l, mode), UNCHANGED <<waiters, next_ticket>>
    PROVE  ResourceOK'
<1>1. CASE mode = "Read"
  <2>1. /\ readers[l][t] > 0 /\ readers' = [readers EXCEPT ![l][t] = @ - 1]
        /\ writer' = writer /\ writer_depth' = writer_depth
    BY <1>1 DEF ReleaseOnce
  <2> QED
    BY <2>1, SMT DEF ResourceOK
<1>2. CASE mode = "Write"
  <2>1. /\ writer[l] = t
        /\ writer_depth' = [writer_depth EXCEPT ![l] = @ - 1]
        /\ writer' = [writer EXCEPT ![l] = IF writer_depth[l] = 1 THEN None ELSE @]
        /\ readers' = readers
    BY <1>2 DEF ReleaseOnce
  <2>2. writer_depth[l] > 0
    BY <2>1, StorageAssumption DEF WriterExcludes
  <2> QED
    BY <2>1, <2>2, SMT DEF ResourceOK
<1> QED
  BY <1>1, <1>2 DEF Modes

LEMMA LockTyped ==
    ASSUME TypeOK, WriterExcludes, NEW t \in Tasks
    PROVE  /\ Lock(t) => TypeOK'
           /\ PollLock(t) => TypeOK'
           /\ Unlock(t) => TypeOK'
<1> USE DEF TypeOK
<1> DEFINE l == Now(t).on
           mode == Now(t).mode
<1>1. ASSUME Lock(t) PROVE TypeOK'
  <2>1. /\ l \in Resources /\ mode \in Modes
        /\ UNCHANGED <<scene, device, inode, status, signals, left>>
    BY <1>1, NowTyped DEF Lock, Doing
  <2>2. CASE Acquire(t, l, mode, waiters[l]) /\ Advance(t) /\ UNCHANGED future
    <3>1. waiters[l] \in SUBSET Queue
      BY <2>1 DEF ResourceOK
    <3>2. ResourceOK' /\ WakeOK'
      BY <2>1, <2>2, <3>1, AcquireTyped
    <3> QED
      BY <2>1, <2>2, <3>2, AdvanceTyped, PartsKept
  <2>3. CASE BlockOn(t) /\ UNCHANGED <<resource, wakes, ticket, at>>
    BY <2>1, <2>3, BlockOnTyped, PartsKept
  <2> QED
    BY <1>1, <2>2, <2>3 DEF Lock
<1>2. ASSUME PollLock(t) PROVE TypeOK'
  <2>1. /\ l \in Resources /\ mode \in Modes
        /\ UNCHANGED <<scene, device, inode, call, woke, status, signals, left>>
    BY <1>2, NowTyped DEF PollLock, Doing
  <2> DEFINE q == IF ticket[t] = 0 THEN waiters[l] ELSE waiters[l] \ Front(waiters[l])
             e == [ticket |-> next_ticket[l], tid |-> t, mode |-> mode, call |-> call[t]]
  <2>2. CASE /\ Acquire(t, l, mode, q)
             /\ ticket' = [ticket EXCEPT ![t] = 0] /\ Advance(t)
    <3>1. q \in SUBSET Queue
      BY <2>1 DEF ResourceOK
    <3> HIDE DEF q
    <3>2. ResourceOK' /\ WakeOK'
      BY <2>1, <2>2, <3>1, AcquireTyped
    <3>3. FutureOK' /\ PlaceOK'
      BY <2>1, <2>2, TicketTyped, AdvanceTyped
    <3> QED
      BY <2>1, <3>2, <3>3, PartsKept
  <2>3. CASE Goto(t, "pending") /\ UNCHANGED <<resource, wakes, ticket, at>>
    <3>1. PlaceOK'
      BY <2>1, <2>3, GotoTyped DEF Labels
    <3>2. UNCHANGED future
      BY <2>1, <2>3 DEF future
    <3> QED
      BY <2>1, <2>3, <3>1, <3>2, PartsKept
  <2>4. CASE /\ waiters' = [waiters EXCEPT ![l] = @ \cup {e}]
             /\ next_ticket' = [next_ticket EXCEPT ![l] = @ + 1]
             /\ ticket' = [ticket EXCEPT ![t] = next_ticket[l]]
             /\ Goto(t, "pending")
             /\ UNCHANGED <<readers, writer, writer_depth, wakes, at>>
    <3>1. e \in Queue /\ next_ticket[l] \in Nat
      BY <2>1 DEF Queue, ResourceOK, FutureOK
    <3> HIDE DEF e
    <3>2. ResourceOK'
      <4>1. waiters' \in [Resources -> SUBSET Queue]
        BY <2>1, <2>4, <3>1 DEF ResourceOK
      <4>2. next_ticket' \in [Resources -> Nat \ {0}]
        BY <2>1, <2>4, SMT DEF ResourceOK
      <4> QED
        BY <2>4, <4>1, <4>2 DEF ResourceOK
    <3>3. FutureOK' /\ PlaceOK'
      BY <2>1, <2>4, <3>1, TicketTyped, GotoTyped DEF Labels
    <3> QED
      BY <2>1, <2>4, <3>2, <3>3, PartsKept
  <2> QED
    BY <1>2, <2>2, <2>3, <2>4 DEF PollLock
<1>3. ASSUME Unlock(t) PROVE TypeOK'
  <2>1. /\ l \in Resources /\ mode \in Modes /\ ReleaseOnce(t, l, mode) /\ Advance(t)
        /\ wakes' = [wakes EXCEPT ![t] = WakeWaiters(waiters[l], writer'[l], readers'[l])]
        /\ UNCHANGED <<scene, waiters, next_ticket, device, inode, future, status, signals, left>>
    BY <1>3, NowTyped DEF Unlock, Doing
  <2>2. ResourceOK' /\ PlaceOK'
    BY <2>1, ReleaseTyped, AdvanceTyped
  <2>3. waiters[l] \in SUBSET Queue
    BY <2>1 DEF ResourceOK
  <2>4. WakeWaiters(waiters[l], writer'[l], readers'[l]) \in SUBSET Wakers
    BY <2>3, WakeWaitersTyped
  <2>5. WakeOK'
    BY <2>1, <2>4, WakesTyped
  <2> QED
    BY <2>1, <2>2, <2>5, PartsKept
<1> QED
  BY <1>1, <1>2, <1>3

\* The device.
LEMMA DeviceTyped ==
    ASSUME TypeOK, NEW t \in Tasks
    PROVE  /\ Submit(t) => TypeOK'
           /\ PollSubmission(t) => TypeOK'
           /\ Guard(t) => TypeOK'
           /\ DropDevice(t) => TypeOK'
           /\ Release(t) => TypeOK'
<1> USE DEF TypeOK
<1>1. ASSUME Submit(t) PROVE TypeOK'
  <2>1. /\ \/ owner' = t /\ Goto(t, "guard") /\ UNCHANGED future
           \/ BlockOn(t) /\ UNCHANGED <<owner, ticket>>
        /\ UNCHANGED <<scene, resource, dev, dev_waiters, dev_next_ticket, inode, status, wakes,
                       signals, at, left>>
    BY <1>1 DEF Submit
  <2>2. DeviceOK'
    BY <2>1 DEF DeviceOK
  <2>3. CASE Goto(t, "guard") /\ UNCHANGED future
    BY <2>1, <2>2, <2>3, GotoTyped, PartsKept DEF Labels
  <2>4. CASE BlockOn(t) /\ UNCHANGED <<owner, ticket>>
    BY <2>1, <2>2, <2>4, BlockOnTyped, PartsKept
  <2> QED
    BY <2>1, <2>3, <2>4
<1>2. ASSUME PollSubmission(t) PROVE TypeOK'
  <2> DEFINE e == [ticket |-> dev_next_ticket, tid |-> t, call |-> call[t]]
  <2>1. e \in DevQueue /\ dev_next_ticket \in Nat
    BY DEF DevQueue, DeviceOK, FutureOK
  <2>2. /\ \/ dev_waiters' = dev_waiters \/ dev_waiters' = dev_waiters \ Front(dev_waiters)
           \/ dev_waiters' = dev_waiters \cup {e}
        /\ \/ dev_next_ticket' = dev_next_ticket \/ dev_next_ticket' = dev_next_ticket + 1
        /\ \/ ticket' = ticket \/ ticket' = [ticket EXCEPT ![t] = 0]
           \/ ticket' = [ticket EXCEPT ![t] = dev_next_ticket]
        /\ owner' \in {owner, t}
        /\ Goto(t, "guard") \/ Goto(t, "pending")
        /\ UNCHANGED <<scene, resource, dev, inode, call, woke, status, wakes, signals, at, left>>
    BY <1>2 DEF PollSubmission
  <2> HIDE DEF e
  <2>3. DeviceOK'
    <3>1. dev_waiters' \in SUBSET DevQueue
      BY <2>1, <2>2 DEF DeviceOK
    <3>2. owner' \in Tasks \cup {None} /\ dev_next_ticket' \in Nat \ {0}
      BY <2>2, SMT DEF DeviceOK
    <3> QED
      BY <2>2, <3>1, <3>2 DEF DeviceOK
  <2>4. FutureOK'
    <3>1. CASE ticket' = ticket
      BY <2>2, <3>1, PartsKept DEF future
    <3>2. CASE ticket' = [ticket EXCEPT ![t] = 0]
      BY <2>2, <3>2, TicketTyped
    <3>3. CASE ticket' = [ticket EXCEPT ![t] = dev_next_ticket]
      BY <2>1, <2>2, <3>3, TicketTyped
    <3> QED
      BY <2>2, <3>1, <3>2, <3>3
  <2>5. PlaceOK'
    BY <2>2, GotoTyped DEF Labels
  <2> QED
    BY <2>2, <2>3, <2>4, <2>5, PartsKept
<1>3. ASSUME Guard(t) PROVE TypeOK'
  <2>1. /\ dev' = t /\ Goto(t, "device")
        /\ UNCHANGED <<scene, resource, owner, dev_waiters, dev_next_ticket, inode, future, status,
                       wakes, signals, at, left>>
    BY <1>3 DEF Guard
  <2>2. DeviceOK'
    BY <2>1 DEF DeviceOK
  <2> QED
    BY <2>1, <2>2, GotoTyped, PartsKept DEF Labels
<1>4. ASSUME DropDevice(t) PROVE TypeOK'
  <2>1. /\ dev' = None /\ Goto(t, "release")
        /\ UNCHANGED <<scene, resource, owner, dev_waiters, dev_next_ticket, inode, future, status,
                       wakes, signals, at, left>>
    BY <1>4 DEF DropDevice
  <2>2. DeviceOK'
    BY <2>1 DEF DeviceOK
  <2> QED
    BY <2>1, <2>2, GotoTyped, PartsKept DEF Labels
<1>5. ASSUME Release(t) PROVE TypeOK'
  <2>1. /\ owner' = None /\ Advance(t)
        /\ wakes' = [wakes EXCEPT ![t] = WakeFront(dev_waiters, None)]
        /\ UNCHANGED <<scene, resource, dev, dev_waiters, dev_next_ticket, inode, future, status,
                       signals, left>>
    BY <1>5 DEF Release
  <2>2. DeviceOK'
    BY <2>1 DEF DeviceOK
  <2>3. WakeFront(dev_waiters, None) \in SUBSET Wakers
    BY WakeFrontTyped DEF DeviceOK
  <2>4. WakeOK' /\ PlaceOK'
    BY <2>1, <2>3, WakesTyped, AdvanceTyped
  <2> QED
    BY <2>1, <2>2, <2>4, PartsKept
<1> QED
  BY <1>1, <1>2, <1>3, <1>4, <1>5

\* The inode mutex.
LEMMA MutexTyped ==
    ASSUME TypeOK, Placed, NEW t \in Tasks
    PROVE  /\ Enter(t) => TypeOK'
           /\ PollMutex(t) => TypeOK'
           /\ Register(t) => TypeOK'
           /\ Retry(t) => TypeOK'
           /\ Unregister(t) => TypeOK'
           /\ Leave(t) => TypeOK'
           /\ WakeOne(t) => TypeOK'
<1> USE DEF TypeOK
<1> DEFINE i == Now(t).on
           q == mutex_waiters[i]
           Taken == mutex' = [mutex EXCEPT ![i] = t]
<1>a. ASSUME pc[t] \in Trying \cup {"wake_one"}
      PROVE  i \in Inodes /\ q \in Seq(Wakers)
  <2>1. at[t] <= Len(Script(t)) /\ Now(t).op \in {"enter", "leave"}
    BY <1>a DEF Placed, PlacedAt
  <2>2. i \in Inodes
    BY <2>1, NowTyped
  <2> QED
    BY <2>2 DEF InodeOK
<1>b. (Taken \/ mutex' = mutex) /\ UNCHANGED <<mutex_waiters, wasted>> => InodeOK'
  BY DEF InodeOK
<1> HIDE DEF Taken
<1>1. ASSUME Enter(t) PROVE TypeOK'
  <2>1. /\ \/ Taken /\ Advance(t) /\ UNCHANGED future
           \/ BlockOn(t) /\ UNCHANGED <<mutex, ticket, at>>
        /\ UNCHANGED <<scene, resource, device, mutex_waiters, wasted, status, wakes, signals, left>>
    BY <1>1 DEF Enter, Taken
  <2>2. CASE Taken /\ Advance(t) /\ UNCHANGED future
    BY <1>b, <2>1, <2>2, AdvanceTyped, PartsKept
  <2>3. CASE BlockOn(t) /\ UNCHANGED <<mutex, ticket, at>>
    BY <1>b, <2>1, <2>3, BlockOnTyped, PartsKept
  <2> QED
    BY <2>1, <2>2, <2>3
<1>2. ASSUME PollMutex(t) PROVE TypeOK'
  <2>1. /\ \/ Taken /\ Advance(t)
           \/ Goto(t, "register") /\ UNCHANGED <<mutex, at>>
        /\ UNCHANGED <<scene, resource, device, mutex_waiters, wasted, future, status, wakes,
                       signals, left>>
    BY <1>2 DEF PollMutex, Taken
  <2>2. PlaceOK'
    BY <2>1, AdvanceTyped, GotoTyped DEF Labels
  <2> QED
    BY <1>b, <2>1, <2>2, PartsKept
<1>3. ASSUME Register(t) PROVE TypeOK'
  <2>1. /\ i \in Inodes /\ q \in Seq(Wakers) /\ Waker(t) \in Wakers
        /\ UNCHANGED <<scene, resource, device, mutex, wasted, future, status, signals, at, left>>
        /\ Goto(t, "retry")
    BY <1>a, <1>3, WakerTyped DEF Register, At, Trying
  <2>2. PlaceOK'
    BY <2>1, GotoTyped DEF Labels
  <2> DEFINE r == IF Len(q) = PollSetCapacity THEN Tail(q) ELSE q
             d == IF Len(q) = PollSetCapacity THEN {Head(q)} ELSE {}
  <2>3. \/ mutex_waiters' = mutex_waiters /\ wakes' = wakes
        \/ /\ mutex_waiters' = [mutex_waiters EXCEPT ![i] = Append(r, Waker(t))]
           /\ wakes' = [wakes EXCEPT ![t] = d]
    BY <1>3 DEF Register
  <2>4. Len(q) = PollSetCapacity => Tail(q) \in Seq(Wakers) /\ Head(q) \in Wakers
    <3>1. PollSetCapacity \in Nat \ {0}
      BY StorageAssumption DEF PlaceOK, PollSetCapacity
    <3> QED
      BY <2>1, <3>1, SMT
  <2>5. Append(r, Waker(t)) \in Seq(Wakers) /\ d \in SUBSET Wakers
    BY <2>1, <2>4, SMT
  <2> HIDE DEF r, d, q
  <2>6. InodeOK'
    BY <2>1, <2>3, <2>5 DEF InodeOK
  <2>7. WakeOK'
    BY <2>1, <2>3, <2>5, WakesTyped, PartsKept
  <2> QED
    BY <2>1, <2>2, <2>6, <2>7, PartsKept
<1>4. ASSUME Retry(t) PROVE TypeOK'
  <2>1. /\ \/ Taken /\ Goto(t, "unregister")
           \/ mutex' = mutex /\ Goto(t, "pending")
        /\ UNCHANGED <<scene, resource, device, mutex_waiters, wasted, future, status, wakes,
                       signals, at, left>>
    BY <1>4 DEF Retry, Taken
  <2>2. PlaceOK'
    BY <2>1, GotoTyped DEF Labels
  <2> QED
    BY <1>b, <2>1, <2>2, PartsKept
<1>5. ASSUME Unregister(t) PROVE TypeOK'
  <2>1. /\ i \in Inodes /\ q \in Seq(Wakers) /\ Advance(t)
        /\ UNCHANGED <<scene, resource, device, mutex, wasted, future, status, wakes, signals, left>>
    BY <1>a, <1>5 DEF Unregister, At, Trying
  <2>2. InodeOK'
    <3>1. CASE mutex_waiters' = mutex_waiters
      BY <1>b, <2>1, <3>1
    <3>2. ASSUME NEW j \in DOMAIN q,
                 mutex_waiters' = [mutex_waiters EXCEPT ![i] =
                                      SubSeq(q, 1, j - 1) \o SubSeq(q, j + 1, Len(q))]
          PROVE  InodeOK'
      <4> DEFINE r == SubSeq(q, 1, j - 1) \o SubSeq(q, j + 1, Len(q))
      <4>1. SubSeq(q, 1, j - 1) \in Seq(Wakers) /\ SubSeq(q, j + 1, Len(q)) \in Seq(Wakers)
        BY <2>1, SMT
      <4>2. r \in Seq(Wakers)
        BY <4>1, SMT
      <4>3. mutex_waiters' = [mutex_waiters EXCEPT ![i] = r]
        BY <3>2
      <4> HIDE DEF r, q
      <4> QED
        BY <2>1, <4>2, <4>3 DEF InodeOK
    <3> QED
      BY <1>5, <3>1, <3>2 DEF Unregister
  <2> QED
    BY <2>1, <2>2, AdvanceTyped, PartsKept
<1>6. ASSUME Leave(t) PROVE TypeOK'
  <2>1. /\ mutex' = [mutex EXCEPT ![i] = None] /\ Goto(t, "wake_one")
        /\ UNCHANGED <<scene, resource, device, mutex_waiters, wasted, future, status, wakes,
                       signals, at, left>>
    BY <1>6 DEF Leave
  <2>2. InodeOK'
    BY <2>1 DEF InodeOK
  <2> QED
    BY <2>1, <2>2, GotoTyped, PartsKept DEF Labels
<1>7. ASSUME WakeOne(t) PROVE TypeOK'
  <2>1. /\ i \in Inodes /\ q \in Seq(Wakers) /\ Advance(t)
        /\ UNCHANGED <<scene, resource, device, mutex, future, status, signals, left>>
    BY <1>a, <1>7 DEF WakeOne, At
  <2> DEFINE r == Tail(q)
             d == {Head(q)}
             b == wasted[i] \/ (mutex[i] = None /\ ~AwaitsMutex(Head(q), i))
  <2>2. \/ mutex_waiters' = mutex_waiters /\ wakes' = wakes /\ wasted' = wasted
        \/ /\ q # <<>>
           /\ mutex_waiters' = [mutex_waiters EXCEPT ![i] = r]
           /\ wakes' = [wakes EXCEPT ![t] = d]
           /\ wasted' = [wasted EXCEPT ![i] = b]
    BY <1>7 DEF WakeOne
  <2>3. q # <<>> => r \in Seq(Wakers) /\ d \in SUBSET Wakers
    BY <2>1, SMT
  <2>6. b \in BOOLEAN
    OBVIOUS
  <2> HIDE DEF r, d, q, b
  <2>4. InodeOK'
    BY <2>1, <2>2, <2>3, <2>6 DEF InodeOK
  <2>5. WakeOK'
    BY <2>1, <2>2, <2>3, WakesTyped, PartsKept
  <2> QED
    BY <2>1, <2>4, <2>5, AdvanceTyped, PartsKept
<1> QED
  BY <1>1, <1>2, <1>3, <1>4, <1>5, <1>6, <1>7

\* Signals and the exit.
LEMMA SignalsTyped ==
    ASSUME TypeOK, NEW t \in Tasks
    PROVE  /\ Signal(t) => TypeOK'
           /\ Kill(t) => TypeOK'
           /\ SignalWake(t) => TypeOK'
<1> USE DEF TypeOK
<1>0. PlaceOK /\ UNCHANGED <<scene, pc, at, left>> => PlaceOK'
  BY DEF PlaceOK
<1>1. ASSUME Signal(t) PROVE TypeOK'
  <2>1. /\ sig_wake' = [sig_wake EXCEPT ![t] = TRUE] /\ killed' = killed
        /\ UNCHANGED <<scene, resource, device, inode, future, status, wakes, pc, at, left>>
    BY <1>1 DEF Signal
  <2>2. SignalOK'
    BY <2>1 DEF SignalOK
  <2> QED
    BY <1>0, <2>1, <2>2, PartsKept
<1>2. ASSUME Kill(t) PROVE TypeOK'
  <2>1. /\ killed' = [killed EXCEPT ![t] = TRUE]
        /\ sig_wake' = [sig_wake EXCEPT ![t] = sig_wake[t] \/ status[t] = "Blocked"]
        /\ UNCHANGED <<scene, resource, device, inode, future, status, wakes, pc, at, left>>
    BY <1>2 DEF Kill
  <2>2. (sig_wake[t] \/ status[t] = "Blocked") \in BOOLEAN
    OBVIOUS
  <2>3. SignalOK'
    BY <2>1, <2>2 DEF SignalOK
  <2> QED
    BY <1>0, <2>1, <2>3, PartsKept
<1>3. ASSUME SignalWake(t) PROVE TypeOK'
  <2>1. /\ sig_wake' = [sig_wake EXCEPT ![t] = FALSE]
        /\ status' = [status EXCEPT ![t] = "Ready"]
        /\ UNCHANGED <<scene, resource, device, inode, future, wakes, killed, pc, at, left>>
    BY <1>3 DEF SignalWake
  <2>2. SignalOK' /\ WakeOK'
    BY <2>1 DEF SignalOK, WakeOK
  <2> QED
    BY <1>0, <2>1, <2>2, PartsKept
<1> QED
  BY <1>1, <1>2, <1>3

LEMMA ExitTyped ==
    ASSUME TypeOK, NEW t \in Tasks
    PROVE  /\ \A l \in Resources : CancelResource(t, l) => TypeOK'
           /\ CancelSubmission(t) => TypeOK'
<1> USE DEF TypeOK
<1>1. ASSUME NEW l \in Resources, CancelResource(t, l) PROVE TypeOK'
  <2>1. /\ left' = [left EXCEPT ![t] = @ \ {l}]
        /\ waiters' = [waiters EXCEPT ![l] = Retained(@, t)]
        /\ readers' = [readers EXCEPT ![l][t] = 0]
        /\ writer' = [writer EXCEPT ![l] = IF @ = t THEN None ELSE @]
        /\ writer_depth' = [writer_depth EXCEPT ![l] = IF writer[l] = t THEN 0 ELSE @]
        /\ wakes' = [wakes EXCEPT ![t] = WakeWaiters(waiters'[l], writer'[l], readers'[l])]
        /\ UNCHANGED <<scene, next_ticket, device, inode, future, status, signals, pc, at>>
    BY <1>1 DEF CancelResource
  <2>2. PlaceOK'
    BY <2>1 DEF PlaceOK
  <2>3. waiters' \in [Resources -> SUBSET Queue] /\ waiters'[l] \in SUBSET Queue
    BY <2>1 DEF ResourceOK, Retained
  <2>4. readers' \in [Resources -> [Tasks -> Nat]]
    <3>1. readers \in [Resources -> [Tasks -> Nat]]
      BY DEF ResourceOK
    <3>2. [readers[l] EXCEPT ![t] = 0] \in [Tasks -> Nat]
      BY <3>1
    <3> QED
      BY <2>1, <3>1, <3>2
  <2>5. writer' \in [Resources -> Tasks \cup {None}] /\ writer_depth' \in [Resources -> Nat]
    BY <2>1 DEF ResourceOK
  <2>6. ResourceOK'
    BY <2>1, <2>3, <2>4, <2>5 DEF ResourceOK
  <2>7. WakeWaiters(waiters'[l], writer'[l], readers'[l]) \in SUBSET Wakers
    BY <2>3, WakeWaitersTyped
  <2>8. WakeOK'
    BY <2>1, <2>7, WakesTyped
  <2> QED
    BY <2>1, <2>2, <2>6, <2>8, PartsKept
<1>2. ASSUME CancelSubmission(t) PROVE TypeOK'
  <2>1. /\ dev_waiters' = Retained(dev_waiters, t) /\ Goto(t, "dead")
        /\ wakes' = [wakes EXCEPT ![t] = WakeFront(dev_waiters', owner)]
        /\ UNCHANGED <<scene, resource, owner, dev, dev_next_ticket, inode, future, status,
                       signals, at, left>>
    BY <1>2 DEF CancelSubmission
  <2>2. DeviceOK'
    BY <2>1 DEF DeviceOK, Retained
  <2>3. WakeFront(dev_waiters', owner) \in SUBSET Wakers
    BY <2>2, WakeFrontTyped DEF DeviceOK
  <2>4. WakeOK' /\ PlaceOK'
    BY <2>1, <2>3, WakesTyped, GotoTyped DEF Labels
  <2> QED
    BY <2>1, <2>2, <2>4, PartsKept
<1> QED
  BY <1>1, <1>2

-----------------------------------------------------------------------------
\* Where a task is.

\* What a step of one task leaves alone of another.
Same(u) ==
    /\ scene' = scene
    /\ pc'[u] = pc[u] /\ at'[u] = at[u] /\ left'[u] = left[u]
    /\ ticket'[u] = ticket[u] /\ call'[u] = call[u]

LEMMA Others ==
    ASSUME TypeOK, NEW t \in Tasks, Step(t), NEW u \in Tasks, u # t
    PROVE  Same(u) /\ wakes'[u] = wakes[u]
<1>0. /\ pc \in [Tasks -> Labels] /\ at \in [Tasks -> Nat \ {0}]
      /\ left \in [Tasks -> SUBSET Resources] /\ ticket \in [Tasks -> Nat]
      /\ call \in [Tasks -> Nat] /\ wakes \in [Tasks -> SUBSET Wakers]
  BY DEF TypeOK, PlaceOK, FutureOK, WakeOK
<1> USE <1>0
<1> USE DEF Same, Goto, Advance, BlockOn, future
<1>1. CASE LoopHead(t) \/ BlockIfNotWoken(t) \/ Resume(t)
  BY <1>1 DEF LoopHead, BlockIfNotWoken, Resume
<1>2. CASE Wake(t)
  <2>1. PICK w \in wakes[t] :
            /\ wakes' = [wakes EXCEPT ![t] = @ \ {w}]
            /\ UNCHANGED <<scene, ticket, call, pc, at, left>>
    BY <1>2 DEF Wake
  <2> QED
    BY <2>1
<1>3. CASE Lock(t)
  BY <1>3 DEF Lock, Acquire
<1>4. CASE PollLock(t)
  BY <1>4 DEF PollLock, Acquire
<1>5. CASE Unlock(t)
  BY <1>5 DEF Unlock
<1>6. CASE Submit(t) \/ Guard(t) \/ DropDevice(t) \/ Release(t)
  BY <1>6 DEF Submit, Guard, DropDevice, Release
<1>7. CASE PollSubmission(t)
  BY <1>7 DEF PollSubmission
<1>8. CASE Enter(t) \/ PollMutex(t)
  BY <1>8 DEF Enter, PollMutex
<1>9. CASE Register(t)
  <2>1. /\ UNCHANGED <<scene, future, at, left>> /\ pc' = [pc EXCEPT ![t] = "retry"]
        /\ \/ wakes' = wakes
           \/ \E d : wakes' = [wakes EXCEPT ![t] = d]
    BY <1>9 DEF Register
  <2> QED
    BY <2>1
<1>10. CASE Retry(t) \/ Leave(t)
  BY <1>10 DEF Retry, Leave
<1>11. CASE Unregister(t)
  BY <1>11 DEF Unregister
<1>12. CASE WakeOne(t)
  <2>1. /\ UNCHANGED <<scene, future, left>> /\ Advance(t)
        /\ \/ wakes' = wakes
           \/ \E d : wakes' = [wakes EXCEPT ![t] = d]
    BY <1>12 DEF WakeOne
  <2> QED
    BY <2>1
<1>13. CASE \E l \in Resources : CancelResource(t, l)
  BY <1>13, SMT DEF CancelResource
<1>14. CASE CancelSubmission(t)
  BY <1>14 DEF CancelSubmission
<1> QED
  BY <1>1, <1>2, <1>3, <1>4, <1>5, <1>6, <1>7, <1>8, <1>9, <1>10, <1>11, <1>12, <1>13, <1>14
     DEF Step

LEMMA SameNow ==
    ASSUME NEW u \in Tasks, Same(u)
    PROVE  Now(u)' = Now(u) /\ Script(u)' = Script(u)
BY DEF Same, Now, Script

LEMMA StepPlaced ==
    ASSUME TypeOK, TypeOK', Placed, NEW t \in Tasks, Step(t)
    PROVE  Placed'
<1>1. ASSUME NEW u \in Tasks, u # t PROVE PlacedAt(u)'
  <2>1. Same(u) /\ Now(u)' = Now(u) /\ Script(u)' = Script(u)
    BY <1>1, Others, SameNow
  <2> QED
    BY <2>1 DEF Placed, PlacedAt, Same
<1>2. PlacedAt(t)'
  <2> USE DEF Placed, PlacedAt, Calling, Using, Trying
  <2> DEFINE Stays == scene' = scene /\ at' = at /\ left' = left
  <2>0. Stays => Now(t)' = Now(t) /\ Script(t)' = Script(t)
    BY DEF Now, Script
  <2>1. ASSUME NEW l, Stays, pc' = [pc EXCEPT ![t] = l],
               \/ l = "run" \/ l = "exit"
               \/ l \in {"loop", "poll", "pending", "asleep"} /\ pc[t] \in Calling
               \/ l \in {"device", "release"} /\ pc[t] \in Using
               \/ l \in {"register", "retry", "unregister", "pending"} /\ pc[t] \in Trying
               \/ /\ l \in {"loop", "pending"} /\ at[t] <= Len(Script(t))
                  /\ Now(t).op \in {"lock", "request", "enter"}
               \/ l = "register" /\ at[t] <= Len(Script(t)) /\ Now(t).op = "enter"
               \/ l = "guard" /\ at[t] <= Len(Script(t)) /\ Now(t).op = "request"
               \/ l = "wake_one" /\ at[t] <= Len(Script(t)) /\ Now(t).op = "leave"
               \/ l = "dead" /\ left[t] = {}
        PROVE  PlacedAt(t)'
    <3>1. pc'[t] = l
      BY <2>1 DEF TypeOK, PlaceOK
    <3> QED
      BY <2>0, <2>1, <3>1
  <2>2. ASSUME Advance(t) PROVE PlacedAt(t)'
    BY <2>2 DEF Advance, Goto, TypeOK, PlaceOK
  <2> HIDE DEF Placed, PlacedAt
  <2> USE DEF Goto, At, Doing, BlockOn
  <2>3. CASE LoopHead(t)
    <3>1. CASE killed[t]
      <4>1. pc'[t] = "exit"
        BY <2>3, <3>1 DEF LoopHead, TypeOK, PlaceOK, SignalOK
      <4> QED
        BY <4>1 DEF PlacedAt
    <3>2. CASE ~killed[t]
      BY <2>1, <2>3, <3>2 DEF LoopHead
    <3> QED
      BY <3>1, <3>2
  <2>4. CASE BlockIfNotWoken(t) \/ Resume(t)
    BY <2>1, <2>4 DEF BlockIfNotWoken, Resume
  <2>5. CASE Wake(t)
    <3>1. Stays /\ pc' = pc
      BY <2>5 DEF Wake
    <3> QED
      BY <2>0, <3>1 DEF Placed, PlacedAt
  <2>6. CASE Lock(t) \/ PollLock(t) \/ Unlock(t)
    BY <2>1, <2>2, <2>6 DEF Lock, PollLock, Unlock
  <2>7. CASE Submit(t) \/ PollSubmission(t)
    BY <2>1, <2>7 DEF Submit, PollSubmission
  <2>8. CASE Guard(t) \/ DropDevice(t) \/ Release(t)
    BY <2>1, <2>2, <2>8 DEF Guard, DropDevice, Release
  <2>9. CASE Enter(t) \/ PollMutex(t)
    BY <2>1, <2>2, <2>9 DEF Enter, PollMutex
  <2>10. CASE Register(t) \/ Retry(t) \/ Unregister(t)
    BY <2>1, <2>2, <2>10 DEF Register, Retry, Unregister
  <2>11. CASE Leave(t) \/ WakeOne(t)
    BY <2>1, <2>2, <2>11 DEF Leave, WakeOne
  <2>12. CASE \E l \in Resources : CancelResource(t, l)
    <3>1. pc[t] = "exit" /\ pc' = pc
      BY <2>12 DEF CancelResource
    <3> QED
      BY <3>1 DEF PlacedAt
  <2>13. CASE CancelSubmission(t)
    BY <2>1, <2>13 DEF CancelSubmission
  <2> QED
    BY <2>3, <2>4, <2>5, <2>6, <2>7, <2>8, <2>9, <2>10, <2>11, <2>12, <2>13 DEF Step
<1> QED
  BY <1>1, <1>2 DEF Placed

LEMMA StepTyped ==
    ASSUME TypeOK, Placed, WriterExcludes, NEW t \in Tasks, Step(t)
    PROVE  TypeOK'
BY BlockingTyped, LockTyped, DeviceTyped, MutexTyped, ExitTyped DEF Step

-----------------------------------------------------------------------------
\* The device token.

LEMMA StepToken ==
    ASSUME TypeOK, TypeOK', Token, NEW t \in Tasks, Step(t)
    PROVE  Token'
<1>0. pc \in [Tasks -> Labels]
  BY DEF TypeOK, PlaceOK
<1> USE DEF Using
<1>1. \A u \in Tasks : u # t => pc'[u] = pc[u]
  BY Others DEF Same
<1>2. ASSUME owner' = owner, dev' = dev, pc[t] \notin Using, pc'[t] \notin Using
      PROVE  Token'
  BY <1>1, <1>2 DEF Token
<1> HIDE DEF Using
<1> USE DEF Goto, At, Doing, Advance, BlockOn, device
<1>3. CASE LoopHead(t) \/ BlockIfNotWoken(t) \/ Resume(t)
  <2>1. /\ owner' = owner /\ dev' = dev /\ pc[t] \in {"loop", "pending", "asleep"}
        /\ pc'[t] \in {"loop", "poll", "asleep", "exit"}
    BY <1>0, <1>3 DEF LoopHead, BlockIfNotWoken, Resume
  <2> QED
    BY <1>2, <2>1 DEF Using
<1>4. CASE Wake(t)
  <2>1. owner' = owner /\ dev' = dev /\ pc' = pc
    BY <1>4 DEF Wake
  <2> QED
    BY <2>1 DEF Token
<1>5. CASE Lock(t) \/ PollLock(t) \/ Unlock(t)
  <2>1. /\ owner' = owner /\ dev' = dev /\ pc[t] \in {"run", "poll"}
        /\ pc'[t] \in {"run", "loop", "pending"}
    BY <1>0, <1>5 DEF Lock, PollLock, Unlock
  <2> QED
    BY <1>2, <2>1 DEF Using
<1>6. CASE Submit(t) \/ PollSubmission(t)
  <2>1. pc[t] \in {"run", "poll"} /\ dev' = dev
    BY <1>6 DEF Submit, PollSubmission
  <2>2. \/ owner = None /\ owner' = t /\ pc'[t] = "guard"
        \/ owner' = owner /\ pc'[t] \in {"loop", "pending"}
    BY <1>0, <1>6 DEF Submit, PollSubmission, DevCanAcquire
  <2>3. CASE owner = None /\ owner' = t /\ pc'[t] = "guard"
    BY <1>1, <2>1, <2>3, StorageAssumption DEF Token, Using
  <2>4. CASE owner' = owner /\ pc'[t] \in {"loop", "pending"}
    BY <1>2, <2>1, <2>4 DEF Using
  <2> QED
    BY <2>2, <2>3, <2>4
<1>7. CASE Guard(t) \/ DropDevice(t) \/ Release(t)
  <2>1. \/ pc[t] = "guard" /\ pc'[t] = "device" /\ owner' = owner /\ dev = None /\ dev' = t
        \/ pc[t] = "device" /\ pc'[t] = "release" /\ owner' = owner /\ dev' = None
        \/ pc[t] = "release" /\ pc'[t] = "run" /\ owner = t /\ owner' = None /\ dev' = dev
    BY <1>0, <1>7 DEF Guard, DropDevice, Release
  <2> QED
    BY <1>1, <2>1, StorageAssumption DEF Token, Using
<1>8. CASE Enter(t) \/ PollMutex(t) \/ Leave(t)
  <2>1. /\ owner' = owner /\ dev' = dev /\ pc[t] \in {"run", "poll"}
        /\ pc'[t] \in {"run", "loop", "register", "wake_one"}
    BY <1>0, <1>8 DEF Enter, PollMutex, Leave
  <2> QED
    BY <1>2, <2>1 DEF Using
<1>9. CASE Register(t) \/ Retry(t) \/ Unregister(t) \/ WakeOne(t)
  <2>1. /\ owner' = owner /\ dev' = dev
        /\ pc[t] \in {"register", "retry", "unregister", "wake_one"}
        /\ pc'[t] \in {"run", "retry", "unregister", "pending"}
    BY <1>0, <1>9 DEF Register, Retry, Unregister, WakeOne
  <2> QED
    BY <1>2, <2>1 DEF Using
<1>10. CASE (\E l \in Resources : CancelResource(t, l)) \/ CancelSubmission(t)
  <2>1. owner' = owner /\ dev' = dev /\ pc[t] = "exit" /\ pc'[t] \in {"exit", "dead"}
    BY <1>0, <1>10 DEF CancelResource, CancelSubmission
  <2> QED
    BY <1>2, <2>1 DEF Using
<1> QED
  BY <1>3, <1>4, <1>5, <1>6, <1>7, <1>8, <1>9, <1>10 DEF Step

-----------------------------------------------------------------------------
\* The holders of a resource.

\* What every step but one of these leaves alone.
ResourceStep(t) ==
    Lock(t) \/ PollLock(t) \/ Unlock(t) \/ \E l \in Resources : CancelResource(t, l)
DeviceStep(t) == PollSubmission(t) \/ CancelSubmission(t)

LEMMA ResourceKept ==
    ASSUME NEW t \in Tasks, Step(t), ~ResourceStep(t)
    PROVE  UNCHANGED resource
BY DEF Step, ResourceStep, LoopHead, BlockIfNotWoken, Resume, Wake, Submit, PollSubmission,
       Guard, DropDevice, Release, Enter, PollMutex, Register, Retry, Unregister, Leave, WakeOne,
       CancelSubmission

LEMMA DevQueueKept ==
    ASSUME NEW t \in Tasks, Step(t), ~DeviceStep(t)
    PROVE  UNCHANGED <<dev_waiters, dev_next_ticket>>
BY DEF Step, DeviceStep, LoopHead, BlockIfNotWoken, Resume, Wake, Lock, PollLock, Unlock, Submit,
       Guard, DropDevice, Release, Enter, PollMutex, Register, Retry, Unregister, Leave, WakeOne,
       CancelResource, device

\* Of another resource, and of another task's count.
Kept(m) ==
    /\ readers'[m] = readers[m] /\ writer'[m] = writer[m] /\ writer_depth'[m] = writer_depth[m]
    /\ waiters'[m] = waiters[m] /\ next_ticket'[m] = next_ticket[m]
OthersRead(t, l) == \A u \in Tasks : u # t => readers'[l][u] = readers[l][u]

LEMMA AcquireEffect ==
    ASSUME TypeOK, NEW t \in Tasks, NEW l \in Resources, NEW mode \in Modes, NEW q,
           Acquire(t, l, mode, q)
    PROVE  /\ \A m \in Resources : m # l => Kept(m)
           /\ OthersRead(t, l) /\ waiters'[l] = q /\ next_ticket'[l] = next_ticket[l]
           /\ mode = "Read" => /\ writer'[l] = writer[l] /\ writer_depth'[l] = writer_depth[l]
                               /\ readers'[l][t] = readers[l][t] + 1
           /\ mode = "Write" => /\ writer'[l] = t /\ readers'[l] = readers[l]
                                /\ writer_depth'[l] = IF writer[l] = t THEN writer_depth[l] + 1
                                                      ELSE 1
<1>1. /\ waiters' = [waiters EXCEPT ![l] = q] /\ next_ticket' = next_ticket
      /\ \/ /\ mode = "Read"
            /\ readers' = [readers EXCEPT ![l][t] = @ + 1]
            /\ writer' = writer /\ writer_depth' = writer_depth
         \/ /\ mode = "Write"
            /\ writer' = [writer EXCEPT ![l] = t]
            /\ writer_depth' = [writer_depth EXCEPT ![l] = IF writer[l] = t THEN @ + 1 ELSE 1]
            /\ readers' = readers
  BY DEF Acquire
<1>2. waiters'[l] = q /\ \A m \in Resources : m # l => waiters'[m] = waiters[m]
  BY <1>1 DEF TypeOK, ResourceOK
<1>3. CASE mode = "Read"
  <2>1. readers'[l][t] = readers[l][t] + 1 /\ OthersRead(t, l)
    BY <1>1, <1>3, SMT DEF TypeOK, ResourceOK, OthersRead
  <2>2. \A m \in Resources : m # l => Kept(m)
    BY <1>1, <1>2, <1>3 DEF TypeOK, ResourceOK, Kept
  <2> QED
    BY <1>1, <1>2, <1>3, <2>1, <2>2
<1>4. CASE mode = "Write"
  <2>1. \A m \in Resources : m # l => Kept(m)
    BY <1>1, <1>2, <1>4 DEF TypeOK, ResourceOK, Kept
  <2> QED
    BY <1>1, <1>2, <1>4, <2>1 DEF TypeOK, ResourceOK, OthersRead
<1> QED
  BY <1>3, <1>4 DEF Modes

LEMMA ReleaseEffect ==
    ASSUME TypeOK, NEW t \in Tasks, NEW l \in Resources, NEW mode \in Modes,
           ReleaseOnce(t, l, mode), UNCHANGED <<waiters, next_ticket>>
    PROVE  /\ \A m \in Resources : m # l => Kept(m)
           /\ OthersRead(t, l)
           /\ mode = "Read" => /\ writer'[l] = writer[l] /\ writer_depth'[l] = writer_depth[l]
                               /\ readers'[l][t] = readers[l][t] - 1
           /\ mode = "Write" => /\ writer[l] = t /\ readers'[l] = readers[l]
                                /\ writer'[l] = IF writer_depth[l] = 1 THEN None ELSE t
                                /\ writer_depth'[l] = writer_depth[l] - 1
<1>1. CASE mode = "Read"
  <2>1. /\ readers' = [readers EXCEPT ![l][t] = @ - 1]
        /\ writer' = writer /\ writer_depth' = writer_depth
    BY <1>1 DEF ReleaseOnce
  <2> QED
    BY <1>1, <2>1 DEF TypeOK, ResourceOK, Kept, OthersRead
<1>2. CASE mode = "Write"
  <2>1. /\ writer[l] = t
        /\ writer_depth' = [writer_depth EXCEPT ![l] = @ - 1]
        /\ writer' = [writer EXCEPT ![l] = IF writer_depth[l] = 1 THEN None ELSE @]
        /\ readers' = readers
    BY <1>2 DEF ReleaseOnce
  <2> QED
    BY <1>2, <2>1 DEF TypeOK, ResourceOK, Kept, OthersRead
<1> QED
  BY <1>1, <1>2 DEF Modes

LEMMA CancelEffect ==
    ASSUME TypeOK, NEW t \in Tasks, NEW l \in Resources, CancelResource(t, l)
    PROVE  /\ \A m \in Resources : m # l => Kept(m)
           /\ OthersRead(t, l) /\ readers'[l][t] = 0
           /\ writer'[l] = IF writer[l] = t THEN None ELSE writer[l]
           /\ writer_depth'[l] = IF writer[l] = t THEN 0 ELSE writer_depth[l]
           /\ waiters'[l] = Retained(waiters[l], t) /\ next_ticket'[l] = next_ticket[l]
           /\ wakes'[t] = WakeWaiters(waiters'[l], writer'[l], readers'[l])
           /\ left'[t] = left[t] \ {l} /\ pc' = pc
<1>1. /\ left' = [left EXCEPT ![t] = @ \ {l}]
      /\ waiters' = [waiters EXCEPT ![l] = Retained(@, t)]
      /\ readers' = [readers EXCEPT ![l][t] = 0]
      /\ writer' = [writer EXCEPT ![l] = IF @ = t THEN None ELSE @]
      /\ writer_depth' = [writer_depth EXCEPT ![l] = IF writer[l] = t THEN 0 ELSE @]
      /\ wakes' = [wakes EXCEPT ![t] = WakeWaiters(waiters'[l], writer'[l], readers'[l])]
      /\ next_ticket' = next_ticket /\ pc' = pc
  BY DEF CancelResource
<1>2. /\ waiters'[l] = Retained(waiters[l], t)
      /\ \A m \in Resources : m # l => waiters'[m] = waiters[m]
  BY <1>1 DEF TypeOK, ResourceOK
<1>3. wakes'[t] = WakeWaiters(waiters'[l], writer'[l], readers'[l])
  BY <1>1 DEF TypeOK, WakeOK
<1>4. /\ OthersRead(t, l) /\ readers'[l][t] = 0
      /\ \A m \in Resources : m # l => readers'[m] = readers[m]
  BY <1>1 DEF TypeOK, ResourceOK, OthersRead
<1>5. /\ writer'[l] = IF writer[l] = t THEN None ELSE writer[l]
      /\ writer_depth'[l] = IF writer[l] = t THEN 0 ELSE writer_depth[l]
      /\ \A m \in Resources : m # l => /\ writer'[m] = writer[m]
                                       /\ writer_depth'[m] = writer_depth[m]
  BY <1>1 DEF TypeOK, ResourceOK
<1>6. left'[t] = left[t] \ {l}
  BY <1>1 DEF TypeOK, PlaceOK
<1> QED
  BY <1>1, <1>2, <1>3, <1>4, <1>5, <1>6 DEF Kept

\* A cancellation leaves the other resources alone and wakes who is next.
LEMMA CancelWakes ==
    ASSUME TypeOK, NEW t \in Tasks, NEW l \in Resources, CancelResource(t, l)
    PROVE  /\ \A m \in Resources : m # l => Kept(m)
           /\ wakes'[t] = WakeWaiters(waiters'[l], writer'[l], readers'[l])
<1>1. \A m \in Resources : m # l => Kept(m)
  BY CancelEffect, SMTT(30)
<1>2. wakes'[t] = WakeWaiters(waiters'[l], writer'[l], readers'[l])
  BY CancelEffect
<1> QED
  BY <1>1, <1>2

\* Lock and PollLock: the task gets the resource, gives way, or joins the queue.
Acquires(t, l, mode) ==
    /\ CanAcquire(t, l, mode, ticket[t])
    /\ Acquire(t, l, mode,
               IF ticket[t] = 0 THEN waiters[l] ELSE waiters[l] \ Front(waiters[l]))
    /\ ticket'[t] = 0 /\ pc'[t] = "run"
GivesWay(t) == UNCHANGED resource /\ ticket' = ticket
Joins(t, l, mode) ==
    /\ ~CanAcquire(t, l, mode, 0) /\ ticket[t] = 0
    /\ waiters' = [waiters EXCEPT ![l] = @ \cup
          {[ticket |-> next_ticket[l], tid |-> t, mode |-> mode, call |-> call[t]]}]
    /\ next_ticket' = [next_ticket EXCEPT ![l] = @ + 1]
    /\ ticket' = [ticket EXCEPT ![t] = next_ticket[l]]
    /\ UNCHANGED <<readers, writer, writer_depth>>

LEMMA LockCases ==
    ASSUME TypeOK, Ticketed, NEW t \in Tasks, Lock(t) \/ PollLock(t)
    PROVE  /\ Now(t).on \in Resources /\ Now(t).mode \in Modes /\ Now(t).op = "lock"
           /\ at[t] <= Len(Script(t)) /\ pc[t] \in {"run", "poll"} /\ wakes[t] = {}
           /\ pc'[t] \in {"run", "loop", "pending"}
           /\ left' = left /\ scene' = scene /\ status' = status
           /\ \/ Acquires(t, Now(t).on, Now(t).mode)
              \/ GivesWay(t) /\ pc'[t] = "loop" /\ ticket[t] = 0 /\ at' = at /\ wakes' = wakes
              \/ /\ GivesWay(t) /\ pc'[t] = "pending" /\ ticket[t] # 0 /\ at' = at
                 /\ call' = call /\ wakes' = wakes /\ pc[t] = "poll"
                 /\ ~CanAcquire(t, Now(t).on, Now(t).mode, ticket[t])
              \/ /\ Joins(t, Now(t).on, Now(t).mode) /\ pc'[t] = "pending" /\ at' = at
                 /\ call' = call /\ wakes' = wakes /\ pc[t] = "poll"
<1> USE DEF Goto, Advance, At, Doing, future, resource
<1>1. CASE Lock(t)
  <2>1. /\ Now(t).on \in Resources /\ Now(t).mode \in Modes /\ Now(t).op = "lock"
        /\ at[t] <= Len(Script(t)) /\ pc[t] = "run" /\ wakes[t] = {}
        /\ left' = left /\ scene' = scene /\ status' = status
    BY <1>1, NowTyped DEF Lock
  <2>2. ticket[t] = 0
    BY <2>1 DEF Ticketed, TicketOf, Calling, Gone, TypeOK, PlaceOK, ResourceOK, DeviceOK,
       FutureOK, WakeOK
  <2>3. CASE BlockOn(t) /\ UNCHANGED <<resource, wakes, ticket, at>>
    <3>1. pc'[t] = "loop"
      BY <2>3 DEF BlockOn, TypeOK, PlaceOK, FutureOK
    <3> QED
      BY <2>1, <2>2, <2>3, <3>1 DEF GivesWay
  <2>4. CASE /\ CanAcquire(t, Now(t).on, Now(t).mode, 0)
             /\ Acquire(t, Now(t).on, Now(t).mode, waiters[Now(t).on])
             /\ Advance(t) /\ UNCHANGED future
    <3>1. pc'[t] = "run" /\ ticket'[t] = 0
      BY <2>2, <2>4 DEF TypeOK, PlaceOK, ResourceOK, FutureOK
    <3> QED
      BY <2>1, <2>2, <2>4, <3>1 DEF Acquires
  <2> QED
    BY <1>1, <2>3, <2>4 DEF Lock
<1>2. CASE PollLock(t)
  <2> DEFINE l == Now(t).on
             mode == Now(t).mode
  <2>1. /\ l \in Resources /\ mode \in Modes /\ Now(t).op = "lock"
        /\ at[t] <= Len(Script(t)) /\ pc[t] = "poll" /\ wakes[t] = {}
        /\ left' = left /\ scene' = scene /\ status' = status /\ call' = call
    BY <1>2, NowTyped DEF PollLock
  <2>2. CASE /\ CanAcquire(t, l, mode, ticket[t])
             /\ Acquire(t, l, mode,
                        IF ticket[t] = 0 THEN waiters[l] ELSE waiters[l] \ Front(waiters[l]))
             /\ ticket' = [ticket EXCEPT ![t] = 0] /\ Advance(t)
    <3>1. pc'[t] = "run" /\ ticket'[t] = 0
      BY <2>2 DEF TypeOK, PlaceOK, ResourceOK, FutureOK
    <3> QED
      BY <2>1, <2>2, <3>1 DEF Acquires
  <2>3. CASE /\ ~CanAcquire(t, l, mode, ticket[t]) /\ ticket[t] # 0
             /\ Goto(t, "pending") /\ UNCHANGED <<resource, wakes, ticket, at>>
    <3>1. pc'[t] = "pending"
      BY <2>3 DEF TypeOK, PlaceOK, FutureOK
    <3> QED
      BY <2>1, <2>3, <3>1 DEF GivesWay
  <2>4. CASE /\ Joins(t, l, mode) /\ Goto(t, "pending") /\ UNCHANGED <<wakes, at>>
    <3>1. pc'[t] = "pending"
      BY <2>4 DEF TypeOK, PlaceOK
    <3> QED
      BY <2>1, <2>4, <3>1
  <2> QED
    BY <1>2, <2>2, <2>3, <2>4 DEF PollLock, Joins
<1> QED
  BY <1>1, <1>2

LEMMA UnlockCase ==
    ASSUME TypeOK, NEW t \in Tasks, Unlock(t)
    PROVE  /\ Now(t).on \in Resources /\ Now(t).mode \in Modes
           /\ ReleaseOnce(t, Now(t).on, Now(t).mode)
           /\ wakes'[t] = WakeWaiters(waiters[Now(t).on], writer'[Now(t).on], readers'[Now(t).on])
           /\ pc[t] = "run" /\ pc'[t] = "run" /\ wakes[t] = {}
           /\ UNCHANGED <<waiters, next_ticket, ticket, call, left, scene, status, woke, device>>
<1>1. Now(t).on \in Resources /\ Now(t).mode \in Modes
  BY NowTyped DEF Unlock, Doing
<1>2. wakes' = [wakes EXCEPT ![t] = WakeWaiters(waiters[Now(t).on], writer'[Now(t).on],
                                               readers'[Now(t).on])]
  BY DEF Unlock
<1>3. wakes'[t] = WakeWaiters(waiters[Now(t).on], writer'[Now(t).on], readers'[Now(t).on])
  BY <1>2 DEF TypeOK, ResourceOK, WakeOK
<1>4. pc'[t] = "run"
  BY DEF Unlock, Advance, Goto, TypeOK, PlaceOK
<1> QED
  BY <1>1, <1>3, <1>4 DEF Unlock, Doing, At, future

WriterAt(l) == writer[l] # None =>
    writer_depth[l] > 0 /\ \A u \in Tasks : u # writer[l] => readers[l][u] = 0

\* The changes of the holders of a resource: one more, one less, or none.
LEMMA AcquireExcludes ==
    ASSUME TypeOK, WriterExcludes, NEW t \in Tasks, NEW l \in Resources, NEW mode \in Modes,
           Acquires(t, l, mode)
    PROVE  WriterAt(l)'
<1> DEFINE q == IF ticket[t] = 0 THEN waiters[l] ELSE waiters[l] \ Front(waiters[l])
<1>1. Acquire(t, l, mode, q) /\ CanAcquire(t, l, mode, ticket[t])
  BY DEF Acquires
<1> HIDE DEF q
<1>2. /\ OthersRead(t, l)
      /\ mode = "Read" => /\ writer'[l] = writer[l] /\ writer_depth'[l] = writer_depth[l]
      /\ mode = "Write" => /\ writer'[l] = t /\ readers'[l] = readers[l]
                           /\ writer_depth'[l] = IF writer[l] = t THEN writer_depth[l] + 1
                                                 ELSE 1
  BY <1>1, AcquireEffect, SMT
<1>3. /\ writer[l] # None => writer[l] = t
      /\ writer[l] = None /\ mode = "Write" => \A u \in Tasks : readers[l][u] = 0
  BY <1>1 DEF CanAcquire
<1>4. WriterAt(l)
  BY DEF WriterExcludes, WriterAt
<1>5. CASE mode = "Read"
  BY <1>2, <1>3, <1>4, <1>5 DEF WriterAt, OthersRead
<1>6. CASE mode = "Write"
  <2>1. writer_depth[l] \in Nat
    BY DEF TypeOK, ResourceOK
  <2>2. writer_depth'[l] > 0
    BY <1>2, <1>6, <2>1, SMT
  <2> QED
    BY <1>2, <1>3, <1>4, <1>6, <2>2, StorageAssumption DEF WriterAt
<1> QED
  BY <1>5, <1>6 DEF Modes

LEMMA StepExcludes ==
    ASSUME TypeOK, Ticketed, WriterExcludes, NEW t \in Tasks, Step(t)
    PROVE  WriterExcludes'
<1>0. \A m \in Resources : WriterAt(m)
  BY DEF WriterExcludes, WriterAt
<1>1. \A m \in Resources : Kept(m) => WriterAt(m)'
  BY <1>0 DEF Kept, WriterAt
<1>2. ASSUME UNCHANGED resource PROVE \A m \in Resources : Kept(m)
  BY <1>2 DEF resource, Kept
<1>3. CASE Lock(t) \/ PollLock(t)
  <2>1. PICK l \in Resources, mode \in Modes : l = Now(t).on /\ mode = Now(t).mode
    BY <1>3, LockCases
  <2>2. CASE Acquires(t, l, mode)
    <3>0. PICK q : Acquire(t, l, mode, q)
      BY <2>2 DEF Acquires
    <3>1. \A m \in Resources : m # l => Kept(m)
      BY <3>0, AcquireEffect
    <3>2. WriterAt(l)'
      BY <2>2, AcquireExcludes
    <3> QED
      BY <1>1, <3>1, <3>2 DEF WriterExcludes, WriterAt
  <2>3. CASE GivesWay(t)
    BY <1>1, <1>2, <2>3 DEF GivesWay, WriterExcludes, WriterAt
  <2>4. CASE Joins(t, l, mode)
    BY <2>4 DEF Joins, WriterExcludes
  <2> QED
    BY <1>3, <2>1, <2>2, <2>3, <2>4, LockCases
<1>4. CASE Unlock(t)
  <2>1. PICK l \in Resources, mode \in Modes :
            ReleaseOnce(t, l, mode) /\ UNCHANGED <<waiters, next_ticket>>
    BY <1>4, UnlockCase
  <2>2. /\ \A m \in Resources : m # l => Kept(m)
        /\ OthersRead(t, l)
        /\ mode = "Read" => writer'[l] = writer[l] /\ writer_depth'[l] = writer_depth[l]
        /\ mode = "Write" => /\ writer[l] = t /\ readers'[l] = readers[l]
                             /\ writer'[l] = IF writer_depth[l] = 1 THEN None ELSE t
                             /\ writer_depth'[l] = writer_depth[l] - 1
    BY <2>1, ReleaseEffect, SMT
  <2>3. mode = "Read" => /\ readers[l][t] > 0 /\ readers'[l][t] = readers[l][t] - 1
    BY <2>1, ReleaseEffect DEF ReleaseOnce
  <2>4. WriterAt(l) /\ writer_depth[l] \in Nat
    BY <1>0, <2>1 DEF TypeOK, ResourceOK
  <2>5. WriterAt(l)'
    <3>1. CASE mode = "Read"
      BY <2>2, <2>3, <2>4, <3>1, SMT DEF WriterAt, OthersRead
    <3>2. CASE mode = "Write"
      BY <2>2, <2>4, <3>2, StorageAssumption, SMT DEF WriterAt
    <3> QED
      BY <2>1, <3>1, <3>2 DEF Modes
  <2> QED
    BY <1>1, <2>2, <2>5 DEF WriterExcludes, WriterAt
<1>5. ASSUME NEW l \in Resources, CancelResource(t, l) PROVE WriterExcludes'
  <2>1. /\ \A m \in Resources : m # l => Kept(m)
        /\ OthersRead(t, l) /\ readers'[l][t] = 0
        /\ writer'[l] = IF writer[l] = t THEN None ELSE writer[l]
        /\ writer_depth'[l] = IF writer[l] = t THEN 0 ELSE writer_depth[l]
    BY <1>5, CancelEffect, SMT
  <2>2. WriterAt(l)'
    BY <1>0, <2>1 DEF WriterAt, OthersRead
  <2> QED
    BY <1>1, <2>1, <2>2 DEF WriterExcludes, WriterAt
<1>6. CASE ~ResourceStep(t)
  BY <1>1, <1>2, <1>6, ResourceKept DEF WriterExcludes, WriterAt
<1> QED
  BY <1>3, <1>4, <1>5, <1>6 DEF ResourceStep

-----------------------------------------------------------------------------
\* The queues.

\* Who has gone, and how far its exit has come.
LEMMA StepGone ==
    ASSUME TypeOK, NEW t \in Tasks, Step(t), ~Gone(t), Gone(t)'
    PROVE  /\ LoopHead(t) /\ left'[t] = Resources /\ pc'[t] = "exit"
           /\ UNCHANGED <<resource, device, ticket>>
<1>0. pc \in [Tasks -> Labels] /\ left \in [Tasks -> SUBSET Resources]
  BY DEF TypeOK, PlaceOK
<1> USE <1>0
<1> USE DEF Gone, Goto, Advance, At, Doing, BlockOn
<1>1. CASE LoopHead(t)
  BY <1>1 DEF LoopHead, future
<1>2. CASE BlockIfNotWoken(t) \/ Resume(t) \/ Wake(t)
  BY <1>2 DEF BlockIfNotWoken, Resume, Wake
<1>3. CASE Lock(t) \/ PollLock(t) \/ Unlock(t)
  BY <1>3 DEF Lock, PollLock, Unlock
<1>4. CASE Submit(t) \/ PollSubmission(t) \/ Guard(t) \/ DropDevice(t) \/ Release(t)
  BY <1>4 DEF Submit, PollSubmission, Guard, DropDevice, Release
<1>5. CASE Enter(t) \/ PollMutex(t) \/ Register(t) \/ Retry(t)
  BY <1>5 DEF Enter, PollMutex, Register, Retry
<1>6. CASE Unregister(t) \/ Leave(t) \/ WakeOne(t)
  BY <1>6 DEF Unregister, Leave, WakeOne
<1>7. CASE (\E l \in Resources : CancelResource(t, l)) \/ CancelSubmission(t)
  BY <1>7 DEF CancelResource, CancelSubmission
<1> QED
  BY <1>1, <1>2, <1>3, <1>4, <1>5, <1>6, <1>7 DEF Step

\* A task that has gone only clears, or wakes.
LEMMA GoneStep ==
    ASSUME TypeOK, NEW t \in Tasks, Step(t), Gone(t)
    PROVE  /\ Wake(t) \/ (\E l \in Resources : CancelResource(t, l)) \/ CancelSubmission(t)
           /\ Gone(t)' /\ UNCHANGED <<ticket, call, at, scene>>
<1>1. Wake(t) \/ (\E l \in Resources : CancelResource(t, l)) \/ CancelSubmission(t)
  BY DEF Step, Gone, At, Doing, LoopHead, BlockIfNotWoken, Resume, Lock, PollLock, Unlock,
         Submit, PollSubmission, Guard, DropDevice, Release, Enter, PollMutex, Register, Retry,
         Unregister, Leave, WakeOne
<1>2. CASE Wake(t)
  BY <1>1, <1>2 DEF Wake, Gone
<1>3. CASE (\E l \in Resources : CancelResource(t, l)) \/ CancelSubmission(t)
  BY <1>1, <1>3 DEF CancelResource, CancelSubmission, Gone, Goto, TypeOK, PlaceOK, future
<1> QED
  BY <1>1, <1>2, <1>3

\* A step of one task makes no other a holder.
LEMMA OthersHold ==
    ASSUME TypeOK, Ticketed, NEW t \in Tasks, Step(t),
           NEW u \in Tasks, u # t, NEW m \in Resources
    PROVE  readers'[m][u] = readers[m][u] /\ (writer'[m] = u => writer[m] = u)
<1>1. ASSUME Kept(m) PROVE readers'[m][u] = readers[m][u] /\ (writer'[m] = u => writer[m] = u)
  BY <1>1 DEF Kept
<1>2. CASE Lock(t) \/ PollLock(t)
  <2>1. PICK l \in Resources, mode \in Modes : l = Now(t).on /\ mode = Now(t).mode
    BY <1>2, LockCases
  <2>2. CASE Acquires(t, l, mode)
    <3>0. PICK q : Acquire(t, l, mode, q)
      BY <2>2 DEF Acquires
    <3>1. /\ m # l => Kept(m)
          /\ OthersRead(t, l)
          /\ mode = "Read" => writer'[l] = writer[l]
          /\ mode = "Write" => writer'[l] = t
      BY <3>0, AcquireEffect, SMT
    <3> QED
      BY <1>1, <3>1 DEF OthersRead, Modes
  <2>3. CASE GivesWay(t) \/ Joins(t, l, mode)
    BY <2>3 DEF GivesWay, Joins, resource
  <2> QED
    BY <1>2, <2>1, <2>2, <2>3, LockCases
<1>3. CASE Unlock(t)
  <2>1. PICK l \in Resources, mode \in Modes :
            ReleaseOnce(t, l, mode) /\ UNCHANGED <<waiters, next_ticket>>
    BY <1>3, UnlockCase
  <2>2. /\ m # l => Kept(m)
        /\ OthersRead(t, l)
        /\ mode = "Read" => writer'[l] = writer[l]
        /\ mode = "Write" => writer'[l] = IF writer_depth[l] = 1 THEN None ELSE t
    BY <2>1, ReleaseEffect, SMT
  <2> QED
    BY <1>1, <2>2, StorageAssumption, SMT DEF OthersRead, Modes
<1>4. ASSUME NEW l \in Resources, CancelResource(t, l)
      PROVE  readers'[m][u] = readers[m][u] /\ (writer'[m] = u => writer[m] = u)
  <2>1. /\ m # l => Kept(m)
        /\ OthersRead(t, l)
        /\ writer'[l] = IF writer[l] = t THEN None ELSE writer[l]
    BY <1>4, CancelEffect, SMT
  <2> QED
    BY <1>1, <2>1, StorageAssumption DEF OthersRead
<1>5. CASE ~ResourceStep(t)
  BY <1>1, <1>5, ResourceKept DEF resource, Kept
<1> QED
  BY <1>2, <1>3, <1>4, <1>5 DEF ResourceStep

LEMMA StepGivenUp ==
    ASSUME TypeOK, Ticketed, GivenUp, NEW t \in Tasks, Step(t)
    PROVE  GivenUp'
<1> SUFFICES ASSUME NEW u \in Tasks, NEW m \in Resources, Gone(u)', m \notin left'[u]
             PROVE  readers'[m][u] = 0 /\ writer'[m] # u
  BY DEF GivenUp
<1>1. CASE u # t
  <2>1. Same(u)
    BY <1>1, Others
  <2>2. readers[m][u] = 0 /\ writer[m] # u
    BY <2>1 DEF Same, Gone, GivenUp
  <2> QED
    BY <1>1, <2>2, OthersHold
<1>2. CASE u = t /\ ~Gone(t)
  BY <1>2, StepGone
<1>3. CASE u = t /\ Gone(t)
  <2>1. CASE Wake(t) \/ CancelSubmission(t)
    <3>1. UNCHANGED <<resource, left>>
      BY <2>1 DEF Wake, CancelSubmission
    <3> QED
      BY <1>3, <3>1 DEF GivenUp, resource
  <2>2. ASSUME NEW l \in Resources, CancelResource(t, l)
        PROVE  readers'[m][u] = 0 /\ writer'[m] # u
    <3>1. /\ m # l => Kept(m)
          /\ readers'[l][t] = 0
          /\ writer'[l] = IF writer[l] = t THEN None ELSE writer[l]
          /\ left'[t] = left[t] \ {l}
      BY <2>2, CancelEffect, SMT
    <3> QED
      BY <1>3, <3>1, StorageAssumption, SMT DEF GivenUp, Kept
  <2> QED
    BY <1>3, <2>1, <2>2, GoneStep
<1> QED
  BY <1>1, <1>2, <1>3

-----------------------------------------------------------------------------
\* The queues.

\* The entry of a waiter that is at the front is all there is at the front.
LEMMA OwnFront ==
    ASSUME TypeOK, Queues, NEW l \in Resources, NEW e \in waiters[l],
           \E w \in Front(waiters[l]) : w.ticket = e.ticket
    PROVE  Front(waiters[l]) = {e}
<1>1. /\ \A w \in waiters[l] : w.ticket \in Nat
      /\ \A v, w \in waiters[l] : v.ticket = w.ticket => v = w
  BY SMT DEF TypeOK, PlaceOK, ResourceOK, FutureOK, Queue, Queues, QueueOf
<1> QED
  BY <1>1, SMT DEF Front

LEMMA OwnDevFront ==
    ASSUME TypeOK, DevQueued, NEW e \in dev_waiters,
           \E w \in Front(dev_waiters) : w.ticket = e.ticket
    PROVE  Front(dev_waiters) = {e}
<1>1. /\ \A w \in dev_waiters : w.ticket \in Nat
      /\ \A v, w \in dev_waiters : v.ticket = w.ticket => v = w
  BY DEF TypeOK, PlaceOK, DeviceOK, FutureOK, DevQueue, DevQueued
<1> QED
  BY <1>1, SMT DEF Front

\* A task that gets the resource leaves the queue without its own entry.
LEMMA AcquirePops ==
    ASSUME TypeOK, Ticketed, Queues, NEW t \in Tasks, NEW l \in Resources, NEW mode \in Modes,
           l = Now(t).on, Now(t).op = "lock", mode = Now(t).mode, pc[t] \in {"run", "poll"},
           Acquires(t, l, mode)
    PROVE  /\ waiters'[l] = {w \in waiters[l] : w.tid # t}
           /\ next_ticket'[l] = next_ticket[l]
           /\ \A m \in Resources : m # l => Kept(m)
           /\ ticket[t] # 0 => Front(waiters[l]) = {LockEntry(t)}
<1>1. PICK q : /\ Acquire(t, l, mode, q)
               /\ q = IF ticket[t] = 0 THEN waiters[l] ELSE waiters[l] \ Front(waiters[l])
  BY DEF Acquires
<1>2. /\ waiters'[l] = q /\ next_ticket'[l] = next_ticket[l]
      /\ \A m \in Resources : m # l => Kept(m)
  BY <1>1, AcquireEffect, SMT
<1>3. ASSUME NEW w \in waiters[l], w.tid = t
      PROVE  w = LockEntry(t) /\ ticket[t] # 0
  <2>1. w = LockEntry(t)
    BY <1>3 DEF Queues, QueueOf
  <2>2. w.ticket # 0
    BY SMT DEF TypeOK, ResourceOK, Queue
  <2> QED
    BY <2>1, <2>2 DEF LockEntry
<1>4. CASE ticket[t] = 0
  BY <1>1, <1>2, <1>3, <1>4
<1>5. CASE ticket[t] # 0
  <2>1. pc[t] \in Calling
    BY <1>5 DEF Ticketed, TicketOf, Gone
  <2>2. LockEntry(t) \in waiters[l]
    BY <1>5, <2>1 DEF Ticketed, TicketOf
  <2>3. \E w \in Front(waiters[l]) : w.ticket = ticket[t]
    BY <1>5 DEF Acquires, CanAcquire
  <2>4. LockEntry(t).ticket = ticket[t] /\ LockEntry(t).tid = t
    BY DEF LockEntry
  <2>5. Front(waiters[l]) = {LockEntry(t)}
    BY <2>2, <2>3, <2>4, OwnFront
  <2> QED
    BY <1>1, <1>2, <1>3, <1>5, <2>2, <2>4, <2>5
<1> QED
  BY <1>4, <1>5

\* PollSubmission: the task gets the token, gives way, or joins the queue.
DevAcquires(t) ==
    /\ owner = None /\ owner' = t
    /\ dev_waiters' = {w \in dev_waiters : w.tid # t} /\ dev_next_ticket' = dev_next_ticket
    /\ ticket'[t] = 0 /\ pc'[t] = "guard"
DevGivesWay(t) ==
    /\ ~DevCanAcquire(ticket[t]) /\ ticket[t] # 0
    /\ UNCHANGED <<owner, dev_waiters, dev_next_ticket, ticket>> /\ pc'[t] = "pending"
DevJoins(t) ==
    /\ ~DevCanAcquire(0) /\ ticket[t] = 0
    /\ dev_waiters' = dev_waiters \cup {[ticket |-> dev_next_ticket, tid |-> t, call |-> call[t]]}
    /\ dev_next_ticket' = dev_next_ticket + 1
    /\ ticket'[t] = dev_next_ticket /\ pc'[t] = "pending" /\ owner' = owner

LEMMA DevCases ==
    ASSUME TypeOK, Ticketed, DevQueued, NEW t \in Tasks, PollSubmission(t)
    PROVE  /\ Now(t).op = "request" /\ at[t] <= Len(Script(t)) /\ pc[t] = "poll"
           /\ UNCHANGED <<scene, resource, dev, call, woke, status, wakes, at, left>>
           /\ DevAcquires(t) \/ DevGivesWay(t) \/ DevJoins(t)
<1> USE DEF Goto, At, Doing
<1>1. /\ Now(t).op = "request" /\ at[t] <= Len(Script(t)) /\ pc[t] = "poll"
      /\ UNCHANGED <<scene, resource, dev, call, woke, status, wakes, at, left>>
  BY DEF PollSubmission
<1>2. CASE /\ DevCanAcquire(ticket[t])
           /\ dev_waiters' = IF ticket[t] = 0 THEN dev_waiters
                             ELSE dev_waiters \ Front(dev_waiters)
           /\ ticket' = [ticket EXCEPT ![t] = 0] /\ owner' = t
           /\ Goto(t, "guard") /\ UNCHANGED dev_next_ticket
  <2>1. /\ ticket'[t] = 0 /\ pc'[t] = "guard" /\ owner = None
        /\ owner' = t /\ dev_next_ticket' = dev_next_ticket
    BY <1>2 DEF TypeOK, PlaceOK, DeviceOK, FutureOK, DevCanAcquire
  <2>2. ASSUME NEW w \in dev_waiters, w.tid = t
        PROVE  w = DevEntry(t) /\ ticket[t] # 0
    <3>1. w = DevEntry(t)
      BY <1>1, <2>2 DEF DevQueued
    <3>2. w.ticket # 0
      BY DEF TypeOK, DeviceOK, DevQueue
    <3> QED
      BY <3>1, <3>2 DEF DevEntry
  <2>3. CASE ticket[t] = 0
    <3>1. dev_waiters' = dev_waiters
      BY <1>2, <2>3
    <3>2. dev_waiters' = {w \in dev_waiters : w.tid # t}
      BY <2>2, <2>3, <3>1
    <3> QED
      BY <1>1, <2>1, <3>2 DEF DevAcquires
  <2>4. CASE ticket[t] # 0
    <3>1. DevEntry(t) \in dev_waiters
      BY <1>1, <2>4 DEF Ticketed, TicketOf, Calling
    <3>2. DevEntry(t).ticket = ticket[t] /\ DevEntry(t).tid = t
      BY DEF DevEntry
    <3>3. Front(dev_waiters) = {DevEntry(t)}
      BY <1>2, <2>4, <3>1, <3>2, OwnDevFront DEF DevCanAcquire
    <3>4. dev_waiters' = {w \in dev_waiters : w.tid # t}
      BY <1>2, <2>2, <2>4, <3>2, <3>3
    <3> QED
      BY <1>1, <2>1, <3>4 DEF DevAcquires
  <2> QED
    BY <1>1, <2>3, <2>4
<1>3. CASE /\ ~DevCanAcquire(ticket[t]) /\ ticket[t] # 0 /\ Goto(t, "pending")
           /\ UNCHANGED <<owner, dev_waiters, dev_next_ticket, ticket>>
  BY <1>1, <1>3 DEF DevGivesWay, TypeOK, PlaceOK, FutureOK
<1>4. CASE /\ ~DevCanAcquire(ticket[t]) /\ ticket[t] = 0
           /\ dev_waiters' = dev_waiters \cup
                 {[ticket |-> dev_next_ticket, tid |-> t, call |-> call[t]]}
           /\ dev_next_ticket' = dev_next_ticket + 1
           /\ ticket' = [ticket EXCEPT ![t] = dev_next_ticket]
           /\ Goto(t, "pending") /\ UNCHANGED owner
  <2>1. pc'[t] = "pending" /\ ticket'[t] = dev_next_ticket
    BY <1>4 DEF TypeOK, PlaceOK, DeviceOK, FutureOK
  <2> QED
    BY <1>1, <1>4, <2>1 DEF DevJoins
<1>5. \/ /\ DevCanAcquire(ticket[t])
         /\ dev_waiters' = IF ticket[t] = 0 THEN dev_waiters
                           ELSE dev_waiters \ Front(dev_waiters)
         /\ ticket' = [ticket EXCEPT ![t] = 0] /\ owner' = t
         /\ Goto(t, "guard") /\ UNCHANGED dev_next_ticket
      \/ /\ ~DevCanAcquire(ticket[t]) /\ ticket[t] # 0 /\ Goto(t, "pending")
         /\ UNCHANGED <<owner, dev_waiters, dev_next_ticket, ticket>>
      \/ /\ ~DevCanAcquire(ticket[t]) /\ ticket[t] = 0
         /\ dev_waiters' = dev_waiters \cup
               {[ticket |-> dev_next_ticket, tid |-> t, call |-> call[t]]}
         /\ dev_next_ticket' = dev_next_ticket + 1
         /\ ticket' = [ticket EXCEPT ![t] = dev_next_ticket]
         /\ Goto(t, "pending") /\ UNCHANGED owner
  BY DEF PollSubmission
<1> QED
  BY <1>2, <1>3, <1>4, <1>5

\* A task in a call that does not poll keeps its place in it, or leaves for good.
LEMMA Dozes ==
    ASSUME TypeOK, NEW t \in Tasks, Step(t), pc[t] \in Calling,
           ~PollLock(t), ~PollSubmission(t), ~PollMutex(t)
    PROVE  /\ UNCHANGED <<scene, resource, device, ticket, call, at>>
           /\ \/ pc'[t] \in Calling /\ left' = left
              \/ pc'[t] = "exit" /\ left'[t] = Resources
           /\ pc'[t] \in {"pending", "asleep"} => pc[t] \in {"pending", "asleep"}
           /\ LoopHead(t) \/ BlockIfNotWoken(t) \/ Resume(t) \/ Wake(t)
<1>1. LoopHead(t) \/ BlockIfNotWoken(t) \/ Resume(t) \/ Wake(t)
  BY DEF Step, Calling, At, Doing, Lock, Unlock, Submit, Guard, DropDevice, Release, Enter,
         Register, Retry, Unregister, Leave, WakeOne, CancelResource, CancelSubmission
<1>2. UNCHANGED <<scene, resource, device, ticket, call, at>>
  BY <1>1 DEF LoopHead, BlockIfNotWoken, Resume, Wake, future
<1>3. CASE LoopHead(t)
  BY <1>2, <1>3 DEF LoopHead, At, Goto, Calling, TypeOK, PlaceOK
<1>4. CASE BlockIfNotWoken(t) \/ Resume(t)
  BY <1>2, <1>4 DEF BlockIfNotWoken, Resume, At, Goto, Calling, TypeOK, PlaceOK
<1>5. CASE Wake(t)
  BY <1>2, <1>5 DEF Wake
<1> QED
  BY <1>1, <1>3, <1>4, <1>5

\* A task that is not in a call, and has not gone.
LEMMA Awake ==
    ASSUME TypeOK, NEW t \in Tasks, Step(t), pc[t] \notin Calling, ~Gone(t)
    PROVE  /\ ticket'[t] = ticket[t]
           /\ pc'[t] \in {"pending", "asleep"} => Retry(t) /\ at' = at /\ scene' = scene
<1>0. pc \in [Tasks -> Labels] /\ ticket \in [Tasks -> Nat]
  BY DEF TypeOK, PlaceOK, FutureOK
<1> USE <1>0
<1> USE DEF Goto, Advance, At, Doing, BlockOn, future
<1>1. CASE Wake(t)
  BY <1>1 DEF Wake, Calling
<1>2. CASE Lock(t) \/ Unlock(t)
  BY <1>2 DEF Lock, Unlock
<1>3. CASE Submit(t) \/ Guard(t) \/ DropDevice(t) \/ Release(t)
  BY <1>3 DEF Submit, Guard, DropDevice, Release
<1>4. CASE Enter(t) \/ Register(t) \/ Retry(t)
  BY <1>4 DEF Enter, Register, Retry
<1>5. CASE Unregister(t) \/ Leave(t) \/ WakeOne(t)
  BY <1>5 DEF Unregister, Leave, WakeOne
<1>6. Wake(t) \/ Lock(t) \/ Unlock(t) \/ Submit(t) \/ Guard(t) \/ DropDevice(t) \/ Release(t)
        \/ Enter(t) \/ Register(t) \/ Retry(t) \/ Unregister(t) \/ Leave(t) \/ WakeOne(t)
  BY DEF Step, Calling, Gone, LoopHead, BlockIfNotWoken, Resume, PollLock, PollSubmission,
         PollMutex, CancelResource, CancelSubmission
<1> QED
  BY <1>1, <1>2, <1>3, <1>4, <1>5, <1>6

\* A step of one task moves no other in a queue.
LEMMA OthersWait ==
    ASSUME TypeOK, Ticketed, Queues, NEW t \in Tasks, Step(t), NEW m \in Resources, NEW w,
           w.tid # t
    PROVE  w \in waiters'[m] <=> w \in waiters[m]
<1>1. CASE Lock(t) \/ PollLock(t)
  <2>1. PICK l \in Resources, mode \in Modes : l = Now(t).on /\ mode = Now(t).mode
    BY <1>1, LockCases
  <2>2. CASE Acquires(t, l, mode)
    <3>1. waiters'[l] = {v \in waiters[l] : v.tid # t} /\ (m # l => Kept(m))
      BY <1>1, <2>1, <2>2, LockCases, AcquirePops, SMTT(30)
    <3> QED
      BY <3>1 DEF Kept
  <2>3. CASE GivesWay(t)
    BY <2>3 DEF GivesWay, resource
  <2>4. CASE Joins(t, l, mode)
    <3> DEFINE e == [ticket |-> next_ticket[l], tid |-> t, mode |-> mode, call |-> call[t]]
    <3>1. waiters' = [waiters EXCEPT ![l] = @ \cup {e}]
      BY <2>4 DEF Joins
    <3>2. e.tid = t
      OBVIOUS
    <3> HIDE DEF e
    <3>3. waiters'[m] = waiters[m] \/ waiters'[m] = waiters[m] \cup {e}
      BY <3>1 DEF TypeOK, ResourceOK
    <3> QED
      BY <3>2, <3>3
  <2> QED
    BY <1>1, <2>1, <2>2, <2>3, <2>4, LockCases
<1>2. CASE Unlock(t)
  BY <1>2, UnlockCase
<1>3. ASSUME NEW l \in Resources, CancelResource(t, l)
      PROVE  w \in waiters'[m] <=> w \in waiters[m]
  <2>1. waiters'[l] = Retained(waiters[l], t) /\ (m # l => Kept(m))
    BY <1>3, CancelEffect, SMT
  <2> QED
    BY <2>1 DEF Kept, Retained
<1>4. CASE ~ResourceStep(t)
  BY <1>4, ResourceKept DEF resource
<1> QED
  BY <1>1, <1>2, <1>3, <1>4 DEF ResourceStep

LEMMA OthersDevWait ==
    ASSUME TypeOK, Ticketed, DevQueued, NEW t \in Tasks, Step(t), NEW w, w.tid # t
    PROVE  w \in dev_waiters' <=> w \in dev_waiters
<1>1. CASE PollSubmission(t)
  <2> DEFINE e == [ticket |-> dev_next_ticket, tid |-> t, call |-> call[t]]
  <2>1. e.tid = t
    OBVIOUS
  <2>2. \/ dev_waiters' = {v \in dev_waiters : v.tid # t}
        \/ dev_waiters' = dev_waiters
        \/ dev_waiters' = dev_waiters \cup {e}
    BY <1>1, DevCases DEF DevAcquires, DevGivesWay, DevJoins
  <2> HIDE DEF e
  <2> QED
    BY <2>1, <2>2
<1>2. CASE CancelSubmission(t)
  BY <1>2 DEF CancelSubmission, Retained
<1>3. CASE ~DeviceStep(t)
  BY <1>3, DevQueueKept
<1> QED
  BY <1>1, <1>2, <1>3 DEF DeviceStep

LEMMA StepTicketed ==
    ASSUME TypeOK, TypeOK', Placed, Ticketed, Queues, DevQueued, NEW t \in Tasks, Step(t)
    PROVE  Ticketed'
<1>1. ASSUME NEW u \in Tasks, u # t PROVE TicketOf(u)'
  <2>1. Same(u) /\ Now(u)' = Now(u)
    BY <1>1, Others, SameNow
  <2>2. LockEntry(u)' = LockEntry(u) /\ DevEntry(u)' = DevEntry(u)
    BY <2>1 DEF Same, LockEntry, DevEntry
  <2>3. TicketOf(u)
    BY DEF Ticketed
  <2>4. ticket[u] # 0 /\ pc[u] \in Calling /\ Now(u).op = "lock"
           => LockEntry(u) \in waiters'[Now(u).on]
    <3> SUFFICES ASSUME ticket[u] # 0, pc[u] \in Calling, Now(u).op = "lock"
                 PROVE  LockEntry(u) \in waiters'[Now(u).on]
      OBVIOUS
    <3>1. Now(u).on \in Resources /\ LockEntry(u) \in waiters[Now(u).on]
      BY <2>3, NowTyped DEF Placed, PlacedAt, TicketOf
    <3>2. LockEntry(u).tid # t
      BY <1>1 DEF LockEntry
    <3> QED
      BY <3>1, <3>2, OthersWait
  <2>5. ticket[u] # 0 /\ pc[u] \in Calling /\ Now(u).op = "request"
           => DevEntry(u) \in dev_waiters'
    <3>1. DevEntry(u).tid # t
      BY <1>1 DEF DevEntry
    <3> QED
      BY <2>3, <3>1, OthersDevWait DEF TicketOf
  <2> QED
    BY <2>1, <2>2, <2>3, <2>4, <2>5 DEF TicketOf, Same, Gone
<1>2. TicketOf(t)'
  <2>0. TicketOf(t) /\ PlacedAt(t)
    BY DEF Ticketed, Placed
  <2>1. CASE Gone(t)
    <3>1. Gone(t)' /\ ticket' = ticket
      BY <2>1, GoneStep
    <3> QED
      BY <3>1 DEF TicketOf, Gone, Calling
  <2>2. CASE pc[t] \notin Calling /\ ~Gone(t)
    <3>1. ticket[t] = 0
      BY <2>0, <2>2 DEF TicketOf
    <3>2. /\ ticket'[t] = 0
          /\ pc'[t] \in {"pending", "asleep"} => Retry(t) /\ at' = at /\ scene' = scene
      BY <2>2, <3>1, Awake
    <3>3. Retry(t) => Now(t).op = "enter"
      BY <2>0 DEF PlacedAt, Retry, At, Trying
    <3> QED
      BY <3>2, <3>3 DEF TicketOf, Now, Script
  <2>3. CASE PollLock(t)
    <3>0. PICK l \in Resources, mode \in Modes :
              l = Now(t).on /\ mode = Now(t).mode /\ Now(t).op = "lock"
      BY <2>3, LockCases
    <3>1. CASE Acquires(t, l, mode)
      BY <3>1 DEF Acquires, TicketOf
    <3>2. CASE GivesWay(t) /\ pc'[t] = "loop" /\ ticket[t] = 0
      BY <3>2 DEF GivesWay, TicketOf
    <3>3. CASE GivesWay(t) /\ pc'[t] = "pending" /\ ticket[t] # 0 /\ at' = at /\ call' = call
      <4>1. scene' = scene /\ pc[t] \in Calling
        BY <2>3 DEF PollLock, Doing, At, Calling
      <4>2. Now(t)' = Now(t)
        BY <3>3, <4>1 DEF Now, Script
      <4>3. LockEntry(t)' = LockEntry(t) /\ LockEntry(t) \in waiters[l]
        BY <2>0, <3>0, <3>3, <4>1, <4>2 DEF LockEntry, GivesWay, TicketOf
      <4> QED
        BY <3>0, <3>3, <4>2, <4>3 DEF TicketOf, GivesWay, Calling, resource
    <3>4. CASE Joins(t, l, mode) /\ pc'[t] = "pending" /\ at' = at /\ call' = call
      <4>1. scene' = scene
        BY <2>3 DEF PollLock
      <4>2. Now(t)' = Now(t)
        BY <3>4, <4>1 DEF Now, Script
      <4>3. ticket'[t] = next_ticket[l] /\ next_ticket[l] # 0
        BY <3>4, SMT DEF Joins, TypeOK, PlaceOK, ResourceOK, FutureOK
      <4>4. LockEntry(t)' = [ticket |-> next_ticket[l], tid |-> t, mode |-> mode, call |-> call[t]]
        BY <3>0, <3>4, <4>2, <4>3 DEF LockEntry
      <4>5. LockEntry(t)' \in waiters'[l]
        BY <3>4, <4>4 DEF Joins, TypeOK, PlaceOK, ResourceOK, FutureOK
      <4> QED
        BY <3>0, <3>4, <4>2, <4>3, <4>5 DEF TicketOf, Calling
    <3> QED
      BY <2>3, <3>0, <3>1, <3>2, <3>3, <3>4, LockCases
  <2>4. CASE PollSubmission(t)
    <3>1. /\ Now(t).op = "request" /\ pc[t] = "poll" /\ UNCHANGED <<scene, call, at>>
          /\ DevAcquires(t) \/ DevGivesWay(t) \/ DevJoins(t)
      BY <2>4, DevCases
    <3>2. Now(t)' = Now(t)
      BY <3>1 DEF Now, Script
    <3>3. CASE DevAcquires(t)
      BY <3>3 DEF DevAcquires, TicketOf
    <3>4. CASE DevGivesWay(t)
      <4>1. DevEntry(t)' = DevEntry(t) /\ DevEntry(t) \in dev_waiters
        BY <2>0, <3>1, <3>4 DEF DevEntry, DevGivesWay, TicketOf, Calling
      <4> QED
        BY <3>1, <3>2, <3>4, <4>1 DEF TicketOf, DevGivesWay, Calling
    <3>5. CASE DevJoins(t)
      <4>1. ticket'[t] # 0
        BY <3>5 DEF DevJoins, TypeOK, PlaceOK, DeviceOK, FutureOK
      <4>2. DevEntry(t)' \in dev_waiters'
        BY <3>1, <3>5 DEF DevEntry, DevJoins
      <4> QED
        BY <3>1, <3>2, <3>5, <4>1, <4>2 DEF TicketOf, DevJoins, Calling
    <3> QED
      BY <3>1, <3>3, <3>4, <3>5
  <2>5. CASE PollMutex(t)
    <3>1. Now(t).op = "enter" /\ pc[t] = "poll" /\ ticket' = ticket
      BY <2>5 DEF PollMutex, Doing, At, future
    <3>2. ticket[t] = 0
      BY <2>0, <3>1 DEF TicketOf, Gone
    <3>3. pc'[t] \in {"run", "register"}
      BY <2>5 DEF PollMutex, Advance, Goto, TypeOK, PlaceOK, InodeOK
    <3> QED
      BY <3>1, <3>2, <3>3 DEF TicketOf
  <2>6. CASE /\ pc[t] \in Calling
             /\ ~PollLock(t) /\ ~PollSubmission(t) /\ ~PollMutex(t)
    <3>1. /\ UNCHANGED <<scene, resource, device, ticket, call, at>>
          /\ pc'[t] \in Calling \/ pc'[t] = "exit"
          /\ pc'[t] \in {"pending", "asleep"} => pc[t] \in {"pending", "asleep"}
      BY <2>6, Dozes
    <3>2. Now(t)' = Now(t)
      BY <3>1 DEF Now, Script
    <3>3. LockEntry(t)' = LockEntry(t) /\ DevEntry(t)' = DevEntry(t)
      BY <3>1, <3>2 DEF LockEntry, DevEntry
    <3> QED
      BY <2>0, <2>6, <3>1, <3>2, <3>3 DEF TicketOf, Gone, Calling, resource, device
  <2> QED
    BY <2>1, <2>2, <2>3, <2>4, <2>5, <2>6
<1> QED
  BY <1>1, <1>2 DEF Ticketed

\* How a queue changes: it loses entries, or the task that polls joins it.
LEMMA QueueMoves ==
    ASSUME TypeOK, Ticketed, Queues, NEW t \in Tasks, Step(t), NEW m \in Resources
    PROVE  \/ waiters'[m] \subseteq waiters[m] /\ next_ticket'[m] = next_ticket[m]
           \/ /\ Now(t).op = "lock" /\ m = Now(t).on /\ Now(t)' = Now(t) /\ ticket[t] = 0
              /\ pc[t] = "poll" /\ pc'[t] = "pending" /\ ticket'[t] = next_ticket[m]
              /\ waiters'[m] = waiters[m] \cup {LockEntry(t)'}
              /\ next_ticket'[m] = next_ticket[m] + 1
<1>1. CASE Lock(t) \/ PollLock(t)
  <2>1. PICK l \in Resources, mode \in Modes :
            l = Now(t).on /\ mode = Now(t).mode /\ Now(t).op = "lock" /\ pc[t] \in {"run", "poll"}
    BY <1>1, LockCases
  <2>2. CASE Acquires(t, l, mode)
    <3>1. /\ waiters'[l] = {w \in waiters[l] : w.tid # t} /\ next_ticket'[l] = next_ticket[l]
          /\ m # l => Kept(m)
      BY <2>1, <2>2, AcquirePops
    <3> QED
      BY <3>1 DEF Kept
  <2>3. CASE GivesWay(t)
    BY <2>3 DEF GivesWay, resource
  <2>4. CASE /\ Joins(t, l, mode) /\ pc'[t] = "pending" /\ at' = at /\ call' = call
             /\ pc[t] = "poll"
    <3>1. Now(t)' = Now(t)
      BY <1>1, <2>4, LockCases DEF Now, Script
    <3> DEFINE e == [ticket |-> next_ticket[l], tid |-> t, mode |-> mode, call |-> call[t]]
    <3>2. ticket'[t] = next_ticket[l] /\ ticket[t] = 0
      BY <2>4 DEF Joins, TypeOK, PlaceOK, ResourceOK, FutureOK
    <3>3. LockEntry(t)' = e
      BY <2>1, <2>4, <3>1, <3>2 DEF LockEntry
    <3>4. /\ waiters' = [waiters EXCEPT ![l] = @ \cup {e}]
          /\ next_ticket' = [next_ticket EXCEPT ![l] = @ + 1]
      BY <2>4 DEF Joins
    <3> HIDE DEF e
    <3>5. CASE m = l
      BY <2>1, <2>4, <3>1, <3>2, <3>3, <3>4, <3>5 DEF TypeOK, PlaceOK, ResourceOK, FutureOK
    <3>6. CASE m # l
      BY <3>4, <3>6 DEF TypeOK, ResourceOK
    <3> QED
      BY <3>5, <3>6
  <2> QED
    BY <1>1, <2>1, <2>2, <2>3, <2>4, LockCases
<1>2. CASE Unlock(t)
  BY <1>2, UnlockCase
<1>3. ASSUME NEW l \in Resources, CancelResource(t, l)
      PROVE  waiters'[m] \subseteq waiters[m] /\ next_ticket'[m] = next_ticket[m]
  <2>1. /\ waiters'[l] = Retained(waiters[l], t) /\ next_ticket'[l] = next_ticket[l]
        /\ m # l => Kept(m)
    BY <1>3, CancelEffect, SMT
  <2> QED
    BY <2>1 DEF Kept, Retained
<1>4. CASE ~ResourceStep(t)
  BY <1>4, ResourceKept DEF resource
<1> QED
  BY <1>1, <1>2, <1>3, <1>4 DEF ResourceStep

\* The task's own entry, while it stays.
LEMMA OwnEntry ==
    ASSUME TypeOK, Placed, Ticketed, Queues, DevQueued, NEW t \in Tasks, Step(t),
           NEW m \in Resources, NEW w \in waiters[m], w.tid = t, w \in waiters'[m]
    PROVE  \/ (Waits(t, "lock") /\ Now(t).on = m)' /\ w = LockEntry(t)'
           \/ pc'[t] = "exit" /\ m \in left'[t]
<1>1. w.ticket # 0
  BY SMT DEF TypeOK, ResourceOK, Queue
<1>2. CASE pc[t] = "exit" /\ m \in left[t]
  <2>1. CASE Wake(t)
    BY <1>2, <2>1 DEF Wake
  <2>2. CASE CancelSubmission(t)
    BY <1>2, <2>2 DEF CancelSubmission
  <2>3. ASSUME NEW l \in Resources, CancelResource(t, l)
        PROVE  pc'[t] = "exit" /\ m \in left'[t]
    <3>1. waiters'[l] = Retained(waiters[l], t) /\ left'[t] = left[t] \ {l} /\ pc' = pc
      BY <2>3, CancelEffect, SMT
    <3> QED
      BY <1>2, <3>1 DEF Retained
  <2> QED
    BY <1>2, <2>1, <2>2, <2>3, GoneStep DEF Gone
<1>3. CASE Waits(t, "lock") /\ Now(t).on = m /\ w = LockEntry(t)
  <2>0. ticket[t] # 0 /\ Now(t).op = "lock" /\ pc[t] \in Calling
    BY <1>1, <1>3, SMT DEF LockEntry, Waits
  <2>1. CASE PollLock(t)
    <3>1. PICK l \in Resources, mode \in Modes :
              /\ l = Now(t).on /\ mode = Now(t).mode /\ Now(t).op = "lock"
              /\ pc[t] \in {"run", "poll"} /\ scene' = scene
      BY <2>1, LockCases
    <3>2. ~Acquires(t, l, mode)
      BY <1>3, <3>1, AcquirePops, SMT
    <3>3. ~Joins(t, l, mode)
      BY <2>0 DEF Joins
    <3>4. GivesWay(t) /\ pc'[t] = "pending" /\ at' = at /\ call' = call
      BY <2>0, <2>1, <3>1, <3>2, <3>3, LockCases
    <3>5. Now(t)' = Now(t)
      BY <3>1, <3>4 DEF Now, Script
    <3>6. LockEntry(t)' = LockEntry(t)
      BY <3>4, <3>5 DEF LockEntry, GivesWay
    <3> QED
      BY <1>3, <2>0, <3>4, <3>5, <3>6 DEF Waits, Calling
  <2>2. ~PollSubmission(t) /\ ~PollMutex(t)
    BY <2>0 DEF PollSubmission, PollMutex, Doing
  <2>3. CASE ~PollLock(t)
    <3>1. /\ UNCHANGED <<scene, ticket, call, at>>
          /\ pc'[t] \in Calling \/ (pc'[t] = "exit" /\ left'[t] = Resources)
      BY <2>0, <2>2, <2>3, Dozes
    <3>2. Now(t)' = Now(t)
      BY <3>1 DEF Now, Script
    <3>3. LockEntry(t)' = LockEntry(t)
      BY <3>1, <3>2 DEF LockEntry
    <3> QED
      BY <1>3, <2>0, <3>1, <3>2, <3>3 DEF Waits
  <2> QED
    BY <2>1, <2>3
<1> QED
  BY <1>2, <1>3 DEF Queues, QueueOf

LEMMA StepQueues ==
    ASSUME TypeOK, TypeOK', Placed, Ticketed, Queues, DevQueued, NEW t \in Tasks, Step(t)
    PROVE  Queues'
<1> SUFFICES ASSUME NEW m \in Resources, NEW w \in waiters'[m]
             PROVE  /\ w.ticket < next_ticket'[m]
                    /\ \/ (Waits(w.tid, "lock") /\ Now(w.tid).on = m)' /\ w = LockEntry(w.tid)'
                       \/ pc'[w.tid] = "exit" /\ m \in left'[w.tid]
                    /\ \A v \in waiters'[m] : v.ticket = w.ticket => v = w
  BY DEF Queues, QueueOf
<1> DEFINE Lost == waiters'[m] \subseteq waiters[m] /\ next_ticket'[m] = next_ticket[m]
           Won == /\ Now(t).op = "lock" /\ m = Now(t).on /\ Now(t)' = Now(t) /\ ticket[t] = 0
                  /\ pc[t] = "poll" /\ pc'[t] = "pending" /\ ticket'[t] = next_ticket[m]
                  /\ waiters'[m] = waiters[m] \cup {LockEntry(t)'}
                  /\ next_ticket'[m] = next_ticket[m] + 1
<1>1. Lost \/ Won
  BY QueueMoves
<1>2. /\ \A v \in waiters[m] : v.ticket \in Nat /\ v.ticket < next_ticket[m]
      /\ \A v, x \in waiters[m] : v.ticket = x.ticket => v = x
      /\ next_ticket[m] \in Nat
  <2>1. next_ticket[m] \in Nat /\ \A v \in waiters[m] : v.ticket \in Nat
    BY SMT DEF TypeOK, ResourceOK, Queue
  <2>2. \A v \in waiters[m] : /\ v.ticket < next_ticket[m]
                              /\ \A x \in waiters[m] : x.ticket = v.ticket => x = v
    BY DEF Queues, QueueOf
  <2> QED
    BY <2>1, <2>2
<1>3. LockEntry(t)'.ticket = ticket'[t] /\ LockEntry(t)'.tid = t
  BY DEF LockEntry
<1>4. w.ticket < next_ticket'[m] /\ \A v \in waiters'[m] : v.ticket = w.ticket => v = w
  <2>1. CASE Lost
    BY <1>2, <2>1
  <2>2. CASE Won
    BY <1>2, <1>3, <2>2, SMT
  <2> QED
    BY <1>1, <2>1, <2>2
<1>5. \/ (Waits(w.tid, "lock") /\ Now(w.tid).on = m)' /\ w = LockEntry(w.tid)'
      \/ pc'[w.tid] = "exit" /\ m \in left'[w.tid]
  <2>0. w.tid \in Tasks
    BY SMT DEF TypeOK, ResourceOK, Queue
  <2>1. CASE w.tid # t
    <3>1. w \in waiters[m]
      BY <2>1, OthersWait
    <3>2. Same(w.tid) /\ Now(w.tid)' = Now(w.tid)
      BY <2>0, <2>1, Others, SameNow
    <3>3. LockEntry(w.tid)' = LockEntry(w.tid)
      BY <3>2 DEF Same, LockEntry
    <3>4. \/ Waits(w.tid, "lock") /\ Now(w.tid).on = m /\ w = LockEntry(w.tid)
          \/ pc[w.tid] = "exit" /\ m \in left[w.tid]
      BY <3>1 DEF Queues, QueueOf
    <3> QED
      BY <3>2, <3>3, <3>4 DEF Same, Waits
  <2>2. CASE w.tid = t /\ w \in waiters[m]
    BY <2>2, OwnEntry
  <2>3. CASE w.tid = t /\ w \notin waiters[m]
    <3>1. Won /\ w = LockEntry(t)'
      BY <1>1, <2>3
    <3> QED
      BY <2>3, <3>1 DEF Waits, Calling
  <2> QED
    BY <2>1, <2>2, <2>3
<1> QED
  BY <1>4, <1>5

\* The same for the queue of the device.
LEMMA DevQueueMoves ==
    ASSUME TypeOK, Ticketed, DevQueued, NEW t \in Tasks, Step(t)
    PROVE  \/ dev_waiters' \subseteq dev_waiters /\ dev_next_ticket' = dev_next_ticket
           \/ /\ Now(t).op = "request" /\ Now(t)' = Now(t) /\ ticket[t] = 0
              /\ pc[t] = "poll" /\ pc'[t] = "pending" /\ ticket'[t] = dev_next_ticket
              /\ dev_waiters' = dev_waiters \cup {DevEntry(t)'}
              /\ dev_next_ticket' = dev_next_ticket + 1
<1>1. CASE PollSubmission(t)
  <2>1. /\ Now(t).op = "request" /\ pc[t] = "poll" /\ UNCHANGED <<scene, call, at>>
        /\ DevAcquires(t) \/ DevGivesWay(t) \/ DevJoins(t)
    BY <1>1, DevCases
  <2>2. Now(t)' = Now(t)
    BY <2>1 DEF Now, Script
  <2>3. CASE DevAcquires(t) \/ DevGivesWay(t)
    BY <2>3 DEF DevAcquires, DevGivesWay
  <2>4. CASE DevJoins(t)
    BY <2>1, <2>2, <2>4 DEF DevJoins, DevEntry
  <2> QED
    BY <2>1, <2>3, <2>4
<1>2. CASE CancelSubmission(t)
  BY <1>2 DEF CancelSubmission, Retained
<1>3. CASE ~DeviceStep(t)
  BY <1>3, DevQueueKept
<1> QED
  BY <1>1, <1>2, <1>3 DEF DeviceStep

LEMMA OwnDevEntry ==
    ASSUME TypeOK, Placed, Ticketed, DevQueued, NEW t \in Tasks, Step(t),
           NEW w \in dev_waiters, w.tid = t, w \in dev_waiters'
    PROVE  \/ Waits(t, "request")' /\ w = DevEntry(t)'
           \/ pc'[t] = "exit"
<1>1. w.ticket # 0
  BY DEF TypeOK, DeviceOK, DevQueue
<1>2. CASE pc[t] = "exit"
  <2>1. CASE Wake(t) \/ \E l \in Resources : CancelResource(t, l)
    BY <1>2, <2>1 DEF Wake, CancelResource
  <2>2. CASE CancelSubmission(t)
    BY <2>2 DEF CancelSubmission, Retained
  <2> QED
    BY <1>2, <2>1, <2>2, GoneStep DEF Gone
<1>3. CASE Waits(t, "request") /\ w = DevEntry(t)
  <2>0. ticket[t] # 0 /\ Now(t).op = "request" /\ pc[t] \in Calling
    BY <1>1, <1>3, SMT DEF DevEntry, Waits
  <2>1. CASE PollSubmission(t)
    <3>1. /\ UNCHANGED <<scene, call, at>>
          /\ DevAcquires(t) \/ DevGivesWay(t) \/ DevJoins(t)
      BY <2>1, DevCases
    <3>2. DevGivesWay(t)
      BY <2>0, <3>1 DEF DevAcquires, DevJoins
    <3>3. Now(t)' = Now(t)
      BY <3>1 DEF Now, Script
    <3>4. DevEntry(t)' = DevEntry(t)
      BY <3>1, <3>2 DEF DevEntry, DevGivesWay
    <3> QED
      BY <1>3, <2>0, <3>2, <3>3, <3>4 DEF Waits, Calling, DevGivesWay
  <2>2. ~PollLock(t) /\ ~PollMutex(t)
    BY <2>0 DEF PollLock, PollMutex, Doing
  <2>3. CASE ~PollSubmission(t)
    <3>1. /\ UNCHANGED <<scene, ticket, call, at>>
          /\ pc'[t] \in Calling \/ pc'[t] = "exit"
      BY <2>0, <2>2, <2>3, Dozes
    <3>2. Now(t)' = Now(t)
      BY <3>1 DEF Now, Script
    <3>3. DevEntry(t)' = DevEntry(t)
      BY <3>1, <3>2 DEF DevEntry
    <3> QED
      BY <1>3, <2>0, <3>1, <3>2, <3>3 DEF Waits
  <2> QED
    BY <2>1, <2>3
<1> QED
  BY <1>2, <1>3 DEF DevQueued

LEMMA StepDevQueued ==
    ASSUME TypeOK, TypeOK', Placed, Ticketed, DevQueued, NEW t \in Tasks, Step(t)
    PROVE  DevQueued'
<1> SUFFICES ASSUME NEW w \in dev_waiters'
             PROVE  /\ w.ticket < dev_next_ticket'
                    /\ \/ Waits(w.tid, "request")' /\ w = DevEntry(w.tid)'
                       \/ pc'[w.tid] = "exit"
                    /\ \A v \in dev_waiters' : v.ticket = w.ticket => v = w
  BY DEF DevQueued
<1> DEFINE Lost == dev_waiters' \subseteq dev_waiters /\ dev_next_ticket' = dev_next_ticket
           Won == /\ Now(t).op = "request" /\ Now(t)' = Now(t) /\ ticket[t] = 0
                  /\ pc[t] = "poll" /\ pc'[t] = "pending" /\ ticket'[t] = dev_next_ticket
                  /\ dev_waiters' = dev_waiters \cup {DevEntry(t)'}
                  /\ dev_next_ticket' = dev_next_ticket + 1
<1>1. Lost \/ Won
  BY DevQueueMoves
<1>2. /\ \A v \in dev_waiters : v.ticket \in Nat /\ v.ticket < dev_next_ticket
      /\ \A v, x \in dev_waiters : v.ticket = x.ticket => v = x
      /\ dev_next_ticket \in Nat
  <2>1. dev_next_ticket \in Nat /\ \A v \in dev_waiters : v.ticket \in Nat
    BY DEF TypeOK, DeviceOK, DevQueue
  <2>2. \A v \in dev_waiters : /\ v.ticket < dev_next_ticket
                               /\ \A x \in dev_waiters : x.ticket = v.ticket => x = v
    BY DEF DevQueued
  <2> QED
    BY <2>1, <2>2
<1>3. DevEntry(t)'.ticket = ticket'[t] /\ DevEntry(t)'.tid = t
  BY DEF DevEntry
<1>4. w.ticket < dev_next_ticket' /\ \A v \in dev_waiters' : v.ticket = w.ticket => v = w
  <2>1. CASE Lost
    BY <1>2, <2>1
  <2>2. CASE Won
    BY <1>2, <1>3, <2>2, SMT
  <2> QED
    BY <1>1, <2>1, <2>2
<1>5. \/ Waits(w.tid, "request")' /\ w = DevEntry(w.tid)'
      \/ pc'[w.tid] = "exit"
  <2>0. w.tid \in Tasks
    BY DEF TypeOK, DeviceOK, DevQueue
  <2>1. CASE w.tid # t
    <3>1. w \in dev_waiters
      BY <2>1, OthersDevWait
    <3>2. Same(w.tid) /\ Now(w.tid)' = Now(w.tid)
      BY <2>0, <2>1, Others, SameNow
    <3>3. DevEntry(w.tid)' = DevEntry(w.tid)
      BY <3>2 DEF Same, DevEntry
    <3>4. \/ Waits(w.tid, "request") /\ w = DevEntry(w.tid)
          \/ pc[w.tid] = "exit"
      BY <3>1 DEF DevQueued
    <3> QED
      BY <3>2, <3>3, <3>4 DEF Same, Waits
  <2>2. CASE w.tid = t /\ w \in dev_waiters
    BY <2>2, OwnDevEntry
  <2>3. CASE w.tid = t /\ w \notin dev_waiters
    <3>1. Won /\ w = DevEntry(t)'
      BY <1>1, <2>3
    <3> QED
      BY <2>3, <3>1 DEF Waits, Calling
  <2> QED
    BY <2>1, <2>2, <2>3
<1> QED
  BY <1>4, <1>5

-----------------------------------------------------------------------------
\* Wakeups.

\* A drowsy task that could go on is the front of its queue.
AtFront(u) ==
    /\ ticket[u] # 0 /\ pc[u] \in {"pending", "asleep"}
    /\ \/ /\ Now(u).op = "lock" /\ Now(u).on \in Resources
          /\ writer[Now(u).on] = None
          /\ Front(waiters[Now(u).on]) = {LockEntry(u)}
          /\ Now(u).mode = "Write" => \A x \in Tasks : readers[Now(u).on][x] = 0
       \/ /\ Now(u).op = "request" /\ owner = None
          /\ Front(dev_waiters) = {DevEntry(u)}

LEMMA FreeIsFront ==
    ASSUME NEW u \in Tasks
    PROVE  TypeOK /\ Placed /\ Ticketed /\ Queues /\ DevQueued /\ Drowsy(u) /\ Free(u)
              => AtFront(u)
<1> SUFFICES ASSUME TypeOK, Placed, Ticketed, Queues, DevQueued, Drowsy(u), Free(u)
             PROVE  AtFront(u)
  OBVIOUS
<1>1. pc[u] \in {"pending", "asleep"} /\ pc[u] \in Calling
  BY DEF Drowsy, Asleep, Calling
<1>2. Now(u).op \in {"lock", "request"}
  BY DEF Free
<1>3. ticket[u] # 0
  BY <1>1, <1>2 DEF Ticketed, TicketOf
<1>4. CASE Now(u).op = "lock"
  <2>1. Now(u).on \in Resources
    BY <1>1, <1>4, NowTyped DEF Placed, PlacedAt
  <2>2. CanAcquire(u, Now(u).on, Now(u).mode, ticket[u])
    BY <1>4 DEF Free
  <2>3. /\ writer[Now(u).on] = None
        /\ \E w \in Front(waiters[Now(u).on]) : w.ticket = ticket[u]
        /\ Now(u).mode = "Write" => \A x \in Tasks : readers[Now(u).on][x] = 0
    BY <1>3, <2>2 DEF CanAcquire
  <2>4. LockEntry(u) \in waiters[Now(u).on] /\ LockEntry(u).ticket = ticket[u]
    BY <1>1, <1>3, <1>4 DEF Ticketed, TicketOf, LockEntry
  <2>5. Front(waiters[Now(u).on]) = {LockEntry(u)}
    BY <2>1, <2>3, <2>4, OwnFront
  <2> QED
    BY <1>1, <1>3, <1>4, <2>1, <2>3, <2>5 DEF AtFront
<1>5. CASE Now(u).op = "request"
  <2>1. owner = None /\ \E w \in Front(dev_waiters) : w.ticket = ticket[u]
    BY <1>3, <1>5 DEF Free, DevCanAcquire
  <2>2. DevEntry(u) \in dev_waiters /\ DevEntry(u).ticket = ticket[u]
    BY <1>1, <1>3, <1>5 DEF Ticketed, TicketOf, DevEntry
  <2> QED
    BY <1>1, <1>3, <1>5, <2>1, <2>2, OwnDevFront DEF AtFront
<1> QED
  BY <1>2, <1>4, <1>5

LEMMA FrontIsFree ==
    ASSUME NEW u \in Tasks, ticket[u] # 0,
           \/ /\ Now(u).op = "lock" /\ writer[Now(u).on] = None
              /\ LockEntry(u) \in Front(waiters[Now(u).on])
              /\ Now(u).mode = "Write" => \A x \in Tasks : readers[Now(u).on][x] = 0
           \/ Now(u).op = "request" /\ owner = None /\ DevEntry(u) \in Front(dev_waiters)
    PROVE  Free(u)
<1>1. LockEntry(u).ticket = ticket[u] /\ LockEntry(u).mode = Now(u).mode
  BY DEF LockEntry
<1>2. DevEntry(u).ticket = ticket[u]
  BY DEF DevEntry
<1> QED
  BY <1>1, <1>2 DEF Free, CanAcquire, DevCanAcquire

\* wake_waiters and wake_front wake the front.
LEMMA FrontWoken ==
    ASSUME NEW q \in SUBSET Queue, NEW r, NEW e \in Queue, Front(q) = {e},
           e.mode = "Write" => \A x \in Tasks : r[x] = 0
    PROVE  [tid |-> e.tid, call |-> e.call] \in WakeWaiters(q, None, r)
<1>1. e \in q /\ \A v \in q : e.ticket <= v.ticket
  BY DEF Front
<1>2. \A v \in q : e.ticket \in Nat /\ v.ticket \in Nat
  BY DEF Queue
<1>3. \A v \in q : ~(v.ticket < e.ticket)
  BY <1>1, <1>2, SMT
<1> QED
  BY <1>1, <1>3 DEF WakeWaiters

LEMMA DevFrontWoken ==
    ASSUME NEW q, NEW e, Front(q) = {e}
    PROVE  [tid |-> e.tid, call |-> e.call] \in WakeFront(q, None)
BY DEF WakeFront

\* Every step but wake_by_ref: a task owes nothing when it starts it, and it
\* neither wakes another nor puts it to sleep.
LEMMA KeepsOwing ==
    ASSUME TypeOK, NEW t \in Tasks, Step(t), ~Wake(t)
    PROVE  /\ \A x \in Tasks : wakes[x] \subseteq wakes'[x]
           /\ \A u \in Tasks : u # t => status'[u] = status[u] /\ woke'[u] = woke[u]
<1>1. wakes[t] = {}
  <2> USE DEF At, Doing
  <2>1. CASE LoopHead(t) \/ BlockIfNotWoken(t) \/ Resume(t) \/ Lock(t) \/ PollLock(t) \/ Unlock(t)
    BY <2>1 DEF LoopHead, BlockIfNotWoken, Resume, Lock, PollLock, Unlock
  <2>2. CASE Submit(t) \/ PollSubmission(t) \/ Guard(t) \/ DropDevice(t) \/ Release(t)
    BY <2>2 DEF Submit, PollSubmission, Guard, DropDevice, Release
  <2>3. CASE Enter(t) \/ PollMutex(t) \/ Register(t) \/ Retry(t) \/ Leave(t)
    BY <2>3 DEF Enter, PollMutex, Register, Retry, Leave
  <2>4. CASE Unregister(t)
    BY <2>4 DEF Unregister
  <2>5. CASE WakeOne(t) \/ (\E l \in Resources : CancelResource(t, l)) \/ CancelSubmission(t)
    BY <2>5 DEF WakeOne, CancelResource, CancelSubmission
  <2> QED
    BY <2>1, <2>2, <2>3, <2>4, <2>5 DEF Step
<1>2. \A x \in Tasks : wakes[x] \subseteq wakes'[x]
  BY <1>1, Others
<1>0. woke \in [Tasks -> BOOLEAN] /\ status \in [Tasks -> {"Ready", "Blocked"}]
  BY DEF TypeOK, FutureOK, WakeOK
<1> USE <1>0
<1> USE DEF BlockOn, future
<1>3. ASSUME NEW u \in Tasks, u # t
      PROVE  status'[u] = status[u] /\ woke'[u] = woke[u]
  <2>1. CASE LoopHead(t) \/ BlockIfNotWoken(t) \/ Resume(t)
    BY <1>3, <2>1 DEF LoopHead, BlockIfNotWoken, Resume
  <2>2. CASE Lock(t) \/ PollLock(t) \/ Unlock(t)
    BY <1>3, <2>2 DEF Lock, PollLock, Unlock
  <2>3. CASE Submit(t) \/ PollSubmission(t) \/ Guard(t) \/ DropDevice(t) \/ Release(t)
    BY <1>3, <2>3 DEF Submit, PollSubmission, Guard, DropDevice, Release
  <2>4. CASE Enter(t) \/ PollMutex(t) \/ Register(t) \/ Retry(t)
    BY <1>3, <2>4 DEF Enter, PollMutex, Register, Retry
  <2>5. CASE Unregister(t) \/ Leave(t) \/ WakeOne(t)
    BY <1>3, <2>5 DEF Unregister, Leave, WakeOne
  <2>6. CASE (\E l \in Resources : CancelResource(t, l)) \/ CancelSubmission(t)
    <3>1. status' = status /\ woke' = woke
      BY <2>6 DEF CancelResource, CancelSubmission
    <3> QED
      BY <3>1
  <2> QED
    BY <2>1, <2>2, <2>3, <2>4, <2>5, <2>6 DEF Step
<1> QED
  BY <1>2, <1>3

\* A wakeup is spent on the task it is owed to, which it finds awake.
LEMMA WakeOwed ==
    ASSUME TypeOK, Owed, NEW t \in Tasks, Wake(t), NEW u \in Tasks
    PROVE  OwedTo(u)'
<1>1. PICK w \in wakes[t] :
          /\ wakes' = [wakes EXCEPT ![t] = @ \ {w}]
          /\ woke' = [woke EXCEPT ![w.tid] = @ \/ w.call = call[w.tid]]
          /\ status' = [status EXCEPT ![w.tid] = "Ready"]
          /\ UNCHANGED <<scene, resource, device, inode, ticket, call, signals, pc, at, left>>
  BY DEF Wake
<1>2. w.tid \in Tasks
  BY SMT DEF TypeOK, WakeOK, Wakers
<1>3. Now(u)' = Now(u) /\ Waker(u)' = Waker(u)
  BY <1>1 DEF Now, Script, Waker
<1>4. Free(u)' => Free(u)
  BY <1>1, <1>3 DEF Free, CanAcquire, DevCanAcquire, resource, device
<1>5. Waker(u).tid = u /\ Waker(u).call = call[u]
  BY DEF Waker
<1>6. Drowsy(u)' => Drowsy(u) /\ w # Waker(u)
  <2>1. CASE w.tid # u
    <3>1. woke'[u] = woke[u] /\ status'[u] = status[u] /\ pc' = pc
      BY <1>1, <1>2, <2>1 DEF TypeOK, FutureOK, WakeOK
    <3> QED
      BY <1>5, <2>1, <3>1 DEF Drowsy, Asleep
  <2>2. CASE w.tid = u
    <3>1. status'[u] = "Ready" /\ pc' = pc
      BY <1>1, <2>2 DEF TypeOK, WakeOK
    <3>2. woke'[u] <=> (woke[u] \/ w.call = call[u])
      BY <1>1, <2>2 DEF TypeOK, FutureOK
    <3> QED
      BY <1>5, <3>1, <3>2 DEF Drowsy, Asleep
  <2> QED
    BY <2>1, <2>2
<1>7. \A x \in Tasks : w # Waker(u) /\ Waker(u) \in wakes[x] => Waker(u) \in wakes'[x]
  BY <1>1 DEF TypeOK, WakeOK
<1> QED
  BY <1>3, <1>4, <1>6, <1>7 DEF Owed, OwedTo

\* A task that goes to sleep cannot have what it waits for, or was owed a wakeup
\* before.
LEMMA OwnOwed ==
    ASSUME TypeOK, TypeOK', Placed, Ticketed, Queues, DevQueued, Owed, NEW t \in Tasks,
           Step(t), ~Wake(t)
    PROVE  OwedTo(t)'
<1> SUFFICES ASSUME Drowsy(t)', Free(t)'
             PROVE  \E x \in Tasks : Waker(t)' \in wakes'[x]
  BY DEF OwedTo
<1>1. pc'[t] \in {"pending", "asleep"}
  BY DEF Drowsy, Asleep
<1>2. (Now(t).op)' \in {"lock", "request"}
  BY DEF Free
<1>3. CASE Gone(t)
  BY <1>1, <1>3, GoneStep DEF Gone
<1>4. CASE pc[t] \notin Calling /\ ~Gone(t)
  <2>1. Retry(t) /\ at' = at /\ scene' = scene
    BY <1>1, <1>4, Awake
  <2>2. Now(t).op = "enter"
    BY <2>1 DEF Placed, PlacedAt, Retry, At, Trying
  <2> QED
    BY <1>2, <2>1, <2>2 DEF Now, Script
<1>5. CASE PollLock(t)
  <2>a. ~Acquires(t, Now(t).on, Now(t).mode)
    BY <1>1 DEF Acquires
  <2>b. /\ Now(t).on \in Resources /\ Now(t).mode \in Modes /\ Now(t).op = "lock"
        /\ scene' = scene /\ at' = at /\ call' = call /\ pc'[t] = "pending"
        /\ \/ GivesWay(t) /\ ~CanAcquire(t, Now(t).on, Now(t).mode, ticket[t])
           \/ Joins(t, Now(t).on, Now(t).mode)
    BY <1>1, <1>5, <2>a, LockCases
  <2>0. PICK l \in Resources, mode \in Modes :
            /\ l = Now(t).on /\ mode = Now(t).mode /\ Now(t).op = "lock" /\ scene' = scene
            /\ at' = at /\ call' = call /\ pc'[t] = "pending"
            /\ \/ GivesWay(t) /\ ~CanAcquire(t, l, mode, ticket[t])
               \/ Joins(t, l, mode)
    BY <2>b
  <2>1. Now(t)' = Now(t)
    BY <2>0 DEF Now, Script
  <2>2. CanAcquire(t, l, mode, ticket[t])'
    BY <2>0, <2>1 DEF Free
  <2>3. CASE GivesWay(t) /\ ~CanAcquire(t, l, mode, ticket[t])
    BY <2>2, <2>3 DEF GivesWay, CanAcquire, resource
  <2>4. CASE Joins(t, l, mode)
    <3> DEFINE e == [ticket |-> next_ticket[l], tid |-> t, mode |-> mode, call |-> call[t]]
    <3>1. /\ ticket'[t] = next_ticket[l] /\ next_ticket[l] \in Nat \ {0}
          /\ writer' = writer /\ readers' = readers
          /\ waiters'[l] = waiters[l] \cup {e}
          /\ ~CanAcquire(t, l, mode, 0)
      BY <2>4, ZenonT(30) DEF Joins, TypeOK, ResourceOK, FutureOK
    <3>2. /\ writer[l] = None
          /\ \E w \in Front(waiters'[l]) : w.ticket = next_ticket[l]
          /\ mode = "Write" => \A x \in Tasks : readers[l][x] = 0
      BY <2>2, <3>1 DEF CanAcquire, Front
    <3>3. \A v \in waiters[l] : v.ticket \in Nat /\ v.ticket < next_ticket[l]
      BY SMTT(30) DEF Queues, QueueOf, TypeOK, PlaceOK, ResourceOK, FutureOK, Queue
    <3>4. waiters[l] = {}
      <4>1. PICK w \in Front(waiters'[l]) : w.ticket = next_ticket[l]
        BY <3>2
      <4>2. \A v \in waiters[l] : w.ticket <= v.ticket
        BY <3>1 DEF Front
      <4> QED
        BY <3>1, <3>3, <4>1, <4>2, SMT
    <3> QED
      BY <3>1, <3>2, <3>4 DEF CanAcquire
  <2> QED
    BY <2>0, <2>3, <2>4
<1>6. CASE PollSubmission(t)
  <2>1. /\ Now(t).op = "request" /\ UNCHANGED <<scene, at>>
        /\ DevGivesWay(t) \/ DevJoins(t)
    BY <1>1, <1>6, DevCases DEF DevAcquires
  <2>2. Now(t)' = Now(t)
    BY <2>1 DEF Now, Script
  <2>3. DevCanAcquire(ticket[t])'
    BY <2>1, <2>2 DEF Free
  <2>4. CASE DevGivesWay(t)
    BY <2>3, <2>4 DEF DevGivesWay, DevCanAcquire
  <2>5. CASE DevJoins(t)
    <3> DEFINE e == [ticket |-> dev_next_ticket, tid |-> t, call |-> call[t]]
    <3>1. /\ ticket'[t] = dev_next_ticket /\ dev_next_ticket \in Nat \ {0} /\ owner' = owner
          /\ dev_waiters' = dev_waiters \cup {e} /\ ~DevCanAcquire(0)
      BY <2>5 DEF DevJoins, TypeOK, PlaceOK, DeviceOK, FutureOK
    <3>2. owner = None /\ \E w \in Front(dev_waiters') : w.ticket = dev_next_ticket
      BY <2>3, <3>1 DEF DevCanAcquire, Front
    <3>3. \A v \in dev_waiters : v.ticket \in Nat /\ v.ticket < dev_next_ticket
      BY DEF DevQueued, TypeOK, PlaceOK, DeviceOK, FutureOK, DevQueue
    <3>4. dev_waiters = {}
      <4>1. PICK w \in Front(dev_waiters') : w.ticket = dev_next_ticket
        BY <3>2
      <4>2. \A v \in dev_waiters : w.ticket <= v.ticket
        BY <3>1 DEF Front
      <4> QED
        BY <3>1, <3>3, <4>1, <4>2, SMT
    <3> QED
      BY <3>1, <3>2, <3>4 DEF DevCanAcquire
  <2> QED
    BY <2>1, <2>4, <2>5
<1>7. CASE PollMutex(t)
  <2>1. pc'[t] \in {"run", "register"}
    BY <1>7 DEF PollMutex, Advance, Goto, TypeOK, PlaceOK, InodeOK
  <2> QED
    BY <1>1, <2>1
<1>8. CASE /\ pc[t] \in Calling
           /\ ~PollLock(t) /\ ~PollSubmission(t) /\ ~PollMutex(t)
  <2>1. /\ UNCHANGED <<scene, resource, device, ticket, call, at>>
        /\ LoopHead(t) \/ BlockIfNotWoken(t) \/ Resume(t)
    BY <1>8, Dozes
  <2>2. BlockIfNotWoken(t)
    BY <1>1, <2>1 DEF LoopHead, Resume, Goto, TypeOK, PlaceOK, WakeOK, SignalOK
  <2>3. pc[t] = "pending" /\ ~woke[t] /\ wakes' = wakes
    BY <1>1, <2>2 DEF BlockIfNotWoken, At, Goto, TypeOK, PlaceOK, FutureOK, WakeOK
  <2>4. Now(t)' = Now(t) /\ Waker(t)' = Waker(t)
    BY <2>1 DEF Now, Script, Waker
  <2>5. Drowsy(t) /\ Free(t)
    BY <2>1, <2>3, <2>4 DEF Drowsy, Free, CanAcquire, DevCanAcquire, resource, device
  <2> QED
    BY <2>3, <2>4, <2>5 DEF Owed, OwedTo
<1> QED
  BY <1>3, <1>4, <1>5, <1>6, <1>7, <1>8

\* Whatever lets another task go on wakes it.
LEMMA OthersOwed ==
    ASSUME TypeOK, TypeOK', Placed, Placed', Ticketed, Ticketed', Queues, Queues', DevQueued,
           DevQueued', Owed, NEW t \in Tasks, Step(t), ~Wake(t), NEW u \in Tasks, u # t
    PROVE  OwedTo(u)'
<1> SUFFICES ASSUME Drowsy(u)', Free(u)'
             PROVE  \E x \in Tasks : Waker(u)' \in wakes'[x]
  BY DEF OwedTo
<1>1. Same(u) /\ Now(u)' = Now(u)
  BY Others, SameNow
<1>2. /\ Waker(u)' = Waker(u) /\ LockEntry(u)' = LockEntry(u) /\ DevEntry(u)' = DevEntry(u)
      /\ ticket'[u] = ticket[u]
  BY <1>1 DEF Same, Waker, LockEntry, DevEntry
<1>3. Drowsy(u)
  BY <1>1, KeepsOwing DEF Same, Drowsy, Asleep
<1>4. /\ Waker(u) = [tid |-> LockEntry(u).tid, call |-> LockEntry(u).call]
      /\ Waker(u) = [tid |-> DevEntry(u).tid, call |-> DevEntry(u).call]
  BY ZenonT(30) DEF Waker, LockEntry, DevEntry
<1>5. CASE Free(u)
  BY <1>2, <1>3, <1>5, KeepsOwing, SMT DEF Owed, OwedTo
<1>6. CASE ~Free(u)
  <2>1. /\ ticket[u] # 0 /\ pc[u] \in {"pending", "asleep"}
        /\ \/ /\ Now(u).op = "lock" /\ Now(u).on \in Resources
              /\ writer'[Now(u).on] = None
              /\ Front(waiters'[Now(u).on]) = {LockEntry(u)}
              /\ Now(u).mode = "Write" => \A x \in Tasks : readers'[Now(u).on][x] = 0
           \/ /\ Now(u).op = "request" /\ owner' = None
              /\ Front(dev_waiters') = {DevEntry(u)}
    <3>1. /\ ticket'[u] # 0 /\ pc'[u] \in {"pending", "asleep"}
          /\ \/ /\ Now(u)'.op = "lock" /\ Now(u)'.on \in Resources
                /\ writer'[Now(u)'.on] = None
                /\ Front(waiters'[Now(u)'.on]) = {LockEntry(u)'}
                /\ Now(u)'.mode = "Write" => \A x \in Tasks : readers'[Now(u)'.on][x] = 0
             \/ /\ Now(u)'.op = "request" /\ owner' = None
                /\ Front(dev_waiters') = {DevEntry(u)'}
      <4>1. (TypeOK /\ Placed /\ Ticketed /\ Queues /\ DevQueued /\ Drowsy(u) /\ Free(u)
                => AtFront(u))'
        BY FreeIsFront, PTL
      <4> QED
        BY <4>1 DEF AtFront
    <3> QED
      BY <1>1, <1>2, <3>1 DEF Same
  <2>2. CASE Now(u).op = "lock"
    <3>0. PICK l \in Resources :
              /\ l = Now(u).on /\ writer'[l] = None /\ Front(waiters'[l]) = {LockEntry(u)}
              /\ Now(u).mode = "Write" => \A x \in Tasks : readers'[l][x] = 0
      BY <2>1, <2>2
    <3>1. /\ waiters'[l] \in SUBSET Queue /\ LockEntry(u) \in waiters'[l]
          /\ LockEntry(u).mode = Now(u).mode /\ LockEntry(u).tid = u
      BY <3>0 DEF TypeOK, ResourceOK, FutureOK, Front, LockEntry
    <3>2. LockEntry(u) \in waiters[l]
      BY <3>1, OthersWait
    <3>3. ~(/\ writer[l] = None /\ readers[l] = readers'[l] /\ waiters[l] \subseteq waiters'[l])
      <4> SUFFICES ASSUME writer[l] = None, readers[l] = readers'[l],
                          waiters[l] \subseteq waiters'[l]
                   PROVE  FALSE
        OBVIOUS
      <4>1. LockEntry(u) \in Front(waiters[l])
        BY <3>0, <3>2 DEF Front
      <4> QED
        BY <1>6, <2>1, <2>2, <3>0, <4>1, FrontIsFree
    <3>4. ASSUME wakes'[t] = WakeWaiters(waiters'[l], writer'[l], readers'[l])
          PROVE  Waker(u) \in wakes'[t]
      <4>1. LockEntry(u) \in Queue
        BY <3>1
      <4>2. [tid |-> LockEntry(u).tid, call |-> LockEntry(u).call]
               \in WakeWaiters(waiters'[l], None, readers'[l])
        BY <3>0, <3>1, <4>1, FrontWoken
      <4> QED
        BY <1>4, <3>0, <3>4, <4>2
    <3>5. ~Kept(l)
      BY <3>0, <3>3 DEF Kept
    <3>6. CASE Lock(t) \/ PollLock(t)
      <4>1. PICK k \in Resources, mode \in Modes : k = Now(t).on /\ mode = Now(t).mode
        BY <3>6, LockCases
      <4>2. CASE Acquires(t, k, mode)
        <5>1. PICK q : Acquire(t, k, mode, q)
          BY <4>2, ZenonT(30) DEF Acquires
        <5>2. (\A m \in Resources : m # k => Kept(m)) /\ waiters'[k] = q
          BY <5>1, AcquireEffect, SMT
        <5>3. k = l
          BY <3>5, <5>2
        <5>4. wakes'[t] = WakeWaiters(q, writer'[k], readers'[k])
          BY <5>1, SMT DEF Acquire, TypeOK, ResourceOK, WakeOK
        <5> QED
          BY <1>2, <3>4, <5>2, <5>3, <5>4
      <4>3. CASE GivesWay(t)
        BY <3>5, <4>3 DEF GivesWay, Kept, resource
      <4>4. CASE Joins(t, k, mode)
        <5>1. /\ writer' = writer /\ readers' = readers
              /\ waiters[l] \subseteq waiters'[l]
          BY <4>4 DEF Joins, TypeOK, ResourceOK, FutureOK
        <5> QED
          BY <3>0, <3>3, <5>1
      <4> QED
        BY <3>6, <4>1, <4>2, <4>3, <4>4, LockCases
    <3>7. CASE Unlock(t)
      <4>1. PICK k \in Resources, mode \in Modes :
                /\ ReleaseOnce(t, k, mode) /\ UNCHANGED <<waiters, next_ticket>>
                /\ wakes'[t] = WakeWaiters(waiters[k], writer'[k], readers'[k])
        BY <3>7, UnlockCase
      <4>2. k = l
        BY <3>5, <4>1, ReleaseEffect, ZenonT(30)
      <4> QED
        BY <1>2, <3>4, <4>1, <4>2
    <3>8. ASSUME NEW k \in Resources, CancelResource(t, k)
          PROVE  Waker(u) \in wakes'[t]
      <4>1. /\ \A m \in Resources : m # k => Kept(m)
            /\ wakes'[t] = WakeWaiters(waiters'[k], writer'[k], readers'[k])
        BY <3>8, CancelWakes
      <4>2. k = l
        BY <3>5, <4>1
      <4> QED
        BY <3>4, <4>1, <4>2
    <3>9. ResourceStep(t)
      BY <3>5, ResourceKept DEF resource, Kept
    <3> QED
      BY <1>2, <3>6, <3>7, <3>8, <3>9 DEF ResourceStep
  <2>3. CASE Now(u).op = "request"
    <3>1. owner' = None /\ Front(dev_waiters') = {DevEntry(u)}
      BY <2>1, <2>3
    <3>2. DevEntry(u) \in dev_waiters
      <4>1. DevEntry(u) \in dev_waiters' /\ DevEntry(u).tid = u
        BY <3>1 DEF Front, DevEntry
      <4> QED
        BY <4>1, OthersDevWait
    <3>3. ~(owner = None /\ dev_waiters \subseteq dev_waiters')
      <4> SUFFICES ASSUME owner = None, dev_waiters \subseteq dev_waiters'
                   PROVE  FALSE
        OBVIOUS
      <4>1. DevEntry(u) \in Front(dev_waiters)
        BY <3>1, <3>2 DEF Front
      <4> QED
        BY <1>6, <2>1, <2>3, <4>1, FrontIsFree
    <3>4. ASSUME wakes'[t] = WakeFront(dev_waiters', None)
          PROVE  Waker(u) \in wakes'[t]
      BY <1>4, <3>1, <3>4, DevFrontWoken
    <3>5. CASE PollSubmission(t)
      BY <3>1, <3>3, <3>5, DevCases, StorageAssumption DEF DevAcquires, DevGivesWay, DevJoins
    <3>6. CASE CancelSubmission(t)
      <4>1. wakes'[t] = WakeFront(dev_waiters', owner) /\ owner' = owner
        BY <3>6 DEF CancelSubmission, TypeOK, PlaceOK, DeviceOK, WakeOK
      <4> QED
        BY <1>2, <3>1, <3>4, <4>1
    <3>7. CASE Release(t)
      <4>1. wakes'[t] = WakeFront(dev_waiters, None) /\ dev_waiters' = dev_waiters
        BY <3>7 DEF Release, TypeOK, DeviceOK, WakeOK
      <4> QED
        BY <1>2, <3>4, <4>1
    <3>8. CASE ~PollSubmission(t) /\ ~CancelSubmission(t) /\ ~Release(t)
      <4>1. dev_waiters' = dev_waiters
        BY <3>8, DevQueueKept DEF DeviceStep
      <4>2. CASE Submit(t)
        BY <3>1, <3>3, <4>1, <4>2, StorageAssumption, ZenonT(30) DEF Submit
      <4>3. CASE ~Submit(t)
        <5>1. owner' = owner
          BY <3>8, <4>3, ZenonT(30)
             DEF Step, LoopHead, BlockIfNotWoken, Resume, Lock, PollLock, Unlock, Guard,
                 DropDevice, Enter, PollMutex, Register, Retry, Unregister, Leave, WakeOne,
                 CancelResource, device
        <5> QED
          BY <3>1, <3>3, <4>1, <5>1, SMTT(30)
      <4> QED
        BY <4>2, <4>3
    <3> QED
      BY <3>5, <3>6, <3>7, <3>8
  <2> QED
    BY <2>1, <2>2, <2>3
<1> QED
  BY <1>5, <1>6

LEMMA StepOwed ==
    ASSUME TypeOK, TypeOK', Placed, Placed', Ticketed, Ticketed', Queues, Queues', DevQueued,
           DevQueued', Owed, NEW t \in Tasks, Step(t)
    PROVE  Owed'
BY WakeOwed, OwnOwed, OthersOwed DEF Owed

-----------------------------------------------------------------------------
\* The invariant.

LEMMA InitInv == Init => Inv
<1> SUFFICES ASSUME Init PROVE Inv
  OBVIOUS
<1>1. TypeOK
  BY SMT DEF Init, TypeOK, PlaceOK, ResourceOK, DeviceOK, InodeOK, FutureOK, WakeOK, SignalOK,
             Labels
<1>2. \A t \in Tasks : pc[t] = "run" /\ ticket[t] = 0
  BY DEF Init
<1>3. Placed /\ Ticketed
  BY <1>2 DEF Placed, PlacedAt, Ticketed, TicketOf, Calling, Using, Trying
<1>4. Queues /\ DevQueued
  BY DEF Init, Queues, QueueOf, DevQueued
<1>5. Token
  BY <1>2, StorageAssumption DEF Init, Token, Using
<1>6. WriterExcludes /\ GivenUp
  BY <1>2 DEF Init, WriterExcludes, GivenUp, Gone
<1>7. Owed
  BY <1>2 DEF Owed, OwedTo, Drowsy, Asleep
<1> QED
  BY <1>1, <1>3, <1>4, <1>5, <1>6, <1>7 DEF Inv

LEMMA StepInv ==
    ASSUME Inv, NEW t \in Tasks, Step(t)
    PROVE  Inv'
<1> USE DEF Inv
<1>1. TypeOK'
  BY StepTyped
<1>2. Placed'
  BY <1>1, StepPlaced
<1>3. Ticketed'
  BY <1>1, StepTicketed
<1>4. Queues' /\ DevQueued'
  BY <1>1, StepQueues, StepDevQueued
<1>5. Token' /\ WriterExcludes' /\ GivenUp'
  BY <1>1, StepToken, StepExcludes, StepGivenUp
<1>6. Owed'
  BY <1>1, <1>2, <1>3, <1>4, StepOwed
<1> QED
  BY <1>1, <1>2, <1>3, <1>4, <1>5, <1>6

\* A signal takes nothing from a lock, and makes a task at most awake.
LEMMA SignalInv ==
    ASSUME Inv, NEW t \in Tasks, SignalWake(t) \/ Signal(t) \/ Kill(t)
    PROVE  Inv'
<1>1. TypeOK'
  BY SignalsTyped DEF Inv
<1>2. UNCHANGED <<scene, resource, device, ticket, call, woke, wakes, pc, at, left>>
  BY DEF SignalWake, Signal, Kill, future
<1>3. \A u \in Tasks : status'[u] = status[u] \/ status'[u] = "Ready"
  BY DEF SignalWake, Signal, Kill, Inv, TypeOK, WakeOK, SignalOK
<1>4. \A u \in Tasks : /\ Now(u)' = Now(u) /\ Script(u)' = Script(u) /\ Waker(u)' = Waker(u)
                       /\ LockEntry(u)' = LockEntry(u) /\ DevEntry(u)' = DevEntry(u)
                       /\ Gone(u)' = Gone(u)
  BY <1>2 DEF Now, Script, Waker, LockEntry, DevEntry, Gone
<1>5. Placed'
  BY <1>2, <1>4 DEF Inv, Placed, PlacedAt
<1>6. Ticketed'
  <2> SUFFICES ASSUME NEW u \in Tasks PROVE TicketOf(u)'
    BY DEF Ticketed
  <2>1. TicketOf(u)
    BY DEF Inv, Ticketed
  <2> QED
    BY <1>2, <1>4, <2>1 DEF TicketOf, resource, device
<1>7. Queues' /\ DevQueued'
  <2>1. waiters' = waiters /\ next_ticket' = next_ticket /\ pc' = pc /\ left' = left
    BY <1>2 DEF resource
  <2>2. dev_waiters' = dev_waiters /\ dev_next_ticket' = dev_next_ticket
    BY <1>2 DEF device
  <2>3. \A l \in Resources : \A w \in waiters[l] : w.tid \in Tasks
    BY SMT DEF Inv, TypeOK, ResourceOK, Queue
  <2>4. \A w \in dev_waiters : w.tid \in Tasks
    BY DEF Inv, TypeOK, DeviceOK, DevQueue
  <2>5. Queues'
    BY <1>4, <2>1, <2>3 DEF Inv, Queues, QueueOf, Waits
  <2>6. DevQueued'
    BY <1>4, <2>1, <2>2, <2>4 DEF Inv, DevQueued, Waits
  <2> QED
    BY <2>5, <2>6
<1>8. Token'
  BY <1>2 DEF Inv, Token, device
<1>9. WriterExcludes'
  BY <1>2 DEF Inv, WriterExcludes, resource
<1>10. GivenUp'
  BY <1>2, <1>4 DEF Inv, GivenUp, resource
<1>11. Owed'
  <2> SUFFICES ASSUME NEW u \in Tasks, Drowsy(u)', Free(u)'
               PROVE  \E x \in Tasks : Waker(u)' \in wakes'[x]
    BY DEF Owed, OwedTo
  <2>1. Drowsy(u)
    BY <1>2, <1>3 DEF Drowsy, Asleep
  <2>2. Free(u)
    BY <1>2, <1>4 DEF Free, CanAcquire, DevCanAcquire, resource, device
  <2> QED
    BY <1>2, <1>4, <2>1, <2>2 DEF Inv, Owed, OwedTo
<1> QED
  BY <1>1, <1>5, <1>6, <1>7, <1>8, <1>9, <1>10, <1>11 DEF Inv

LEMMA StutterInv == ASSUME Inv, UNCHANGED vars PROVE Inv'
<1> USE DEF vars, resource, device, inode, future, signals
<1>1. TypeOK'
  BY DEF Inv, TypeOK, PlaceOK, ResourceOK, DeviceOK, InodeOK, FutureOK, WakeOK, SignalOK
<1>2. \A u \in Tasks : /\ Now(u)' = Now(u) /\ Script(u)' = Script(u) /\ Waker(u)' = Waker(u)
                       /\ LockEntry(u)' = LockEntry(u) /\ DevEntry(u)' = DevEntry(u)
                       /\ Gone(u)' = Gone(u)
  BY DEF Now, Script, Waker, LockEntry, DevEntry, Gone
<1>3. Placed'
  BY <1>2 DEF Inv, Placed, PlacedAt
<1>4. Ticketed'
  <2> SUFFICES ASSUME NEW u \in Tasks PROVE TicketOf(u)'
    BY DEF Ticketed
  <2>1. TicketOf(u)
    BY DEF Inv, Ticketed
  <2> QED
    BY <1>2, <2>1 DEF TicketOf
<1>5. Queues' /\ DevQueued'
  <2>1. \A l \in Resources : \A w \in waiters[l] : w.tid \in Tasks
    BY SMT DEF Inv, TypeOK, ResourceOK, Queue
  <2>2. \A w \in dev_waiters : w.tid \in Tasks
    BY DEF Inv, TypeOK, DeviceOK, DevQueue
  <2>3. Queues'
    BY <1>2, <2>1 DEF Inv, Queues, QueueOf, Waits
  <2>4. DevQueued'
    BY <1>2, <2>2 DEF Inv, DevQueued, Waits
  <2> QED
    BY <2>3, <2>4
<1>6. Token' /\ WriterExcludes'
  BY DEF Inv, Token, WriterExcludes
<1>7. GivenUp'
  BY <1>2 DEF Inv, GivenUp
<1>8. Owed'
  <2> SUFFICES ASSUME NEW u \in Tasks, Drowsy(u)', Free(u)'
               PROVE  \E x \in Tasks : Waker(u)' \in wakes'[x]
    BY DEF Owed, OwedTo
  <2>1. Drowsy(u) /\ Free(u)
    BY <1>2 DEF Drowsy, Asleep, Free, CanAcquire, DevCanAcquire
  <2> QED
    BY <1>2, <2>1 DEF Inv, Owed, OwedTo
<1> QED
  BY <1>1, <1>3, <1>4, <1>5, <1>6, <1>7, <1>8 DEF Inv

\* Inv is an invariant of StorageLocks.
THEOREM StorageInvariance == Spec => []Inv
<1>1. Inv /\ [Next]_vars => Inv'
  <2> SUFFICES ASSUME Inv, [Next]_vars PROVE Inv'
    OBVIOUS
  <2>1. CASE Next
    BY <2>1, StepInv, SignalInv DEF Next
  <2>2. CASE UNCHANGED vars
    BY <2>2, StutterInv
  <2> QED
    BY <2>1, <2>2
<1> QED
  BY <1>1, InitInv, PTL DEF Spec
=============================================================================
