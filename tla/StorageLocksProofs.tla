------------------------- MODULE StorageLocksProofs -------------------------
(***************************************************************************)
(* For any tasks, resources, inodes and scripts of StorageLocks, with any  *)
(* number of signals and kills: a writer excludes every other holder, the  *)
(* counts of a lock are the sections that the tasks are in, the device     *)
(* token always comes with the device, a dead task leaves nothing behind   *)
(* in a resource lock or in the device queue, and no task sleeps in front  *)
(* of a resource or device that it could have.                             *)
(***************************************************************************)
EXTENDS StorageLocksInvariant, FiniteSetTheorems

\* A leaf that does not name its prover is for Zenon.
USE Zenon

\* What the invariant gives.

\* A writer excludes every other holder of its resource: what SectionsExclude
\* rests on, and lwext4 behind the lock.
THEOREM WriterAlone == Spec => []WriterExcludes
<1>1. Inv => WriterExcludes
  BY DEF Inv
<1> QED
  BY <1>1, StorageInvariance, PTL

\* The token always comes with the device, so guard never finds it taken.
THEOREM TokenBringsDevice == Spec => []GuardComesWithToken
<1>1. Inv => GuardComesWithToken
  <2> SUFFICES ASSUME Inv, NEW t \in Tasks
               PROVE  /\ pc[t] = "guard" => owner = t /\ dev = None
                      /\ pc[t] = "device" => owner = t /\ dev = t
                      /\ pc[t] = "release" => owner = t /\ dev = None
    BY DEF GuardComesWithToken
  <2>1. \A u \in Tasks : (owner = u <=> pc[u] \in Using) /\ (dev = u <=> pc[u] = "device")
    BY DEF Inv, Token
  <2>2. dev \in Tasks \cup {None}
    BY DEF Inv, TypeOK, DeviceOK
  <2>3. \A u \in Tasks : pc[u] \in Using => owner = u
    BY <2>1
  <2>4. pc[t] \in Using /\ pc[t] # "device" => dev = None
    BY <2>1, <2>2, <2>3 DEF Using
  <2> QED
    BY <2>1, <2>4 DEF Using
<1> QED
  BY <1>1, StorageInvariance, PTL

\* A task that was killed and is dead holds no resource and no token, and waits
\* for none.
THEOREM DeadLeavesNothing == Spec => []ExitClears
<1>1. Inv => ExitClears
  <2> SUFFICES ASSUME Inv, NEW t \in Tasks, pc[t] = "dead"
               PROVE  /\ \A l \in Resources :
                            /\ readers[l][t] = 0 /\ writer[l] # t
                            /\ \A w \in waiters[l] : w.tid # t
                      /\ owner # t /\ \A w \in dev_waiters : w.tid # t
    BY DEF ExitClears
  <2>1. left[t] = {}
    BY DEF Inv, Placed, PlacedAt
  <2>2. \A l \in Resources : readers[l][t] = 0 /\ writer[l] # t
    BY <2>1 DEF Inv, GivenUp, Gone
  <2>3. \A l \in Resources : \A w \in waiters[l] : w.tid # t
    BY DEF Inv, Queues, QueueOf, Waits, Calling
  <2>4. owner # t
    BY DEF Inv, Token, Using
  <2>5. \A w \in dev_waiters : w.tid # t
    BY DEF Inv, DevQueued, Waits, Calling
  <2> QED
    BY <2>2, <2>3, <2>4, <2>5
<1> QED
  BY <1>1, StorageInvariance, PTL

\* No task sleeps before a resource or device it could have unless its wakeup is
\* on the way.
THEOREM NoWaiterIsLost == Spec => []NoLostWaiter
<1>1. Inv => NoLostWaiter
  <2> SUFFICES ASSUME Inv, NEW t \in Tasks, Asleep(t), Free(t)
               PROVE  \E u \in Tasks : Waker(t) \in wakes[u]
    BY DEF NoLostWaiter, Free
  <2> QED
    BY DEF Inv, Owed, OwedTo, Drowsy
<1> QED
  BY <1>1, StorageInvariance, PTL

-----------------------------------------------------------------------------
\* First come, first served.

\* Who gets a resource that it had no part of polls at the front, or finds nobody.
LEMMA GrantInOrder ==
    ASSUME Inv, NEW t \in Tasks, Step(t), NEW l \in Resources, ~Holds(t, l), Holds(t, l)'
    PROVE  Ahead(waiters[l], t) = {}
<1>0. readers[l][t] = 0 /\ writer[l] # t
  BY SMT DEF Inv, TypeOK, ResourceOK, Holds
<1>1. ~Kept(l)
  BY DEF Kept, Holds
<1>2. CASE Lock(t) \/ PollLock(t)
  <2>1. PICK k \in Resources, mode \in Modes :
            /\ k = Now(t).on /\ mode = Now(t).mode /\ Now(t).op = "lock"
            /\ pc[t] \in {"run", "poll"}
    BY <1>2, LockCases DEF Inv
  <2>2. Acquires(t, k, mode)
    <3>1. ~GivesWay(t)
      BY <1>1 DEF GivesWay, Kept, resource
    <3>2. ~Joins(t, k, mode)
      BY DEF Joins, Holds
    <3> QED
      BY <1>2, <2>1, <3>1, <3>2, LockCases DEF Inv
  <2>3. /\ \A m \in Resources : m # k => Kept(m)
        /\ ticket[t] # 0 => Front(waiters[k]) = {LockEntry(t)}
    BY <2>1, <2>2, AcquirePops DEF Inv
  <2>4. k = l
    BY <1>1, <2>3
  <2>5. CASE ticket[t] = 0
    <3>1. waiters[l] = {}
      BY <1>0, <2>2, <2>4, <2>5 DEF Acquires, CanAcquire
    <3> QED
      BY <3>1 DEF Ahead
  <2>6. CASE ticket[t] # 0
    <3>1. \A v \in waiters[l] : ticket[t] <= v.ticket
      <4>1. LockEntry(t) \in Front(waiters[l])
        BY <2>3, <2>4, <2>6
      <4>2. LockEntry(t).ticket = ticket[t]
        BY DEF LockEntry
      <4> QED
        BY <4>1, <4>2 DEF Front
    <3>2. ticket[t] \in Nat /\ \A v \in waiters[l] : v.ticket \in Nat
      BY SMT DEF Inv, TypeOK, ResourceOK, FutureOK, Queue
    <3> QED
      BY <2>6, <3>1, <3>2, SMT DEF Ahead
  <2> QED
    BY <2>5, <2>6
<1>3. CASE Unlock(t)
  <2>1. PICK k \in Resources, mode \in Modes :
            ReleaseOnce(t, k, mode) /\ UNCHANGED <<waiters, next_ticket>>
    BY <1>3, UnlockCase DEF Inv
  <2>2. k = l
    BY <1>1, <2>1, ReleaseEffect DEF Inv
  <2> QED
    BY <1>0, <2>1, <2>2, SMTT(30) DEF ReleaseOnce, Inv, TypeOK, ResourceOK
<1>4. ASSUME NEW k \in Resources, CancelResource(t, k) PROVE FALSE
  <2>1. /\ \A m \in Resources : m # k => Kept(m)
        /\ readers'[k][t] = 0 /\ writer'[k] = IF writer[k] = t THEN None ELSE writer[k]
    BY <1>4, CancelEffect, SMT DEF Inv
  <2>2. k = l
    BY <1>1, <2>1
  <2> QED
    BY <1>0, <2>1, <2>2, StorageAssumption DEF Holds
<1>5. ResourceStep(t)
  BY <1>1, ResourceKept DEF resource, Kept
<1> QED
  BY <1>2, <1>3, <1>4, <1>5 DEF ResourceStep

LEMMA DevGrantInOrder ==
    ASSUME Inv, NEW t \in Tasks, Step(t), NEW u \in Tasks, owner # u, owner' = u
    PROVE  u = t /\ Ahead(dev_waiters, t) = {}
<1>1. CASE Submit(t)
  <2>1. owner' = t /\ DevCanAcquire(0)
    BY <1>1 DEF Submit
  <2>2. dev_waiters = {}
    BY <2>1 DEF DevCanAcquire
  <2> QED
    BY <2>1, <2>2 DEF Ahead
<1>2. CASE PollSubmission(t)
  <2>1. owner' = t /\ DevCanAcquire(ticket[t])
    BY <1>2 DEF PollSubmission
  <2>2. CASE ticket[t] = 0
    BY <2>1, <2>2 DEF DevCanAcquire, Ahead
  <2>3. CASE ticket[t] # 0
    <3>1. \A v \in dev_waiters : ticket[t] <= v.ticket
      BY <2>1, <2>3 DEF DevCanAcquire, Front
    <3>2. ticket[t] \in Nat /\ \A v \in dev_waiters : v.ticket \in Nat
      BY DEF Inv, TypeOK, DeviceOK, FutureOK, DevQueue
    <3> QED
      BY <2>1, <2>3, <3>1, <3>2, SMT DEF Ahead
  <2> QED
    BY <2>2, <2>3
<1>3. CASE ~Submit(t) /\ ~PollSubmission(t)
  <2>1. owner' \in {owner, None}
    BY <1>3 DEF Step, LoopHead, BlockIfNotWoken, Resume, Wake, Lock, PollLock, Unlock, Guard,
                DropDevice, Release, Enter, PollMutex, Register, Retry, Unregister, Leave,
                WakeOne, CancelResource, CancelSubmission, device
  <2> QED
    BY <2>1, StorageAssumption
<1> QED
  BY <1>1, <1>2, <1>3

\* can_acquire lets nobody pass one that queued before, whatever cancellations
\* and recursive sections come in between.
THEOREM GrantsAreFifo == Spec => FifoGrants
<1> DEFINE Fifo == \A t \in Tasks :
               /\ \A l \in Resources :
                     ~Holds(t, l) /\ Holds(t, l)' => Ahead(waiters[l], t) = {}
               /\ owner # t /\ owner' = t => Ahead(dev_waiters, t) = {}
<1>1. Inv /\ [Next]_vars => [Fifo]_vars
  <2> SUFFICES ASSUME Inv, Next PROVE Fifo
    OBVIOUS
  <2>1. PICK t \in Tasks : Step(t) \/ SignalWake(t) \/ Signal(t) \/ Kill(t)
    BY DEF Next
  <2>2. CASE Step(t)
    <3> SUFFICES ASSUME NEW u \in Tasks
                 PROVE  /\ \A l \in Resources :
                              ~Holds(u, l) /\ Holds(u, l)' => Ahead(waiters[l], u) = {}
                        /\ owner # u /\ owner' = u => Ahead(dev_waiters, u) = {}
      OBVIOUS
    <3>1. owner # u /\ owner' = u => Ahead(dev_waiters, u) = {}
      BY <2>2, DevGrantInOrder
    <3>2. CASE u = t
      BY <2>2, <3>1, <3>2, GrantInOrder
    <3>3. CASE u # t
      <4>1. \A l \in Resources : Holds(u, l)' => Holds(u, l)
        BY <2>2, <3>3, OthersHold DEF Holds, Inv
      <4> QED
        BY <3>1, <4>1
    <3> QED
      BY <3>2, <3>3
  <2>3. CASE SignalWake(t) \/ Signal(t) \/ Kill(t)
    <3>1. readers' = readers /\ writer' = writer /\ owner' = owner
      BY <2>3 DEF SignalWake, Signal, Kill, resource, device
    <3> QED
      BY <3>1 DEF Holds
  <2> QED
    BY <2>1, <2>2, <2>3
<1> QED
  BY <1>1, StorageInvariance, PTL DEF Spec, FifoGrants

-----------------------------------------------------------------------------
\* The sections that the program is in.

\* What one more step of the script adds to those that are passed.
LEMMA OneMore ==
    ASSUME NEW n \in Nat, NEW S \in SUBSET (1 .. n)
    PROVE  /\ Cardinality(S) \in Nat /\ Cardinality(S \cup {n + 1}) = Cardinality(S) + 1
<1>1. IsFiniteSet(1 .. n)
  <2>1. 1 \in Int /\ n \in Int
    BY SMT
  <2> QED
    BY <2>1, FS_Interval
<1>2. IsFiniteSet(S)
  BY <1>1, FS_Subset
<1>3. n + 1 \notin S
  BY SMT
<1> QED
  BY <1>2, <1>3, FS_CardinalityType, FS_AddElement

LEMMA DepthTyped ==
    ASSUME TypeOK, NEW t \in Tasks, NEW op, NEW l, NEW mode
    PROVE  /\ Cardinality(Passed(t, op, l, mode)) \in Nat /\ Depth(t, l, mode) \in Int
           /\ Passed(t, op, l, mode) \in SUBSET (1 .. at[t] - 1) /\ at[t] - 1 \in Nat
<1>1. at[t] \in Nat \ {0}
  BY DEF TypeOK, PlaceOK
<1>2. at[t] - 1 \in Nat
  BY <1>1, SMT
<1>3. \A o : Passed(t, o, l, mode) \in SUBSET (1 .. at[t] - 1)
  BY DEF Passed
<1>4. \A o : Cardinality(Passed(t, o, l, mode)) \in Nat
  BY <1>2, <1>3, OneMore
<1>5. Depth(t, l, mode) \in Int
  BY <1>4, SMT DEF Depth
<1> QED
  BY <1>2, <1>3, <1>4, <1>5

\* A task that stays where it is in its script.
LEMMA DepthStays ==
    ASSUME NEW t \in Tasks, at'[t] = at[t], scene' = scene, NEW l, NEW mode
    PROVE  Depth(t, l, mode)' = Depth(t, l, mode)
BY DEF Depth, Passed, Script

\* A task that goes on in its script.
LEMMA PassedGrows ==
    ASSUME TypeOK, NEW t \in Tasks, at'[t] = at[t] + 1, scene' = scene, NEW op, NEW l, NEW mode
    PROVE  Cardinality(Passed(t, op, l, mode))' =
               IF Now(t) = [op |-> op, on |-> l, mode |-> mode]
               THEN Cardinality(Passed(t, op, l, mode)) + 1
               ELSE Cardinality(Passed(t, op, l, mode))
<1> DEFINE r == [op |-> op, on |-> l, mode |-> mode]
           S == Passed(t, op, l, mode)
<1>1. S \in SUBSET (1 .. at[t] - 1) /\ at[t] - 1 \in Nat /\ at[t] \in Nat \ {0}
  BY DepthTyped DEF TypeOK, PlaceOK
<1>2. /\ 1 .. at'[t] - 1 = (1 .. at[t] - 1) \cup {at[t]} /\ at[t] - 1 + 1 = at[t]
      /\ at[t] \notin 1 .. at[t] - 1
  BY <1>1, SMT
<1>3. S' = {i \in (1 .. at[t] - 1) \cup {at[t]} : Script(t)[i] = r}
  BY <1>2 DEF Passed, Script
<1>4. S = {i \in 1 .. at[t] - 1 : Script(t)[i] = r}
  BY DEF Passed
<1>5. CASE Now(t) = r
  <2>1. S' = S \cup {at[t]}
    BY <1>3, <1>4, <1>5 DEF Now
  <2>2. Cardinality(S \cup {at[t] - 1 + 1}) = Cardinality(S) + 1
    BY <1>1, OneMore
  <2> QED
    BY <1>2, <1>5, <2>1, <2>2
<1>6. CASE Now(t) # r
  <2>1. S' = S
    BY <1>3, <1>4, <1>6 DEF Now
  <2> QED
    BY <1>6, <2>1
<1> QED
  BY <1>5, <1>6

LEMMA DepthMoves ==
    ASSUME TypeOK, NEW t \in Tasks, at'[t] = at[t] + 1, scene' = scene, NEW l, NEW mode
    PROVE  /\ Now(t) = [op |-> "lock", on |-> l, mode |-> mode]
                 => Depth(t, l, mode)' = Depth(t, l, mode) + 1
           /\ Now(t) = [op |-> "unlock", on |-> l, mode |-> mode]
                 => Depth(t, l, mode)' = Depth(t, l, mode) - 1
           /\ (/\ Now(t) # [op |-> "lock", on |-> l, mode |-> mode]
               /\ Now(t) # [op |-> "unlock", on |-> l, mode |-> mode])
                 => Depth(t, l, mode)' = Depth(t, l, mode)
<1> DEFINE a == Cardinality(Passed(t, "lock", l, mode))
           b == Cardinality(Passed(t, "unlock", l, mode))
           r == [op |-> "lock", on |-> l, mode |-> mode]
           s == [op |-> "unlock", on |-> l, mode |-> mode]
<1>1. /\ a' = IF Now(t) = r THEN a + 1 ELSE a
      /\ b' = IF Now(t) = s THEN b + 1 ELSE b
  BY PassedGrows
<1>2. a \in Nat /\ b \in Nat
  BY DepthTyped
<1>3. Depth(t, l, mode) = a - b /\ Depth(t, l, mode)' = a' - b'
  BY DEF Depth
<1>4. r # s
  <2>1. r.op # s.op
    OBVIOUS
  <2> QED
    BY <2>1
<1> HIDE DEF a, b, r, s
<1>5. /\ Now(t) = r => Depth(t, l, mode)' = Depth(t, l, mode) + 1
      /\ Now(t) = s => Depth(t, l, mode)' = Depth(t, l, mode) - 1
      /\ (Now(t) # r /\ Now(t) # s) => Depth(t, l, mode)' = Depth(t, l, mode)
  BY <1>1, <1>2, <1>3, <1>4, SMTT(30)
<1> QED
  BY <1>5 DEF r, s

\* The step of a script, as a record.
LEMMA NowIs ==
    ASSUME TypeOK, NEW t \in Tasks, at[t] <= Len(Script(t)), NEW l, NEW mode, NEW op,
           Now(t).op \in {"lock", "unlock"}
    PROVE  /\ Now(t) = [op |-> Now(t).op, on |-> Now(t).on, mode |-> Now(t).mode]
           /\ Now(t) = [op |-> op, on |-> l, mode |-> mode]
                 => Now(t).op = op /\ Now(t).on = l /\ Now(t).mode = mode
<1>1. Script(t) \in Seq(Steps) /\ at[t] \in Nat \ {0}
  BY StorageAssumption DEF TypeOK, PlaceOK, Script
<1>2. Now(t) \in Steps
  BY <1>1, SMT DEF Now
<1>3. Now(t) \in [op : {"lock", "unlock"}, on : Resources, mode : Modes]
  BY <1>2 DEF Steps
<1>4. Now(t) = [op |-> Now(t).op, on |-> Now(t).on, mode |-> Now(t).mode]
  BY <1>3, SMT
<1>5. ASSUME Now(t) = [op |-> op, on |-> l, mode |-> mode]
      PROVE  Now(t).op = op /\ Now(t).on = l /\ Now(t).mode = mode
  BY <1>5, SMT
<1> QED
  BY <1>4, <1>5

\* Where a task of the program goes in its script, and what this does to the
\* resources: it gets one, gives one back, or leaves them alone.
Goes(t) ==
    \/ /\ Now(t).op = "lock" /\ Now(t).on \in Resources /\ Now(t).mode \in Modes
       /\ Acquires(t, Now(t).on, Now(t).mode)
       /\ at[t] <= Len(Script(t)) /\ at'[t] = at[t] + 1
    \/ Unlock(t) /\ Now(t).op = "unlock" /\ at[t] <= Len(Script(t)) /\ at'[t] = at[t] + 1
    \/ UNCHANGED <<readers, writer, writer_depth>> /\ at'[t] = at[t]
    \/ /\ UNCHANGED <<readers, writer, writer_depth>> /\ at'[t] = at[t] + 1
       /\ Now(t).op \notin {"lock", "unlock"}

LEMMA StepGoes ==
    ASSUME TypeOK, Placed, Ticketed, NEW t \in Tasks, Step(t), ~Gone(t)
    PROVE  Goes(t)
<1>0. at \in [Tasks -> Nat \ {0}]
  BY DEF TypeOK, PlaceOK
<1>1. PlacedAt(t)
  BY DEF Placed
<1> USE <1>0
<1> USE DEF Goes, Goto, Advance, At, Doing, BlockOn, resource
<1>2. CASE LoopHead(t) \/ BlockIfNotWoken(t) \/ Resume(t) \/ Wake(t)
  BY <1>2 DEF LoopHead, BlockIfNotWoken, Resume, Wake
<1>3. CASE Lock(t) \/ PollLock(t)
  <2>1. CASE Acquires(t, Now(t).on, Now(t).mode)
    <3>1. /\ Now(t).op = "lock" /\ Now(t).on \in Resources /\ Now(t).mode \in Modes
          /\ at[t] <= Len(Script(t))
      BY <1>3, LockCases
    <3>2. pc'[t] = "run"
      BY <2>1 DEF Acquires
    <3>3. at'[t] = at[t] + 1
      BY <1>3, <3>2 DEF Lock, PollLock, TypeOK, PlaceOK
    <3> QED
      BY <2>1, <3>1, <3>3
  <2>2. CASE ~Acquires(t, Now(t).on, Now(t).mode)
    BY <1>3, <2>2, LockCases DEF GivesWay, Joins
  <2> QED
    BY <2>1, <2>2
<1>4. CASE Unlock(t)
  BY <1>4 DEF Unlock
<1>5. CASE Submit(t) \/ PollSubmission(t) \/ Guard(t) \/ DropDevice(t)
  BY <1>5 DEF Submit, PollSubmission, Guard, DropDevice
<1>6. CASE Release(t)
  BY <1>1, <1>6 DEF Release, PlacedAt, Using
<1>7. CASE Enter(t) \/ PollMutex(t)
  BY <1>7 DEF Enter, PollMutex
<1>8. CASE Register(t) \/ Retry(t) \/ Leave(t)
  BY <1>8 DEF Register, Retry, Leave
<1>9. CASE Unregister(t) \/ WakeOne(t)
  BY <1>1, <1>9 DEF Unregister, WakeOne, PlacedAt, Trying
<1>10. CASE (\E l \in Resources : CancelResource(t, l)) \/ CancelSubmission(t)
  BY <1>10 DEF CancelResource, CancelSubmission, Gone
<1> QED
  BY <1>2, <1>3, <1>4, <1>5, <1>6, <1>7, <1>8, <1>9, <1>10 DEF Step

\* A step of one task leaves what another holds alone.
LEMMA OthersKeep ==
    ASSUME TypeOK, Ticketed, NEW t \in Tasks, Step(t),
           NEW u \in Tasks, u # t, NEW l \in Resources
    PROVE  /\ readers'[l][u] = readers[l][u] /\ (writer'[l] = u <=> writer[l] = u)
           /\ writer[l] = u => writer_depth'[l] = writer_depth[l]
<1>0. u # None
  BY StorageAssumption
<1>1. CASE Kept(l)
  BY <1>1 DEF Kept
<1>2. CASE Lock(t) \/ PollLock(t)
  <2>1. PICK m \in Resources, mode \in Modes : m = Now(t).on /\ mode = Now(t).mode
    BY <1>2, LockCases
  <2>2. CASE Acquires(t, m, mode)
    <3>0. PICK q : Acquire(t, m, mode, q)
      BY <2>2 DEF Acquires
    <3>1. l # m => Kept(l)
      BY <3>0, AcquireEffect
    <3>2. /\ OthersRead(t, m)
          /\ mode = "Read" => writer'[m] = writer[m] /\ writer_depth'[m] = writer_depth[m]
          /\ mode = "Write" => writer'[m] = t
      BY <3>0, AcquireEffect, SMT
    <3>3. writer[m] \in {None, t}
      BY <2>2 DEF Acquires, CanAcquire
    <3> QED
      BY <1>0, <1>1, <3>1, <3>2, <3>3 DEF OthersRead, Modes
  <2>3. CASE GivesWay(t) \/ Joins(t, m, mode)
    BY <2>3 DEF GivesWay, Joins, resource
  <2> QED
    BY <1>2, <2>1, <2>2, <2>3, LockCases
<1>3. CASE Unlock(t)
  <2>1. PICK m \in Resources, mode \in Modes :
            ReleaseOnce(t, m, mode) /\ UNCHANGED <<waiters, next_ticket>>
    BY <1>3, UnlockCase
  <2>2. l # m => Kept(l)
    BY <2>1, ReleaseEffect, SMT
  <2>3. /\ OthersRead(t, m)
        /\ mode = "Read" => writer'[m] = writer[m] /\ writer_depth'[m] = writer_depth[m]
        /\ mode = "Write" => writer[m] = t /\ writer'[m] \in {None, t}
    BY <2>1, ReleaseEffect, SMT
  <2> QED
    BY <1>0, <1>1, <2>2, <2>3 DEF OthersRead, Modes
<1>4. ASSUME NEW m \in Resources, CancelResource(t, m)
      PROVE  /\ readers'[l][u] = readers[l][u] /\ (writer'[l] = u <=> writer[l] = u)
             /\ writer[l] = u => writer_depth'[l] = writer_depth[l]
  <2>1. /\ l # m => Kept(l)
        /\ OthersRead(t, m)
        /\ writer'[m] = IF writer[m] = t THEN None ELSE writer[m]
        /\ writer_depth'[m] = IF writer[m] = t THEN 0 ELSE writer_depth[m]
    BY <1>4, CancelEffect, SMT
  <2> QED
    BY <1>0, <1>1, <2>1 DEF OthersRead
<1>5. CASE ~ResourceStep(t)
  BY <1>5, ResourceKept DEF resource
<1> QED
  BY <1>2, <1>3, <1>4, <1>5 DEF ResourceStep

\* What the lock has counted for a task, and what the task is in.
HeldAt(t, l) ==
    /\ readers[l][t] = Depth(t, l, "Read")
    /\ Depth(t, l, "Write") = IF writer[l] = t THEN writer_depth[l] ELSE 0

\* Of a resource that its step does not touch.
LEMMA HeldElsewhere ==
    ASSUME NEW t \in Tasks, NEW l \in Resources, HeldAt(t, l),
           readers'[l][t] = readers[l][t], writer'[l] = writer[l],
           writer_depth'[l] = writer_depth[l],
           \A m \in Modes : Depth(t, l, m)' = Depth(t, l, m)
    PROVE  HeldAt(t, l)'
BY DEF HeldAt, Modes

\* A task that goes past a lock or an unlock.
LEMMA DepthOfOne ==
    ASSUME TypeOK, NEW t \in Tasks, at'[t] = at[t] + 1, scene' = scene,
           at[t] <= Len(Script(t)), Now(t).op \in {"lock", "unlock"}, NEW l, NEW mode
    PROVE  /\ (l # Now(t).on \/ mode # Now(t).mode) => Depth(t, l, mode)' = Depth(t, l, mode)
           /\ (l = Now(t).on /\ mode = Now(t).mode) =>
                 Depth(t, l, mode)' = IF Now(t).op = "lock" THEN Depth(t, l, mode) + 1
                                      ELSE Depth(t, l, mode) - 1
<1>1. Now(t) = [op |-> Now(t).op, on |-> Now(t).on, mode |-> Now(t).mode]
  BY NowIs
<1>2. \A op : Now(t) = [op |-> op, on |-> l, mode |-> mode]
                  => Now(t).op = op /\ Now(t).on = l /\ Now(t).mode = mode
  BY SMT
<1>3. CASE l # Now(t).on \/ mode # Now(t).mode
  <2>1. \A op : Now(t) # [op |-> op, on |-> l, mode |-> mode]
    BY <1>2, <1>3
  <2> QED
    BY <1>3, <2>1, DepthMoves
<1>4. CASE l = Now(t).on /\ mode = Now(t).mode
  <2>1. CASE Now(t).op = "lock"
    <3>1. Now(t) = [op |-> "lock", on |-> l, mode |-> mode]
      BY <1>1, <1>4, <2>1
    <3>2. Depth(t, l, mode)' = Depth(t, l, mode) + 1
      BY <3>1, DepthMoves
    <3> QED
      BY <1>4, <2>1, <3>2
  <2>2. CASE Now(t).op = "unlock"
    <3>1. Now(t) = [op |-> "unlock", on |-> l, mode |-> mode]
      BY <1>1, <1>4, <2>2
    <3>2. Depth(t, l, mode)' = Depth(t, l, mode) - 1
      BY <3>1, DepthMoves
    <3> QED
      BY <1>4, <2>2, <3>2
  <2> QED
    BY <2>1, <2>2
<1> QED
  BY <1>3, <1>4

\* The count goes with the section.
LEMMA AcquireHeld ==
    ASSUME TypeOK, NEW t \in Tasks, NEW m \in Resources, NEW mode \in Modes, NEW q,
           Acquire(t, m, mode, q), NEW l \in Resources, HeldAt(t, l),
           \A k \in Modes : (l # m \/ k # mode) => Depth(t, l, k)' = Depth(t, l, k),
           l = m => Depth(t, l, mode)' = Depth(t, l, mode) + 1
    PROVE  HeldAt(t, l)'
<1>1. CASE l # m
  <2>1. Kept(l)
    BY <1>1, AcquireEffect
  <2> QED
    BY <1>1, <2>1, HeldElsewhere DEF Kept
<1>2. CASE l = m /\ mode = "Read"
  <2>1. /\ writer'[l] = writer[l] /\ writer_depth'[l] = writer_depth[l]
        /\ readers'[l][t] = readers[l][t] + 1
    BY <1>2, AcquireEffect, ZenonT(30)
  <2>2. /\ Depth(t, l, "Read")' = Depth(t, l, "Read") + 1
        /\ Depth(t, l, "Write")' = Depth(t, l, "Write")
    BY <1>2 DEF Modes
  <2> QED
    BY <2>1, <2>2 DEF HeldAt
<1>3. CASE l = m /\ mode = "Write"
  <2>1. /\ writer'[l] = t /\ readers'[l] = readers[l]
        /\ writer_depth'[l] = IF writer[l] = t THEN writer_depth[l] + 1 ELSE 1
    BY <1>3, AcquireEffect, ZenonT(30)
  <2>2. /\ Depth(t, l, "Write")' = Depth(t, l, "Write") + 1
        /\ Depth(t, l, "Read")' = Depth(t, l, "Read")
    BY <1>3 DEF Modes
  <2>3. Depth(t, l, "Write")' = writer_depth'[l]
    BY <2>1, <2>2, SMTT(30) DEF HeldAt
  <2> QED
    BY <2>1, <2>2, <2>3 DEF HeldAt
<1> QED
  BY <1>1, <1>2, <1>3 DEF Modes

LEMMA ReleaseHeld ==
    ASSUME TypeOK, NEW t \in Tasks, NEW m \in Resources, NEW mode \in Modes,
           ReleaseOnce(t, m, mode), UNCHANGED <<waiters, next_ticket>>,
           NEW l \in Resources, HeldAt(t, l),
           \A k \in Modes : (l # m \/ k # mode) => Depth(t, l, k)' = Depth(t, l, k),
           l = m => Depth(t, l, mode)' = Depth(t, l, mode) - 1
    PROVE  HeldAt(t, l)'
<1>1. CASE l # m
  <2>1. Kept(l)
    BY <1>1, ReleaseEffect, ZenonT(30)
  <2> QED
    BY <1>1, <2>1, HeldElsewhere DEF Kept
<1>2. CASE l = m /\ mode = "Read"
  <2>1. /\ writer'[l] = writer[l] /\ writer_depth'[l] = writer_depth[l]
        /\ readers'[l][t] = readers[l][t] - 1
    BY <1>2, ReleaseEffect
  <2>2. /\ Depth(t, l, "Read")' = Depth(t, l, "Read") - 1
        /\ Depth(t, l, "Write")' = Depth(t, l, "Write")
    BY <1>2 DEF Modes
  <2> QED
    BY <2>1, <2>2 DEF HeldAt
<1>3. CASE l = m /\ mode = "Write"
  <2>1. /\ writer[l] = t /\ readers'[l] = readers[l]
        /\ writer'[l] = IF writer_depth[l] = 1 THEN None ELSE t
        /\ writer_depth'[l] = writer_depth[l] - 1
    BY <1>3, ReleaseEffect
  <2>2. /\ Depth(t, l, "Write")' = Depth(t, l, "Write") - 1
        /\ Depth(t, l, "Read")' = Depth(t, l, "Read")
    BY <1>3 DEF Modes
  <2>3. Depth(t, l, "Write")' = writer_depth[l] - 1 /\ t # None
    BY <2>1, <2>2, StorageAssumption DEF HeldAt
  <2>4. writer_depth[l] = 1 => writer_depth[l] - 1 = 0
    BY SMT
  <2> QED
    BY <2>1, <2>2, <2>3, <2>4 DEF HeldAt
<1> QED
  BY <1>1, <1>2, <1>3 DEF Modes

LEMMA OwnHeld ==
    ASSUME Inv, NEW t \in Tasks, Step(t), ~Gone(t), NEW l \in Resources, HeldAt(t, l)
    PROVE  HeldAt(t, l)'
<1>0. TypeOK /\ Placed /\ Ticketed
  BY DEF Inv
<1>1. Goes(t)
  BY <1>0, StepGoes, ZenonT(30)
<1>2. scene' = scene
  BY DEF Step, LoopHead, BlockIfNotWoken, Resume, Wake, Lock, PollLock, Unlock, Submit,
         PollSubmission, Guard, DropDevice, Release, Enter, PollMutex, Register, Retry,
         Unregister, Leave, WakeOne, CancelResource, CancelSubmission
<1>3. CASE UNCHANGED <<readers, writer, writer_depth>> /\ at'[t] = at[t]
  BY <1>2, <1>3, DepthStays, HeldElsewhere
<1>4. CASE /\ UNCHANGED <<readers, writer, writer_depth>> /\ at'[t] = at[t] + 1
           /\ Now(t).op \notin {"lock", "unlock"}
  <2>1. \A m, op : op \in {"lock", "unlock"} => Now(t) # [op |-> op, on |-> l, mode |-> m]
    BY <1>4, SMT
  <2>2. \A m \in Modes : Depth(t, l, m)' = Depth(t, l, m)
    BY <1>0, <1>2, <1>4, <2>1, DepthMoves
  <2> QED
    BY <1>4, <2>2, HeldElsewhere
<1>5. CASE /\ Now(t).op = "lock" /\ Now(t).on \in Resources /\ Now(t).mode \in Modes
           /\ Acquires(t, Now(t).on, Now(t).mode)
           /\ at[t] <= Len(Script(t)) /\ at'[t] = at[t] + 1
  <2>0. PICK m \in Resources, mode \in Modes : m = Now(t).on /\ mode = Now(t).mode
    BY <1>5
  <2>1. PICK q : Acquire(t, m, mode, q)
    BY <1>5, <2>0 DEF Acquires
  <2>2. \A k \in Modes : (l # m \/ k # mode) => Depth(t, l, k)' = Depth(t, l, k)
    BY <1>0, <1>2, <1>5, <2>0, DepthOfOne
  <2>3. l = m => Depth(t, l, mode)' = Depth(t, l, mode) + 1
    BY <1>0, <1>2, <1>5, <2>0, DepthOfOne
  <2> QED
    BY <1>0, <2>1, <2>2, <2>3, AcquireHeld
<1>6. CASE Unlock(t) /\ Now(t).op = "unlock" /\ at[t] <= Len(Script(t)) /\ at'[t] = at[t] + 1
  <2>0. /\ Now(t).on \in Resources /\ Now(t).mode \in Modes
        /\ ReleaseOnce(t, Now(t).on, Now(t).mode) /\ UNCHANGED <<waiters, next_ticket>>
    BY <1>0, <1>6, UnlockCase
  <2>1. PICK m \in Resources, mode \in Modes : m = Now(t).on /\ mode = Now(t).mode
    BY <2>0
  <2>2. \A k \in Modes : (l # m \/ k # mode) => Depth(t, l, k)' = Depth(t, l, k)
    BY <1>0, <1>2, <1>6, <2>1, DepthOfOne
  <2>3. l = m => Depth(t, l, mode)' = Depth(t, l, mode) - 1
    BY <1>0, <1>2, <1>6, <2>1, DepthOfOne
  <2> QED
    BY <1>0, <2>0, <2>1, <2>2, <2>3, ReleaseHeld
<1> QED
  BY <1>1, <1>3, <1>4, <1>5, <1>6 DEF Goes

LEMMA StepHeld ==
    ASSUME Inv, HeldAsEntered, NEW t \in Tasks, Step(t)
    PROVE  HeldAsEntered'
<1> SUFFICES ASSUME NEW l \in Resources, NEW u \in Tasks, ~Gone(u)' PROVE HeldAt(u, l)'
  BY DEF HeldAsEntered, HeldAt
<1>0. TypeOK /\ Ticketed
  BY DEF Inv
<1>1. ~Gone(u) => HeldAt(u, l)
  BY DEF HeldAsEntered, HeldAt
<1>2. CASE u = t
  <2>1. ~Gone(t)
    BY <1>0, <1>2, GoneStep
  <2> QED
    BY <1>1, <1>2, <2>1, OwnHeld
<1>3. CASE u # t
  <2>1. Same(u)
    BY <1>0, <1>3, Others
  <2>2. ~Gone(u) /\ at'[u] = at[u] /\ scene' = scene
    BY <2>1 DEF Same, Gone
  <2>3. /\ readers'[l][u] = readers[l][u] /\ (writer'[l] = u <=> writer[l] = u)
        /\ writer[l] = u => writer_depth'[l] = writer_depth[l]
    BY <1>0, <1>3, OthersKeep
  <2>4. \A m : Depth(u, l, m)' = Depth(u, l, m)
    BY <2>2, DepthStays
  <2> QED
    BY <1>1, <2>2, <2>3, <2>4 DEF HeldAt
<1> QED
  BY <1>2, <1>3

LEMMA InitHeld == Init => HeldAsEntered
<1> SUFFICES ASSUME Init, NEW l \in Resources, NEW t \in Tasks PROVE HeldAt(t, l)
  BY DEF HeldAsEntered, HeldAt
<1>1. readers[l][t] = 0 /\ writer[l] = None /\ at[t] = 1 /\ t # None
  BY StorageAssumption DEF Init
<1>2. 1 .. at[t] - 1 = {}
  BY <1>1, SMT
<1>3. \A op, m : Passed(t, op, l, m) = {}
  BY <1>2 DEF Passed
<1>4. Cardinality({}) - Cardinality({}) = 0
  BY FS_EmptySet, SMT
<1>5. \A m : Depth(t, l, m) = 0
  BY <1>3, <1>4 DEF Depth
<1> QED
  BY <1>1, <1>5 DEF HeldAt

\* The lock counts exactly the sections its program is in, whatever the scripts and
\* whoever is killed: an unlock that has a section to leave never panics with
\* "released by non-owner".
THEOREM CountsAreSections == Spec => []HeldAsEntered
<1>1. Inv /\ HeldAsEntered /\ [Next]_vars => HeldAsEntered'
  <2> SUFFICES ASSUME Inv, HeldAsEntered, [Next]_vars PROVE HeldAsEntered'
    OBVIOUS
  <2>1. CASE \E t \in Tasks : Step(t)
    BY <2>1, StepHeld
  <2>2. ASSUME UNCHANGED <<scene, readers, writer, writer_depth, pc, at>> PROVE HeldAsEntered'
    <3> SUFFICES ASSUME NEW l \in Resources, NEW u \in Tasks, ~Gone(u)' PROVE HeldAt(u, l)'
      BY DEF HeldAsEntered, HeldAt
    <3>1. ~Gone(u) /\ \A m : Depth(u, l, m)' = Depth(u, l, m)
      BY <2>2, DepthStays DEF Gone
    <3>2. HeldAt(u, l)
      BY <3>1 DEF HeldAsEntered, HeldAt
    <3> QED
      BY <2>2, <3>1, <3>2, HeldElsewhere
  <2>3. CASE \E t \in Tasks : SignalWake(t) \/ Signal(t) \/ Kill(t)
    BY <2>2, <2>3 DEF SignalWake, Signal, Kill, resource
  <2>4. CASE UNCHANGED vars
    BY <2>2, <2>4 DEF vars, resource
  <2> QED
    BY <2>1, <2>3, <2>4 DEF Next
<1> QED
  BY <1>1, InitHeld, StorageInvariance, PTL DEF Spec

\* While one task is in a write section of a resource, no other is in a section of
\* it.
THEOREM SectionsAreExclusive == Spec => []SectionsExclude
<1>1. Inv /\ HeldAsEntered => SectionsExclude
  <2> SUFFICES ASSUME Inv, HeldAsEntered, NEW l \in Resources, NEW t \in Tasks, NEW u \in Tasks,
                      t # u, ~Gone(t), ~Gone(u), Depth(t, l, "Write") > 0
               PROVE  Depth(u, l, "Write") = 0 /\ Depth(u, l, "Read") = 0
    BY DEF SectionsExclude
  <2>1. ~(0 > 0)
    BY SMT
  <2>2. writer[l] = t
    BY <2>1 DEF HeldAsEntered
  <2>3. readers[l][u] = 0 /\ writer[l] # u
    BY <2>2, StorageAssumption DEF Inv, WriterExcludes
  <2> QED
    BY <2>3 DEF HeldAsEntered
<1> QED
  BY <1>1, CountsAreSections, StorageInvariance, PTL

\* The counts, tickets and queues stay in their types.
THEOREM StorageTypes == Spec => []TypeOK
<1>1. Inv => TypeOK
  BY DEF Inv
<1> QED
  BY <1>1, StorageInvariance, PTL
=============================================================================
