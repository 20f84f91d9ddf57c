------------------------ MODULE ProcessExitProofs ------------------------
(***************************************************************************)
(* What holds of the exit of every process tree.                           *)
(*                                                                         *)
(* A zombie is removed from the PID map once.  A process is always in one  *)
(* hand: in the child list of one parent, among the orphans one exiting    *)
(* thread is moving, or with the one waiter that won it; as long as it is  *)
(* in a hand it is in the map.                                             *)
(*                                                                         *)
(* The last thread of a process, and no earlier one, tears it down.  Each  *)
(* thread is followed along the exit path: until it is a zombie it is in   *)
(* the task list or in its own hands, a thread that looks for live         *)
(* siblings has all of them in its snapshot, and the thread that became a  *)
(* zombie last finds none.                                                 *)
(*                                                                         *)
(* A child list agrees with parent_pid, because an orphan gets its new     *)
(* parent_pid before it is linked and nobody else writes it meanwhile.     *)
(*                                                                         *)
(* No exit is missed by a thread that waits alone for its process: a child *)
(* that its scan overlooked is being ended, or moved, by a thread that has *)
(* yet to wake it.                                                         *)
(***************************************************************************)
EXTENDS ProcessExit, TLAPS

\* A leaf that does not name its prover is for Zenon.
USE Zenon

\* The labels at which kin holds orphans taken from a child list.
Moving == {"ancestor", "reaper", "adopt", "link"}

\* The labels that the invariant speaks of.
Special == Moving \cup {"unmap"}

Shape ==
    /\ DOMAIN pc = Tasks
    /\ kin \in [Tasks -> SUBSET Procs]
    /\ found \in [Tasks -> Procs \cup {None}]
    /\ children \in [Procs -> SUBSET Procs]
    /\ in_map \in [Procs -> BOOLEAN]
    /\ \A t \in Tasks : pc[t] = "link" => found[t] \in kin[t]
    /\ \A t \in Tasks : pc[t] = "reap" => found[t] \in Procs

\* Two parents never list the same child, and a listed child is in the map.
InLists ==
    \A c \in Procs : \A p \in Procs : c \in children[p] =>
        /\ in_map[c]
        /\ \A q \in Procs : c \in children[q] => p = q

\* An orphan on the move is in no list, in the map, and has one mover.
InMotion ==
    \A c \in Procs : \A t \in Tasks : pc[t] \in Moving /\ c \in kin[t] =>
        /\ in_map[c]
        /\ \A p \in Procs : c \notin children[p]
        /\ \A u \in Tasks : pc[u] \in Moving /\ c \in kin[u] => t = u

\* A child that a waiter won is in no list, not on the move, in the map, and
\* has one winner.
InReap ==
    \A t \in Tasks : pc[t] = "unmap" =>
        /\ found[t] \in Procs
        /\ in_map[found[t]]
        /\ \A p \in Procs : found[t] \notin children[p]
        /\ \A u \in Tasks : pc[u] \in Moving => found[t] \notin kin[u]
        /\ \A u \in Tasks : pc[u] = "unmap" /\ found[u] = found[t] => t = u

\* The inductive invariant of reaping.
ReapInv == Shape /\ InLists /\ InMotion /\ InReap /\ NoPanic

-----------------------------------------------------------------------------
\* The initial child lists come from one parent_pid per process.
LEMMA InitReap == Init => ReapInv
<1> SUFFICES ASSUME Init PROVE ReapInv
  OBVIOUS
<1> USE ProcessAssumption
<1>1. Shape
  <2>1. pc = [t \in Tasks |-> IF t \in Unborn THEN "unborn" ELSE "user"]
    BY DEF Init
  <2>2. DOMAIN pc = Tasks
    BY <2>1
  <2>3. \A t \in Tasks : pc[t] # "link" /\ pc[t] # "reap"
    BY <2>1
  <2>4. /\ kin \in [Tasks -> SUBSET Procs] /\ found \in [Tasks -> Procs \cup {None}]
        /\ children \in [Procs -> SUBSET Procs] /\ in_map \in [Procs -> BOOLEAN]
    BY DEF Init
  <2> QED
    BY <2>2, <2>3, <2>4 DEF Shape
<1>2. InLists
  BY DEF Init, InLists
<1>3. InMotion
  BY DEF Init, InMotion, Moving
<1>4. InReap
  BY DEF Init, InReap
<1> QED
  BY <1>1, <1>2, <1>3, <1>4 DEF ReapInv, Init, NoPanic

\* A step of one thread that ends outside the special labels and leaves the
\* lists and the map alone keeps the invariant.
LEMMA Bystander ==
  ASSUME ReapInv, NEW t \in Tasks,
         DOMAIN pc' = Tasks, pc'[t] \notin Special, pc'[t] = "reap" => found'[t] \in Procs,
         kin' \in [Tasks -> SUBSET Procs], found' \in [Tasks -> Procs \cup {None}],
         \A u \in Tasks : u # t => pc'[u] = pc[u] /\ kin'[u] = kin[u] /\ found'[u] = found[u],
         children' = children, in_map' = in_map, panicked' = panicked
  PROVE  ReapInv'
<1>1. Shape'
  BY DEF ReapInv, Shape, Special, Moving
<1>2. InLists'
  BY DEF ReapInv, InLists
<1>3. InMotion'
  BY SMT DEF ReapInv, InMotion, Special
<1>4. InReap'
  BY SMT DEF ReapInv, InReap, Special
<1> QED
  BY <1>1, <1>2, <1>3, <1>4 DEF ReapInv, NoPanic

\* The frequent case: only the label of one thread changes.
LEMMA JustGoto ==
  ASSUME ReapInv, NEW t \in Tasks, NEW l, l \notin Special, l # "reap", Goto(t, l),
         UNCHANGED <<kin, found, children, in_map, panicked>>
  PROVE  ReapInv'
<1>1. DOMAIN pc' = Tasks /\ pc'[t] = l /\ \A u \in Tasks : u # t => pc'[u] = pc[u]
  BY DEF Goto, ReapInv, Shape
<1> QED
  BY <1>1, Bystander DEF ReapInv, Shape

\* The end of a wait.
LEMMA EndWaitReap ==
  ASSUME ReapInv, NEW t \in Tasks, NEW l, l \notin Special, l # "reap", EndWait(t, l),
         UNCHANGED <<children, in_map, panicked>>
  PROVE  ReapInv'
<1>1. /\ DOMAIN pc' = Tasks /\ pc'[t] = l
      /\ \A u \in Tasks : u # t => pc'[u] = pc[u] /\ kin'[u] = kin[u] /\ found'[u] = found[u]
      /\ kin' \in [Tasks -> SUBSET Procs] /\ found' \in [Tasks -> Procs \cup {None}]
  BY DEF EndWait, Goto, ReapInv, Shape
<1> QED
  BY <1>1, Bystander

-----------------------------------------------------------------------------
(* The steps that move a process from hand to hand.                        *)

\* The children leave the list of the exiting process for its last thread.
LEMMA TakeOrphansReap ==
  ASSUME ReapInv, NEW t \in Tasks, TakeOrphans(t) PROVE ReapInv'
<1> DEFINE p == ProcOf[t]
<1> p \in Procs
  BY ProcessAssumption
<1>1. /\ pc[t] = "orphans" /\ DOMAIN pc' = Tasks /\ pc'[t] \in {"notify", "ancestor"}
      /\ \A u \in Tasks : u # t => pc'[u] = pc[u] /\ kin'[u] = kin[u]
      /\ kin'[t] = children[p] /\ kin' \in [Tasks -> SUBSET Procs]
      /\ children'[p] = {} /\ \A q \in Procs : q # p => children'[q] = children[q]
      /\ children' \in [Procs -> SUBSET Procs]
      /\ UNCHANGED <<found, in_map, panicked>>
  BY DEF TakeOrphans, Goto, ReapInv, Shape, meta
<1>2. Shape'
  BY <1>1 DEF ReapInv, Shape
<1>3. InLists'
  BY <1>1, SMT DEF ReapInv, InLists
<1>4. InMotion'
  BY <1>1, SMT DEF ReapInv, InLists, InMotion, Moving
<1>5. InReap'
  BY <1>1, SMT DEF ReapInv, InReap, Moving
<1> QED
  BY <1>1, <1>2, <1>3, <1>4, <1>5 DEF ReapInv, NoPanic

\* Walking to the reaper keeps the orphans where they are.
LEMMA WalkReap ==
  ASSUME ReapInv, NEW t \in Tasks, FirstAncestor(t) \/ FindReaper(t) PROVE ReapInv'
<1>1. /\ pc[t] \in Moving /\ DOMAIN pc' = Tasks /\ pc'[t] \in Moving \ {"link"}
      /\ \A u \in Tasks : u # t => pc'[u] = pc[u]
      /\ UNCHANGED <<kin, found, children, in_map, panicked>>
  BY DEF FirstAncestor, FindReaper, Goto, ReapInv, Shape, meta, links, Moving
<1>2. Shape'
  BY <1>1 DEF ReapInv, Shape, Moving
<1>3. InLists'
  BY <1>1 DEF ReapInv, InLists
<1>4. InMotion'
  BY <1>1, SMT DEF ReapInv, InMotion
<1>5. InReap'
  BY <1>1, SMT DEF ReapInv, InReap, Moving
<1> QED
  BY <1>1, <1>2, <1>3, <1>4, <1>5 DEF ReapInv, NoPanic

\* Choosing the next orphan keeps all of them on the move.
LEMMA AdoptReap ==
  ASSUME ReapInv, NEW t \in Tasks, AdoptChild(t) PROVE ReapInv'
<1>1. /\ pc[t] = "adopt" /\ DOMAIN pc' = Tasks /\ pc'[t] = "link"
      /\ \A u \in Tasks : u # t => pc'[u] = pc[u] /\ found'[u] = found[u]
      /\ found'[t] \in kin[t] /\ found' \in [Tasks -> Procs \cup {None}]
      /\ UNCHANGED <<kin, children, in_map, panicked>>
  BY SMT DEF AdoptChild, Goto, ReapInv, Shape, meta
<1>2. Shape'
  BY <1>1 DEF ReapInv, Shape
<1>3. InLists'
  BY <1>1 DEF ReapInv, InLists
<1>4. InMotion'
  BY <1>1, SMT DEF ReapInv, InMotion, Moving
<1>5. InReap'
  BY <1>1, SMT DEF ReapInv, InReap, Moving
<1> QED
  BY <1>1, <1>2, <1>3, <1>4, <1>5 DEF ReapInv, NoPanic

\* The orphan moves into the list of the reaper.
LEMMA LinkReap ==
  ASSUME ReapInv, NEW t \in Tasks, LinkChild(t) PROVE ReapInv'
<1> DEFINE c == found[t]
<1>1. /\ pc[t] = "link" /\ DOMAIN pc' = Tasks /\ pc'[t] = "adopt"
      /\ \A u \in Tasks : u # t => pc'[u] = pc[u] /\ kin'[u] = kin[u] /\ found'[u] = found[u]
      /\ c \in kin[t] /\ c \in Procs /\ kin'[t] = kin[t] \ {c} /\ found'[t] = None
      /\ kin' \in [Tasks -> SUBSET Procs] /\ found' \in [Tasks -> Procs \cup {None}]
      /\ UNCHANGED <<in_map, panicked>>
  BY DEF LinkChild, Goto, ReapInv, Shape, meta
<1>2. /\ children' \in [Procs -> SUBSET Procs]
      /\ \A q \in Procs : q # reaper[t] => children'[q] = children[q]
      /\ reaper[t] \in Procs => children'[reaper[t]] = children[reaper[t]] \cup {c}
  <2>1. children \in [Procs -> SUBSET Procs]
    BY DEF ReapInv, Shape
  <2>2. children' = [children EXCEPT ![reaper[t]] = @ \cup {c}]
    BY DEF LinkChild
  <2>3. c \in Procs
    BY <1>1
  <2> HIDE DEF c
  <2>4. reaper[t] \in Procs => children[reaper[t]] \cup {c} \in SUBSET Procs
    BY <2>1, <2>3
  <2> QED
    BY <2>1, <2>2, <2>4
<1>3. /\ in_map[c] /\ \A q \in Procs : c \notin children[q]
      /\ \A u \in Tasks : u # t /\ pc[u] \in Moving => c \notin kin[u]
      /\ \A u \in Tasks : pc[u] = "unmap" => found[u] # c
  BY <1>1, SMT DEF ReapInv, InMotion, InReap, Moving
<1>4. Shape'
  BY <1>1, <1>2 DEF ReapInv, Shape
<1>5. InLists'
  BY <1>1, <1>2, <1>3, SMT DEF ReapInv, InLists
<1>6. InMotion'
  BY <1>1, <1>2, <1>3, SMT DEF ReapInv, InMotion, Moving
<1>7. InReap'
  BY <1>1, <1>2, <1>3, SMT DEF ReapInv, InReap, Moving
<1> QED
  BY <1>1, <1>4, <1>5, <1>6, <1>7 DEF ReapInv, NoPanic

\* The waiter that finds the child still listed takes it.
LEMMA WaitReapReap ==
  ASSUME ReapInv, NEW t \in Tasks, WaitReap(t) PROVE ReapInv'
<1> DEFINE p == ProcOf[t]
<1> DEFINE c == found[t]
<1> p \in Procs /\ c \in Procs
  BY ProcessAssumption DEF WaitReap, ReapInv, Shape
<1>1. CASE ~WinsReap(t)
  BY <1>1, EndWaitReap DEF WaitReap, Special, Moving
<1>2. CASE WinsReap(t)
  <2>1. /\ pc[t] = "reap" /\ DOMAIN pc' = Tasks /\ pc'[t] = "unmap"
        /\ \A u \in Tasks : u # t => pc'[u] = pc[u]
        /\ c \in children[p] /\ children'[p] = children[p] \ {c}
        /\ \A q \in Procs : q # p => children'[q] = children[q]
        /\ children' \in [Procs -> SUBSET Procs]
        /\ UNCHANGED <<kin, found, in_map, panicked>>
    BY <1>2, SMT DEF WaitReap, WinsReap, Goto, ReapInv, Shape
  <2>2. /\ in_map[c] /\ \A q \in Procs : q # p => c \notin children[q]
        /\ \A u \in Tasks : pc[u] \in Moving => c \notin kin[u]
        /\ \A u \in Tasks : pc[u] = "unmap" => found[u] # c
    BY <2>1, SMT DEF ReapInv, InLists, InMotion, InReap
  <2>3. Shape'
    BY <2>1 DEF ReapInv, Shape
  <2>4. InLists'
    BY <2>1, SMT DEF ReapInv, InLists
  <2>5. InMotion'
    BY <2>1, SMT DEF ReapInv, InMotion, Moving
  <2>6. InReap'
    BY <2>1, <2>2, SMT DEF ReapInv, InReap, Moving
  <2> QED
    BY <2>1, <2>3, <2>4, <2>5, <2>6 DEF ReapInv, NoPanic
<1> QED
  BY <1>1, <1>2

\* The winner removes the child from the map, where it still is.
LEMMA WaitUnmapReap ==
  ASSUME ReapInv, NEW t \in Tasks, WaitUnmap(t) PROVE ReapInv'
<1> DEFINE c == found[t]
<1>1. /\ pc[t] = "unmap" /\ DOMAIN pc' = Tasks /\ pc'[t] = "user"
      /\ \A u \in Tasks : u # t => pc'[u] = pc[u] /\ kin'[u] = kin[u] /\ found'[u] = found[u]
      /\ kin' \in [Tasks -> SUBSET Procs] /\ found' \in [Tasks -> Procs \cup {None}]
      /\ panicked' = (panicked \/ ~in_map[c])
      /\ UNCHANGED children
  BY DEF WaitUnmap, EndWait, Goto, ReapInv, Shape, links
<1>2. /\ c \in Procs /\ in_map[c] /\ \A q \in Procs : c \notin children[q]
      /\ \A u \in Tasks : pc[u] \in Moving => c \notin kin[u]
      /\ \A u \in Tasks : u # t /\ pc[u] = "unmap" => found[u] # c
  BY <1>1 DEF ReapInv, InReap
<1>3. /\ in_map' \in [Procs -> BOOLEAN]
      /\ \A d \in Procs : d # c => in_map'[d] = in_map[d]
  BY <1>2 DEF WaitUnmap, ReapInv, Shape
<1>4. Shape'
  BY <1>1, <1>3 DEF ReapInv, Shape
<1>5. InLists'
  BY <1>1, <1>2, <1>3, SMT DEF ReapInv, InLists
<1>6. InMotion'
  BY <1>1, <1>2, <1>3, SMT DEF ReapInv, InMotion, Moving
<1>7. InReap'
  BY <1>1, <1>2, <1>3, SMT DEF ReapInv, InReap, Moving
<1>8. NoPanic'
  BY <1>1, <1>2 DEF ReapInv, NoPanic
<1> QED
  BY <1>4, <1>5, <1>6, <1>7, <1>8 DEF ReapInv

-----------------------------------------------------------------------------
(* The other steps.                                                        *)

\* Steps that leave the labels, the lists and the map alone.
LEMMA Untouched ==
  ASSUME ReapInv, UNCHANGED <<pc, kin, found, children, in_map, panicked>> PROVE ReapInv'
<1>1. Shape' /\ InLists' /\ InMotion' /\ InReap'
  BY SMT DEF ReapInv, Shape, InLists, InMotion, InReap
<1> QED
  BY <1>1 DEF ReapInv, NoPanic

LEMMA VoluntaryReap ==
  ASSUME ReapInv, NEW t \in Tasks, Voluntary(t) PROVE ReapInv'
<1> USE DEF Special, Moving, args, links, meta
<1>1. CASE SysExit(t)
  BY <1>1, JustGoto DEF SysExit
<1>2. CASE SysExitGroup(t)
  BY <1>2, JustGoto DEF SysExitGroup
<1>3. CASE \E u \in Tasks : CloneThread(t, u)
  BY <1>3, JustGoto DEF CloneThread
<1>4. CASE \E w \in Waits : Waitpid(t, w)
  BY <1>4, JustGoto DEF Waitpid
<1> QED
  BY <1>1, <1>2, <1>3, <1>4 DEF Voluntary

LEMMA UserReap ==
  ASSUME ReapInv, NEW t \in Tasks, Preempt(t) \/ TrapReturn(t) PROVE ReapInv'
<1> USE DEF Special, Moving, args, links, meta
<1>1. CASE Preempt(t)
  <2>1. \E l \in {"exit", "group", "user"} : Goto(t, l)
    BY <1>1 DEF Preempt, ExitIfGroupExitedOrKilled
  <2> QED
    BY <1>1, <2>1, JustGoto DEF Preempt
<1>2. CASE TrapReturn(t)
  <2>1. CASE sigkill[t]
    BY <1>2, <2>1, JustGoto DEF TrapReturn
  <2>2. CASE ~sigkill[t]
    BY <1>2, <2>2, Untouched DEF TrapReturn
  <2> QED
    BY <2>1, <2>2
<1> QED
  BY <1>1, <1>2

\* The snapshots and the loops over them.
LEMMA SnapshotReap ==
  ASSUME ReapInv, NEW t \in Tasks, NEW from, NEW to, NEW set,
         to \notin Special, to # "reap", Snapshot(t, from, to, set)
  PROVE  ReapInv'
  BY JustGoto DEF Snapshot, links, meta

LEMMA LoopReap ==
  ASSUME ReapInv, NEW t \in Tasks, NEW label, NEW next, next \notin Special, next # "reap",
         LoopDone(t, label, next) \/ \E u \in snap[t] : LoopTask(t, label, u)
  PROVE  ReapInv'
<1>1. CASE LoopDone(t, label, next)
  BY <1>1, JustGoto DEF LoopDone, args, links, meta
<1>2. CASE \E u \in snap[t] : LoopTask(t, label, u)
  BY <1>2, Untouched DEF LoopTask, links, meta
<1> QED
  BY <1>1, <1>2

LEMMA GroupReap ==
  ASSUME ReapInv, NEW t \in Tasks, GroupStep(t) PROVE ReapInv'
<1> USE DEF Special, Moving
<1>1. CASE GroupSnapshot(t)
  BY <1>1, SnapshotReap DEF GroupSnapshot
<1>2. CASE GroupWake(t)
  BY <1>2, LoopReap DEF GroupWake
<1>3. CASE GroupCode(t)
  <2>1. \E l \in {"exit", "gsend"} : Goto(t, l)
    BY <1>3 DEF GroupCode
  <2> QED
    BY <1>3, <2>1, JustGoto DEF GroupCode, args, links
<1>4. CASE GroupSend(t)
  BY <1>4, SnapshotReap DEF GroupSend
<1>5. CASE GroupKill(t)
  BY <1>5, LoopReap DEF GroupKill
<1> QED
  BY <1>1, <1>2, <1>3, <1>4, <1>5 DEF GroupStep

LEMMA ExitReap ==
  ASSUME ReapInv, NEW t \in Tasks, ExitStep(t) PROVE ReapInv'
<1> USE DEF Special, Moving
<1>1. CASE ExitZombie(t)
  BY <1>1, JustGoto DEF ExitZombie, args, links, meta
<1>2. CASE ExitRetain(t)
  BY <1>2, JustGoto DEF ExitRetain, args, meta
<1>3. CASE ExitSnapshot(t) \/ CheckSnapshot(t) \/ ParentSnapshot(t)
  BY <1>3, SnapshotReap DEF ExitSnapshot, CheckSnapshot, ParentSnapshot
<1>4. CASE ExitWake(t)
  BY <1>4, LoopReap DEF ExitWake
<1>5. CASE CheckZombies(t)
  <2>1. \E l \in {"usage", "gone"} : Goto(t, l)
    BY <1>5 DEF CheckZombies
  <2> QED
    BY <1>5, <2>1, JustGoto DEF CheckZombies, links, meta
<1>6. CASE PublishUsage(t)
  BY <1>6, JustGoto DEF PublishUsage, args, links
<1>7. CASE ReleaseOwner(t)
  BY <1>7, JustGoto DEF ReleaseOwner, args, links
<1>8. CASE SetCode(t)
  BY <1>8, JustGoto DEF SetCode, args, links
<1>9. CASE Notify(t)
  <2>1. \E l \in {"nppid", "nwake"} : Goto(t, l)
    BY <1>9 DEF Notify
  <2> QED
    BY <1>9, <2>1, JustGoto DEF Notify, args, links, meta
<1>10. CASE SignalParent(t)
  BY <1>10, LoopReap DEF SignalParent, SendSigchld
<1>11. CASE WakeParent(t)
  BY <1>11, JustGoto DEF WakeParent, args, links
<1> QED
  BY <1>1, <1>2, <1>3, <1>4, <1>5, <1>6, <1>7, <1>8, <1>9, <1>10, <1>11 DEF ExitStep

LEMMA ReparentReap ==
  ASSUME ReapInv, NEW t \in Tasks, ReparentStep(t) PROVE ReapInv'
<1> USE DEF Special, Moving
<1>1. CASE Adopted(t)
  <2>1. \E l \in {"adopted", "notify"} : Goto(t, l)
    BY <1>1 DEF Adopted
  <2> QED
    BY <1>1, <2>1, JustGoto DEF Adopted, args, links, meta
<1>2. CASE WakeReaper(t)
  BY <1>2, JustGoto DEF WakeReaper, links
<1>3. CASE SignalReaper(t)
  BY <1>3, LoopReap DEF SignalReaper, SendSigchld
<1> QED
  BY <1>1, <1>2, <1>3, TakeOrphansReap, WalkReap, AdoptReap, LinkReap DEF ReparentStep

LEMMA WaitStepReap ==
  ASSUME ReapInv, NEW t \in Tasks, WaitStep(t) PROVE ReapInv'
<1> USE DEF Special, Moving
<1>1. CASE WaitTop(t)
  <2>1. \/ \E l \in {"exit", "group"} : EndWait(t, l)
        \/ Goto(t, "poll") /\ UNCHANGED <<kin, found>>
    BY <1>1 DEF WaitTop
  <2> QED
    BY <1>1, <2>1, JustGoto, EndWaitReap DEF WaitTop, links
<1>2. CASE WaitPoll(t)
  <2>1. /\ DOMAIN pc' = Tasks /\ pc'[t] = "scan" /\ kin' \in [Tasks -> SUBSET Procs]
        /\ \A u \in Tasks : u # t => pc'[u] = pc[u] /\ kin'[u] = kin[u]
        /\ UNCHANGED <<found, children, in_map, panicked>>
    BY <1>2, ProcessAssumption DEF WaitPoll, Goto, ReapInv, Shape, links
  <2> QED
    BY <2>1, Bystander DEF ReapInv, Shape
<1>3. CASE WaitScan(t)
  <2>1. UNCHANGED <<children, in_map, panicked>>
    BY <1>3 DEF WaitScan, links
  <2>2. \/ EndWait(t, "user")
        \/ /\ Goto(t, "sigs") /\ UNCHANGED found /\ kin' = [kin EXCEPT ![t] = {}]
        \/ /\ Goto(t, "reap") /\ kin' = [kin EXCEPT ![t] = {}]
           /\ \E c \in Procs : found' = [found EXCEPT ![t] = c]
    BY <1>3 DEF WaitScan, ReapInv, Shape
  <2>3. CASE EndWait(t, "user")
    BY <2>1, <2>3, EndWaitReap
  <2>4. CASE ~EndWait(t, "user")
    <3>1. /\ DOMAIN pc' = Tasks /\ pc'[t] \in {"sigs", "reap"}
          /\ kin' \in [Tasks -> SUBSET Procs] /\ found' \in [Tasks -> Procs \cup {None}]
          /\ pc'[t] = "reap" => found'[t] \in Procs
          /\ \A u \in Tasks : u # t => pc'[u] = pc[u] /\ kin'[u] = kin[u] /\ found'[u] = found[u]
      BY <2>2, <2>4, SMT DEF Goto, ReapInv, Shape
    <3> QED
      BY <2>1, <3>1, Bystander
  <2> QED
    BY <2>3, <2>4
<1>4. CASE WaitSignals(t)
  <2>1. EndWait(t, "user") \/ (Goto(t, "block") /\ UNCHANGED <<kin, found>>)
    BY <1>4 DEF WaitSignals
  <2> QED
    BY <1>4, <2>1, JustGoto, EndWaitReap DEF WaitSignals, links
<1>5. CASE WaitBlock(t)
  <2>1. \E l \in {"top", "asleep"} : Goto(t, l)
    BY <1>5 DEF WaitBlock
  <2> QED
    BY <1>5, <2>1, JustGoto DEF WaitBlock, args, links, meta
<1>6. CASE WaitResume(t)
  BY <1>6, JustGoto DEF WaitResume, args, links, meta
<1> QED
  BY <1>1, <1>2, <1>3, <1>4, <1>5, <1>6, WaitReapReap, WaitUnmapReap DEF WaitStep

\* Every step keeps each process in one hand.
LEMMA NextReap == ReapInv /\ [Next]_vars => ReapInv'
<1> SUFFICES ASSUME ReapInv, [Next]_vars PROVE ReapInv'
  OBVIOUS
<1>1. CASE UNCHANGED vars
  BY <1>1, Untouched DEF vars, args, links, meta
<1>2. CASE Next
  BY <1>2, VoluntaryReap, UserReap, GroupReap, ExitReap, ReparentReap, WaitStepReap
     DEF Next, KernelStep
<1> QED
  BY <1>1, <1>2

-----------------------------------------------------------------------------
\* Whatever the process tree, however many threads exit, wait and are
\* reparented concurrently, a process is always in exactly one hand.
THEOREM OneHand == Spec => []ReapInv
<1> QED
  BY InitReap, NextReap, PTL DEF Spec

\* remove_from_global_map never panics: a zombie is removed from the PID map
\* by one waiter only (sys_waitpid, remove_child_from_parent).
THEOREM ReapedOnlyOnce == Spec => []NoPanic
<1>1. ReapInv => NoPanic
  BY DEF ReapInv
<1> QED
  BY <1>1, OneHand, PTL
-----------------------------------------------------------------------------
(* Types.  They need one fact about control: the reaper is chosen before a *)
(* child is linked to it.                                                  *)

Data ==
    /\ sigkill \in [Tasks -> BOOLEAN] /\ sigchld \in [Tasks -> BOOLEAN]
    /\ woke \in [Tasks -> BOOLEAN] /\ has_zombie_child \in [Tasks -> BOOLEAN]
    /\ wait \in [Tasks -> Waits \cup {None}]
    /\ snap \in [Tasks -> SUBSET Tasks] /\ kin \in [Tasks -> SUBSET Procs]
    /\ found \in [Tasks -> Procs \cup {None}] /\ reaper \in [Tasks -> Procs \cup {None}]
    /\ tasks \in [Procs -> SUBSET Tasks] /\ children \in [Procs -> SUBSET Procs]
    /\ parent_pid \in [Procs -> Procs \cup {None}]
    /\ exit_signal \in [Procs -> {"SIGCHLD", "none"}]
    /\ exiting \in [Procs -> BOOLEAN] /\ usage \in [Procs -> BOOLEAN]
    /\ in_map \in [Procs -> BOOLEAN] /\ released \in [Procs -> Nat]
    /\ event \in [Procs -> Tasks \cup {None}] /\ panicked \in BOOLEAN
    /\ scene \in Scenarios

Statuses == {"unborn", "Running", "Blocked", "Zombie"}

\* A thread is a zombie from the first step of its exit on.
Lives ==
    /\ status \in [Tasks -> Statuses] /\ pc \in [Tasks -> Labels]
    /\ \A t \in Tasks : status[t] = "Zombie" <=> pc[t] \in Dead

ReaperChosen == \A t \in Tasks : pc[t] \in {"adopt", "link", "adopted"} => reaper[t] \in Procs

\* The inductive invariant behind the types.
Typed == Data /\ Lives /\ ReaperChosen

LEMMA InitTyped == Init => Typed
<1> SUFFICES ASSUME Init PROVE Typed
  OBVIOUS
<1>1. Data
  <2>1. /\ parent_pid \in [Procs -> Procs \cup {None}] /\ scene \in Scenarios
        /\ exit_signal \in [Procs -> {"SIGCHLD", "none"}]
    BY ProcessAssumption DEF Init, ParentOf
  <2>2. /\ tasks \in [Procs -> SUBSET Tasks] /\ children \in [Procs -> SUBSET Procs]
        /\ released \in [Procs -> Nat] /\ wait \in [Tasks -> Waits \cup {None}]
    BY SMT DEF Init, Born
  <2> QED
    BY <2>1, <2>2 DEF Init, Data
<1>2. Lives
  BY SMT DEF Init, Lives, Statuses, Labels, Dead, Teardown
<1>3. ReaperChosen
  BY DEF Init, ReaperChosen
<1> QED
  BY <1>1, <1>2, <1>3 DEF Typed

\* A step that moves one thread between labels of the same kind, and turns no
\* thread into a zombie or back.
LEMMA LivesKept ==
  ASSUME Lives, NEW t \in Tasks, NEW l \in Labels, Goto(t, l),
         status' \in [Tasks -> Statuses],
         \A u \in Tasks : status'[u] = "Zombie" <=> status[u] = "Zombie",
         l \in Dead <=> pc[t] \in Dead
  PROVE  Lives'
  BY DEF Lives, Goto

\* What a wake-up does to the statuses.
LEMMA WakeUpStatus ==
  ASSUME Lives, NEW u \in Tasks, status' = WakeUp(u)
  PROVE  /\ status' \in [Tasks -> Statuses]
         /\ \A v \in Tasks : status'[v] = "Zombie" <=> status[v] = "Zombie"
  BY SMT DEF Lives, WakeUp, Statuses

LEMMA EventWakeStatus ==
  ASSUME Data, Lives, NEW p \in Procs, EventWake(p)
  PROVE  /\ status' \in [Tasks -> Statuses]
         /\ \A v \in Tasks : status'[v] = "Zombie" <=> status[v] = "Zombie"
         /\ event' \in [Procs -> Tasks \cup {None}] /\ woke' \in [Tasks -> BOOLEAN]
<1>1. event[p] \in Tasks \cup {None}
  BY DEF Data
<1>2. event' \in [Procs -> Tasks \cup {None}]
  BY SMT DEF Data, EventWake
<1>3. CASE event[p] = None
  BY <1>2, <1>3 DEF EventWake, Data, Lives
<1>4. CASE event[p] # None
  <2>1. event[p] \in Tasks /\ status' = WakeUp(event[p]) /\ woke' = [woke EXCEPT ![event[p]] = TRUE]
    BY <1>1, <1>4 DEF EventWake
  <2>2. woke' \in [Tasks -> BOOLEAN]
    BY <2>1, SMT DEF Data
  <2> QED
    BY <1>2, <2>1, <2>2, WakeUpStatus
<1> QED
  BY <1>3, <1>4

\* The steps of a thread in user mode.
LEMMA UserData ==
  ASSUME Typed, NEW t \in Tasks, Voluntary(t) \/ (UNCHANGED scene /\ (Preempt(t) \/ TrapReturn(t)))
  PROVE  Data'
<1> USE DEF Typed, Data, threads, args, links, meta, Waits
<1>0. ProcOf[t] \in Procs
  BY ProcessAssumption
<1>1. CASE SysExit(t) \/ SysExitGroup(t) \/ Preempt(t)
  BY <1>1, SMTT(30) DEF SysExit, SysExitGroup, Preempt, Voluntary
<1>2. CASE UNCHANGED scene /\ \E u \in Tasks : CloneThread(t, u)
  BY <1>0, <1>2, SMT DEF CloneThread
<1>3. CASE UNCHANGED scene /\ \E w \in Waits : Waitpid(t, w)
  BY <1>3, SMTT(30) DEF Waitpid
<1>4. CASE UNCHANGED scene /\ TrapReturn(t)
  <2>1. sigkill' \in [Tasks -> BOOLEAN] /\ sigchld' \in [Tasks -> BOOLEAN]
    BY <1>4 DEF TrapReturn
  <2> QED
    BY <1>4, <2>1, SMT DEF TrapReturn
<1> QED
  BY <1>1, <1>2, <1>3, <1>4 DEF Voluntary

LEMMA SnapshotData ==
  ASSUME Typed, NEW t \in Tasks, NEW from, NEW to, NEW set \in SUBSET Tasks,
         Snapshot(t, from, to, set), UNCHANGED scene
  PROVE  Data'
  BY SMT DEF Typed, Data, Snapshot, threads, links, meta, Waits

LEMMA LoopData ==
  ASSUME Typed, NEW t \in Tasks, NEW label, NEW next, UNCHANGED scene,
         \/ LoopDone(t, label, next)
         \/ \E u \in snap[t] : LoopTask(t, label, u) /\ UNCHANGED <<sigkill, sigchld>>
         \/ \E u \in snap[t] : /\ LoopTask(t, label, u)
                               /\ sigkill' = [sigkill EXCEPT ![u] = TRUE] /\ UNCHANGED sigchld
         \/ SendSigchld(t, label)
  PROVE  Data'
<1>1. CASE LoopDone(t, label, next)
  BY <1>1, SMTT(30) DEF Typed, Data, LoopDone, threads, args, links, meta, Waits
<1>2. CASE \E u \in snap[t] : LoopTask(t, label, u) /\ UNCHANGED <<sigkill, sigchld>>
  BY <1>2, SMTT(30) DEF Typed, Data, LoopTask, links, meta, Waits
<1>3. CASE \E u \in snap[t] : /\ LoopTask(t, label, u)
                              /\ sigkill' = [sigkill EXCEPT ![u] = TRUE] /\ UNCHANGED sigchld
  BY <1>3, SMTT(30) DEF Typed, Data, LoopTask, links, meta, Waits
<1>4. CASE SendSigchld(t, label)
  BY <1>4, SMT DEF Typed, Data, LoopTask, SendSigchld, links, meta, Waits
<1> QED
  BY <1>1, <1>2, <1>3, <1>4

LEMMA GroupData ==
  ASSUME Typed, NEW t \in Tasks, UNCHANGED scene, GroupStep(t) PROVE Data'
<1>0. ProcOf[t] \in Procs
  BY ProcessAssumption
<1>1. CASE GroupSnapshot(t)
  <2>1. tasks[ProcOf[t]] \ {t} \in SUBSET Tasks
    BY <1>0 DEF Typed, Data
  <2> QED
    BY <1>1, <2>1, SnapshotData DEF GroupSnapshot
<1>2. CASE GroupWake(t)
  BY <1>2, LoopData DEF GroupWake
<1>3. CASE GroupCode(t)
  <2>1. exiting' \in [Procs -> BOOLEAN]
    BY <1>3 DEF GroupCode, Typed, Data
  <2> QED
    BY <1>3, <2>1 DEF GroupCode, Typed, Data, threads, args, links, Waits
<1>4. CASE GroupSend(t)
  BY <1>0, <1>4, SnapshotData DEF GroupSend, Typed, Data
<1>5. CASE GroupKill(t)
  BY <1>5, LoopData DEF GroupKill
<1> QED
  BY <1>1, <1>2, <1>3, <1>4, <1>5 DEF GroupStep

LEMMA ExitData ==
  ASSUME Typed, NEW t \in Tasks, UNCHANGED scene, ExitStep(t) PROVE Data'
<1>0. ProcOf[t] \in Procs
  BY ProcessAssumption
<1>1. CASE ExitZombie(t) \/ Notify(t)
  BY <1>1, SMTT(30) DEF ExitZombie, Notify, Typed, Data, threads, args, links, meta, Waits
<1>2. CASE ExitRetain(t)
  BY <1>0, <1>2, SMT DEF ExitRetain, Typed, Data, threads, args, meta, Waits
<1>3. CASE ExitSnapshot(t) \/ CheckSnapshot(t)
  BY <1>0, <1>3, SnapshotData DEF ExitSnapshot, CheckSnapshot, Typed, Data
<1>4. CASE ExitWake(t)
  BY <1>4, LoopData DEF ExitWake
<1>5. CASE CheckZombies(t)
  BY <1>5, SMT DEF CheckZombies, Typed, Data, threads, links, meta, Waits
<1>6. CASE PublishUsage(t)
  <2>1. usage' \in [Procs -> BOOLEAN]
    BY <1>6 DEF PublishUsage, Typed, Data
  <2> QED
    BY <1>6, <2>1 DEF PublishUsage, Typed, Data, threads, args, links, Waits
<1>7. CASE ReleaseOwner(t)
  <2>1. released' \in [Procs -> Nat]
    BY <1>0, <1>7, SMT DEF ReleaseOwner, Typed, Data
  <2> QED
    BY <1>7, <2>1 DEF ReleaseOwner, Typed, Data, threads, args, links, Waits
<1>8. CASE SetCode(t)
  <2>1. exiting' \in [Procs -> BOOLEAN]
    BY <1>8 DEF SetCode, Typed, Data
  <2> QED
    BY <1>8, <2>1 DEF SetCode, Typed, Data, threads, args, links, Waits
<1>9. CASE ParentSnapshot(t)
  <2> DEFINE q == parent_pid[ProcOf[t]]
             set == IF q # None /\ in_map[q] THEN tasks[q] ELSE {}
  <2>1. q \in Procs \cup {None}
    BY <1>0 DEF Typed, Data
  <2>2. set \in SUBSET Tasks
    BY <2>1 DEF Typed, Data
  <2> QED
    BY <1>9, <2>2, SnapshotData DEF ParentSnapshot
<1>10. CASE SignalParent(t)
  BY <1>10, LoopData DEF SignalParent
<1>11. CASE WakeParent(t)
  <2> DEFINE q == parent_pid[ProcOf[t]]
  <2>1. q \in Procs \cup {None}
    BY <1>0 DEF Typed, Data
  <2>2. event' \in [Procs -> Tasks \cup {None}] /\ woke' \in [Tasks -> BOOLEAN]
    <3>1. CASE q # None /\ in_map[q]
      BY <1>11, <2>1, <3>1, EventWakeStatus DEF WakeParent, Typed
    <3>2. CASE ~(q # None /\ in_map[q])
      BY <1>11, <3>2 DEF WakeParent, Typed, Data
    <3> QED
      BY <3>1, <3>2
  <2> QED
    BY <1>11, <2>2 DEF WakeParent, Typed, Data, args, links, Waits
<1> QED
  BY <1>1, <1>2, <1>3, <1>4, <1>5, <1>6, <1>7, <1>8, <1>9, <1>10, <1>11 DEF ExitStep

LEMMA ReparentData ==
  ASSUME Typed, ReapInv, NEW t \in Tasks, UNCHANGED scene, ReparentStep(t) PROVE Data'
<1>0. ProcOf[t] \in Procs
  BY ProcessAssumption
<1>1. CASE TakeOrphans(t)
  BY <1>0, <1>1, SMT DEF TakeOrphans, Typed, Data, threads, meta, Waits
<1>2. CASE FirstAncestor(t)
  BY <1>0, <1>2, SMTT(30) DEF FirstAncestor, Typed, Data, threads, links, meta, Waits
<1>3. CASE FindReaper(t)
  <2> DEFINE a == reaper[t]
  <2>1. a \in Procs \cup {None}
    BY DEF Typed, Data
  <2>2. reaper' \in [Tasks -> Procs \cup {None}]
    <3>1. \/ UNCHANGED reaper
          \/ reaper' = [reaper EXCEPT ![t] = Initproc]
          \/ a # None /\ reaper' = [reaper EXCEPT ![t] = parent_pid[a]]
      BY <1>3 DEF FindReaper
    <3>2. /\ reaper \in [Tasks -> Procs \cup {None}] /\ Initproc \in Procs
          /\ a # None => parent_pid[a] \in Procs \cup {None}
      BY <2>1, ProcessAssumption DEF Typed, Data
    <3> QED
      BY <3>1, <3>2
  <2> QED
    BY <1>3, <2>2, SMT DEF FindReaper, Typed, Data, threads, links, meta, Waits
<1>4. CASE AdoptChild(t)
  <2>1. PICK c \in kin[t] :
           /\ parent_pid' = [parent_pid EXCEPT ![c] = reaper[t]]
           /\ exit_signal' = [exit_signal EXCEPT ![c] = "SIGCHLD"]
           /\ has_zombie_child' = [has_zombie_child EXCEPT ![t] = @ \/ all_tasks_exited(c)]
           /\ found' = [found EXCEPT ![t] = c]
    BY <1>4 DEF AdoptChild
  <2>2. c \in Procs
    BY <2>1 DEF Typed, Data
  <2>3. has_zombie_child' \in [Tasks -> BOOLEAN]
    BY <2>1 DEF Typed, Data
  <2> QED
    BY <1>4, <2>1, <2>2, <2>3, SMT DEF AdoptChild, Typed, Data, threads, meta, Waits
<1>5. CASE LinkChild(t)
  <2>1. found[t] \in Procs /\ reaper[t] \in Procs
    BY <1>5 DEF LinkChild, ReapInv, Shape, Typed, ReaperChosen
  <2>2. children' \in [Procs -> SUBSET Procs]
    <3>1. /\ children \in [Procs -> SUBSET Procs]
          /\ children[reaper[t]] \cup {found[t]} \in SUBSET Procs
      BY <2>1 DEF Typed, Data
    <3> QED
      BY <1>5, <3>1 DEF LinkChild
  <2> QED
    BY <1>5, <2>1, <2>2, SMT DEF LinkChild, Typed, Data, threads, meta, Waits
<1>6. CASE Adopted(t)
  BY <1>6, SMT DEF Adopted, Typed, Data, threads, args, links, meta, Waits
<1>7. CASE WakeReaper(t)
  <2> DEFINE r == reaper[t]
  <2>1. r \in Procs
    BY <1>7 DEF WakeReaper, Typed, ReaperChosen
  <2>2. event' \in [Procs -> Tasks \cup {None}] /\ woke' \in [Tasks -> BOOLEAN]
    BY <1>7, <2>1, EventWakeStatus DEF WakeReaper, Typed
  <2>3. snap' \in [Tasks -> SUBSET Tasks]
    BY <1>7, <2>1, SMT DEF WakeReaper, Typed, Data
  <2> QED
    BY <1>7, <2>2, <2>3 DEF WakeReaper, Typed, Data, links, Waits
<1>8. CASE SignalReaper(t)
  BY <1>8, LoopData DEF SignalReaper
<1> QED
  BY <1>1, <1>2, <1>3, <1>4, <1>5, <1>6, <1>7, <1>8 DEF ReparentStep

LEMMA EndWaitData ==
  ASSUME Typed, NEW t \in Tasks, NEW l, EndWait(t, l)
  PROVE  /\ wait' \in [Tasks -> Waits \cup {None}] /\ woke' \in [Tasks -> BOOLEAN]
         /\ kin' \in [Tasks -> SUBSET Procs] /\ found' \in [Tasks -> Procs \cup {None}]
         /\ event' \in [Procs -> Tasks \cup {None}]
  BY SMT DEF EndWait, Typed, Data

LEMMA WaitData ==
  ASSUME Typed, NEW t \in Tasks, UNCHANGED scene, WaitStep(t) PROVE Data'
<1>0. ProcOf[t] \in Procs
  BY ProcessAssumption
<1> USE DEF Typed, Data, threads, args, links, meta, Waits
<1>1. CASE WaitTop(t)
  <2>1. (\E l : EndWait(t, l)) \/ UNCHANGED <<wait, woke, kin, found, event>>
    BY <1>1 DEF WaitTop
  <2> QED
    BY <1>1, <2>1, EndWaitData DEF WaitTop
<1>2. CASE WaitPoll(t)
  BY <1>0, <1>2, SMT DEF WaitPoll
<1>3. CASE WaitScan(t)
  <2>1. /\ wait' \in [Tasks -> Waits \cup {None}] /\ woke' \in [Tasks -> BOOLEAN]
        /\ kin' \in [Tasks -> SUBSET Procs] /\ found' \in [Tasks -> Procs \cup {None}]
        /\ event' \in [Procs -> Tasks \cup {None}]
    <3>1. CASE EndWait(t, "user")
      BY <3>1, EndWaitData
    <3>2. CASE ~EndWait(t, "user")
      <4>1. PICK k \in SUBSET Procs, c \in Procs \cup {None} :
              /\ kin' = [kin EXCEPT ![t] = k] /\ found' = [found EXCEPT ![t] = c]
              /\ UNCHANGED <<wait, woke, event>>
        <5>1. CASE \E c \in kin[t] : found' = [found EXCEPT ![t] = c]
                                   /\ kin' = [kin EXCEPT ![t] = {}]
                                   /\ UNCHANGED <<wait, woke, event>>
          <6>1. {} \in SUBSET Procs /\ kin[t] \subseteq Procs
            BY SMT
          <6> QED
            BY <5>1, <6>1
        <5>2. CASE kin' = [kin EXCEPT ![t] = {}] /\ UNCHANGED <<wait, woke, found, event>>
          <6>1. {} \in SUBSET Procs /\ found[t] \in Procs \cup {None}
            BY SMT
          <6>2. found' = [found EXCEPT ![t] = found[t]]
            BY <5>2, SMT
          <6> QED
            BY <5>2, <6>1, <6>2
        <5> QED
          BY <1>3, <3>2, <5>1, <5>2, Zenon DEF WaitScan
      <4>2. kin' \in [Tasks -> SUBSET Procs]
        BY <4>1, SMT
      <4>3. found' \in [Tasks -> Procs \cup {None}]
        BY <4>1, SMT
      <4> QED
        BY <4>1, <4>2, <4>3
    <3> QED
      BY <3>1, <3>2
  <2> QED
    BY <1>3, <2>1 DEF WaitScan
<1>4. CASE WaitReap(t)
  <2>1. (\E l : EndWait(t, l)) \/ UNCHANGED <<wait, woke, kin, found, event>>
    BY <1>4 DEF WaitReap
  <2>2. children' \in [Procs -> SUBSET Procs]
    BY <1>0, <1>4, SMTT(30) DEF WaitReap
  <2> QED
    BY <1>4, <2>1, <2>2, EndWaitData DEF WaitReap
<1>5. CASE WaitUnmap(t)
  <2>1. in_map' \in [Procs -> BOOLEAN] /\ panicked' \in BOOLEAN
    BY <1>5 DEF WaitUnmap
  <2> QED
    BY <1>5, <2>1, EndWaitData DEF WaitUnmap
<1>6. CASE WaitSignals(t)
  <2>1. (\E l : EndWait(t, l)) \/ UNCHANGED <<wait, woke, kin, found, event>>
    BY <1>6 DEF WaitSignals
  <2>2. sigchld' \in [Tasks -> BOOLEAN]
    BY <1>6 DEF WaitSignals
  <2> QED
    BY <1>6, <2>1, <2>2, EndWaitData DEF WaitSignals
<1>7. CASE WaitBlock(t) \/ WaitResume(t)
  <2>1. woke' \in [Tasks -> BOOLEAN]
    BY <1>7 DEF WaitBlock, WaitResume
  <2> QED
    BY <1>7, <2>1 DEF WaitBlock, WaitResume
<1> QED
  BY <1>1, <1>2, <1>3, <1>4, <1>5, <1>6, <1>7 DEF WaitStep

-----------------------------------------------------------------------------
(* Who is listed, who checks, who tears down.                              *)

\* The teardown after the usage, the owner release and the exit code.
AfterUsage == Teardown \ {"usage"}
AfterRelease == AfterUsage \ {"release"}
AfterCode == AfterRelease \ {"code"}

Alive(u) == pc[u] \notin Dead /\ pc[u] # "unborn"

\* A thread that can still run is in the task list, except a cloned one whose
\* process was torn down without it.
Listed ==
    \A u \in Tasks :
        /\ pc[u] = "unborn" => u \in Unborn
        /\ Alive(u) => u \in tasks[ProcOf[u]] \/ (u \in Unborn /\ exiting[ProcOf[u]])

\* The list names threads of the process.
Members ==
    \A p \in Procs : \A u \in tasks[p] : ProcOf[u] = p /\ pc[u] # "unborn"

\* The snapshot of the last check has threads of the process, and all of those
\* that can still run.
Checked ==
    \A t \in Tasks : pc[t] = "zombie" =>
        /\ \A u \in snap[t] : ProcOf[u] = ProcOf[t] /\ pc[u] # "unborn"
        /\ \A u \in Tasks \ Unborn : ProcOf[u] = ProcOf[t] /\ Alive(u) => u \in snap[t]

\* Nobody can run any more in a process that is being torn down.
Torn ==
    \A t \in Tasks : pc[t] \in Teardown =>
        \A u \in Tasks \ Unborn : ProcOf[u] = ProcOf[t] => pc[u] \in Dead

\* What the thread that tears down has done so far.
Progress ==
    \A t \in Tasks :
        /\ pc[t] \in AfterUsage => usage[ProcOf[t]]
        /\ pc[t] \in AfterRelease => released[ProcOf[t]] > 0
        /\ pc[t] \in AfterCode => exiting[ProcOf[t]]

\* ExitIsFinished, thread by thread.
LastOneFinished ==
    \A p \in Procs :
        \/ \E t \in Tasks : ProcOf[t] = p /\ pc[t] \notin {"unborn", "gone"}
        \/ \A t \in Tasks : ProcOf[t] = p => pc[t] = "unborn"
        \/ usage[p] /\ exiting[p] /\ released[p] > 0

\* The inductive invariant of the exit path.
Path == Listed /\ Members /\ Checked /\ Torn /\ Progress /\ LastOneFinished

LEMMA InitPath == Init => Path
<1> SUFFICES ASSUME Init PROVE Path
  OBVIOUS
<1>1. pc = [t \in Tasks |-> IF t \in Unborn THEN "unborn" ELSE "user"]
  BY DEF Init
<1>2. \A t \in Tasks : /\ pc[t] \in {"unborn", "user"} /\ pc[t] \notin Dead
                       /\ pc[t] = "unborn" <=> t \in Unborn
  BY <1>1 DEF Dead, Teardown
<1>3. tasks = [p \in Procs |-> {t \in Tasks : t \notin Unborn /\ ProcOf[t] = p}]
  BY DEF Init, Born
<1>4. Listed /\ Members
  BY <1>2, <1>3, ProcessAssumption, SMT DEF Listed, Members, Alive
<1>5. Checked /\ Torn /\ Progress /\ LastOneFinished
  BY <1>2 DEF Checked, Torn, Progress, AfterUsage, AfterRelease, AfterCode, Dead, LastOneFinished
<1> QED
  BY <1>4, <1>5 DEF Path

\* What was published stays published.
Grows ==
    \A p \in Procs : /\ usage[p] => usage'[p]
                     /\ released[p] > 0 => released'[p] > 0
                     /\ exiting[p] => exiting'[p]

\* No thread becomes a zombie or comes back.
SameZombies ==
    /\ status' \in [Tasks -> Statuses]
    /\ \A u \in Tasks : status'[u] = "Zombie" <=> status[u] = "Zombie"

\* A step between two labels that the invariant does not tell apart.
Plain(a, b) ==
    /\ a # "unborn" /\ b \in Labels \ {"unborn", "zombie", "gone"}
    /\ b \in Dead <=> a \in Dead
    /\ b \in Teardown => a \in Teardown
    /\ b \in AfterUsage => a \in AfterUsage
    /\ b \in AfterRelease => a \in AfterRelease
    /\ b \in AfterCode => a \in AfterCode
    /\ b \in {"adopt", "link", "adopted"} => a \in {"adopt", "link", "adopted"}

Control == Lives /\ ReaperChosen /\ Path

LEMMA PlainStep ==
  ASSUME Typed, Path, NEW t \in Tasks, NEW l, Goto(t, l), Plain(pc[t], l), SameZombies, Grows,
         \A u \in Tasks : u # t => snap'[u] = snap[u],
         UNCHANGED <<reaper, tasks, scene>>
  PROVE  Control'
<1>0. ProcOf \in [Tasks -> Procs]
  BY ProcessAssumption
<1>1. /\ DOMAIN pc' = Tasks /\ pc'[t] = l /\ l \in Labels /\ l \notin {"unborn", "zombie", "gone"}
      /\ pc[t] # "unborn"
      /\ \A u \in Tasks : u # t => pc'[u] = pc[u]
      /\ \A u \in Tasks : pc'[u] \in Dead <=> pc[u] \in Dead
      /\ \A u \in Tasks : pc'[u] = "unborn" <=> pc[u] = "unborn"
      /\ Unborn' = Unborn
  BY DEF Goto, Plain, Typed, Lives, Unborn
<1>2. Lives'
  BY <1>1, LivesKept DEF SameZombies, Typed
<1>3. ReaperChosen'
  BY <1>1 DEF ReaperChosen, Typed, Plain
<1>4. Listed'
  BY <1>0, <1>1 DEF Listed, Path, Alive, Grows
<1>5. Members'
  BY <1>1, ZenonT(30) DEF Members, Path, Typed, Data
<1>6. Checked'
  <2> SUFFICES ASSUME NEW v \in Tasks, pc'[v] = "zombie"
               PROVE  /\ \A u \in snap'[v] : ProcOf[u] = ProcOf[v] /\ pc'[u] # "unborn"
                      /\ \A u \in Tasks \ Unborn :
                           ProcOf[u] = ProcOf[v] /\ Alive(u)' => u \in snap'[v]
    BY <1>1 DEF Checked
  <2>1. pc[v] = "zombie" /\ snap'[v] = snap[v] /\ snap[v] \subseteq Tasks
    BY <1>1 DEF Typed, Data
  <2>2. \A u \in Tasks : Alive(u)' <=> Alive(u)
    BY <1>1 DEF Alive
  <2> QED
    BY <1>1, <2>1, <2>2 DEF Path, Checked
<1>7. Torn'
  BY <1>1 DEF Torn, Path, Plain
<1>8. Progress'
  BY <1>0, <1>1 DEF Progress, Path, Plain, Grows
<1>9. LastOneFinished'
  BY <1>0, <1>1 DEF LastOneFinished, Path, Grows
<1> QED
  BY <1>2, <1>3, <1>4, <1>5, <1>6, <1>7, <1>8, <1>9 DEF Control, Path

\* The frequent case: nothing but the label changes in what the invariant sees.
LEMMA PlainGoto ==
  ASSUME Typed, Path, NEW t \in Tasks, NEW l, Goto(t, l), Plain(pc[t], l), SameZombies,
         UNCHANGED <<snap, reaper, tasks, usage, released, exiting, scene>>
  PROVE  Control'
  BY PlainStep DEF Grows

LEMMA QuietZombies == ASSUME Typed, UNCHANGED status PROVE SameZombies
  BY DEF Typed, Lives, SameZombies

LEMMA SnapshotControl ==
  ASSUME Typed, Path, NEW t \in Tasks, NEW from, NEW to, NEW set, Snapshot(t, from, to, set),
         Plain(from, to), UNCHANGED scene
  PROVE  Control'
<1>1. /\ Goto(t, to) /\ Plain(pc[t], to)
      /\ UNCHANGED <<status, reaper, tasks, usage, released, exiting>>
      /\ \A u \in Tasks : u # t => snap'[u] = snap[u]
  BY DEF Snapshot, threads, links, meta, Typed, Data
<1> QED
  BY <1>1, PlainStep, QuietZombies DEF Grows

LEMMA LoopControl ==
  ASSUME Typed, Path, NEW t \in Tasks, NEW label, NEW next, UNCHANGED scene,
         Plain(label, label), Plain(label, next),
         LoopDone(t, label, next) \/ \E u \in snap[t] : LoopTask(t, label, u)
  PROVE  Control'
<1>1. CASE LoopDone(t, label, next)
  <2>1. /\ Goto(t, next) /\ Plain(pc[t], next)
        /\ UNCHANGED <<status, snap, reaper, tasks, usage, released, exiting>>
    BY <1>1 DEF LoopDone, threads, args, links, meta
  <2> QED
    BY <2>1, PlainGoto, QuietZombies
<1>2. CASE \E u \in snap[t] : LoopTask(t, label, u)
  <2>1. PICK u \in snap[t] : LoopTask(t, label, u)
    BY <1>2
  <2>2. u \in Tasks
    BY DEF Typed, Data
  <2>3. SameZombies
    BY <2>1, <2>2, WakeUpStatus DEF LoopTask, Typed, SameZombies
  <2>4. /\ Goto(t, label) /\ Plain(pc[t], label)
        /\ UNCHANGED <<reaper, tasks, usage, released, exiting>>
        /\ \A v \in Tasks : v # t => snap'[v] = snap[v]
    BY <2>1 DEF LoopTask, Goto, links, meta, Typed, Data, Lives
  <2> QED
    BY <2>3, <2>4, PlainStep DEF Grows
<1> QED
  BY <1>1, <1>2

\* A cloned thread is listed at once.
LEMMA CloneControl ==
  ASSUME Typed, Path, NEW t \in Tasks, NEW u \in Tasks, CloneThread(t, u), UNCHANGED scene
  PROVE  Control'
<1>0. ProcOf \in [Tasks -> Procs]
  BY ProcessAssumption
<1>1. /\ pc[u] = "unborn" /\ ProcOf[u] = ProcOf[t]
      /\ DOMAIN pc' = Tasks /\ pc'[u] = "user" /\ \A v \in Tasks : v # u => pc'[v] = pc[v]
      /\ tasks'[ProcOf[u]] = tasks[ProcOf[u]] \cup {u}
      /\ \A p \in Procs : p # ProcOf[u] => tasks'[p] = tasks[p]
      /\ UNCHANGED <<snap, reaper, usage, released, exiting>> /\ Unborn' = Unborn
  BY <1>0 DEF CloneThread, Goto, Typed, Lives, Data, args, meta, Unborn
<1>2. "user" \in Labels /\ "user" \notin Dead /\ "unborn" \notin Dead /\ u \in Unborn
  BY <1>1 DEF Labels, Dead, Teardown, Path, Listed
<1>3. Lives'
  <2>1. status' \in [Tasks -> Statuses] /\ status'[u] = "Running"
        /\ \A v \in Tasks : v # u => status'[v] = status[v]
    BY DEF CloneThread, Typed, Lives, Statuses
  <2> QED
    BY <1>1, <1>2, <2>1 DEF Typed, Lives, CloneThread, Goto
<1>4. ReaperChosen'
  BY <1>1 DEF Typed, ReaperChosen
<1>5. Listed'
  BY <1>0, <1>1, <1>2 DEF Path, Listed, Alive
<1>6. Members'
  <2> SUFFICES ASSUME NEW p \in Procs, NEW v \in tasks'[p] PROVE ProcOf[v] = p /\ pc'[v] # "unborn"
    BY DEF Members
  <2>1. v \in tasks[p] \/ (v = u /\ p = ProcOf[u])
    BY <1>1, SMT
  <2>2. tasks[p] \subseteq Tasks
    BY DEF Typed, Data
  <2> QED
    BY <1>1, <2>1, <2>2, SMT DEF Path, Members
<1>7. Checked'
  <2> SUFFICES ASSUME NEW v \in Tasks, pc'[v] = "zombie"
               PROVE  /\ \A w \in snap[v] : ProcOf[w] = ProcOf[v] /\ pc'[w] # "unborn"
                      /\ \A w \in Tasks \ Unborn :
                           ProcOf[w] = ProcOf[v] /\ Alive(w)' => w \in snap[v]
    BY <1>1 DEF Checked
  <2>1. pc[v] = "zombie" /\ snap[v] \subseteq Tasks
    BY <1>1 DEF Typed, Data
  <2>2. \A w \in Tasks \ Unborn : Alive(w)' <=> Alive(w)
    BY <1>1, <1>2 DEF Alive
  <2> QED
    BY <1>1, <1>2, <2>1, <2>2, SMT DEF Path, Checked
<1>8. Torn' /\ Progress'
  <2>1. "user" \notin Teardown /\ "unborn" \notin Teardown
    BY DEF Teardown
  <2> QED
    BY <1>1, <1>2, <2>1, SMT DEF Path, Torn, Progress, AfterUsage, AfterRelease, AfterCode
<1>9. LastOneFinished'
  BY <1>0, <1>1, ZenonT(30) DEF Path, LastOneFinished
<1> QED
  BY <1>3, <1>4, <1>5, <1>6, <1>7, <1>8, <1>9 DEF Control, Path

\* The thread becomes a zombie; it is still listed.
LEMMA ZombieControl ==
  ASSUME Typed, Path, NEW t \in Tasks, ExitZombie(t), UNCHANGED scene PROVE Control'
<1>0. ProcOf \in [Tasks -> Procs]
  BY ProcessAssumption
<1>1. /\ pc[t] = "exit" /\ DOMAIN pc' = Tasks /\ pc'[t] = "retain"
      /\ \A v \in Tasks : v # t => pc'[v] = pc[v]
      /\ UNCHANGED <<snap, reaper, tasks, usage, released, exiting>> /\ Unborn' = Unborn
  BY DEF ExitZombie, Goto, Typed, Lives, args, links, meta, Unborn
<1>2. "retain" \in Labels /\ "retain" \in Dead /\ "retain" \notin Teardown /\ "exit" \notin Dead
  BY DEF Labels, Dead, Teardown
<1>3. Lives'
  <2>1. status' \in [Tasks -> Statuses] /\ status'[t] = "Zombie"
        /\ \A v \in Tasks : v # t => status'[v] = status[v]
    BY DEF ExitZombie, Typed, Lives, Statuses
  <2> QED
    BY <1>1, <1>2, <2>1 DEF Typed, Lives, ExitZombie, Goto
<1>4. ReaperChosen'
  BY <1>1 DEF Typed, ReaperChosen
<1>5. Listed'
  BY <1>0, <1>1, <1>2 DEF Path, Listed, Alive
<1>6. Members'
  <2>1. Members /\ \A p \in Procs : tasks[p] \in SUBSET Tasks
    BY DEF Path, Typed, Data
  <2>2. \A u \in Tasks : pc[u] # "unborn" => pc'[u] # "unborn"
    BY <1>1
  <2>3. tasks' = tasks
    BY <1>1
  <2> QED
    BY <2>1, <2>2, <2>3 DEF Members
<1>7. Checked'
  <2> SUFFICES ASSUME NEW v \in Tasks, pc'[v] = "zombie"
               PROVE  /\ \A w \in snap[v] : ProcOf[w] = ProcOf[v] /\ pc'[w] # "unborn"
                      /\ \A w \in Tasks \ Unborn :
                           ProcOf[w] = ProcOf[v] /\ Alive(w)' => w \in snap[v]
    BY <1>1 DEF Checked
  <2>1. pc[v] = "zombie" /\ snap[v] \subseteq Tasks
    BY <1>1 DEF Typed, Data
  <2>2. \A w \in Tasks : Alive(w)' => Alive(w)
    BY <1>1, <1>2 DEF Alive
  <2> QED
    BY <1>1, <2>1, <2>2, SMT DEF Path, Checked
<1>8. Torn' /\ Progress'
  BY <1>1, <1>2, SMT DEF Path, Torn, Progress, AfterUsage, AfterRelease, AfterCode
<1>9. LastOneFinished'
  BY <1>0, <1>1 DEF Path, LastOneFinished
<1> QED
  BY <1>3, <1>4, <1>5, <1>6, <1>7, <1>8, <1>9 DEF Control, Path

\* The two steps that shorten the task list of the process: a zombie removes
\* itself, and the teardown clears what is left.
LEMMA UnlistControl ==
  ASSUME Typed, Path, NEW t \in Tasks, NEW l, Goto(t, l), Plain(pc[t], l),
         UNCHANGED <<status, snap, reaper, usage, released, exiting, scene>>,
         \A p \in Procs : tasks'[p] \subseteq tasks[p],
         \A u \in Tasks : u \in tasks[ProcOf[u]] \ tasks'[ProcOf[u]] =>
             pc[u] \in Dead \/ (u \in Unborn /\ exiting[ProcOf[u]])
  PROVE  Control'
<1>0. ProcOf \in [Tasks -> Procs]
  BY ProcessAssumption
<1>1. /\ DOMAIN pc' = Tasks /\ pc'[t] = l /\ l \in Labels /\ l \notin {"unborn", "zombie", "gone"}
      /\ pc[t] # "unborn"
      /\ \A u \in Tasks : u # t => pc'[u] = pc[u]
      /\ \A u \in Tasks : pc'[u] \in Dead <=> pc[u] \in Dead
      /\ \A u \in Tasks : pc'[u] = "unborn" <=> pc[u] = "unborn"
      /\ Unborn' = Unborn
  BY DEF Goto, Plain, Typed, Lives, Unborn
<1>2. Lives'
  BY <1>1, LivesKept, QuietZombies DEF SameZombies, Typed
<1>3. ReaperChosen'
  BY <1>1 DEF ReaperChosen, Typed, Plain
<1>4. Listed'
  BY <1>0, <1>1, SMTT(30) DEF Listed, Path, Alive
<1>5. Members'
  <2>1. Members /\ \A p \in Procs : tasks[p] \in SUBSET Tasks
    BY DEF Path, Typed, Data
  <2> QED
    BY <1>1, <2>1 DEF Members
<1>6. Checked'
  <2> SUFFICES ASSUME NEW v \in Tasks, pc'[v] = "zombie"
               PROVE  /\ \A u \in snap[v] : ProcOf[u] = ProcOf[v] /\ pc'[u] # "unborn"
                      /\ \A u \in Tasks \ Unborn :
                           ProcOf[u] = ProcOf[v] /\ Alive(u)' => u \in snap[v]
    BY <1>1 DEF Checked
  <2>1. pc[v] = "zombie" /\ snap[v] \subseteq Tasks
    BY <1>1 DEF Typed, Data
  <2>2. \A u \in Tasks : Alive(u)' <=> Alive(u)
    BY <1>1 DEF Alive
  <2> QED
    BY <1>1, <2>1, <2>2, SMT DEF Path, Checked
<1>7. Torn'
  BY <1>1, ZenonT(30) DEF Torn, Path, Plain
<1>8. Progress'
  BY <1>0, <1>1 DEF Progress, Path, Plain
<1>9. LastOneFinished'
  BY <1>0, <1>1 DEF LastOneFinished, Path
<1> QED
  BY <1>2, <1>3, <1>4, <1>5, <1>6, <1>7, <1>8, <1>9 DEF Control, Path

\* The snapshot of the check holds every thread that can still run.
LEMMA CheckSnapshotControl ==
  ASSUME Typed, Path, NEW t \in Tasks, CheckSnapshot(t), UNCHANGED scene PROVE Control'
<1>0. ProcOf \in [Tasks -> Procs]
  BY ProcessAssumption
<1>1. /\ pc[t] = "check" /\ DOMAIN pc' = Tasks /\ pc'[t] = "zombie" /\ snap'[t] = tasks[ProcOf[t]]
      /\ \A v \in Tasks : v # t => pc'[v] = pc[v] /\ snap'[v] = snap[v]
      /\ UNCHANGED <<status, reaper, tasks, usage, released, exiting>> /\ Unborn' = Unborn
  BY DEF CheckSnapshot, Snapshot, Goto, Typed, Lives, Data, threads, links, meta, Unborn
<1>2. /\ "zombie" \in Labels /\ "zombie" \in Dead /\ "zombie" \notin Teardown
      /\ "check" \in Dead
  BY DEF Labels, Dead, Teardown
<1>3. Lives'
  BY <1>1, <1>2, LivesKept, QuietZombies DEF SameZombies, Typed, CheckSnapshot, Snapshot
<1>4. ReaperChosen'
  BY <1>1 DEF Typed, ReaperChosen
<1>5. Listed'
  BY <1>0, <1>1, <1>2, SMT DEF Path, Listed, Alive
<1>6. Members'
  <2>1. \A p \in Procs : tasks[p] \subseteq Tasks
    BY DEF Typed, Data
  <2> QED
    BY <1>1, <2>1, SMT DEF Path, Members
<1>7. Checked'
  <2> SUFFICES ASSUME NEW v \in Tasks, pc'[v] = "zombie"
               PROVE  /\ \A w \in snap'[v] : ProcOf[w] = ProcOf[v] /\ pc'[w] # "unborn"
                      /\ \A w \in Tasks \ Unborn :
                           ProcOf[w] = ProcOf[v] /\ Alive(w)' => w \in snap'[v]
    BY <1>1 DEF Checked
  <2>1. \A w \in Tasks : (Alive(w)' <=> Alive(w)) /\ (pc'[w] = "unborn" <=> pc[w] = "unborn")
    BY <1>1, <1>2 DEF Alive
  <2>2. CASE v = t
    <3>1. snap'[v] = tasks[ProcOf[v]] /\ ProcOf[v] \in Procs /\ tasks[ProcOf[v]] \subseteq Tasks
      BY <1>0, <1>1, <2>2 DEF Typed, Data
    <3> QED
      BY <2>1, <3>1, SMT DEF Path, Members, Listed
  <2>3. CASE v # t
    <3>1. pc[v] = "zombie" /\ snap'[v] = snap[v] /\ snap[v] \subseteq Tasks
      BY <1>1, <2>3 DEF Typed, Data
    <3> QED
      BY <2>1, <3>1, SMT DEF Path, Checked
  <2> QED
    BY <2>2, <2>3
<1>8. Torn' /\ Progress'
  BY <1>1, <1>2, SMT DEF Path, Torn, Progress, AfterUsage, AfterRelease, AfterCode
<1>9. LastOneFinished'
  BY <1>0, <1>1, ZenonT(30) DEF Path, LastOneFinished
<1> QED
  BY <1>3, <1>4, <1>5, <1>6, <1>7, <1>8, <1>9 DEF Control, Path

\* The check: when nobody in the snapshot can run, nobody can; when somebody
\* can, the teardown is left to a thread that has not gone.
LEMMA CheckControl ==
  ASSUME Typed, Path, NEW t \in Tasks, CheckZombies(t), UNCHANGED scene PROVE Control'
<1>0. ProcOf \in [Tasks -> Procs]
  BY ProcessAssumption
<1> DEFINE l == IF all_zombie(t) THEN "usage" ELSE "gone"
<1>1. /\ pc[t] = "zombie" /\ DOMAIN pc' = Tasks /\ pc'[t] = l
      /\ \A v \in Tasks : v # t => pc'[v] = pc[v] /\ snap'[v] = snap[v]
      /\ UNCHANGED <<status, reaper, tasks, usage, released, exiting>> /\ Unborn' = Unborn
  BY DEF CheckZombies, Goto, Typed, Lives, Data, threads, links, meta, Unborn
<1>2. /\ l \in Labels /\ l \in Dead /\ "zombie" \in Dead /\ l \in {"usage", "gone"}
      /\ l \notin AfterUsage
      /\ l = "gone" => l \notin Teardown
  BY DEF Labels, Dead, Teardown, AfterUsage
<1>3. Lives'
  BY <1>1, <1>2, LivesKept, QuietZombies DEF SameZombies, Typed, CheckZombies
<1>4. ReaperChosen'
  BY <1>1, <1>2 DEF Typed, ReaperChosen
<1>5. Listed'
  BY <1>0, <1>1, <1>2, SMT DEF Path, Listed, Alive
<1>6. Members'
  <2>1. \A p \in Procs : tasks[p] \subseteq Tasks
    BY DEF Typed, Data
  <2> QED
    BY <1>1, <1>2, <2>1, SMT DEF Path, Members
<1>7. Checked'
  <2> SUFFICES ASSUME NEW v \in Tasks, pc'[v] = "zombie"
               PROVE  /\ \A w \in snap'[v] : ProcOf[w] = ProcOf[v] /\ pc'[w] # "unborn"
                      /\ \A w \in Tasks \ Unborn :
                           ProcOf[w] = ProcOf[v] /\ Alive(w)' => w \in snap'[v]
    BY <1>1 DEF Checked
  <2>1. pc[v] = "zombie" /\ snap'[v] = snap[v] /\ snap[v] \subseteq Tasks
    BY <1>1, <1>2 DEF Typed, Data
  <2>2. \A w \in Tasks : (Alive(w)' <=> Alive(w)) /\ (pc'[w] = "unborn" <=> pc[w] = "unborn")
    BY <1>1, <1>2 DEF Alive
  <2> QED
    BY <2>1, <2>2, SMT DEF Path, Checked
<1>8. Torn'
  <2> SUFFICES ASSUME NEW v \in Tasks, pc'[v] \in Teardown,
                         NEW u \in Tasks \ Unborn, ProcOf[u] = ProcOf[v]
               PROVE  pc'[u] \in Dead
    BY <1>1 DEF Torn
  <2>1. pc[u] \in Dead => pc'[u] \in Dead
    BY <1>1, <1>2
  <2>2. CASE v # t
    BY <1>1, <2>1, <2>2 DEF Path, Torn
  <2>3. CASE v = t
    <3>1. all_zombie(t)
      BY <1>1, <1>2, <2>3
    <3>2. pc[u] # "unborn"
      BY DEF Path, Listed
    <3>3. Alive(u) => u \in snap[t]
      BY <1>1, <2>3 DEF Path, Checked
    <3> QED
      BY <2>1, <3>1, <3>2, <3>3 DEF Alive, all_zombie, Typed, Lives
  <2> QED
    BY <2>2, <2>3
<1>9. Progress'
  BY <1>1, <1>2, SMT DEF Path, Progress, AfterRelease, AfterCode
<1>10. LastOneFinished'
  <2>1. CASE all_zombie(t)
    BY <1>0, <1>1, <2>1 DEF Path, LastOneFinished
  <2>2. CASE ~all_zombie(t)
    <3>1. PICK u \in snap[t] : status[u] # "Zombie"
      BY <2>2 DEF all_zombie
    <3>2. u \in Tasks /\ ProcOf[u] = ProcOf[t] /\ pc[u] # "unborn" /\ pc[u] \notin Dead
      BY <1>1, <3>1 DEF Path, Checked, Typed, Data, Lives
    <3>3. u # t /\ pc'[u] \notin {"unborn", "gone"}
      BY <1>1, <1>2, <3>2 DEF Dead
    <3> QED
      BY <1>0, <1>1, <1>2, <3>2, <3>3, SMT DEF Path, LastOneFinished
  <2> QED
    BY <2>1, <2>2
<1> QED
  BY <1>3, <1>4, <1>5, <1>6, <1>7, <1>8, <1>9, <1>10 DEF Control, Path

\* The steps of the teardown itself, from label to label; the last one leaves
\* a process that is finished.
LEMMA TeardownControl ==
  ASSUME Typed, Path, NEW t \in Tasks, NEW l, Goto(t, l), pc[t] \in Teardown,
         l \in Teardown \cup {"gone"}, l = "gone" => pc[t] = "nwake", Grows,
         UNCHANGED <<snap, tasks, scene>>, SameZombies,
         l \in AfterUsage => usage'[ProcOf[t]],
         l \in AfterRelease => released'[ProcOf[t]] > 0,
         l \in AfterCode => exiting'[ProcOf[t]],
         ReaperChosen'
  PROVE  Control'
<1>0. ProcOf \in [Tasks -> Procs]
  BY ProcessAssumption
<1>1. /\ l \in Labels /\ l \in Dead /\ l \notin {"unborn", "zombie"}
      /\ pc[t] \in Dead /\ pc[t] \notin {"unborn", "zombie"}
  BY ZenonT(30) DEF Labels, Dead, Teardown
<1>2. /\ DOMAIN pc' = Tasks /\ pc'[t] = l
      /\ \A u \in Tasks : u # t => pc'[u] = pc[u]
      /\ \A u \in Tasks : pc'[u] \in Dead <=> pc[u] \in Dead
      /\ \A u \in Tasks : pc'[u] = "unborn" <=> pc[u] = "unborn"
      /\ Unborn' = Unborn
  BY <1>1 DEF Goto, Typed, Lives, Unborn
<1>3. Lives'
  BY <1>1, LivesKept DEF SameZombies, Typed
<1>4. Listed'
  BY <1>0, <1>2 DEF Listed, Path, Alive, Grows
<1>5. Members'
  <2>1. \A p \in Procs : tasks[p] \subseteq Tasks
    BY ZenonT(30) DEF Typed, Data
  <2> QED
    BY <1>2, <2>1, SMT DEF Path, Members
<1>6. Checked'
  <2> SUFFICES ASSUME NEW v \in Tasks, pc'[v] = "zombie"
               PROVE  /\ \A u \in snap[v] : ProcOf[u] = ProcOf[v] /\ pc'[u] # "unborn"
                      /\ \A u \in Tasks \ Unborn :
                           ProcOf[u] = ProcOf[v] /\ Alive(u)' => u \in snap[v]
    BY <1>2 DEF Checked
  <2>1. pc[v] = "zombie" /\ snap[v] \subseteq Tasks
    BY <1>1, <1>2 DEF Typed, Data
  <2>2. \A u \in Tasks : Alive(u)' <=> Alive(u)
    BY <1>2 DEF Alive
  <2> QED
    BY <1>2, <2>1, <2>2, SMT DEF Path, Checked
<1>7. Torn'
  <2>1. "gone" \notin Teardown
    BY DEF Teardown
  <2> QED
    BY <1>2, <2>1 DEF Torn, Path
<1>8. Progress'
  BY <1>0, <1>2 DEF Progress, Path, Grows
<1>9. LastOneFinished'
  <2>1. CASE l # "gone"
    BY <1>0, <1>1, <1>2, <2>1 DEF LastOneFinished, Path, Grows
  <2>2. CASE l = "gone"
    <3>1. pc[t] \in AfterUsage /\ pc[t] \in AfterRelease /\ pc[t] \in AfterCode
      BY <2>2 DEF AfterUsage, AfterRelease, AfterCode, Teardown
    <3>2. usage'[ProcOf[t]] /\ released'[ProcOf[t]] > 0 /\ exiting'[ProcOf[t]]
      BY <1>0, <3>1 DEF Path, Progress, Grows
    <3> QED
      BY <1>0, <1>1, <1>2, <3>2, SMT DEF LastOneFinished, Path, Grows
  <2> QED
    BY <2>1, <2>2
<1> QED
  BY <1>3, <1>4, <1>5, <1>6, <1>7, <1>8, <1>9 DEF Control, Path

\* The labels of a thread that can run, of a zombie before its check, and of
\* the reparenting.
Busy == {"user", "group", "gwake", "gcode", "gsend", "gkill", "exit", "top", "poll", "scan",
         "reap", "unmap", "sigs", "block", "asleep"}
Leaving == {"retain", "bro", "bwake", "check"}
Adopting == {"adopt", "link", "adopted"}

LEMMA PlainLabels ==
  /\ \A a, b \in Busy : Plain(a, b)
  /\ \A a, b \in Leaving : Plain(a, b)
  /\ \A a \in AfterCode : \A b \in AfterCode \ Adopting : Plain(a, b)
  /\ \A a, b \in Adopting : Plain(a, b)
<1> USE DEF Plain, Labels, Dead
<1>1. \A a \in Busy : /\ a \in Labels \ {"unborn", "zombie", "gone"}
                       /\ a \notin Dead /\ a \notin Adopting
  BY ZenonT(30) DEF Busy, Teardown, Adopting
<1>2. \A a \in Leaving : /\ a \in Labels \ {"unborn", "zombie", "gone"}
                         /\ a \in Dead /\ a \notin Teardown /\ a \notin Adopting
  BY DEF Leaving, Teardown, Adopting
<1>3. /\ \A a \in AfterCode : /\ a \in Labels \ {"unborn", "zombie", "gone"} /\ a \in Dead
                              /\ a \in Teardown /\ a \in AfterUsage /\ a \in AfterRelease
      /\ Adopting \subseteq AfterCode
  BY DEF Teardown, AfterUsage, AfterRelease, AfterCode, Adopting
<1>4. \A a, b \in Busy : Plain(a, b)
  BY <1>1 DEF AfterUsage, AfterRelease, AfterCode, Adopting
<1>5. \A a, b \in Leaving : Plain(a, b)
  BY <1>2 DEF AfterUsage, AfterRelease, AfterCode, Adopting
<1>6. \A a \in AfterCode : \A b \in AfterCode \ Adopting : Plain(a, b)
  BY <1>3 DEF Adopting
<1>7. \A a, b \in Adopting : Plain(a, b)
  BY <1>3 DEF Adopting
<1> QED
  BY <1>4, <1>5, <1>6, <1>7

LEMMA UserControl ==
  ASSUME Typed, Path, NEW t \in Tasks, UNCHANGED scene,
         Voluntary(t) \/ Preempt(t) \/ TrapReturn(t)
  PROVE  Control'
<1> USE DEF threads, args, links, meta
<1>1. CASE \E u \in Tasks : CloneThread(t, u)
  BY <1>1, CloneControl
<1>2. CASE SysExit(t) \/ SysExitGroup(t) \/ Preempt(t)
  <2>1. \E l \in {"exit", "group", "user"} : Goto(t, l)
    BY <1>2 DEF SysExit, SysExitGroup, Preempt, ExitIfGroupExitedOrKilled
  <2>2. pc[t] = "user"
    BY <1>2 DEF SysExit, SysExitGroup, Preempt, Call
  <2>3. UNCHANGED <<status, snap, reaper, tasks, usage, released, exiting>>
    BY <1>2 DEF SysExit, SysExitGroup, Preempt
  <2> QED
    BY <2>1, <2>2, <2>3, PlainLabels, PlainGoto, QuietZombies DEF Busy
<1>3. CASE \E w \in Waits : Waitpid(t, w)
  BY <1>3, PlainLabels, PlainGoto, QuietZombies DEF Busy, Waitpid, Call
<1>4. CASE TrapReturn(t)
  <2>1. Goto(t, "group") \/ Goto(t, "user")
    BY <1>4 DEF TrapReturn, Goto, Typed, Lives
  <2> QED
    BY <1>4, <2>1, PlainLabels, PlainGoto, QuietZombies DEF Busy, TrapReturn
<1> QED
  BY <1>1, <1>2, <1>3, <1>4 DEF Voluntary

LEMMA GroupControl ==
  ASSUME Typed, Path, NEW t \in Tasks, UNCHANGED scene, GroupStep(t) PROVE Control'
<1>1. CASE GroupSnapshot(t)
  <2>1. Plain("group", "gwake")
    BY PlainLabels DEF Busy
  <2> QED
    BY <1>1, <2>1, SnapshotControl DEF GroupSnapshot
<1>2. CASE GroupWake(t)
  BY <1>2, PlainLabels, LoopControl DEF Busy, GroupWake
<1>3. CASE GroupCode(t)
  <2>1. \E l \in {"exit", "gsend"} : Goto(t, l)
    BY <1>3 DEF GroupCode
  <2>2. Grows
    BY <1>3 DEF GroupCode, Grows, Typed, Data
  <2> QED
    BY <1>3, <2>1, <2>2, PlainLabels, PlainStep, QuietZombies DEF Busy, GroupCode, threads, args,
                                                                  links
<1>4. CASE GroupSend(t)
  BY <1>4, PlainLabels, SnapshotControl DEF Busy, GroupSend
<1>5. CASE GroupKill(t)
  BY <1>5, PlainLabels, LoopControl DEF Busy, GroupKill
<1> QED
  BY <1>1, <1>2, <1>3, <1>4, <1>5 DEF GroupStep

LEMMA ExitControl ==
  ASSUME Typed, Path, NEW t \in Tasks, UNCHANGED scene, ExitStep(t) PROVE Control'
<1>0. ProcOf[t] \in Procs
  BY ProcessAssumption
<1>1. CASE ExitRetain(t)
  <2>1. /\ Goto(t, "bro") /\ pc[t] = "retain"
        /\ UNCHANGED <<status, snap, reaper, usage, released, exiting>>
    BY <1>1 DEF ExitRetain, threads, args, meta
  <2>2. /\ \A p \in Procs : tasks'[p] \subseteq tasks[p]
        /\ \A u \in Tasks : u \in tasks[ProcOf[u]] \ tasks'[ProcOf[u]] => u = t
    BY <1>1, ProcessAssumption, SMT DEF ExitRetain, Typed, Data
  <2>3. pc[t] \in Dead
    BY <2>1 DEF Dead
  <2> QED
    BY <2>1, <2>2, <2>3, PlainLabels, UnlistControl DEF Leaving
<1>2. CASE ExitSnapshot(t)
  BY <1>2, PlainLabels, SnapshotControl DEF Leaving, ExitSnapshot
<1>3. CASE ExitWake(t)
  BY <1>3, PlainLabels, LoopControl DEF Leaving, ExitWake
<1>4. CASE PublishUsage(t) \/ ReleaseOwner(t) \/ SetCode(t)
  <2>1. ReaperChosen'
    BY <1>4, SMTT(30) DEF PublishUsage, ReleaseOwner, SetCode, Goto, args, Typed, Lives, ReaperChosen
  <2>2. Grows
    BY <1>4, SMTT(30) DEF PublishUsage, ReleaseOwner, SetCode, Grows, Typed, Data
  <2>3. SameZombies /\ UNCHANGED <<snap, tasks, scene>>
    BY <1>4, QuietZombies DEF PublishUsage, ReleaseOwner, SetCode, threads, args, links
  <2>4. CASE PublishUsage(t)
    <3>1. pc[t] = "usage" /\ Goto(t, "release") /\ usage'[ProcOf[t]]
      BY <1>0, <2>4 DEF PublishUsage, Typed, Data
    <3>2. pc[t] \in Teardown /\ "release" \in Teardown /\ "release" \notin AfterRelease
      BY <3>1 DEF Teardown, AfterRelease
    <3> QED
      BY <2>1, <2>2, <2>3, <3>1, <3>2, TeardownControl DEF AfterCode
  <2>5. CASE ReleaseOwner(t)
    <3>1. pc[t] = "release" /\ Goto(t, "code") /\ released'[ProcOf[t]] > 0
      BY <1>0, <2>5, SMT DEF ReleaseOwner, Typed, Data
    <3>2. /\ pc[t] \in Teardown /\ pc[t] \in AfterUsage /\ "code" \in Teardown
          /\ "code" \notin AfterCode
      BY <3>1 DEF Teardown, AfterUsage, AfterCode
    <3>3. usage'[ProcOf[t]]
      BY <1>0, <2>2, <3>2 DEF Grows, Path, Progress
    <3> QED
      BY <2>1, <2>2, <2>3, <3>1, <3>2, <3>3, TeardownControl
  <2>6. CASE SetCode(t)
    <3>1. pc[t] = "code" /\ Goto(t, "orphans") /\ exiting'[ProcOf[t]]
      BY <1>0, <2>6 DEF SetCode, Typed, Data
    <3>2. /\ pc[t] \in Teardown /\ pc[t] \in AfterUsage /\ pc[t] \in AfterRelease
          /\ "orphans" \in Teardown
      BY <3>1 DEF Teardown, AfterUsage, AfterRelease
    <3>3. usage'[ProcOf[t]] /\ released'[ProcOf[t]] > 0
      BY <1>0, <2>2, <3>2 DEF Grows, Path, Progress
    <3> QED
      BY <2>1, <2>2, <2>3, <3>1, <3>2, <3>3, TeardownControl
  <2> QED
    BY <1>4, <2>4, <2>5, <2>6, ZenonT(30)
<1>5. CASE Notify(t)
  <2>1. \E l \in {"nppid", "nwake"} : Goto(t, l)
    BY <1>5 DEF Notify
  <2>2. pc[t] \in AfterCode /\ {"nppid", "nwake"} \subseteq AfterCode \ Adopting
    BY <1>5 DEF Notify, AfterCode, AfterRelease, AfterUsage, Teardown, Adopting
  <2>3. Plain(pc[t], "nppid") /\ Plain(pc[t], "nwake")
    BY <2>2, PlainLabels
  <2> QED
    BY <1>5, <2>1, <2>3, PlainGoto, QuietZombies DEF Notify, threads, args, links, meta
<1>6. CASE ParentSnapshot(t) \/ SignalParent(t)
  <2>1. /\ Plain("nppid", "nsig") /\ Plain("nsig", "nsig") /\ Plain("nsig", "nwake")
    <3>1. "nppid" \in AfterCode /\ {"nsig", "nwake"} \subseteq AfterCode \ Adopting
      BY DEF AfterCode, AfterRelease, AfterUsage, Teardown, Adopting
    <3> QED
      BY <3>1, PlainLabels
  <2> QED
    BY <1>6, <2>1, SnapshotControl, LoopControl DEF ParentSnapshot, SignalParent, SendSigchld
<1>7. CASE WakeParent(t)
  <2> DEFINE q == parent_pid[ProcOf[t]]
  <2>1. q \in Procs \cup {None}
    BY <1>0 DEF Typed, Data
  <2>2. SameZombies
    <3>1. CASE q # None /\ in_map[q]
      BY <1>7, <2>1, <3>1, EventWakeStatus DEF WakeParent, Typed, SameZombies
    <3>2. CASE ~(q # None /\ in_map[q])
      BY <1>7, <3>2, QuietZombies DEF WakeParent
    <3> QED
      BY <3>1, <3>2
  <2>3. /\ pc[t] = "nwake" /\ Goto(t, "gone")
        /\ UNCHANGED <<snap, tasks, reaper, usage, released, exiting>>
    BY <1>7 DEF WakeParent, args, links
  <2>4. pc[t] \in Teardown /\ "gone" \notin AfterUsage
    BY <2>3 DEF Teardown, AfterUsage
  <2>5. ReaperChosen'
    BY <2>3, SMT DEF Goto, Typed, Lives, ReaperChosen
  <2> QED
    BY <2>2, <2>3, <2>4, <2>5, TeardownControl DEF Grows, AfterRelease, AfterCode
<1> QED
  BY <1>1, <1>2, <1>3, <1>4, <1>5, <1>6, <1>7, ZombieControl, CheckSnapshotControl, CheckControl
     DEF ExitStep

LEMMA ReparentControl ==
  ASSUME Typed, Path, NEW t \in Tasks, UNCHANGED scene, ReparentStep(t) PROVE Control'
<1>0. ProcOf[t] \in Procs
  BY ProcessAssumption
<1>1. /\ {"orphans", "ancestor", "reaper", "adopt", "adopted", "rsig", "notify"} \subseteq AfterCode
      /\ {"ancestor", "reaper", "rsig", "notify"} \subseteq AfterCode \ Adopting
      /\ {"adopt", "link", "adopted"} \subseteq Adopting
  BY DEF AfterCode, AfterRelease, AfterUsage, Teardown, Adopting
<1>2. CASE TakeOrphans(t)
  <2>1. /\ pc[t] = "orphans" /\ \E l \in {"notify", "ancestor"} : Goto(t, l)
        /\ UNCHANGED <<status, snap, reaper, usage, released, exiting>>
    BY <1>2 DEF TakeOrphans, threads, meta
  <2>2. /\ tasks'[ProcOf[t]] = {} /\ \A p \in Procs : p # ProcOf[t] => tasks'[p] = tasks[p]
    BY <1>0, <1>2 DEF TakeOrphans, Typed, Data
  <2>3. exiting[ProcOf[t]] /\ pc[t] \in Teardown
    BY <1>1, <2>1 DEF Path, Progress, Teardown
  <2>4. \A u \in Tasks : u \in tasks[ProcOf[u]] \ tasks'[ProcOf[u]] =>
             pc[u] \in Dead \/ (u \in Unborn /\ exiting[ProcOf[u]])
    <3> SUFFICES ASSUME NEW u \in Tasks, u \in tasks[ProcOf[u]], u \notin tasks'[ProcOf[u]]
                 PROVE  pc[u] \in Dead \/ (u \in Unborn /\ exiting[ProcOf[u]])
      OBVIOUS
    <3>1. ProcOf[u] = ProcOf[t]
      BY <2>2, ProcessAssumption
    <3> QED
      BY <2>3, <3>1 DEF Path, Torn
  <2>5. \A p \in Procs : tasks'[p] \subseteq tasks[p]
    BY <2>2
  <2>6. Plain("orphans", "notify") /\ Plain("orphans", "ancestor")
    BY <1>1, PlainLabels
  <2> QED
    BY <2>1, <2>4, <2>5, <2>6, UnlistControl
<1>3. CASE FirstAncestor(t)
  <2>1. /\ pc[t] = "ancestor" /\ Goto(t, "reaper")
        /\ \A u \in Tasks : u # t => reaper'[u] = reaper[u]
        /\ UNCHANGED <<status, snap, tasks, usage, released, exiting>>
    BY <1>3 DEF FirstAncestor, threads, links, meta, Typed, Data
  <2>2. ReaperChosen'
    BY <2>1, SMT DEF Goto, Typed, Lives, ReaperChosen
  <2>3. /\ pc[t] \in Teardown /\ "reaper" \in Teardown /\ pc[t] \in AfterCode
        /\ pc[t] \in AfterUsage /\ pc[t] \in AfterRelease
    BY <2>1 DEF AfterCode, AfterRelease, AfterUsage, Teardown
  <2> QED
    BY <1>0, <2>1, <2>2, <2>3, QuietZombies, TeardownControl DEF Grows, Path, Progress
<1>4. CASE FindReaper(t)
  <2>1. /\ pc[t] = "reaper" /\ (Goto(t, "adopt") \/ Goto(t, "reaper"))
        /\ \A u \in Tasks : u # t => reaper'[u] = reaper[u]
        /\ UNCHANGED <<status, snap, tasks, usage, released, exiting>>
    BY <1>4, ZenonT(30) DEF FindReaper, Goto, threads, links, meta, Typed, Data, Lives
  <2>2. pc'[t] = "adopt" => reaper'[t] \in Procs
    <3>1. \/ UNCHANGED reaper /\ reaper[t] # None
          \/ reaper' = [reaper EXCEPT ![t] = Initproc]
          \/ UNCHANGED pc
      BY <1>4 DEF FindReaper
    <3>2. reaper \in [Tasks -> Procs \cup {None}] /\ Initproc \in Procs
      BY ProcessAssumption DEF Typed, Data
    <3> QED
      BY <2>1, <3>1, <3>2
  <2>3. ReaperChosen'
    BY <2>1, <2>2, SMT DEF Goto, Typed, Lives, ReaperChosen
  <2>4. /\ pc[t] \in Teardown /\ {"reaper", "adopt"} \subseteq Teardown /\ pc[t] \in AfterCode
        /\ pc[t] \in AfterUsage /\ pc[t] \in AfterRelease
    BY <2>1 DEF AfterCode, AfterRelease, AfterUsage, Teardown
  <2> QED
    BY <1>0, <2>1, <2>3, <2>4, QuietZombies, TeardownControl DEF Grows, Path, Progress
<1>5. CASE AdoptChild(t)
  <2>1. Plain("adopt", "link")
    BY <1>1, PlainLabels
  <2> QED
    BY <1>5, <2>1, PlainGoto, QuietZombies DEF AdoptChild, threads, meta
<1>6. CASE LinkChild(t)
  <2>1. Plain("link", "adopt")
    BY <1>1, PlainLabels
  <2> QED
    BY <1>6, <2>1, PlainGoto, QuietZombies DEF LinkChild, threads, meta
<1>7. CASE Adopted(t)
  <2>1. Plain("adopt", "adopted") /\ Plain("adopt", "notify")
    BY <1>1, PlainLabels
  <2>2. Goto(t, "adopted") \/ Goto(t, "notify")
    BY <1>7 DEF Adopted
  <2> QED
    BY <1>7, <2>1, <2>2, PlainGoto, QuietZombies DEF Adopted, threads, args, links, meta
<1>8. CASE WakeReaper(t)
  <2>1. Plain("adopted", "rsig")
    BY <1>1, PlainLabels
  <2>2. reaper[t] \in Procs
    BY <1>8 DEF WakeReaper, Typed, ReaperChosen
  <2>3. SameZombies
    BY <1>8, <2>2, EventWakeStatus DEF WakeReaper, Typed, SameZombies
  <2>4. \A u \in Tasks : u # t => snap'[u] = snap[u]
    BY <1>8 DEF WakeReaper, Typed, Data
  <2> QED
    BY <1>8, <2>1, <2>3, <2>4, PlainStep DEF WakeReaper, links, Grows
<1>9. CASE SignalReaper(t)
  <2>1. Plain("rsig", "rsig") /\ Plain("rsig", "notify")
    BY <1>1, PlainLabels
  <2> QED
    BY <1>9, <2>1, LoopControl DEF SignalReaper, SendSigchld
<1> QED
  BY <1>2, <1>3, <1>4, <1>5, <1>6, <1>7, <1>8, <1>9 DEF ReparentStep

LEMMA WaitControl ==
  ASSUME Typed, Path, NEW t \in Tasks, UNCHANGED scene, WaitStep(t) PROVE Control'
<1> DEFINE Waiting == {"top", "poll", "scan", "reap", "unmap", "sigs", "block", "asleep"}
<1>1. /\ pc[t] \in Waiting
      /\ \E l \in Waiting \cup {"user", "exit", "group"} : Goto(t, l)
      /\ UNCHANGED <<snap, reaper, tasks, usage, released, exiting>>
  <2> USE DEF Goto, EndWait, links, args, meta
  <2>1. CASE WaitTop(t) \/ WaitPoll(t)
    BY <2>1 DEF WaitTop, WaitPoll
  <2>2. CASE WaitScan(t)
    BY <2>2 DEF WaitScan
  <2>3. CASE WaitReap(t) \/ WaitUnmap(t)
    BY <2>3 DEF WaitReap, WaitUnmap
  <2>4. CASE WaitSignals(t) \/ WaitBlock(t) \/ WaitResume(t)
    BY <2>4 DEF WaitSignals, WaitBlock, WaitResume
  <2> QED
    BY <2>1, <2>2, <2>3, <2>4 DEF WaitStep
<1>2. SameZombies
  <2>1. CASE ~WaitBlock(t)
    <3>1. UNCHANGED status
      BY <2>1 DEF WaitStep, WaitTop, WaitPoll, WaitScan, WaitReap, WaitUnmap, WaitSignals,
                  WaitResume, threads
    <3> QED
      BY <3>1, QuietZombies
  <2>2. CASE WaitBlock(t)
    <3>1. pc[t] = "block" /\ "block" \notin Dead
      BY <2>2 DEF WaitBlock, Dead, Teardown
    <3>2. status[t] # "Zombie"
      BY <3>1 DEF Typed, Lives
    <3>3. UNCHANGED status \/ status' = [status EXCEPT ![t] = "Blocked"]
      BY <2>2 DEF WaitBlock
    <3> QED
      BY <3>2, <3>3, SMT DEF SameZombies, Statuses, Typed, Lives
  <2> QED
    BY <2>1, <2>2
<1>3. \A a, b \in Waiting \cup {"user", "exit", "group"} : Plain(a, b)
  BY PlainLabels, ZenonT(30) DEF Busy
<1> QED
  BY <1>1, <1>2, <1>3, PlainGoto

-----------------------------------------------------------------------------
\* Every step keeps the types and the exit path in order.
LifeInv == Typed /\ Path

LEMMA NextLife == LifeInv /\ ReapInv /\ [Next]_vars => LifeInv'
<1> SUFFICES ASSUME LifeInv, ReapInv, [Next]_vars PROVE LifeInv'
  OBVIOUS
<1>1. CASE UNCHANGED vars
  <2>1. Data' /\ Lives' /\ ReaperChosen'
    BY <1>1 DEF LifeInv, Typed, Data, Lives, ReaperChosen, vars, threads, args, links, meta, Waits
  <2>2. Path'
    BY <1>1 DEF LifeInv, Path, Listed, Members, Checked, Torn, Progress, LastOneFinished, Alive,
                vars, threads, args, links, meta, Unborn
  <2> QED
    BY <2>1, <2>2 DEF LifeInv, Typed
<1>2. CASE Next
  <2>1. PICK t \in Tasks : Voluntary(t) \/ KernelStep(t)
    BY <1>2 DEF Next
  <2>2. UNCHANGED scene
    BY <2>1 DEF Voluntary, KernelStep
  <2>3. Data'
    BY <2>1, <2>2, UserData, GroupData, ExitData, ReparentData, WaitData DEF KernelStep, LifeInv
  <2>4. Control'
    BY <2>1, <2>2, UserControl, GroupControl, ExitControl, ReparentControl, WaitControl
       DEF KernelStep, LifeInv
  <2> QED
    BY <2>3, <2>4 DEF LifeInv, Typed, Control
<1> QED
  BY <1>1, <1>2

\* The inductive invariant of types, task lists, checks and teardown.
THEOREM LifeInvariance == Spec => []LifeInv
<1>1. Init => LifeInv
  BY InitTyped, InitPath DEF LifeInv
<1> QED
  BY <1>1, NextLife, OneHand, PTL DEF Spec

\* Every field of the task control blocks and of ProcessMeta keeps its type, and
\* a thread is a zombie exactly from the first step of its exit on.
THEOREM ExitTypes == Spec => []TypeOK
<1>1. LifeInv => TypeOK
  BY DEF LifeInv, Typed, Data, Lives, Statuses, TypeOK
<1> QED
  BY <1>1, LifeInvariance, PTL

\* A process is torn down only when none of its threads can run any more
\* (exit_current_and_run_next), the threads cloned meanwhile excepted.
THEOREM TeardownIsLate == Spec => []TornDownWhenDead
<1>1. LifeInv => TornDownWhenDead
  BY DEF LifeInv, Path, Torn, TornDownWhenDead, Threads, Typed, Lives
<1> QED
  BY <1>1, LifeInvariance, PTL

\* Concurrent exits never leave the teardown to each other: when the last thread
\* is gone, the process is accounted for, released and has its exit code.
THEOREM TeardownHappens == Spec => []ExitIsFinished
<1>1. LifeInv => ExitIsFinished
  BY DEF LifeInv, Path, LastOneFinished, ExitIsFinished, Threads
<1> QED
  BY <1>1, LifeInvariance, PTL

-----------------------------------------------------------------------------
\* A child that is about to be linked names its new parent.
LinkInv ==
    /\ LinkedToParent
    /\ \A t \in Tasks : pc[t] = "link" => parent_pid[found[t]] = reaper[t]

\* Steps that link nobody and rename no parent.
LEMMA SameLinks ==
  ASSUME LinkInv, UNCHANGED parent_pid, \A p \in Procs : children'[p] \subseteq children[p],
         \A u \in Tasks : pc'[u] = "link" =>
             pc[u] = "link" /\ found'[u] = found[u] /\ reaper'[u] = reaper[u]
  PROVE  LinkInv'
  BY DEF LinkInv, LinkedToParent

LEMMA InitLink == Init => LinkInv
<1> SUFFICES ASSUME Init PROVE LinkInv
  OBVIOUS
<1>1. LinkedToParent
  BY SMT DEF Init, LinkedToParent
<1>2. \A t \in Tasks : pc[t] # "link"
  BY DEF Init
<1> QED
  BY <1>1, <1>2 DEF LinkInv

LEMMA NextLink == LinkInv /\ ReapInv /\ LifeInv /\ [Next]_vars => LinkInv'
<1> SUFFICES ASSUME LinkInv, ReapInv, LifeInv, [Next]_vars PROVE LinkInv'
  OBVIOUS
<1>0. /\ DOMAIN pc = Tasks /\ ProcOf \in [Tasks -> Procs]
      /\ kin \in [Tasks -> SUBSET Procs] /\ found \in [Tasks -> Procs \cup {None}]
      /\ reaper \in [Tasks -> Procs \cup {None}] /\ children \in [Procs -> SUBSET Procs]
      /\ parent_pid \in [Procs -> Procs \cup {None}]
  BY ProcessAssumption DEF LifeInv, Typed, Data, Lives
<1>1. CASE UNCHANGED vars
  BY <1>1, SameLinks DEF vars, args, links
<1>2. CASE \E t \in Tasks : Voluntary(t)
  <2>1. UNCHANGED <<parent_pid, children, found, reaper>>
    BY <1>2 DEF Voluntary, SysExit, SysExitGroup, CloneThread, Waitpid, args, links
  <2>2. \A u \in Tasks : pc'[u] = "link" => pc[u] = "link"
    BY <1>0, <1>2 DEF Voluntary, SysExit, SysExitGroup, CloneThread, Waitpid, Goto
  <2> QED
    BY <2>1, <2>2, SameLinks
<1>3. ASSUME NEW t \in Tasks, Preempt(t) \/ TrapReturn(t) \/ GroupStep(t) \/ ExitStep(t)
      PROVE  LinkInv'
  <2>1. UNCHANGED <<parent_pid, children, found, reaper>>
    <3>1. CASE Preempt(t) \/ TrapReturn(t) \/ GroupStep(t)
      BY <3>1 DEF Preempt, TrapReturn, GroupStep, GroupSnapshot, GroupWake, GroupCode, GroupSend,
                  GroupKill, Snapshot, LoopDone, LoopTask, args, links
    <3>2. CASE ExitStep(t)
      BY <3>2 DEF ExitStep, ExitZombie, ExitRetain, ExitSnapshot, ExitWake, CheckSnapshot,
                  CheckZombies, PublishUsage, ReleaseOwner, SetCode, Notify, ParentSnapshot,
                  SignalParent, WakeParent, SendSigchld, Snapshot, LoopDone, LoopTask, args, links
    <3> QED
      BY <1>3, <3>1, <3>2
  <2>2. \A u \in Tasks : pc'[u] = "link" => pc[u] = "link"
    <3>1. CASE Preempt(t) \/ TrapReturn(t) \/ GroupStep(t)
      BY <1>0, <3>1 DEF Preempt, TrapReturn, GroupStep, GroupSnapshot, GroupWake, GroupCode,
                        GroupSend,
                  GroupKill, Snapshot, LoopDone, LoopTask, Goto, ExitIfGroupExitedOrKilled
    <3>2. CASE ExitStep(t)
      BY <1>0, <3>2 DEF ExitStep, ExitZombie, ExitRetain, ExitSnapshot, ExitWake, CheckSnapshot,
                  CheckZombies, PublishUsage, ReleaseOwner, SetCode, Notify, ParentSnapshot,
                  SignalParent, WakeParent, SendSigchld, Snapshot, LoopDone, LoopTask, Goto
    <3> QED
      BY <1>3, <3>1, <3>2
  <2> QED
    BY <2>1, <2>2, SameLinks
<1>4. ASSUME NEW t \in Tasks, ReparentStep(t) PROVE LinkInv'
  <2>1. CASE TakeOrphans(t)
    <3>1. /\ UNCHANGED <<parent_pid, found, reaper>>
          /\ \A p \in Procs : children'[p] \subseteq children[p]
          /\ \A u \in Tasks : pc'[u] = "link" => pc[u] = "link"
      BY <1>0, <2>1 DEF TakeOrphans, Goto
    <3> QED
      BY <3>1, SameLinks
  <2>2. CASE FirstAncestor(t) \/ FindReaper(t)
    <3>1. /\ UNCHANGED <<parent_pid, found, children>>
          /\ \A u \in Tasks : u # t => reaper'[u] = reaper[u] /\ pc'[u] = pc[u]
          /\ pc'[t] # "link"
      BY <1>0, <2>2 DEF FirstAncestor, FindReaper, Goto, links
    <3> QED
      BY <3>1, SameLinks
  <2>3. CASE AdoptChild(t)
    <3>1. PICK c \in kin[t] : /\ parent_pid' = [parent_pid EXCEPT ![c] = reaper[t]]
                              /\ found' = [found EXCEPT ![t] = c]
      BY <2>3 DEF AdoptChild
    <3>2. /\ pc[t] = "adopt" /\ pc'[t] = "link" /\ \A u \in Tasks : u # t => pc'[u] = pc[u]
          /\ UNCHANGED <<children, reaper>>
      BY <1>0, <2>3 DEF AdoptChild, Goto
    <3>3. c \in Procs
      BY <1>0, <3>1
    <3>4. \A p \in Procs : c \notin children[p]
      BY <3>2, <3>3 DEF ReapInv, InMotion, Moving
    <3>5. \A u \in Tasks : u # t /\ pc[u] = "link" => found[u] \in kin[u] /\ found[u] # c
      BY <3>2, <3>3, SMTT(30) DEF ReapInv, Shape, InMotion, Moving
    <3>6. LinkedToParent'
      BY <1>0, <3>1, <3>2, <3>3, <3>4, SMTT(30) DEF LinkInv, LinkedToParent
    <3>7. \A u \in Tasks : pc'[u] = "link" => parent_pid'[found'[u]] = reaper'[u]
      BY <1>0, <3>1, <3>2, <3>3, <3>5, SMT DEF LinkInv, ReapInv, Shape
    <3> QED
      BY <3>6, <3>7 DEF LinkInv
  <2>4. CASE LinkChild(t)
    <3>1. /\ pc[t] = "link" /\ pc'[t] = "adopt" /\ UNCHANGED <<parent_pid, reaper>>
          /\ \A u \in Tasks : u # t => pc'[u] = pc[u] /\ found'[u] = found[u]
          /\ children' = [children EXCEPT ![reaper[t]] = @ \cup {found[t]}]
      BY <1>0, <2>4 DEF LinkChild, Goto
    <3>2. parent_pid[found[t]] = reaper[t]
      BY <3>1 DEF LinkInv
    <3>3. LinkedToParent'
      BY <1>0, <3>1, <3>2, SMT DEF LinkInv, LinkedToParent
    <3> QED
      BY <3>1, <3>3 DEF LinkInv
  <2>5. CASE Adopted(t) \/ WakeReaper(t) \/ SignalReaper(t)
    <3>1. /\ UNCHANGED <<parent_pid, found, reaper, children>>
          /\ \A u \in Tasks : pc'[u] = "link" => pc[u] = "link"
      BY <1>0, <2>5 DEF Adopted, WakeReaper, SignalReaper, SendSigchld, LoopDone, LoopTask, Goto,
                        args, links
    <3> QED
      BY <3>1, SameLinks
  <2> QED
    BY <1>4, <2>1, <2>2, <2>3, <2>4, <2>5 DEF ReparentStep
<1>5. ASSUME NEW t \in Tasks, WaitStep(t) PROVE LinkInv'
  <2>1. /\ UNCHANGED <<parent_pid, reaper>> /\ \A p \in Procs : children'[p] \subseteq children[p]
        /\ pc'[t] # "link" /\ \A u \in Tasks : u # t => pc'[u] = pc[u] /\ found'[u] = found[u]
    <3> USE DEF Goto, EndWait, links, args, meta
    <3>1. CASE WaitTop(t) \/ WaitPoll(t) \/ WaitUnmap(t)
      BY <1>0, <3>1 DEF WaitTop, WaitPoll, WaitUnmap
    <3>2. CASE WaitScan(t)
      BY <1>0, <3>2 DEF WaitScan
    <3>3. CASE WaitReap(t)
      BY <1>0, <3>3, SMT DEF WaitReap
    <3>4. CASE WaitSignals(t) \/ WaitBlock(t) \/ WaitResume(t)
      BY <1>0, <3>4 DEF WaitSignals, WaitBlock, WaitResume
    <3> QED
      BY <1>5, <3>1, <3>2, <3>3, <3>4 DEF WaitStep
  <2> QED
    BY <2>1, SameLinks
<1> QED
  BY <1>1, <1>2, <1>3, <1>4, <1>5 DEF Next, KernelStep

\* The child lists agree with parent_pid through every reparenting
\* (exit_and_reparent, link_child_to_parent).
THEOREM ListsAgree == Spec => []LinkedToParent
<1>1. LinkInv => LinkedToParent
  BY DEF LinkInv
<1> QED
  BY <1>1, InitLink, NextLink, OneHand, LifeInvariance, PTL DEF Spec
-----------------------------------------------------------------------------
(* No exit is missed.  child_exit_event holds one waker, so this is about  *)
(* processes of which one thread waits; a thread that was cloned may       *)
(* outlive its process (TornDownWhenDead), so the waiter is not cloned.    *)

OneWaiter ==
    \A s \in Scenarios : \A t \in Tasks : "wait" \in s.script[t] =>
        /\ t \notin s.unborn
        /\ \A u \in Tasks : "wait" \in s.script[u] /\ ProcOf[u] = ProcOf[t] => u = t

Waiting == {"top", "poll", "scan", "reap", "unmap", "sigs", "block", "asleep"}

\* A thread waits only if its program does.
Scripted == \A t \in Tasks : pc[t] \in Waiting => "wait" \in Script[t]

\* The waiter will look again before it sleeps on.
Alerted(t) == IF pc[t] = "asleep" THEN status[t] # "Blocked" ELSE woke[t]

\* From the poll on the waiter is registered, until somebody wakes it.
Registered ==
    \A t \in Tasks : pc[t] \in {"scan", "sigs", "block", "asleep"} =>
        Alerted(t) \/ event[ProcOf[t]] = t

\* A thread of process p that was not cloned can still run.
Kept(p) == \E t \in Tasks \ Unborn : ProcOf[t] = p /\ Alive(t)

\* A process with such a thread is not reaped.
ReapedWhenDead ==
    /\ \A p \in Procs : Kept(p) => in_map[p]
    /\ \A u \in Tasks : pc[u] \in {"reap", "unmap"} => ~Kept(found[u])

\* Its first children are listed nowhere else and never move.
StaysWith(p, c) ==
    /\ parent_pid[c] = p
    /\ \A q \in Procs : c \in children[q] => q = p
    /\ \A u \in Tasks : pc[u] \in Moving => c \notin kin[u]

FirstChildren ==
    \A p, c \in Procs : Kept(p) /\ scene.parent[c] = p => StaysWith(p, c)

\* find_child_reaper passes p by, now and later.
Unfit(p) == p # Initproc /\ (p \notin Subreapers \/ exiting[p])

\* An orphan c of a first child m of p goes to p at once or never.
Orphaned(p, m, c) ==
    /\ \A q \in Procs : c \in children[q] => q = m \/ q = p \/ Unfit(p)
    /\ \A u \in Tasks : pc[u] \in Moving /\ c \in kin[u] =>
        \/ Unfit(p) /\ (pc[u] \in {"adopt", "link"} => reaper[u] # p)
        \/ ProcOf[u] = m /\ (pc[u] \in {"reaper", "adopt", "link"} => reaper[u] = p)

FirstOrphans ==
    \A p, m, c \in Procs :
        Kept(p) /\ m # p /\ scene.parent[m] = p /\ scene.parent[c] = m => Orphaned(p, m, c)

\* Thread u is going to tear its process down, or is doing so.
Finishes(u) ==
    \/ pc[u] \in {"bro", "bwake", "check"} /\ tasks[ProcOf[u]] = {}
    \/ pc[u] = "zombie" /\ all_zombie(u)
    \/ pc[u] \in Teardown

\* Thread u will wake the waiter of process p after the exit of its child c: it
\* ends c, or the process between them, of which c is an orphan.
Rings(u, c, p) ==
    \/ ProcOf[u] = c /\ Finishes(u)
    \/ pc[u] \in Teardown /\ scene.parent[c] = ProcOf[u] /\ scene.parent[ProcOf[u]] = p

\* The scan of the waiter t has not seen that its child c exited.
Overlooked(t, c) ==
    /\ pc[t] \in {"sigs", "block", "asleep"} \/ (pc[t] = "scan" /\ c \notin kin[t])
    /\ c \in children[ProcOf[t]] /\ Near(ProcOf[t], c)
    /\ Eligible(t, c) /\ all_tasks_exited(c)

ToldOf ==
    \A t \in Tasks : \A c \in Procs :
        Overlooked(t, c) => Alerted(t) \/ \E u \in Tasks : Rings(u, c, ProcOf[t])

\* The inductive invariant of waiting.
WaitInv == Scripted /\ Registered /\ ReapedWhenDead /\ FirstChildren /\ FirstOrphans /\ ToldOf

-----------------------------------------------------------------------------
\* What every step of thread v leaves alone.
Frame(v) ==
    /\ \A u \in Tasks \ {v} :
        /\ pc'[u] = pc[u] \/ (pc[u] = "unborn" /\ pc'[u] = "user")
        /\ kin'[u] = kin[u] /\ wait'[u] = wait[u] /\ found'[u] = found[u]
        /\ reaper'[u] = reaper[u] /\ snap'[u] = snap[u]
        /\ woke[u] => woke'[u]
        /\ status'[u] = "Blocked" => status[u] = "Blocked"
    /\ \A u \in Tasks : status[u] = "Zombie" => status'[u] = "Zombie"
    /\ \A q \in Procs : exiting[q] => exiting'[q]

\* A registered waiter stays registered or is woken.
EventKept ==
    \A u \in Tasks : \A q \in Procs :
        event[q] = u => event'[q] = u \/ (woke'[u] /\ status'[u] # "Blocked")

Watching == {"scan", "sigs", "block", "asleep"}

LEMMA WakeUpKeeps ==
  ASSUME LifeInv, NEW x \in Tasks, status' = WakeUp(x)
  PROVE  /\ \A u \in Tasks : /\ status'[u] = "Blocked" => status[u] = "Blocked"
                             /\ status[u] = "Zombie" => status'[u] = "Zombie"
         /\ status'[x] # "Blocked"
  BY SMT DEF LifeInv, Typed, Lives, WakeUp

LEMMA Rung ==
  ASSUME LifeInv, NEW p \in Procs, EventWake(p)
  PROVE  /\ \A u \in Tasks : /\ woke[u] => woke'[u]
                             /\ status'[u] = "Blocked" => status[u] = "Blocked"
                             /\ status[u] = "Zombie" => status'[u] = "Zombie"
         /\ EventKept
         /\ \A u \in Tasks : event[p] = u => woke'[u] /\ status'[u] # "Blocked"
<1>0. /\ event \in [Procs -> Tasks \cup {None}] /\ woke \in [Tasks -> BOOLEAN] /\ None \notin Tasks
  BY ProcessAssumption DEF LifeInv, Typed, Data
<1>1. event' = [event EXCEPT ![p] = None]
  BY DEF EventWake
<1>2. CASE event[p] = None
  BY <1>0, <1>1, <1>2 DEF EventWake, EventKept
<1>3. CASE event[p] # None
  <2> DEFINE x == event[p]
  <2>1. x \in Tasks /\ woke' = [woke EXCEPT ![x] = TRUE] /\ status' = WakeUp(x)
    BY <1>0, <1>3 DEF EventWake
  <2>2. woke'[x] /\ \A u \in Tasks : woke[u] => woke'[u]
    BY <1>0, <2>1
  <2>3. EventKept
    BY <1>0, <1>1, <2>1, <2>2, WakeUpKeeps DEF EventKept
  <2> QED
    BY <2>1, <2>2, <2>3, WakeUpKeeps
<1> QED
  BY <1>2, <1>3

\* A step that changes the label and locals of v only.
LEMMA QuietFrame ==
  ASSUME LifeInv, NEW v \in Tasks, NEW l, Goto(v, l), UNCHANGED <<status, exiting>>,
         \A u \in Tasks \ {v} : /\ kin'[u] = kin[u] /\ wait'[u] = wait[u] /\ found'[u] = found[u]
                                /\ reaper'[u] = reaper[u] /\ snap'[u] = snap[u]
                                /\ woke'[u] = woke[u]
  PROVE  Frame(v) /\ pc'[v] = l
  BY DEF Frame, Goto, LifeInv, Typed, Lives

LEMMA SnapshotFrame ==
  ASSUME LifeInv, NEW v \in Tasks, NEW from, NEW to, NEW set, Snapshot(v, from, to, set)
  PROVE  /\ Frame(v) /\ EventKept /\ pc[v] = from /\ pc'[v] = to
         /\ UNCHANGED <<links, in_map, exiting, kin, woke, status>> /\ snap'[v] = set
<1>1. /\ Goto(v, to) /\ pc[v] = from
      /\ UNCHANGED <<links, in_map, exiting, kin, woke, status, wait, found, reaper, event>>
      /\ \A u \in Tasks \ {v} : snap'[u] = snap[u]
      /\ snap'[v] = set
  BY DEF Snapshot, threads, meta, LifeInv, Typed, Data
<1> QED
  BY <1>1, QuietFrame DEF EventKept

LEMMA LoopFrame ==
  ASSUME LifeInv, NEW v \in Tasks, NEW label, NEW next,
         LoopDone(v, label, next) \/ \E u \in snap[v] : LoopTask(v, label, u)
  PROVE  /\ Frame(v) /\ EventKept /\ pc[v] = label /\ pc'[v] \in {label, next}
         /\ UNCHANGED <<links, in_map, exiting, kin>>
<1>1. CASE LoopDone(v, label, next)
  <2>1. /\ Goto(v, next) /\ pc[v] = label
        /\ UNCHANGED <<links, in_map, exiting, kin, woke, status, wait, found, reaper, snap, event>>
    BY <1>1 DEF LoopDone, threads, args, meta
  <2> QED
    BY <2>1, QuietFrame DEF EventKept
<1>2. ASSUME NEW x \in snap[v], LoopTask(v, label, x)
      PROVE  /\ Frame(v) /\ EventKept /\ pc[v] = label /\ pc'[v] \in {label, next}
             /\ UNCHANGED <<links, in_map, exiting, kin>>
  <2>1. x \in Tasks /\ status' = WakeUp(x)
    BY <1>2 DEF LifeInv, Typed, Data, LoopTask
  <2>2. /\ pc[v] = label
        /\ UNCHANGED <<pc, links, in_map, exiting, kin, woke, wait, found, reaper, event>>
        /\ \A u \in Tasks \ {v} : snap'[u] = snap[u]
    BY <1>2 DEF LoopTask, meta, LifeInv, Typed, Data
  <2> QED
    BY <2>1, <2>2, WakeUpKeeps DEF Frame, EventKept
<1> QED
  BY <1>1, <1>2

LEMMA UserFrame ==
  ASSUME LifeInv, NEW v \in Tasks, Voluntary(v) \/ Preempt(v) \/ TrapReturn(v)
  PROVE  /\ Frame(v) /\ EventKept
         /\ pc[v] = "user" /\ pc'[v] \in {"user", "exit", "group", "top"}
         /\ pc'[v] = "top" => "wait" \in Script[v]
         /\ UNCHANGED <<children, parent_pid, exit_signal, in_map, exiting, kin>>
         /\ \A q \in Procs : tasks[q] \subseteq tasks'[q]
<1>0. ProcOf[v] \in Procs
  BY ProcessAssumption
<1> USE DEF threads, args, links, meta
<1>1. CASE SysExit(v) \/ SysExitGroup(v) \/ Preempt(v)
  <2>1. PICK l \in {"user", "exit", "group"} : Goto(v, l)
    BY <1>1 DEF SysExit, SysExitGroup, Preempt, ExitIfGroupExitedOrKilled
  <2>2. pc[v] = "user" /\ UNCHANGED <<threads, args, links, meta>>
    BY <1>1 DEF SysExit, SysExitGroup, Preempt, Call
  <2> QED
    BY <2>1, <2>2, QuietFrame DEF EventKept
<1>2. CASE TrapReturn(v)
  <2>1. PICK l \in {"user", "group"} : Goto(v, l)
    BY <1>2 DEF TrapReturn, Goto, LifeInv, Typed, Lives
  <2>2. pc[v] = "user" /\ UNCHANGED <<status, woke, args, links, meta>>
    BY <1>2 DEF TrapReturn
  <2> QED
    BY <2>1, <2>2, QuietFrame DEF EventKept
<1>3. ASSUME NEW w, Waitpid(v, w)
      PROVE  /\ Frame(v) /\ EventKept /\ pc[v] = "user" /\ pc'[v] = "top" /\ "wait" \in Script[v]
             /\ UNCHANGED <<status, kin, links, meta>>
  <2>1. /\ Goto(v, "top") /\ pc[v] = "user" /\ "wait" \in Script[v]
        /\ UNCHANGED <<status, kin, found, reaper, snap, links, meta>>
        /\ \A u \in Tasks \ {v} : wait'[u] = wait[u] /\ woke'[u] = woke[u]
    BY <1>3 DEF Waitpid, Call, LifeInv, Typed, Data
  <2> QED
    BY <2>1, QuietFrame DEF EventKept
<1>4. ASSUME NEW x \in Tasks, CloneThread(v, x)
      PROVE  /\ Frame(v) /\ EventKept /\ pc[v] = "user" /\ pc'[v] = "user"
             /\ UNCHANGED <<children, parent_pid, exit_signal, meta, kin>>
             /\ \A q \in Procs : tasks[q] \subseteq tasks'[q]
  <2>1. /\ pc[v] = "user" /\ pc[x] = "unborn" /\ pc'[x] = "user"
        /\ \A u \in Tasks : u # x => pc'[u] = pc[u] /\ status'[u] = status[u]
        /\ status'[x] = "Running"
        /\ UNCHANGED <<woke, args, children, parent_pid, exit_signal, meta>>
    BY <1>4 DEF CloneThread, Call, Goto, LifeInv, Typed, Lives
  <2>2. \A q \in Procs : tasks[q] \subseteq tasks'[q]
    BY <1>0, <1>4 DEF CloneThread, LifeInv, Typed, Data
  <2>3. pc[x] \notin Dead
    BY <2>1 DEF Dead, Teardown
  <2>4. status[x] # "Zombie"
    BY <2>3 DEF LifeInv, Typed, Lives
  <2> QED
    BY <2>1, <2>2, <2>4 DEF Frame, EventKept
<1> QED
  BY <1>1, <1>2, <1>3, <1>4 DEF Voluntary

LEMMA GroupFrame ==
  ASSUME LifeInv, NEW v \in Tasks, GroupStep(v)
  PROVE  /\ Frame(v) /\ EventKept
         /\ pc[v] \in {"group", "gwake", "gcode", "gsend", "gkill"}
         /\ pc'[v] \in {"gwake", "gcode", "gsend", "gkill", "exit"}
         /\ UNCHANGED <<links, in_map, kin>>
         /\ \A q \in Procs : exiting'[q] =>
                exiting[q] \/ (ProcOf[v] = q /\ pc[v] = "gcode")
<1>1. CASE GroupSnapshot(v) \/ GroupSend(v)
  BY <1>1, SnapshotFrame DEF GroupSnapshot, GroupSend
<1>2. CASE GroupWake(v) \/ GroupKill(v)
  BY <1>2, LoopFrame DEF GroupWake, GroupKill
<1>3. CASE GroupCode(v)
  <2>1. PICK l \in {"exit", "gsend"} : Goto(v, l)
    BY <1>3 DEF GroupCode
  <2>2. /\ pc[v] = "gcode" /\ UNCHANGED <<threads, args, links, event, in_map>>
        /\ exiting' = [exiting EXCEPT ![ProcOf[v]] = TRUE]
    BY <1>3 DEF GroupCode
  <2>3. /\ \A q \in Procs : exiting[q] => exiting'[q]
        /\ \A q \in Procs : exiting'[q] => exiting[q] \/ ProcOf[v] = q
    BY <2>2 DEF LifeInv, Typed, Data
  <2>4. Frame(v) /\ pc'[v] = l
    BY <2>1, <2>2, <2>3 DEF Frame, Goto, LifeInv, Typed, Lives, threads, args
  <2> QED
    BY <2>1, <2>2, <2>3, <2>4 DEF EventKept, threads, args
<1> QED
  BY <1>1, <1>2, <1>3 DEF GroupStep

\* The labels an exit step comes from and goes to.
ExitFrom == {"exit", "retain", "bro", "bwake", "check", "zombie", "usage", "release", "code",
             "notify", "nppid", "nsig", "nwake"}
ExitTo == {"retain", "bro", "bwake", "check", "zombie", "gone", "usage", "release", "code",
           "orphans", "nppid", "nsig", "nwake"}

\* What an exit step changes, with the label it comes from.
LEMMA ExitFrame ==
  ASSUME LifeInv, NEW v \in Tasks, ExitStep(v)
  PROVE  /\ Frame(v) /\ EventKept
         /\ pc[v] \in ExitFrom /\ pc'[v] \in ExitTo
         /\ UNCHANGED <<children, parent_pid, exit_signal, in_map, kin>>
         /\ \A q \in Procs : exiting'[q] => exiting[q] \/ (ProcOf[v] = q /\ pc[v] = "code")
         /\ \A q \in Procs : tasks'[q] = tasks[q] \/ (ProcOf[v] = q /\ pc[v] = "retain")
<1>0. ProcOf[v] \in Procs
  BY ProcessAssumption
<1> USE DEF ExitFrom, ExitTo, threads, args, links, meta
<1>1. CASE ExitSnapshot(v) \/ CheckSnapshot(v) \/ ParentSnapshot(v)
  <2>1. \E from, to \in {"bro", "bwake", "check", "zombie", "nppid", "nsig"} : \E set :
            Snapshot(v, from, to, set) /\ from \in ExitFrom /\ to \in ExitTo
    BY <1>1 DEF ExitSnapshot, CheckSnapshot, ParentSnapshot
  <2> QED
    BY <2>1, SnapshotFrame
<1>2. CASE ExitWake(v) \/ SignalParent(v)
  <2>1. CASE ExitWake(v)
    BY <2>1, LoopFrame DEF ExitWake
  <2>2. CASE SignalParent(v)
    <3>1. LoopDone(v, "nsig", "nwake") \/ \E u \in snap[v] : LoopTask(v, "nsig", u)
      BY <2>2 DEF SignalParent, SendSigchld
    <3> QED
      BY <3>1, LoopFrame
  <2> QED
    BY <1>2, <2>1, <2>2
<1>3. CASE Notify(v)
  <2>1. PICK l \in {"nppid", "nwake"} : Goto(v, l)
    BY <1>3 DEF Notify
  <2>2. pc[v] = "notify" /\ UNCHANGED <<threads, args, links, meta>>
    BY <1>3 DEF Notify
  <2> QED
    BY <2>1, <2>2, QuietFrame DEF EventKept
<1>4. CASE PublishUsage(v) \/ ReleaseOwner(v)
  <2>1. PICK l \in {"release", "code"} : Goto(v, l)
    BY <1>4 DEF PublishUsage, ReleaseOwner
  <2>2. pc[v] \in {"usage", "release"} /\ UNCHANGED <<threads, args, links, exiting, event, in_map>>
    BY <1>4 DEF PublishUsage, ReleaseOwner
  <2> QED
    BY <2>1, <2>2, QuietFrame DEF EventKept
<1>5. CASE CheckZombies(v)
  <2>1. PICK l \in {"usage", "gone"} : Goto(v, l)
    BY <1>5 DEF CheckZombies
  <2>2. /\ pc[v] = "zombie" /\ UNCHANGED <<threads, wait, kin, found, reaper, links, meta>>
        /\ \A u \in Tasks \ {v} : snap'[u] = snap[u]
    BY <1>5 DEF CheckZombies, LifeInv, Typed, Data
  <2> QED
    BY <2>1, <2>2, QuietFrame DEF EventKept
<1>6. CASE SetCode(v)
  <2>1. /\ pc[v] = "code" /\ Goto(v, "orphans") /\ UNCHANGED <<threads, args, links, event, in_map>>
        /\ exiting' = [exiting EXCEPT ![ProcOf[v]] = TRUE]
    BY <1>6 DEF SetCode
  <2>2. /\ \A q \in Procs : exiting[q] => exiting'[q]
        /\ \A q \in Procs : exiting'[q] => exiting[q] \/ ProcOf[v] = q
    BY <2>1 DEF LifeInv, Typed, Data
  <2>3. Frame(v) /\ pc'[v] = "orphans"
    BY <2>1, <2>2 DEF Frame, Goto, LifeInv, Typed, Lives
  <2> QED
    BY <2>1, <2>2, <2>3 DEF EventKept
<1>7. CASE ExitZombie(v)
  <2>1. /\ pc[v] = "exit" /\ Goto(v, "retain") /\ UNCHANGED <<woke, args, links, meta>>
        /\ status' = [status EXCEPT ![v] = "Zombie"]
    BY <1>7 DEF ExitZombie
  <2>2. /\ \A u \in Tasks : status'[u] = "Blocked" => status[u] = "Blocked"
        /\ \A u \in Tasks : status[u] = "Zombie" => status'[u] = "Zombie"
    BY <2>1, SMT DEF LifeInv, Typed, Lives
  <2>3. Frame(v) /\ pc'[v] = "retain"
    BY <2>1, <2>2 DEF Frame, Goto, LifeInv, Typed, Lives
  <2> QED
    BY <2>1, <2>2, <2>3 DEF EventKept
<1>8. CASE ExitRetain(v)
  <2>1. /\ pc[v] = "retain" /\ Goto(v, "bro")
        /\ UNCHANGED <<threads, args, children, parent_pid, exit_signal, meta>>
        /\ tasks' = [tasks EXCEPT ![ProcOf[v]] = @ \ {v}]
    BY <1>8 DEF ExitRetain
  <2>2. \A q \in Procs : tasks'[q] = tasks[q] \/ ProcOf[v] = q
    BY <1>0, <2>1 DEF LifeInv, Typed, Data
  <2> QED
    BY <2>1, <2>2, QuietFrame DEF EventKept
<1>9. CASE WakeParent(v)
  <2>1. /\ pc[v] = "nwake" /\ Goto(v, "gone") /\ UNCHANGED <<args, links, exiting, in_map>>
    BY <1>9 DEF WakeParent
  <2>2. pc'[v] = "gone" /\ \A u \in Tasks \ {v} : pc'[u] = pc[u]
    BY <2>1 DEF Goto, LifeInv, Typed, Lives
  <2>3. CASE UNCHANGED <<event, woke, status>>
    BY <2>1, <2>3, QuietFrame DEF EventKept
  <2>4. CASE ~UNCHANGED <<event, woke, status>>
    <3>1. parent_pid[ProcOf[v]] \in Procs /\ EventWake(parent_pid[ProcOf[v]])
      BY <1>0, <1>9, <2>4 DEF WakeParent, LifeInv, Typed, Data
    <3> QED
      BY <2>1, <2>2, <3>1, Rung DEF Frame
  <2> QED
    BY <2>3, <2>4
<1> QED
  BY <1>1, <1>2, <1>3, <1>4, <1>5, <1>6, <1>7, <1>8, <1>9 DEF ExitStep

LEMMA ReparentFrame ==
  ASSUME LifeInv, NEW v \in Tasks, ReparentStep(v)
  PROVE  /\ Frame(v) /\ EventKept
         /\ pc[v] \in Teardown /\ pc'[v] \in Teardown
         /\ UNCHANGED <<in_map, exiting>>
         /\ pc[v] # "orphans" => UNCHANGED tasks
<1>0. ProcOf[v] \in Procs
  BY ProcessAssumption
<1> USE DEF Teardown, threads, args, links, meta
<1>1. CASE TakeOrphans(v)
  <2>1. PICK l \in {"notify", "ancestor"} : Goto(v, l)
    BY <1>1 DEF TakeOrphans
  <2>2. /\ pc[v] = "orphans" /\ UNCHANGED <<threads, wait, snap, found, reaper, meta>>
        /\ \A u \in Tasks \ {v} : kin'[u] = kin[u]
    BY <1>1 DEF TakeOrphans, LifeInv, Typed, Data
  <2> QED
    BY <2>1, <2>2, QuietFrame DEF EventKept
<1>2. CASE FirstAncestor(v) \/ FindReaper(v)
  <2>1. PICK l \in {"reaper", "adopt"} : Goto(v, l)
    BY <1>2 DEF FirstAncestor, FindReaper, Goto, LifeInv, Typed, Lives
  <2>2. /\ pc[v] \in {"ancestor", "reaper"} /\ UNCHANGED <<threads, wait, snap, kin, found, links, meta>>
        /\ \A u \in Tasks \ {v} : reaper'[u] = reaper[u]
    BY <1>2 DEF FirstAncestor, FindReaper, LifeInv, Typed, Data
  <2> QED
    BY <2>1, <2>2, QuietFrame DEF EventKept
<1>3. CASE AdoptChild(v) \/ LinkChild(v)
  <2>1. PICK l \in {"link", "adopt"} : Goto(v, l)
    BY <1>3 DEF AdoptChild, LinkChild
  <2>2. /\ pc[v] \in {"link", "adopt"} /\ UNCHANGED <<threads, wait, snap, reaper, tasks, meta>>
        /\ \A u \in Tasks \ {v} : found'[u] = found[u] /\ kin'[u] = kin[u]
    BY <1>3 DEF AdoptChild, LinkChild, LifeInv, Typed, Data
  <2> QED
    BY <2>1, <2>2, QuietFrame DEF EventKept
<1>4. CASE Adopted(v)
  <2>1. PICK l \in {"adopted", "notify"} : Goto(v, l)
    BY <1>4 DEF Adopted
  <2>2. pc[v] = "adopt" /\ UNCHANGED <<threads, args, links, meta>>
    BY <1>4 DEF Adopted
  <2> QED
    BY <2>1, <2>2, QuietFrame DEF EventKept
<1>5. CASE WakeReaper(v)
  <2>1. /\ pc[v] = "adopted" /\ Goto(v, "rsig") /\ EventWake(reaper[v])
        /\ UNCHANGED <<wait, kin, found, reaper, links, exiting, in_map>>
        /\ \A u \in Tasks \ {v} : snap'[u] = snap[u]
    BY <1>5 DEF WakeReaper, LifeInv, Typed, Data
  <2>2. pc'[v] = "rsig" /\ \A u \in Tasks \ {v} : pc'[u] = pc[u]
    BY <2>1 DEF Goto, LifeInv, Typed, Lives
  <2>3. reaper[v] \in Procs
    BY <2>1 DEF LifeInv, Typed, ReaperChosen
  <2> QED
    BY <2>1, <2>2, <2>3, Rung DEF Frame
<1>6. CASE SignalReaper(v)
  <2>1. LoopDone(v, "rsig", "notify") \/ \E u \in snap[v] : LoopTask(v, "rsig", u)
    BY <1>6 DEF SignalReaper, SendSigchld
  <2> QED
    BY <2>1, LoopFrame
<1> QED
  BY <1>1, <1>2, <1>3, <1>4, <1>5, <1>6 DEF ReparentStep

\* A waiter changes its own state, and the slots in which it is registered.
LEMMA EndWaitFrame ==
  ASSUME LifeInv, NEW v \in Tasks, NEW l, EndWait(v, l), UNCHANGED <<status, reaper, snap, exiting>>
  PROVE  /\ Frame(v) /\ pc'[v] = l
         /\ \A u \in Tasks \ {v} : woke'[u] = woke[u] /\ \A q \in Procs : event[q] = u => event'[q] = u
<1>1. /\ Goto(v, l)
      /\ \A u \in Tasks \ {v} : /\ wait'[u] = wait[u] /\ woke'[u] = woke[u] /\ kin'[u] = kin[u]
                                /\ found'[u] = found[u]
      /\ \A u \in Tasks \ {v} : \A q \in Procs : event[q] = u => event'[q] = u
  BY DEF EndWait, LifeInv, Typed, Data
<1> QED
  BY <1>1, QuietFrame

LEMMA WaitFrame ==
  ASSUME LifeInv, NEW v \in Tasks, WaitStep(v)
  PROVE  /\ Frame(v) /\ pc[v] \in Waiting /\ pc'[v] \in Waiting \cup {"user", "exit", "group"}
         /\ \A u \in Tasks \ {v} :
                /\ woke'[u] = woke[u] /\ status'[u] = status[u]
                /\ \A q \in Procs : event[q] = u => event'[q] = u \/ (pc[v] = "poll" /\ q = ProcOf[v])
         /\ UNCHANGED <<tasks, parent_pid, exit_signal, exiting>>
<1> USE DEF Waiting, threads, args, links, meta
<1>1. CASE WaitTop(v)
  <2>1. CASE \E l \in {"exit", "group"} : EndWait(v, l)
    BY <1>1, <2>1, EndWaitFrame, ZenonT(30) DEF WaitTop
  <2>2. CASE ~\E l \in {"exit", "group"} : EndWait(v, l)
    BY <1>1, <2>2, QuietFrame DEF WaitTop
  <2> QED
    BY <1>1, <2>1, <2>2
<1>2. CASE WaitPoll(v)
  <2>1. /\ pc[v] = "poll" /\ Goto(v, "scan") /\ UNCHANGED <<threads, wait, snap, found, reaper, links, exiting>>
        /\ \A u \in Tasks \ {v} : kin'[u] = kin[u]
        /\ \A q \in Procs : q # ProcOf[v] => event'[q] = event[q]
    BY <1>2 DEF WaitPoll, LifeInv, Typed, Data
  <2> QED
    BY <2>1, QuietFrame
<1>3. CASE WaitScan(v)
  <2>1. pc[v] = "scan" /\ UNCHANGED <<status, snap, reaper, links, exiting>>
    BY <1>3 DEF WaitScan
  <2>2. CASE EndWait(v, "user")
    BY <2>1, <2>2, EndWaitFrame
  <2>3. CASE ~EndWait(v, "user")
    <3>1. PICK l \in {"reap", "sigs"} : Goto(v, l)
      BY <1>3, <2>3 DEF WaitScan
    <3>2. /\ UNCHANGED <<wait, woke, event>>
          /\ \A u \in Tasks \ {v} : kin'[u] = kin[u] /\ found'[u] = found[u]
      BY <1>3, <2>3 DEF WaitScan, LifeInv, Typed, Data
    <3> QED
      BY <2>1, <3>1, <3>2, QuietFrame
  <2> QED
    BY <2>2, <2>3
<1>4. CASE WaitReap(v)
  <2>1. pc[v] = "reap" /\ UNCHANGED <<status, snap, reaper, tasks, parent_pid, exit_signal, exiting>>
    BY <1>4 DEF WaitReap
  <2>2. CASE EndWait(v, "user")
    BY <2>1, <2>2, EndWaitFrame
  <2>3. CASE ~EndWait(v, "user")
    <3>1. Goto(v, "unmap") /\ UNCHANGED <<wait, woke, kin, found, event>>
      BY <1>4, <2>3 DEF WaitReap
    <3> QED
      BY <2>1, <3>1, QuietFrame
  <2> QED
    BY <2>2, <2>3
<1>5. CASE WaitUnmap(v)
  BY <1>5, EndWaitFrame DEF WaitUnmap
<1>6. CASE WaitSignals(v)
  <2>1. pc[v] = "sigs" /\ UNCHANGED <<status, snap, reaper, links, exiting>>
    BY <1>6 DEF WaitSignals
  <2>2. CASE EndWait(v, "user")
    BY <2>1, <2>2, EndWaitFrame
  <2>3. CASE ~EndWait(v, "user")
    <3>1. Goto(v, "block") /\ UNCHANGED <<wait, woke, kin, found, event>>
      BY <1>6, <2>3 DEF WaitSignals
    <3> QED
      BY <2>1, <3>1, QuietFrame
  <2> QED
    BY <2>2, <2>3
<1>7. CASE WaitBlock(v)
  <2>1. PICK l \in {"top", "asleep"} : Goto(v, l)
    BY <1>7 DEF WaitBlock
  <2>2. /\ pc[v] = "block" /\ UNCHANGED <<args, links, meta>>
        /\ \A u \in Tasks \ {v} : woke'[u] = woke[u] /\ status'[u] = status[u]
    BY <1>7 DEF WaitBlock, LifeInv, Typed, Data, Lives
  <2>3. status[v] # "Zombie"
    BY <2>2 DEF LifeInv, Typed, Lives, Dead, Teardown
  <2> QED
    BY <2>1, <2>2, <2>3 DEF Frame, Goto, LifeInv, Typed, Lives
<1>8. CASE WaitResume(v)
  BY <1>8, QuietFrame DEF WaitResume
<1> QED
  BY <1>1, <1>2, <1>3, <1>4, <1>5, <1>6, <1>7, <1>8 DEF WaitStep

-----------------------------------------------------------------------------
(* Where the children of a living process are.                             *)

Places == ReapedWhenDead /\ FirstChildren /\ FirstOrphans

\* A process with a living thread has a task, and nobody tears it down.
LEMMA KeptFacts ==
  ASSUME LifeInv, NEW p \in Procs, Kept(p)
  PROVE  tasks[p] # {} /\ \A u \in Tasks : ProcOf[u] = p => pc[u] \notin Teardown
<1>1. PICK t \in Tasks \ Unborn : ProcOf[t] = p /\ Alive(t)
  BY DEF Kept
<1> QED
  BY <1>1 DEF LifeInv, Path, Listed, Torn, Alive

\* A thread that is dead stays dead.
LEMMA KeptBefore ==
  ASSUME LifeInv, LifeInv', UNCHANGED scene, NEW v \in Tasks, Frame(v), NEW p
  PROVE  Kept(p)' => Kept(p)
<1> SUFFICES ASSUME Kept(p)' PROVE Kept(p)
  OBVIOUS
<1>1. PICK t \in Tasks \ Unborn : ProcOf[t] = p /\ Alive(t)'
  BY DEF Kept, Unborn
<1>2. CASE ~Alive(t)
  <2>1. pc[t] \in Dead
    BY <1>1, <1>2 DEF Alive, LifeInv, Path, Listed
  <2>2. status'[t] = "Zombie"
    BY <2>1 DEF LifeInv, Typed, Lives, Frame
  <2>3. pc'[t] \in Dead
    BY <2>2 DEF LifeInv, Typed, Lives
  <2> QED
    BY <1>1, <2>3 DEF Alive
<1> QED
  BY <1>1, <1>2 DEF Kept

\* A step that moves, reaps and unmaps nobody.
LEMMA SamePlaces ==
  ASSUME Places, LifeInv, LifeInv', NEW v \in Tasks, Frame(v),
         UNCHANGED <<scene, children, parent_pid, in_map>>,
         pc'[v] \notin Moving \cup {"reap", "unmap"}
  PROVE  Places'
<1>1. \A p : Kept(p)' => Kept(p)
  BY KeptBefore
<1>2. \A u \in Tasks : pc'[u] \in Moving \cup {"reap", "unmap"} =>
          pc'[u] = pc[u] /\ kin'[u] = kin[u] /\ found'[u] = found[u] /\ reaper'[u] = reaper[u]
  <2>1. "user" \notin Moving \cup {"reap", "unmap"}
    BY DEF Moving
  <2> QED
    BY <2>1 DEF Frame
<1>3. ReapedWhenDead'
  BY <1>1, <1>2 DEF Places, ReapedWhenDead
<1>4. FirstChildren'
  <2> SUFFICES ASSUME NEW p \in Procs, NEW c \in Procs, Kept(p)', scene.parent[c] = p
               PROVE  StaysWith(p, c)'
    BY DEF FirstChildren
  <2>1. StaysWith(p, c) /\ Kept(p)
    BY <1>1 DEF Places, FirstChildren
  <2> QED
    BY <1>2, <2>1 DEF StaysWith
<1>5. \A p \in Procs : Unfit(p) => Unfit(p)'
  BY DEF Unfit, Frame, Subreapers
<1>6. FirstOrphans'
  <2> SUFFICES ASSUME NEW p \in Procs, NEW m \in Procs, NEW c \in Procs,
                      Kept(p)', m # p, scene.parent[m] = p, scene.parent[c] = m
               PROVE  Orphaned(p, m, c)'
    BY DEF FirstOrphans
  <2>1. Orphaned(p, m, c)
    BY <1>1 DEF Places, FirstOrphans
  <2> QED
    BY <1>2, <1>5, <2>1 DEF Orphaned, Moving
<1> QED
  BY <1>3, <1>4, <1>6 DEF Places

LEMMA TakeOrphansPlaces ==
  ASSUME Places, ReapInv, LifeInv, LifeInv', UNCHANGED scene, NEW v \in Tasks, TakeOrphans(v)
  PROVE  Places'
<1>0. ProcOf[v] \in Procs /\ children \in [Procs -> SUBSET Procs] /\ kin \in [Tasks -> SUBSET Procs]
  BY ProcessAssumption DEF ReapInv, Shape
<1>1. Frame(v)
  BY ReparentFrame DEF ReparentStep
<1>2. \A p : Kept(p)' => Kept(p)
  BY <1>1, KeptBefore
<1>3. /\ pc[v] = "orphans" /\ pc'[v] \in {"notify", "ancestor"} /\ \A u \in Tasks \ {v} : pc'[u] = pc[u]
      /\ kin'[v] = children[ProcOf[v]] /\ \A u \in Tasks \ {v} : kin'[u] = kin[u]
      /\ \A q \in Procs : children'[q] \subseteq children[q]
      /\ UNCHANGED <<found, reaper, parent_pid, in_map, exiting>>
  BY <1>0 DEF TakeOrphans, Goto, LifeInv, Typed, Lives, meta
<1>4. ~Kept(ProcOf[v])
  BY <1>0, <1>3, KeptFacts DEF Teardown
<1>5. ReapedWhenDead'
  BY <1>2, <1>3 DEF Places, ReapedWhenDead
<1>6. FirstChildren'
  <2> SUFFICES ASSUME NEW p \in Procs, NEW c \in Procs, Kept(p)', scene.parent[c] = p
               PROVE  StaysWith(p, c)'
    BY DEF FirstChildren
  <2>1. StaysWith(p, c) /\ Kept(p)
    BY <1>2 DEF Places, FirstChildren
  <2> QED
    BY <1>0, <1>3, <1>4, <2>1 DEF StaysWith
<1>7. FirstOrphans'
  <2> SUFFICES ASSUME NEW p \in Procs, NEW m \in Procs, NEW c \in Procs,
                      Kept(p)', m # p, scene.parent[m] = p, scene.parent[c] = m
               PROVE  Orphaned(p, m, c)'
    BY DEF FirstOrphans
  <2>1. Orphaned(p, m, c) /\ ProcOf[v] # p
    BY <1>2, <1>4 DEF Places, FirstOrphans
  <2>2. Unfit(p)' <=> Unfit(p)
    BY <1>3 DEF Unfit, Subreapers
  <2>3. c \in children[ProcOf[v]] => ProcOf[v] = m \/ Unfit(p)
    BY <1>0, <2>1 DEF Orphaned
  <2> QED
    BY <1>3, <2>1, <2>2, <2>3 DEF Orphaned
<1> QED
  BY <1>5, <1>6, <1>7 DEF Places

\* The walk to the reaper stops at the living parent unless it is unfit.
LEMMA WalkPlaces ==
  ASSUME Places, LifeInv, LifeInv', UNCHANGED scene, NEW v \in Tasks,
         FirstAncestor(v) \/ FindReaper(v)
  PROVE  Places'
<1>0. ProcOf[v] \in Procs /\ None \notin Procs
  BY ProcessAssumption
<1>1. Frame(v)
  BY ReparentFrame DEF ReparentStep
<1>2. \A p : Kept(p)' => Kept(p)
  BY <1>1, KeptBefore
<1>3. /\ pc[v] \in {"ancestor", "reaper"} /\ pc'[v] \in {"reaper", "adopt"}
      /\ \A u \in Tasks \ {v} : pc'[u] = pc[u] /\ reaper'[u] = reaper[u]
      /\ UNCHANGED <<found, kin, children, parent_pid, in_map, exiting>>
  <2>0. pc \in [Tasks -> Labels] /\ reaper \in [Tasks -> Procs \cup {None}]
    BY DEF LifeInv, Typed, Lives, Data
  <2>1. /\ pc[v] \in {"ancestor", "reaper"} /\ UNCHANGED <<found, kin, children, parent_pid, in_map, exiting>>
    BY DEF FirstAncestor, FindReaper, meta, links
  <2>2. \E l \in {"reaper", "adopt"} : Goto(v, l)
    BY <2>0 DEF FirstAncestor, FindReaper, Goto
  <2>3. \E r : reaper' = [reaper EXCEPT ![v] = r]
    BY <2>0 DEF FirstAncestor, FindReaper
  <2> QED
    BY <2>0, <2>1, <2>2, <2>3 DEF Goto
<1>4. ReapedWhenDead'
  BY <1>2, <1>3 DEF Places, ReapedWhenDead
<1>5. FirstChildren'
  <2> SUFFICES ASSUME NEW p \in Procs, NEW c \in Procs, Kept(p)', scene.parent[c] = p
               PROVE  StaysWith(p, c)'
    BY DEF FirstChildren
  <2>1. StaysWith(p, c) /\ Kept(p)
    BY <1>2 DEF Places, FirstChildren
  <2> QED
    BY <1>3, <2>1 DEF StaysWith, Moving
<1>6. FirstOrphans'
  <2> SUFFICES ASSUME NEW p \in Procs, NEW m \in Procs, NEW c \in Procs,
                      Kept(p)', m # p, scene.parent[m] = p, scene.parent[c] = m
               PROVE  Orphaned(p, m, c)'
    BY DEF FirstOrphans
  <2>1. Orphaned(p, m, c) /\ in_map[p] /\ parent_pid[m] = p
    BY <1>2 DEF Places, FirstOrphans, FirstChildren, StaysWith, ReapedWhenDead
  <2>2. Unfit(p)' <=> Unfit(p)
    BY <1>3 DEF Unfit, Subreapers
  <2>3. ASSUME c \in kin[v], FirstAncestor(v)
        PROVE  Unfit(p) \/ (ProcOf[v] = m /\ reaper'[v] = p)
    <3>1. pc[v] = "ancestor" /\ reaper'[v] = parent_pid[ProcOf[v]]
      BY <2>3 DEF FirstAncestor, LifeInv, Typed, Data
    <3>2. Unfit(p) \/ ProcOf[v] = m
      BY <2>1, <2>3, <3>1 DEF Orphaned, Moving
    <3> QED
      BY <2>1, <3>1, <3>2
  <2>4. ASSUME c \in kin[v], FindReaper(v)
        PROVE  \/ Unfit(p) /\ (pc'[v] = "adopt" => reaper'[v] # p)
               \/ ProcOf[v] = m /\ reaper'[v] = p
    <3>1. pc[v] = "reaper" /\ reaper \in [Tasks -> Procs \cup {None}]
      BY <2>4 DEF FindReaper, LifeInv, Typed, Data
    <3>2. Unfit(p) \/ (ProcOf[v] = m /\ reaper[v] = p)
      BY <2>1, <2>4, <3>1 DEF Orphaned, Moving
    <3>3. CASE Unfit(p)
      <4>1. pc'[v] = "adopt" => reaper'[v] # p
        BY <2>4, <3>1, <3>3, ZenonT(60) DEF FindReaper, Unfit, Goto, LifeInv, Typed, Lives
      <4> QED
        BY <3>3, <4>1
    <3>4. CASE ~Unfit(p)
      <4>1. ProcOf[v] = m /\ reaper[v] = p
        BY <3>2, <3>4
      <4>2. reaper'[v] = p
        <5>1. CASE p = Initproc
          BY <2>4, <3>1, <4>1, <5>1 DEF FindReaper
        <5>2. CASE p # Initproc
          BY <1>0, <2>1, <2>4, <3>1, <3>4, <4>1, <5>2 DEF FindReaper, Unfit
        <5> QED
          BY <5>1, <5>2
      <4> QED
        BY <4>1, <4>2
    <3> QED
      BY <3>3, <3>4
  <2>5. FirstAncestor(v) => pc'[v] = "reaper"
    BY DEF FirstAncestor, Goto, LifeInv, Typed, Lives
  <2>6. c \in kin[v] => \/ Unfit(p) /\ (pc'[v] \in {"adopt", "link"} => reaper'[v] # p)
                        \/ ProcOf[v] = m /\ reaper'[v] = p
    BY <1>3, <2>3, <2>4, <2>5
  <2> QED
    BY <1>3, <2>1, <2>2, <2>6, ZenonT(30) DEF Orphaned
<1> QED
  BY <1>4, <1>5, <1>6 DEF Places

LEMMA AdoptPlaces ==
  ASSUME Places, ReapInv, LifeInv, LifeInv', UNCHANGED scene, NEW v \in Tasks, AdoptChild(v)
  PROVE  Places'
<1>1. Frame(v)
  BY ReparentFrame, ZenonT(30) DEF ReparentStep
<1>2. \A p : Kept(p)' => Kept(p)
  BY <1>1, KeptBefore
<1>3. /\ pc[v] = "adopt" /\ pc'[v] = "link" /\ \A u \in Tasks \ {v} : pc'[u] = pc[u] /\ found'[u] = found[u]
      /\ UNCHANGED <<kin, reaper, children, in_map, exiting>>
      /\ \E d \in kin[v] : \A c \in Procs : c # d => parent_pid'[c] = parent_pid[c]
  BY SMT DEF AdoptChild, Goto, LifeInv, Typed, Lives, Data, meta
<1>4. ReapedWhenDead'
  BY <1>2, <1>3 DEF Places, ReapedWhenDead
<1>5. FirstChildren'
  <2> SUFFICES ASSUME NEW p \in Procs, NEW c \in Procs, Kept(p)', scene.parent[c] = p
               PROVE  StaysWith(p, c)'
    BY DEF FirstChildren
  <2>1. StaysWith(p, c) /\ Kept(p)
    BY <1>2 DEF Places, FirstChildren
  <2> QED
    BY <1>3, <2>1 DEF StaysWith, Moving
<1>6. FirstOrphans'
  <2> SUFFICES ASSUME NEW p \in Procs, NEW m \in Procs, NEW c \in Procs,
                      Kept(p)', m # p, scene.parent[m] = p, scene.parent[c] = m
               PROVE  Orphaned(p, m, c)'
    BY DEF FirstOrphans
  <2>1. Orphaned(p, m, c)
    BY <1>2 DEF Places, FirstOrphans
  <2>2. Unfit(p)' <=> Unfit(p)
    BY <1>3 DEF Unfit, Subreapers
  <2>3. \A u \in Tasks : /\ pc'[u] \in Moving <=> pc[u] \in Moving
                         /\ pc'[u] \in {"adopt", "link"} <=> pc[u] \in {"adopt", "link"}
                         /\ pc'[u] = "reaper" <=> pc[u] = "reaper"
    BY <1>3 DEF Moving
  <2> QED
    BY <1>3, <2>1, <2>2, <2>3 DEF Orphaned
<1> QED
  BY <1>4, <1>5, <1>6 DEF Places

LEMMA LinkPlaces ==
  ASSUME Places, ReapInv, LifeInv, LifeInv', UNCHANGED scene, NEW v \in Tasks, LinkChild(v)
  PROVE  Places'
<1>1. Frame(v)
  BY ReparentFrame DEF ReparentStep
<1>2. \A p : Kept(p)' => Kept(p)
  BY <1>1, KeptBefore
<1>3. /\ pc[v] = "link" /\ pc'[v] = "adopt"
      /\ \A u \in Tasks \ {v} : pc'[u] = pc[u] /\ found'[u] = found[u] /\ kin'[u] = kin[u]
      /\ kin'[v] \subseteq kin[v] /\ found[v] \in kin[v]
      /\ UNCHANGED <<reaper, parent_pid, in_map, exiting>>
  BY ZenonT(30) DEF LinkChild, Goto, LifeInv, Typed, Lives, Data, meta, ReapInv, Shape
<1>4. \A q, c \in Procs : c \in children'[q] => c \in children[q] \/ (c = found[v] /\ q = reaper[v])
  BY SMT DEF LinkChild, LifeInv, Typed, Data
<1>5. ReapedWhenDead'
  BY <1>2, <1>3 DEF Places, ReapedWhenDead
<1>6. FirstChildren'
  <2> SUFFICES ASSUME NEW p \in Procs, NEW c \in Procs, Kept(p)', scene.parent[c] = p
               PROVE  StaysWith(p, c)'
    BY DEF FirstChildren
  <2>1. StaysWith(p, c) /\ Kept(p)
    BY <1>2 DEF Places, FirstChildren
  <2> QED
    BY <1>3, <1>4, <2>1 DEF StaysWith, Moving
<1>7. FirstOrphans'
  <2> SUFFICES ASSUME NEW p \in Procs, NEW m \in Procs, NEW c \in Procs,
                      Kept(p)', m # p, scene.parent[m] = p, scene.parent[c] = m
               PROVE  Orphaned(p, m, c)'
    BY DEF FirstOrphans
  <2>1. Orphaned(p, m, c)
    BY <1>2 DEF Places, FirstOrphans
  <2>2. Unfit(p)' <=> Unfit(p)
    BY <1>3 DEF Unfit, Subreapers
  <2>3. \A u \in Tasks : /\ pc'[u] \in Moving <=> pc[u] \in Moving
                         /\ pc'[u] \in {"adopt", "link"} <=> pc[u] \in {"adopt", "link"}
                         /\ pc'[u] = "reaper" <=> pc[u] = "reaper"
                         /\ c \in kin'[u] => c \in kin[u]
    BY <1>3 DEF Moving
  <2>4. c = found[v] => reaper[v] = p \/ Unfit(p)
    BY <1>3, <2>1 DEF Orphaned, Moving
  <2>5. \A q \in Procs : c \in children'[q] => q = m \/ q = p \/ Unfit(p)
    BY <1>4, <2>1, <2>4 DEF Orphaned
  <2> QED
    BY <1>3, <2>1, <2>2, <2>3, <2>5 DEF Orphaned
<1> QED
  BY <1>5, <1>6, <1>7 DEF Places

\* A waiter finds, takes and unmaps a process without living threads.
LEMMA ReapPlaces ==
  ASSUME Places, ReapInv, LifeInv, LifeInv', UNCHANGED scene, NEW v \in Tasks,
         WaitScan(v) \/ WaitReap(v) \/ WaitUnmap(v)
  PROVE  Places'
<1>1. Frame(v) /\ UNCHANGED <<parent_pid, exiting>>
  BY WaitFrame DEF WaitStep
<1>2. \A p : Kept(p)' => Kept(p)
  BY <1>1, KeptBefore
<1>3. /\ pc'[v] \notin Moving
      /\ \A q \in Procs : children'[q] \subseteq children[q]
      /\ \A q \in Procs : in_map[q] => in_map'[q] \/ (pc[v] = "unmap" /\ q = found[v])
      /\ pc'[v] \in {"reap", "unmap"} =>
             \/ found'[v] \in Procs /\ all_tasks_exited(found'[v])
             \/ found'[v] = found[v] /\ pc[v] = "reap"
  <2>0. /\ pc \in [Tasks -> Labels] /\ in_map \in [Procs -> BOOLEAN] /\ kin \in [Tasks -> SUBSET Procs]
        /\ found \in [Tasks -> Procs \cup {None}] /\ children \in [Procs -> SUBSET Procs]
    BY ZenonT(30) DEF LifeInv, Typed, Lives, Data
  <2> USE DEF Moving, Goto, EndWait, links
  <2>1. CASE WaitScan(v)
    BY <2>0, <2>1, SMTT(30) DEF WaitScan
  <2>2. CASE WaitReap(v)
    BY <2>0, <2>2, SMT DEF WaitReap
  <2>3. CASE WaitUnmap(v)
    BY <2>0, <2>3 DEF WaitUnmap
  <2> QED
    BY <2>1, <2>2, <2>3
<1>4. \A u \in Tasks \ {v} : pc'[u] \in Moving \cup {"reap", "unmap"} =>
          pc'[u] = pc[u] /\ kin'[u] = kin[u] /\ found'[u] = found[u] /\ reaper'[u] = reaper[u]
  BY <1>1 DEF Frame, Moving
<1>5. \A c \in Procs : all_tasks_exited(c) => ~Kept(c)
  BY KeptFacts DEF all_tasks_exited
<1>6. ReapedWhenDead'
  <2>1. \A p \in Procs : Kept(p)' => in_map'[p]
    BY <1>2, <1>3 DEF Places, ReapedWhenDead
  <2>2. \A u \in Tasks : pc'[u] \in {"reap", "unmap"} => ~Kept(found'[u])
    BY <1>3, <1>4, <1>5 DEF Places, ReapedWhenDead
  <2> QED
    BY <1>2, <2>1, <2>2 DEF ReapedWhenDead
<1>7. FirstChildren'
  <2> SUFFICES ASSUME NEW p \in Procs, NEW c \in Procs, Kept(p)', scene.parent[c] = p
               PROVE  StaysWith(p, c)'
    BY DEF FirstChildren
  <2>1. StaysWith(p, c) /\ Kept(p)
    BY <1>2 DEF Places, FirstChildren
  <2> QED
    BY <1>1, <1>3, <1>4, <2>1 DEF StaysWith
<1>8. FirstOrphans'
  <2> SUFFICES ASSUME NEW p \in Procs, NEW m \in Procs, NEW c \in Procs,
                      Kept(p)', m # p, scene.parent[m] = p, scene.parent[c] = m
               PROVE  Orphaned(p, m, c)'
    BY DEF FirstOrphans
  <2>1. Orphaned(p, m, c)
    BY <1>2 DEF Places, FirstOrphans
  <2>2. Unfit(p)' <=> Unfit(p)
    BY <1>1 DEF Unfit, Subreapers
  <2> QED
    BY <1>3, <1>4, <2>1, <2>2, ZenonT(30) DEF Orphaned
<1> QED
  BY <1>6, <1>7, <1>8 DEF Places

LEMMA NextPlaces ==
  ASSUME Places, ReapInv, LifeInv, LifeInv', UNCHANGED scene, NEW v \in Tasks,
         Voluntary(v) \/ KernelStep(v)
  PROVE  Places'
<1>1. CASE Voluntary(v) \/ Preempt(v) \/ TrapReturn(v)
  BY <1>1, UserFrame, SamePlaces DEF Moving
<1>2. CASE GroupStep(v)
  BY <1>2, GroupFrame, SamePlaces DEF Moving, links
<1>3. CASE ExitStep(v)
  BY <1>3, ExitFrame, SamePlaces DEF Moving, ExitTo
<1>4. CASE ReparentStep(v)
  <2>1. CASE Adopted(v) \/ WakeReaper(v) \/ SignalReaper(v)
    <3>1. pc'[v] \in {"adopted", "notify", "rsig"} /\ UNCHANGED <<children, parent_pid, in_map>>
      BY <2>1 DEF Adopted, WakeReaper, SignalReaper, SendSigchld, LoopDone, LoopTask, Goto,
                  links, meta, LifeInv, Typed, Lives
    <3> QED
      BY <1>4, <3>1, ReparentFrame, SamePlaces DEF Moving
  <2> QED
    BY <1>4, <2>1, TakeOrphansPlaces, WalkPlaces, AdoptPlaces, LinkPlaces DEF ReparentStep
<1>5. CASE WaitStep(v)
  <2>1. CASE WaitTop(v) \/ WaitPoll(v) \/ WaitSignals(v) \/ WaitBlock(v) \/ WaitResume(v)
    <3>1. /\ pc'[v] \in {"exit", "group", "poll", "scan", "user", "block", "top", "asleep"}
          /\ UNCHANGED <<children, parent_pid, in_map>>
      BY <2>1 DEF WaitTop, WaitPoll, WaitSignals, WaitBlock, WaitResume, EndWait, Goto,
                  links, meta, LifeInv, Typed, Lives
    <3> QED
      BY <1>5, <3>1, WaitFrame, SamePlaces DEF Moving
  <2> QED
    BY <1>5, <2>1, ReapPlaces DEF WaitStep
<1> QED
  BY <1>1, <1>2, <1>3, <1>4, <1>5 DEF KernelStep

-----------------------------------------------------------------------------
(* Who waits, and who will wake it.                                        *)

\* What a step of somebody else leaves alone of the waiter t.
Stays(t) ==
    /\ pc'[t] = pc[t] /\ kin'[t] = kin[t] /\ wait'[t] = wait[t]
    /\ woke[t] => woke'[t]
    /\ status'[t] = "Blocked" => status[t] = "Blocked"
    /\ event[ProcOf[t]] = t =>
           event'[ProcOf[t]] = t \/ (woke'[t] /\ status'[t] # "Blocked")

LEMMA AlertedStays == ASSUME NEW t \in Tasks, Stays(t), Alerted(t) PROVE Alerted(t)'
  BY DEF Stays, Alerted

\* A waiter was not cloned and can run, so its process is kept.
LEMMA WaiterKept ==
  ASSUME OneWaiter, LifeInv, Scripted, NEW t \in Tasks, pc[t] \in Waiting
  PROVE  /\ "wait" \in Script[t] /\ Kept(ProcOf[t])
         /\ \A u \in Tasks : pc[u] \in Waiting /\ ProcOf[u] = ProcOf[t] => u = t
<1>1. scene \in Scenarios /\ \A u \in Tasks : pc[u] \in Waiting => "wait" \in Script[u]
  BY DEF LifeInv, Typed, Data, Scripted
<1>2. t \notin Unborn /\ \A u \in Tasks : pc[u] \in Waiting /\ ProcOf[u] = ProcOf[t] => u = t
  BY <1>1 DEF OneWaiter, Script, Unborn
<1>3. Alive(t)
  BY DEF Alive, Waiting, Dead, Teardown
<1> QED
  BY <1>1, <1>2, <1>3 DEF Kept

LEMMA WatcherStays ==
  ASSUME OneWaiter, LifeInv, Scripted, NEW v \in Tasks, Voluntary(v) \/ KernelStep(v),
         NEW t \in Tasks, pc'[t] \in Watching, t # v \/ ~WaitStep(v)
  PROVE  Stays(t) /\ t # v
<1>0. ProcOf[t] \in Procs
  BY ProcessAssumption
<1>1. CASE ~WaitStep(v)
  <2>1. Frame(v) /\ EventKept
    BY <1>1, UserFrame, GroupFrame, ExitFrame, ReparentFrame DEF KernelStep
  <2>2. pc'[v] \notin Watching
    <3>1. CASE Voluntary(v) \/ Preempt(v) \/ TrapReturn(v)
      BY <3>1, UserFrame DEF Watching
    <3>2. CASE GroupStep(v)
      BY <3>2, GroupFrame DEF Watching
    <3>3. CASE ExitStep(v)
      BY <3>3, ExitFrame DEF Watching, ExitTo
    <3>4. CASE ReparentStep(v)
      BY <3>4, ReparentFrame DEF Watching, Teardown
    <3> QED
      BY <1>1, <3>1, <3>2, <3>3, <3>4 DEF KernelStep
  <2>3. t # v /\ pc'[t] # "user"
    BY <2>2 DEF Watching
  <2> QED
    BY <1>0, <2>1, <2>3 DEF Frame, EventKept, Stays
<1>2. CASE WaitStep(v)
  <2>1. t # v /\ pc'[t] # "user"
    BY <1>2 DEF Watching
  <2>2. Frame(v) /\ pc[v] \in Waiting
    BY <1>2, WaitFrame
  <2>3. pc'[t] = pc[t] /\ pc[t] \in Waiting
    BY <2>1, <2>2 DEF Frame, Watching, Waiting
  <2>4. ProcOf[t] # ProcOf[v]
    BY <2>1, <2>2, <2>3, WaiterKept
  <2>5. event[ProcOf[t]] = t => event'[ProcOf[t]] = t
    BY <1>0, <1>2, <2>1, <2>4, WaitFrame
  <2> QED
    BY <2>1, <2>2, <2>3, <2>5 DEF Frame, Stays
<1> QED
  BY <1>1, <1>2

\* The steps of a waiter that end where it watches.
Own(t) ==
    \/ /\ pc[t] = "poll" /\ pc'[t] = "scan" /\ event'[ProcOf[t]] = t
       /\ kin'[t] = children[ProcOf[t]] /\ UNCHANGED children
    \/ /\ <<pc[t], pc'[t]>> \in {<<"scan", "sigs">>, <<"sigs", "block">>, <<"block", "asleep">>}
       /\ pc[t] = "block" => ~woke[t]
       /\ pc[t] # "block" => woke'[t] = woke[t]
       /\ pc[t] = "scan" => \A c \in kin[t] : ~(Eligible(t, c) /\ all_tasks_exited(c))
       /\ UNCHANGED <<wait, event, links, exiting>>

LEMMA OwnStep ==
  ASSUME LifeInv, NEW t \in Tasks, WaitStep(t), pc'[t] \in Watching PROVE Own(t)
<1>0. /\ pc \in [Tasks -> Labels] /\ kin \in [Tasks -> SUBSET Procs] /\ woke \in [Tasks -> BOOLEAN]
      /\ event \in [Procs -> Tasks \cup {None}] /\ ProcOf[t] \in Procs
  BY ProcessAssumption DEF LifeInv, Typed, Lives, Data
<1> USE DEF Watching, Goto, EndWait
<1>1. CASE WaitTop(t) \/ WaitReap(t) \/ WaitUnmap(t) \/ WaitResume(t)
  BY <1>0, <1>1 DEF WaitTop, WaitReap, WaitUnmap, WaitResume
<1>2. CASE WaitPoll(t)
  BY <1>0, <1>2 DEF WaitPoll, Own, links
<1>3. CASE WaitScan(t)
  <2>1. pc[t] = "scan" /\ UNCHANGED <<links, exiting>>
    BY <1>3 DEF WaitScan
  <2>2. Goto(t, "sigs")
    BY <1>0, <1>3 DEF WaitScan
  <2>3. pc'[t] = "sigs"
    BY <1>0, <2>2
  <2>4. /\ UNCHANGED <<wait, woke, event>>
        /\ {c \in kin[t] : Eligible(t, c) /\ all_tasks_exited(c)} = {}
    BY <1>0, <1>3, <2>3 DEF WaitScan
  <2> QED
    BY <2>1, <2>3, <2>4 DEF Own
<1>4. CASE WaitSignals(t)
  <2>1. pc'[t] = "block" /\ pc[t] = "sigs" /\ UNCHANGED <<wait, woke, event, links, exiting>>
    BY <1>0, <1>4 DEF WaitSignals
  <2> QED
    BY <2>1 DEF Own
<1>5. CASE WaitBlock(t)
  <2>1. pc'[t] = "asleep" /\ pc[t] = "block" /\ ~woke[t] /\ UNCHANGED <<wait, event, links, exiting>>
    BY <1>0, <1>5 DEF WaitBlock, args, meta
  <2> QED
    BY <2>1 DEF Own
<1> QED
  BY <1>1, <1>2, <1>3, <1>4, <1>5 DEF WaitStep

LEMMA NextScripted ==
  ASSUME LifeInv, Scripted, UNCHANGED scene, NEW v \in Tasks, Voluntary(v) \/ KernelStep(v)
  PROVE  Scripted'
<1>0. Script' = Script /\ "user" \notin Waiting
  BY DEF Script, Waiting
<1>1. Frame(v) /\ (pc'[v] \in Waiting => "wait" \in Script[v])
  <2>1. CASE Voluntary(v) \/ Preempt(v) \/ TrapReturn(v)
    BY <2>1, UserFrame DEF Waiting
  <2>2. CASE GroupStep(v)
    BY <2>2, GroupFrame DEF Waiting
  <2>3. CASE ExitStep(v)
    BY <2>3, ExitFrame DEF Waiting, ExitTo
  <2>4. CASE ReparentStep(v)
    BY <2>4, ReparentFrame DEF Waiting, Teardown
  <2>5. CASE WaitStep(v)
    BY <2>5, WaitFrame DEF Scripted
  <2> QED
    BY <2>1, <2>2, <2>3, <2>4, <2>5 DEF KernelStep
<1> QED
  BY <1>0, <1>1 DEF Scripted, Frame

LEMMA NextRegistered ==
  ASSUME OneWaiter, LifeInv, Scripted, Registered, NEW v \in Tasks, Voluntary(v) \/ KernelStep(v)
  PROVE  Registered'
<1> SUFFICES ASSUME NEW t \in Tasks, pc'[t] \in Watching
             PROVE  Alerted(t)' \/ event'[ProcOf[t]] = t
  BY DEF Registered, Watching
<1>1. CASE t # v \/ ~WaitStep(v)
  <2>1. Stays(t)
    BY <1>1, WatcherStays
  <2>2. Alerted(t) \/ event[ProcOf[t]] = t
    BY <2>1 DEF Stays, Registered, Watching
  <2> QED
    BY <2>1, <2>2, AlertedStays DEF Stays, Alerted
<1>2. CASE t = v /\ WaitStep(v)
  <2>1. Own(t)
    BY <1>2, OwnStep
  <2>2. CASE pc[t] = "poll"
    BY <2>1, <2>2 DEF Own
  <2>3. CASE pc[t] # "poll"
    <3>1. /\ pc[t] \in {"scan", "sigs", "block"} /\ event' = event
          /\ pc[t] = "block" => ~woke[t]
          /\ pc[t] # "block" => woke'[t] = woke[t] /\ pc'[t] # "asleep"
      BY <2>1, <2>3 DEF Own
    <3>2. Alerted(t) \/ event[ProcOf[t]] = t
      BY <3>1 DEF Registered
    <3> QED
      BY <3>1, <3>2 DEF Alerted
  <2> QED
    BY <2>2, <2>3
<1> QED
  BY <1>1, <1>2

\* Whoever is to wake the waiter goes on until it does.
LEMMA RingsOn ==
  ASSUME LifeInv, UNCHANGED scene, NEW v \in Tasks, Voluntary(v) \/ KernelStep(v),
         NEW u \in Tasks, NEW c, NEW p, Rings(u, c, p), tasks'[c] = {}
  PROVE  Rings(u, c, p)' \/ (u = v /\ WakeParent(v))
<1>0. pc[u] \in Teardown \cup {"bro", "bwake", "check", "zombie"}
  BY DEF Rings, Finishes
<1>1. CASE u # v
  <2>1. Frame(v)
    BY UserFrame, GroupFrame, ExitFrame, ReparentFrame, WaitFrame DEF KernelStep
  <2>2. pc'[u] = pc[u] /\ snap'[u] = snap[u] /\ snap[u] \subseteq Tasks
    BY <1>0, <1>1, <2>1 DEF Frame, Teardown, LifeInv, Typed, Data
  <2>3. all_zombie(u) => all_zombie(u)'
    BY <2>1, <2>2 DEF all_zombie, Frame
  <2> QED
    BY <2>2, <2>3 DEF Rings, Finishes
<1>2. CASE u = v
  <2>1. CASE Voluntary(v) \/ Preempt(v) \/ TrapReturn(v) \/ GroupStep(v) \/ WaitStep(v)
    BY <1>0, <1>2, <2>1, UserFrame, GroupFrame, WaitFrame, ZenonT(30) DEF Teardown, Waiting
  <2>2. CASE ReparentStep(v)
    BY <1>2, <2>2, ReparentFrame DEF Rings, Finishes, Teardown
  <2>3. CASE ExitStep(v)
    <3> DEFINE Goes == \/ pc[v] = "bro" /\ pc'[v] = "bwake"
                       \/ pc[v] = "bwake" /\ pc'[v] \in {"bwake", "check"}
                       \/ pc[v] = "check" /\ pc'[v] = "zombie" /\ snap'[v] = tasks[ProcOf[v]]
                       \/ pc[v] = "zombie" /\ (all_zombie(v) => pc'[v] = "usage")
                       \/ pc[v] \in {"exit", "retain"}
                       \/ pc[v] \in Teardown /\ pc'[v] \in Teardown
                       \/ WakeParent(v)
    <3>1. Goes
      <4>0. pc \in [Tasks -> Labels]
        BY DEF LifeInv, Typed, Lives
      <4>1. CASE ExitSnapshot(v) \/ CheckSnapshot(v) \/ ParentSnapshot(v)
        <5>1. CASE ExitSnapshot(v)
          BY <4>0, <5>1 DEF ExitSnapshot, Snapshot, Goto
        <5>2. CASE CheckSnapshot(v)
          <6>1. pc[v] = "check" /\ pc'[v] = "zombie"
            BY <4>0, <5>2 DEF CheckSnapshot, Snapshot, Goto
          <6>2. snap'[v] = tasks[ProcOf[v]]
            BY <5>2 DEF CheckSnapshot, Snapshot, LifeInv, Typed, Data
          <6> QED
            BY <6>1, <6>2
        <5>3. CASE ParentSnapshot(v)
          <6>1. pc[v] = "nppid" /\ pc'[v] = "nsig"
            BY <4>0, <5>3 DEF ParentSnapshot, Snapshot, Goto
          <6> QED
            BY <6>1 DEF Teardown
        <5> QED
          BY <4>1, <5>1, <5>2, <5>3
      <4>2. CASE ExitWake(v)
        BY <4>2, LoopFrame DEF ExitWake
      <4>3. CASE SignalParent(v)
        <5>1. LoopDone(v, "nsig", "nwake") \/ \E x \in snap[v] : LoopTask(v, "nsig", x)
          BY <4>3 DEF SignalParent, SendSigchld
        <5>2. pc[v] = "nsig" /\ pc'[v] \in {"nsig", "nwake"}
          BY <5>1, LoopFrame
        <5> QED
          BY <5>2 DEF Teardown
      <4>4. CASE CheckZombies(v)
        BY <4>0, <4>4 DEF CheckZombies, Goto
      <4>5. CASE ExitZombie(v) \/ ExitRetain(v)
        BY <4>5 DEF ExitZombie, ExitRetain
      <4>6. CASE PublishUsage(v) \/ ReleaseOwner(v) \/ SetCode(v) \/ Notify(v)
        BY <4>0, <4>6 DEF PublishUsage, ReleaseOwner, SetCode, Notify, Goto, Teardown
      <4> QED
        BY <2>3, <4>1, <4>2, <4>3, <4>4, <4>5, <4>6 DEF ExitStep
    <3>2. CASE pc[v] \in Teardown
      <4>1. pc'[v] \in Teardown \/ WakeParent(v)
        BY <3>1, <3>2 DEF Teardown
      <4> QED
        BY <1>2, <4>1 DEF Rings, Finishes
    <3>3. CASE pc[v] \notin Teardown
      <4>1. ProcOf[v] = c /\ Finishes(v)
        BY <1>2, <3>3 DEF Rings
      <4>2. Finishes(v)' \/ WakeParent(v)
        <5>1. CASE pc[v] = "bro" \/ pc[v] = "bwake"
          <6>1. pc'[v] \in {"bwake", "check"} \/ WakeParent(v)
            BY <3>1, <5>1 DEF Teardown
          <6> QED
            BY <4>1, <6>1 DEF Finishes
        <5>2. CASE pc[v] = "check"
          <6>1. tasks[ProcOf[v]] = {}
            BY <3>3, <4>1, <5>2 DEF Finishes
          <6>2. (pc'[v] = "zombie" /\ snap'[v] = {}) \/ WakeParent(v)
            BY <3>1, <3>3, <5>2, <6>1
          <6> QED
            BY <6>2 DEF Finishes, all_zombie
        <5>3. CASE pc[v] = "zombie"
          <6>1. all_zombie(v)
            BY <3>3, <4>1, <5>3 DEF Finishes
          <6>2. pc'[v] = "usage" \/ WakeParent(v)
            BY <3>1, <3>3, <5>3, <6>1
          <6> QED
            BY <6>2 DEF Finishes, Teardown
        <5> QED
          BY <1>0, <1>2, <3>3, <5>1, <5>2, <5>3
      <4> QED
        BY <1>2, <4>1, <4>2 DEF Rings
    <3> QED
      BY <3>2, <3>3
  <2> QED
    BY <2>1, <2>2, <2>3 DEF KernelStep
<1> QED
  BY <1>1, <1>2

\* And when it does, the waiter is alerted.
LEMMA RingWakes ==
  ASSUME LifeInv, LinkInv, Places, Registered, NEW u \in Tasks, WakeParent(u),
         NEW t \in Tasks, NEW c \in Procs, Rings(u, c, ProcOf[t]), c \in children[ProcOf[t]],
         Kept(ProcOf[t]), pc[t] \in Watching, Stays(t)
  PROVE  Alerted(t)'
<1> DEFINE p == ProcOf[t]
<1>0. p \in Procs /\ ProcOf[u] \in Procs /\ None \notin Procs
  BY ProcessAssumption
<1>1. parent_pid[ProcOf[u]] = p /\ in_map[p]
  <2>1. CASE ProcOf[u] = c
    BY <1>0, <2>1 DEF LinkInv, LinkedToParent, Places, ReapedWhenDead
  <2>2. CASE ProcOf[u] # c
    BY <1>0, <2>2 DEF Rings, Places, ReapedWhenDead, FirstChildren, StaysWith
  <2> QED
    BY <2>1, <2>2
<1>2. EventWake(p)
  BY <1>0, <1>1 DEF WakeParent
<1>3. CASE Alerted(t)
  BY <1>3, AlertedStays
<1>4. CASE ~Alerted(t)
  <2>1. event[p] = t
    BY <1>4 DEF Registered, Watching
  <2>2. woke'[t] /\ status'[t] # "Blocked"
    BY <1>0, <1>2, <2>1, Rung
  <2> QED
    BY <2>2 DEF Alerted
<1> QED
  BY <1>3, <1>4

\* A child is first overlooked when it is linked late or exits after the scan;
\* the thread that does this is the one that will wake the waiter.
LEMMA NewlyOverlooked ==
  ASSUME OneWaiter, LifeInv, ReapInv, Scripted, Places, UNCHANGED scene,
         NEW v \in Tasks, Voluntary(v) \/ KernelStep(v),
         NEW t \in Tasks, Stays(t), t # v, pc[t] \in Watching,
         NEW c \in Procs, Overlooked(t, c)', ~Overlooked(t, c)
  PROVE  Rings(v, c, ProcOf[t])'
<1> DEFINE p == ProcOf[t]
<1>0. /\ p \in Procs /\ ProcOf[v] \in Procs /\ None \notin Procs
      /\ children \in [Procs -> SUBSET Procs]
  BY ProcessAssumption DEF LifeInv, Typed, Data
<1>1. /\ c \in children'[p] /\ Near(p, c) /\ Eligible(t, c)' /\ exiting'[c] /\ tasks'[c] = {}
      /\ pc[t] \in {"sigs", "block", "asleep"} \/ (pc[t] = "scan" /\ c \notin kin[t])
  BY DEF Overlooked, Near, Stays, all_tasks_exited
<1>2. \/ c \notin children[p] \/ exit_signal'[c] # exit_signal[c]
      \/ ~exiting[c] \/ tasks[c] # {}
  <2> SUFFICES ASSUME c \in children[p], exit_signal'[c] = exit_signal[c], exiting[c], tasks[c] = {}
               PROVE  FALSE
    OBVIOUS
  <2>1. Eligible(t, c)
    BY <1>1 DEF Eligible, Stays
  <2> QED
    BY <1>1, <2>1 DEF Overlooked, all_tasks_exited
<1>3. Kept(p)
  <2>1. pc[t] \in Waiting
    BY DEF Watching, Waiting
  <2> QED
    BY <2>1, WaiterKept
<1>4. CASE Voluntary(v) \/ Preempt(v) \/ TrapReturn(v)
  <2>1. UNCHANGED <<children, exit_signal, exiting>> /\ tasks[c] \subseteq tasks'[c]
    BY <1>4, UserFrame
  <2> QED
    BY <1>1, <1>2, <2>1
<1>5. CASE GroupStep(v)
  <2>1. UNCHANGED <<children, exit_signal, tasks>>
    BY <1>5, GroupFrame DEF links
  <2>2. ProcOf[v] = c /\ pc[v] = "gcode" /\ ~exiting[c]
    BY <1>1, <1>2, <1>5, <2>1, GroupFrame
  <2>3. v \in tasks[c]
    BY <2>2 DEF LifeInv, Path, Listed, Alive, Dead, Teardown
  <2> QED
    BY <1>1, <2>1, <2>3
<1>6. CASE ExitStep(v)
  <2>1. /\ ProcOf[v] = c
        /\ \/ pc[v] = "code"
           \/ pc[v] = "retain"
    BY <1>1, <1>2, <1>6, ExitFrame
  <2>2. pc \in [Tasks -> Labels]
    BY DEF LifeInv, Typed, Lives
  <2>3. pc'[v] \in {"orphans", "bro"}
    BY <1>6, <2>1, <2>2 DEF ExitStep, ExitZombie, ExitRetain, ExitSnapshot, ExitWake, CheckSnapshot,
         CheckZombies, PublishUsage, ReleaseOwner, SetCode, Notify, ParentSnapshot, SignalParent,
         WakeParent, Snapshot, LoopDone, LoopTask, SendSigchld, Goto
  <2> QED
    BY <1>1, <2>1, <2>3 DEF Rings, Finishes, Teardown
<1>7. CASE ReparentStep(v)
  <2>0. pc[v] \in Teardown /\ pc'[v] \in Teardown /\ UNCHANGED exiting /\ (pc[v] # "orphans" => UNCHANGED tasks)
    BY <1>7, ReparentFrame
  <2>1. CASE ProcOf[v] = c
    BY <2>0, <2>1 DEF Rings, Finishes
  <2>2. CASE ProcOf[v] # c
    <3>1. CASE TakeOrphans(v)
      <4>1. tasks'[c] = tasks[c] /\ UNCHANGED exit_signal /\ \A q \in Procs : children'[q] \subseteq children[q]
        BY <1>0, <2>2, <3>1 DEF TakeOrphans, LifeInv, Typed, Data
      <4> QED
        BY <1>0, <1>1, <1>2, <2>0, <4>1
    <3>2. CASE AdoptChild(v)
      <4>1. /\ pc[v] = "adopt" /\ UNCHANGED <<children, tasks>>
            /\ \E d \in kin[v] : \A x \in Procs : x # d => exit_signal'[x] = exit_signal[x]
        BY <3>2, SMT DEF AdoptChild, LifeInv, Typed, Data
      <4>2. c \notin kin[v]
        BY <1>0, <1>1, <4>1 DEF ReapInv, InMotion, Moving
      <4> QED
        BY <1>1, <1>2, <2>0, <4>1, <4>2
    <3>3. CASE LinkChild(v)
      <4>1. /\ pc[v] = "link" /\ UNCHANGED <<exit_signal, tasks>> /\ found[v] \in kin[v]
        BY <3>3, ZenonT(30) DEF LinkChild, ReapInv, Shape
      <4>2. \A q \in Procs : c \in children'[q] => c \in children[q] \/ (c = found[v] /\ q = reaper[v])
        <5>1. children' = [children EXCEPT ![reaper[v]] = @ \cup {found[v]}]
          BY <3>3 DEF LinkChild
        <5> QED
          BY <1>0, <5>1
      <4>3. c \in kin[v] /\ reaper[v] = p
        BY <1>0, <1>1, <1>2, <2>0, <4>1, <4>2
      <4>4. scene.parent[c] # p
        BY <1>0, <1>3, <4>1, <4>3 DEF Places, FirstChildren, StaysWith, Moving
      <4> DEFINE m == scene.parent[c]
      <4>5. m # None /\ scene.parent[m] = p
        BY <1>1, <4>4 DEF Near
      <4>6. m \in Procs
        <5>1. scene.parent \in [Procs -> Procs \cup {None}]
          BY ProcessAssumption DEF LifeInv, Typed, Data
        <5> QED
          BY <4>5, <5>1
      <4>7. Orphaned(p, m, c)
        BY <1>0, <1>3, <4>4, <4>5, <4>6 DEF Places, FirstOrphans
      <4>8. ProcOf[v] = m
        BY <4>1, <4>3, <4>7 DEF Orphaned, Moving
      <4> QED
        BY <2>0, <4>5, <4>8 DEF Rings
    <3>4. CASE ~TakeOrphans(v) /\ ~AdoptChild(v) /\ ~LinkChild(v)
      <4>1. UNCHANGED <<children, exit_signal, tasks>>
        BY <1>7, <3>4 DEF ReparentStep, FirstAncestor, FindReaper, Adopted, WakeReaper, SignalReaper,
                          SendSigchld, LoopDone, LoopTask, links
      <4> QED
        BY <1>1, <1>2, <2>0, <4>1
    <3> QED
      BY <3>1, <3>2, <3>3, <3>4
  <2> QED
    BY <2>1, <2>2
<1>8. CASE WaitStep(v)
  <2>1. UNCHANGED <<tasks, exit_signal, exiting>>
    BY <1>8, WaitFrame
  <2>2. \A q \in Procs : children'[q] \subseteq children[q]
    <3>1. CASE WaitReap(v)
      <4>1. children' = children \/ children' = [children EXCEPT ![ProcOf[v]] = @ \ {found[v]}]
        BY <3>1 DEF WaitReap
      <4> QED
        BY <1>0, <4>1
    <3>2. CASE ~WaitReap(v)
      BY <1>8, <3>2 DEF WaitStep, WaitTop, WaitPoll, WaitScan, WaitUnmap, WaitSignals, WaitBlock,
                        WaitResume, links
    <3> QED
      BY <3>1, <3>2, ZenonT(30)
  <2> QED
    BY <1>0, <1>1, <1>2, <2>1, <2>2
<1> QED
  BY <1>4, <1>5, <1>6, <1>7, <1>8 DEF KernelStep

LEMMA NextToldOf ==
  ASSUME OneWaiter, LifeInv, ReapInv, LinkInv, WaitInv, UNCHANGED scene,
         NEW v \in Tasks, Voluntary(v) \/ KernelStep(v)
  PROVE  ToldOf'
<1>0. Scripted /\ Registered /\ Places /\ ToldOf
  BY DEF WaitInv, Places
<1> SUFFICES ASSUME NEW t \in Tasks, NEW c \in Procs, Overlooked(t, c)', ~Alerted(t)'
             PROVE  \E u \in Tasks : Rings(u, c, ProcOf[t])'
  BY DEF ToldOf
<1>1. pc'[t] \in Watching /\ tasks'[c] = {}
  BY DEF Overlooked, Watching, all_tasks_exited
<1>2. CASE t # v \/ ~WaitStep(v)
  <2>1. Stays(t) /\ t # v /\ pc[t] \in Watching /\ ~Alerted(t)
    BY <1>0, <1>1, <1>2, WatcherStays, AlertedStays DEF Stays
  <2>2. CASE ~Overlooked(t, c)
    BY <1>0, <2>1, <2>2, NewlyOverlooked
  <2>3. CASE Overlooked(t, c)
    <3>1. PICK u \in Tasks : Rings(u, c, ProcOf[t])
      BY <1>0, <2>1, <2>3 DEF ToldOf
    <3>2. Kept(ProcOf[t]) /\ c \in children[ProcOf[t]]
      BY <1>0, <2>1, <2>3, WaiterKept DEF Overlooked, Watching, Waiting
    <3>3. ~(u = v /\ WakeParent(v))
      BY <1>0, <2>1, <3>1, <3>2, RingWakes
    <3> QED
      BY <1>1, <3>1, <3>3, RingsOn
  <2> QED
    BY <2>2, <2>3
<1>3. CASE t = v /\ WaitStep(v)
  <2>1. Own(t)
    BY <1>1, <1>3, OwnStep
  <2>2. ~(pc[t] = "poll" /\ pc'[t] = "scan" /\ kin'[t] = children[ProcOf[t]] /\ UNCHANGED children)
    BY DEF Overlooked
  <2>3. /\ <<pc[t], pc'[t]>> \in {<<"scan", "sigs">>, <<"sigs", "block">>, <<"block", "asleep">>}
        /\ pc[t] = "block" => ~woke[t]
        /\ pc[t] # "block" => woke'[t] = woke[t]
        /\ pc[t] = "scan" => \A x \in kin[t] : ~(Eligible(t, x) /\ all_tasks_exited(x))
        /\ UNCHANGED <<wait, event, links, exiting>>
    BY <2>1, <2>2 DEF Own
  <2>4. Eligible(t, c) /\ all_tasks_exited(c) /\ c \in children[ProcOf[t]] /\ Near(ProcOf[t], c)
    BY <2>3 DEF Overlooked, Eligible, all_tasks_exited, Near, links
  <2>5. pc[t] \in {"scan", "sigs", "block"} /\ (pc[t] # "block" => pc'[t] # "asleep")
    BY <2>3
  <2>6. Overlooked(t, c)
    BY <2>3, <2>4, <2>5 DEF Overlooked
  <2>7. ~Alerted(t)
    BY <2>3, <2>5 DEF Alerted
  <2>8. PICK u \in Tasks : Rings(u, c, ProcOf[t])
    BY <1>0, <2>6, <2>7 DEF ToldOf
  <2>9. ~WakeParent(v)
    BY <1>3, <2>5 DEF WakeParent
  <2> QED
    BY <1>1, <2>8, <2>9, RingsOn
<1> QED
  BY <1>2, <1>3

LEMMA InitWait == Init => WaitInv
<1> SUFFICES ASSUME Init PROVE WaitInv
  OBVIOUS
<1>1. \A t \in Tasks : pc[t] \in {"unborn", "user"}
  BY DEF Init
<1>2. Scripted /\ Registered /\ ToldOf
  BY <1>1 DEF Scripted, Waiting, Registered, ToldOf, Overlooked
<1>3. ReapedWhenDead
  BY <1>1 DEF Init, ReapedWhenDead
<1>4. /\ \A u \in Tasks : pc[u] \notin Moving
      /\ \A c \in Procs : parent_pid[c] = scene.parent[c]
      /\ \A c, q \in Procs : c \in children[q] => scene.parent[c] = q
  BY <1>1 DEF Init, Moving, ParentOf
<1>5. FirstChildren
  BY <1>4 DEF FirstChildren, StaysWith
<1>6. FirstOrphans
  BY <1>4 DEF FirstOrphans, Orphaned
<1> QED
  BY <1>2, <1>3, <1>5, <1>6 DEF WaitInv

LEMMA NextWait ==
  ASSUME OneWaiter
  PROVE  LifeInv /\ LifeInv' /\ ReapInv /\ LinkInv /\ WaitInv /\ [Next]_vars => WaitInv'
<1> SUFFICES ASSUME LifeInv, LifeInv', ReapInv, LinkInv, WaitInv, [Next]_vars PROVE WaitInv'
  OBVIOUS
<1>1. CASE UNCHANGED vars
  <2>1. /\ UNCHANGED <<pc, kin, found, reaper, snap, wait, woke, status, event, scene>>
        /\ UNCHANGED <<children, parent_pid, exit_signal, tasks, in_map, exiting>>
    BY <1>1 DEF vars, threads, args, links, meta
  <2>2. Scripted' /\ Registered'
    BY <2>1 DEF WaitInv, Scripted, Script, Registered, Alerted
  <2>3. \A p : Kept(p)' <=> Kept(p)
    BY <2>1 DEF Kept, Alive, Unborn
  <2>4. ReapedWhenDead' /\ FirstChildren' /\ FirstOrphans'
    <3>1. ReapedWhenDead'
      BY <2>1, <2>3 DEF WaitInv, ReapedWhenDead
    <3>2. \A p, c \in Procs : StaysWith(p, c)' <=> StaysWith(p, c)
      BY <2>1 DEF StaysWith
    <3>3. ASSUME NEW p \in Procs, NEW m \in Procs, NEW c \in Procs, Orphaned(p, m, c)
          PROVE  Orphaned(p, m, c)'
      <4>1. Unfit(p)' <=> Unfit(p)
        BY <2>1 DEF Unfit, Subreapers
      <4> QED
        BY <2>1, <3>3, <4>1 DEF Orphaned
    <3> QED
      BY <2>1, <2>3, <3>1, <3>2, <3>3 DEF WaitInv, FirstChildren, FirstOrphans
  <2>5. ToldOf'
    <3>1. \A t \in Tasks : Alerted(t)' <=> Alerted(t)
      BY <2>1 DEF Alerted
    <3>2. ASSUME NEW t \in Tasks, NEW c \in Procs, Overlooked(t, c)' PROVE Overlooked(t, c)
      <4>1. Eligible(t, c)
        BY <2>1, <3>2 DEF Overlooked, Eligible
      <4> QED
        BY <2>1, <3>2, <4>1 DEF Overlooked, Near, all_tasks_exited
    <3>3. \A u \in Tasks : \A c, p : Rings(u, c, p)' <=> Rings(u, c, p)
      BY <2>1 DEF Rings, Finishes, all_zombie
    <3> QED
      BY <3>1, <3>2, <3>3 DEF WaitInv, ToldOf
  <2> QED
    BY <2>2, <2>4, <2>5 DEF WaitInv
<1>2. CASE Next
  <2>1. PICK v \in Tasks : Voluntary(v) \/ KernelStep(v)
    BY <1>2 DEF Next
  <2>2. UNCHANGED scene
    BY <2>1 DEF Voluntary, KernelStep
  <2>3. Scripted' /\ Registered'
    BY <2>1, <2>2, NextScripted, NextRegistered DEF WaitInv
  <2>4. Places'
    BY <2>1, <2>2, NextPlaces DEF WaitInv, Places
  <2>5. ToldOf'
    BY <2>1, <2>2, NextToldOf
  <2> QED
    BY <2>3, <2>4, <2>5 DEF WaitInv, Places
<1> QED
  BY <1>1, <1>2

\* When nobody is in the kernel, nobody is left to wake a waiter.
LEMMA QuietlyTold == LifeInv /\ WaitInv => ExitNotMissed
<1> SUFFICES ASSUME LifeInv, WaitInv, Quiet, NEW t \in Tasks, pc[t] = "asleep",
                    NEW c \in children[ProcOf[t]],
                    Near(ProcOf[t], c), Eligible(t, c), all_tasks_exited(c)
             PROVE  FALSE
  BY Zenon DEF ExitNotMissed
<1>1. c \in Procs
  BY ProcessAssumption DEF LifeInv, Typed, Data
<1>2. Overlooked(t, c)
  BY DEF Overlooked
<1>3. ~Alerted(t)
  BY DEF Quiet, Sleeps, Alerted
<1>4. PICK u \in Tasks : Rings(u, c, ProcOf[t])
  BY <1>1, <1>2, <1>3 DEF WaitInv, ToldOf
<1>5. pc[u] \in {"unborn", "user", "gone", "asleep"}
  BY DEF Quiet, Sleeps
<1> QED
  BY <1>4, <1>5 DEF Rings, Finishes, Teardown

\* No exit is missed, whatever the process tree and the interleaving: when all
\* notifications are done, a thread that sleeps in sys_waitpid has no child it
\* could reap, neither one of its own that exited while it polled nor an orphan
\* of its own child that exited while exit_and_reparent moved it.  The thread
\* that empties the child's task list, or links the orphan, goes on to wake
\* child_exit_event of the parent after the waiter has registered there.
THEOREM NoExitMissed == ASSUME OneWaiter PROVE Spec => []ExitNotMissed
<1>1. LifeInv /\ ReapInv /\ LinkInv /\ WaitInv /\ [Next]_vars => WaitInv'
  BY NextLife, NextWait
<1> QED
  BY <1>1, InitLink, NextLink, InitWait, QuietlyTold, OneHand, LifeInvariance, PTL DEF Spec
=============================================================================
