---------------------------- MODULE ProcessExit ----------------------------
(***************************************************************************)
(* Thread exit, process teardown, reparenting and wait.                    *)
(*                                                                         *)
(* A thread leaves through exit_current_and_run_next, alone or because its *)
(* group is exiting; the thread that finds every sibling a zombie tears    *)
(* the process down, hands its children to a reaper and notifies the       *)
(* parent, whose threads sleep in waitpid.  Threads of one process run on  *)
(* different harts, so every critical section of ProcessMeta (meta_lock)   *)
(* and of TaskControlBlockInner (inner_lock) is a step of its own.         *)
(*                                                                         *)
(* Abstracted: exit codes (only whether group_exit_code is Some), usage    *)
(* values (only whether they were published), the order of the task and    *)
(* child vectors (a scan may take them in any order).  The clear_child_tid *)
(* and robust-list wake-ups of the exit path change futex queues only.     *)
(* Stop and continue are not modelled here: no wait asks for WUNTRACED.    *)
(***************************************************************************)
EXTENDS Naturals, FiniteSets

CONSTANTS
    Tasks, Procs, None,
    ProcOf,       \* the process of each thread
    Initproc,     \* pid 1; it never exits
    Scenarios     \* the process trees and workloads to start from

Calls == {"exit", "exit_group", "wait", "clone"}

ASSUME ProcessAssumption ==
    /\ ProcOf \in [Tasks -> Procs]
    /\ Initproc \in Procs
    /\ None \notin Procs /\ None \notin Tasks
    /\ \A s \in Scenarios :
         /\ s.parent \in [Procs -> Procs \cup {None}]
         /\ s.subreapers \subseteq Procs /\ s.clones \subseteq Procs
         /\ s.unborn \subseteq Tasks /\ s.script \in [Tasks -> SUBSET Calls]
         /\ None \notin s.waits /\ \A w \in s.waits : w.sel \subseteq Procs

VARIABLES
    \* TaskControlBlock, and the wake flag of the MyWaker of its block_on
    status, sigkill, sigchld, woke,
    \* where a thread is, and the locals of the routine it runs
    pc, wait, snap, kin, found, reaper, has_zombie_child,
    \* ProcessMeta, the global PID map, and the owner releases of the process
    tasks, children, parent_pid, exit_signal, exiting, usage, event,
    in_map, released, panicked,
    \* the scenario, which no step changes
    scene

\* The initial parent_pid of each process, the processes with
\* is_child_subreaper, the children created without SIGCHLD (exit_signal = -1),
\* the threads a sibling may still clone, the system calls each thread may
\* make, and the arguments of waitpid: [sel: SUBSET Procs, options: set].
ParentOf == scene.parent
Subreapers == scene.subreapers
CloneChildren == scene.clones
Unborn == scene.unborn
Script == scene.script
Waits == scene.waits

threads == <<status, sigkill, sigchld, woke>>
args == <<wait, snap, kin, found, reaper, has_zombie_child>>
links == <<tasks, children, parent_pid, exit_signal>>
meta == <<exiting, usage, event, in_map, released, panicked>>
vars == <<threads, pc, args, links, meta, scene>>

Teardown == {"usage", "release", "code", "orphans", "ancestor", "reaper", "adopt",
             "link", "adopted", "rsig", "notify", "nppid", "nsig", "nwake"}

\* The labels of a thread after its status became Zombie.
Dead == Teardown \cup {"retain", "bro", "bwake", "check", "zombie", "gone"}

Labels == Dead \cup
          {"unborn", "user", "group", "gwake", "gcode", "gsend", "gkill", "exit",
           "top", "poll", "scan", "reap", "unmap", "sigs", "block", "asleep"}

Born == Tasks \ Unborn

Init ==
    /\ scene \in Scenarios
    /\ status = [t \in Tasks |-> IF t \in Unborn THEN "unborn" ELSE "Running"]
    /\ sigkill = [t \in Tasks |-> FALSE]
    /\ sigchld = [t \in Tasks |-> FALSE]
    /\ woke = [t \in Tasks |-> FALSE]
    /\ pc = [t \in Tasks |-> IF t \in Unborn THEN "unborn" ELSE "user"]
    /\ wait = [t \in Tasks |-> None]
    /\ snap = [t \in Tasks |-> {}]
    /\ kin = [t \in Tasks |-> {}]
    /\ found = [t \in Tasks |-> None]
    /\ reaper = [t \in Tasks |-> None]
    /\ has_zombie_child = [t \in Tasks |-> FALSE]
    /\ tasks = [p \in Procs |-> {t \in Born : ProcOf[t] = p}]
    /\ children = [p \in Procs |-> {c \in Procs : ParentOf[c] = p}]
    /\ parent_pid = ParentOf
    /\ exit_signal = [p \in Procs |-> IF p \in CloneChildren THEN "none"
                                                             ELSE "SIGCHLD"]
    /\ exiting = [p \in Procs |-> FALSE]
    /\ usage = [p \in Procs |-> FALSE]
    /\ event = [p \in Procs |-> None]
    /\ in_map = [p \in Procs |-> TRUE]
    /\ released = [p \in Procs |-> 0]
    /\ panicked = FALSE

-----------------------------------------------------------------------------
Goto(t, label) == pc' = [pc EXCEPT ![t] = label]

\* A wake-up that does not look at the status of the task.
WakeAny(u) == [status EXCEPT ![u] = "Running"]

\* A Blocked task becomes Ready; a Ready or running one is left alone.
WakeUp(u) == [status EXCEPT ![u] = IF @ = "Blocked" THEN "Running" ELSE @]

\* child_exit_event.wake(): take the registered waker, set its flag and make
\* its task Ready if it is Blocked.  A second registration replaces the first.
EventWake(p) ==
    /\ event' = [event EXCEPT ![p] = None]
    /\ IF event[p] = None
       THEN UNCHANGED <<woke, status>>
       ELSE woke' = [woke EXCEPT ![event[p]] = TRUE] /\ status' = WakeUp(event[p])

all_tasks_exited(p) == exiting[p] /\ tasks[p] = {}

-----------------------------------------------------------------------------
(* System calls, preemption and signal delivery to a thread in user mode.  *)

Call(t, name) == pc[t] = "user" /\ name \in Script[t]

SysExit(t) ==
    /\ Call(t, "exit")
    /\ Goto(t, "exit")
    /\ UNCHANGED <<threads, args, links, meta>>

SysExitGroup(t) ==
    /\ Call(t, "exit_group")
    /\ Goto(t, "group")
    /\ UNCHANGED <<threads, args, links, meta>>

\* clone(CLONE_THREAD): the new thread joins the process of its creator.
CloneThread(t, u) ==
    /\ Call(t, "clone")
    /\ pc[u] = "unborn" /\ ProcOf[u] = ProcOf[t]
    /\ tasks' = [tasks EXCEPT ![ProcOf[t]] = @ \cup {u}]
    /\ status' = [status EXCEPT ![u] = "Running"]
    /\ Goto(u, "user")
    /\ UNCHANGED <<sigkill, sigchld, woke, args, children, parent_pid, exit_signal, meta>>

\* The check without the group exit code.
OnlyIfKilled(t, otherwise) == Goto(t, IF sigkill[t] THEN "group" ELSE otherwise)

\* exit_current_if_group_exited_or_killed; control goes on at "otherwise".
ExitIfGroupExitedOrKilled(t, otherwise) ==
    Goto(t, IF exiting[ProcOf[t]] THEN "exit"
            ELSE IF sigkill[t] THEN "group" ELSE otherwise)

\* A timer interrupt in user mode.
Preempt(t) ==
    /\ pc[t] = "user" /\ (exiting[ProcOf[t]] \/ sigkill[t])
    /\ ExitIfGroupExitedOrKilled(t, "user")
    /\ UNCHANGED <<threads, args, links, meta>>

\* trap_return: SIGKILL ends the group, a default SIGCHLD is discarded.
TrapReturn(t) ==
    /\ pc[t] = "user" /\ (sigkill[t] \/ sigchld[t])
    /\ IF sigkill[t]
       THEN /\ sigkill' = [sigkill EXCEPT ![t] = FALSE]
            /\ Goto(t, "group") /\ UNCHANGED sigchld
       ELSE sigchld' = [sigchld EXCEPT ![t] = FALSE] /\ UNCHANGED <<sigkill, pc>>
    /\ UNCHANGED <<status, woke, args, links, meta>>

-----------------------------------------------------------------------------
(* exit_current_group_and_run_next                                         *)

Snapshot(t, from, to, set) ==
    /\ pc[t] = from
    /\ snap' = [snap EXCEPT ![t] = set]
    /\ Goto(t, to)
    /\ UNCHANGED <<threads, wait, kin, found, reaper, has_zombie_child, links, meta>>

\* The loops "for task in snapshot": one sibling per step, then go on.
LoopDone(t, label, next) ==
    /\ pc[t] = label /\ snap[t] = {}
    /\ Goto(t, next)
    /\ UNCHANGED <<threads, args, links, meta>>

LoopTask(t, label, u) ==
    /\ pc[t] = label /\ u \in snap[t]
    /\ snap' = [snap EXCEPT ![t] = @ \ {u}]
    /\ status' = WakeUp(u)
    /\ UNCHANGED <<woke, pc, wait, kin, found, reaper, has_zombie_child, links, meta>>

GroupSnapshot(t) == Snapshot(t, "group", "gwake", tasks[ProcOf[t]] \ {t})

GroupWake(t) ==
    \/ LoopDone(t, "gwake", "gcode")
    \/ \E u \in snap[t] : LoopTask(t, "gwake", u) /\ UNCHANGED <<sigkill, sigchld>>

\* set_group_exit_code_once: only the first caller kills the siblings.
GroupCode(t) ==
    /\ pc[t] = "gcode"
    /\ exiting' = [exiting EXCEPT ![ProcOf[t]] = TRUE]
    /\ Goto(t, IF exiting[ProcOf[t]] THEN "exit" ELSE "gsend")
    /\ UNCHANGED <<threads, args, links, usage, event, in_map, released, panicked>>

GroupSend(t) == Snapshot(t, "gsend", "gkill", tasks[ProcOf[t]])

GroupKill(t) ==
    \/ LoopDone(t, "gkill", "exit")
    \/ \E u \in snap[t] : /\ LoopTask(t, "gkill", u)
                          /\ sigkill' = [sigkill EXCEPT ![u] = TRUE]
                          /\ UNCHANGED sigchld

-----------------------------------------------------------------------------
(* exit_current_and_run_next, up to the decision who tears the process     *)
(* down.                                                                   *)

ExitZombie(t) ==
    /\ pc[t] = "exit"
    /\ status' = [status EXCEPT ![t] = "Zombie"]
    /\ Goto(t, "retain")
    /\ UNCHANGED <<sigkill, sigchld, woke, args, links, meta>>

ExitRetain(t) ==
    /\ pc[t] = "retain"
    /\ tasks' = [tasks EXCEPT ![ProcOf[t]] = @ \ {t}]
    /\ Goto(t, "bro")
    /\ UNCHANGED <<threads, args, children, parent_pid, exit_signal, meta>>

ExitSnapshot(t) == Snapshot(t, "bro", "bwake", tasks[ProcOf[t]])

ExitWake(t) ==
    \/ LoopDone(t, "bwake", "check")
    \/ \E u \in snap[t] : LoopTask(t, "bwake", u) /\ UNCHANGED <<sigkill, sigchld>>

CheckSnapshot(t) == Snapshot(t, "check", "zombie", tasks[ProcOf[t]])

\* Teardown left to whoever empties a group that is exiting as a whole.
UnlessGroupExit(t) ==
    ~exiting[ProcOf[t]] /\ \A u \in snap[t] : status[u] = "Zombie"

\* Siblings count as gone once they were told to die.
KilledIsGone(t) == \A u \in snap[t] : status[u] = "Zombie" \/ sigkill[u]

all_zombie(t) == \A u \in snap[t] : status[u] = "Zombie"

CheckZombies(t) ==
    /\ pc[t] = "zombie"
    /\ snap' = [snap EXCEPT ![t] = {}]
    /\ Goto(t, IF all_zombie(t) THEN "usage" ELSE "gone")
    /\ UNCHANGED <<threads, wait, kin, found, reaper, has_zombie_child, links, meta>>

-----------------------------------------------------------------------------
(* Process teardown: accounting, owner release, exit code.                 *)

PublishUsage(t) ==
    /\ pc[t] = "usage"
    /\ usage' = [usage EXCEPT ![ProcOf[t]] = TRUE]
    /\ Goto(t, "release")
    /\ UNCHANGED <<threads, args, links, exiting, event, in_map, released, panicked>>

ReleaseOwner(t) ==
    /\ pc[t] = "release"
    /\ released' = [released EXCEPT ![ProcOf[t]] = @ + 1]
    /\ Goto(t, "code")
    /\ UNCHANGED <<threads, args, links, exiting, usage, event, in_map, panicked>>

SetCode(t) ==
    /\ pc[t] = "code"
    /\ exiting' = [exiting EXCEPT ![ProcOf[t]] = TRUE]
    /\ Goto(t, "orphans")
    /\ UNCHANGED <<threads, args, links, usage, event, in_map, released, panicked>>

-----------------------------------------------------------------------------
(* exit_and_reparent                                                       *)

TakeOrphans(t) ==
    LET p == ProcOf[t] IN
    /\ pc[t] = "orphans"
    /\ kin' = [kin EXCEPT ![t] = children[p]]
    /\ children' = [children EXCEPT ![p] = {}]
    /\ tasks' = [tasks EXCEPT ![p] = {}]
    /\ Goto(t, IF children[p] = {} THEN "notify" ELSE "ancestor")
    /\ UNCHANGED <<threads, wait, snap, found, reaper, has_zombie_child,
                   parent_pid, exit_signal, meta>>

\* find_child_reaper: walk up the parents, one ProcessMeta at a time.
FirstAncestor(t) ==
    /\ pc[t] = "ancestor"
    /\ reaper' = [reaper EXCEPT ![t] = parent_pid[ProcOf[t]]]
    /\ Goto(t, "reaper")
    /\ UNCHANGED <<threads, wait, snap, kin, found, has_zombie_child, links, meta>>

FindReaper(t) ==
    LET a == reaper[t]
        atTop == a = None \/ a = Initproc
        fits == ~atTop /\ in_map[a] /\ a \in Subreapers /\ ~exiting[a]
    IN
    /\ pc[t] = "reaper"
    /\ IF fits THEN Goto(t, "adopt") /\ UNCHANGED reaper
       ELSE IF atTop \/ ~in_map[a] \/ parent_pid[a] = a
       THEN reaper' = [reaper EXCEPT ![t] = Initproc] /\ Goto(t, "adopt")
       ELSE reaper' = [reaper EXCEPT ![t] = parent_pid[a]] /\ UNCHANGED pc
    /\ UNCHANGED <<threads, wait, snap, kin, found, has_zombie_child, links, meta>>

\* Adoption that links the child and forgets its parent_pid.
AdoptSilently(t) ==
    /\ pc[t] = "adopt"
    /\ \E c \in kin[t] :
         /\ exit_signal' = [exit_signal EXCEPT ![c] = "SIGCHLD"]
         /\ has_zombie_child' = [has_zombie_child EXCEPT ![t] = @ \/ all_tasks_exited(c)]
         /\ found' = [found EXCEPT ![t] = c]
    /\ Goto(t, "link")
    /\ UNCHANGED <<threads, wait, snap, kin, reaper, tasks, children, parent_pid, meta>>

AdoptChild(t) ==
    /\ pc[t] = "adopt"
    /\ \E c \in kin[t] :
         /\ parent_pid' = [parent_pid EXCEPT ![c] = reaper[t]]
         /\ exit_signal' = [exit_signal EXCEPT ![c] = "SIGCHLD"]
         /\ has_zombie_child' = [has_zombie_child EXCEPT ![t] = @ \/ all_tasks_exited(c)]
         /\ found' = [found EXCEPT ![t] = c]
    /\ Goto(t, "link")
    /\ UNCHANGED <<threads, wait, snap, kin, reaper, tasks, children, meta>>

\* link_child_to_parent: the child joins the list of its new parent.
LinkChild(t) ==
    /\ pc[t] = "link"
    /\ children' = [children EXCEPT ![reaper[t]] = @ \cup {found[t]}]
    /\ kin' = [kin EXCEPT ![t] = @ \ {found[t]}]
    /\ found' = [found EXCEPT ![t] = None]
    /\ Goto(t, "adopt")
    /\ UNCHANGED <<threads, wait, snap, reaper, has_zombie_child, tasks,
                   parent_pid, exit_signal, meta>>

Adopted(t) ==
    /\ pc[t] = "adopt" /\ kin[t] = {}
    /\ Goto(t, IF has_zombie_child[t] THEN "adopted" ELSE "notify")
    /\ UNCHANGED <<threads, args, links, meta>>

\* An adopted zombie wakes the new parent: its event, then SIGCHLD.
WakeReaper(t) ==
    LET r == reaper[t] IN
    /\ pc[t] = "adopted"
    /\ EventWake(r)
    /\ snap' = [snap EXCEPT ![t] = IF in_map[r] THEN tasks[r] ELSE {}]
    /\ Goto(t, "rsig")
    /\ UNCHANGED <<sigkill, sigchld, wait, kin, found, reaper,
                   has_zombie_child, links, exiting, usage, in_map, released, panicked>>

SendSigchld(t, label) ==
    \E u \in snap[t] : /\ LoopTask(t, label, u)
                       /\ sigchld' = [sigchld EXCEPT ![u] = TRUE]
                       /\ UNCHANGED sigkill

SignalReaper(t) == LoopDone(t, "rsig", "notify") \/ SendSigchld(t, "rsig")

-----------------------------------------------------------------------------
(* The end of exit_current_and_run_next: exit_signal, then the wait event. *)

Notify(t) ==
    /\ pc[t] = "notify"
    /\ Goto(t, IF exit_signal[ProcOf[t]] = "SIGCHLD" THEN "nppid" ELSE "nwake")
    /\ UNCHANGED <<threads, args, links, meta>>

ParentSnapshot(t) ==
    LET q == parent_pid[ProcOf[t]] IN
    Snapshot(t, "nppid", "nsig", IF q # None /\ in_map[q] THEN tasks[q] ELSE {})

SignalParent(t) == LoopDone(t, "nsig", "nwake") \/ SendSigchld(t, "nsig")

WakeParent(t) ==
    LET q == parent_pid[ProcOf[t]] IN
    /\ pc[t] = "nwake"
    /\ IF q # None /\ in_map[q] THEN EventWake(q) ELSE UNCHANGED <<event, woke, status>>
    /\ Goto(t, "gone")
    /\ UNCHANGED <<sigkill, sigchld, args, links, exiting, usage, in_map,
                   released, panicked>>

-----------------------------------------------------------------------------
(* sys_waitpid under block_on.                                             *)

Waitpid(t, w) ==
    /\ Call(t, "wait")
    /\ wait' = [wait EXCEPT ![t] = w]
    /\ woke' = [woke EXCEPT ![t] = FALSE]
    /\ Goto(t, "top")
    /\ UNCHANGED <<status, sigkill, sigchld, snap, kin, found, reaper,
                   has_zombie_child, links, meta>>

\* The call returns to label.  Its waker may stay registered, but it wakes
\* nothing any more: the next wait of the thread registers another one.
EndWait(t, label) ==
    /\ wait' = [wait EXCEPT ![t] = None]
    /\ woke' = [woke EXCEPT ![t] = FALSE]
    /\ kin' = [kin EXCEPT ![t] = {}]
    /\ found' = [found EXCEPT ![t] = None]
    /\ event' = [p \in Procs |-> IF event[p] = t THEN None ELSE event[p]]
    /\ Goto(t, label)

\* The head of the loop of block_on.
WaitTop(t) ==
    /\ pc[t] = "top"
    /\ IF exiting[ProcOf[t]] THEN EndWait(t, "exit")
       ELSE IF sigkill[t] THEN EndWait(t, "group")
       ELSE Goto(t, "poll") /\ UNCHANGED <<wait, woke, kin, found, event>>
    /\ UNCHANGED <<status, sigkill, sigchld, snap, reaper, has_zombie_child,
                   links, exiting, usage, in_map, released, panicked>>

\* Register the waker and copy the child list in one critical section.
WaitPoll(t) ==
    LET p == ProcOf[t] IN
    /\ pc[t] = "poll"
    /\ event' = [event EXCEPT ![p] = t]
    /\ kin' = [kin EXCEPT ![t] = children[p]]
    /\ Goto(t, "scan")
    /\ UNCHANGED <<threads, wait, snap, found, reaper, has_zombie_child,
                   links, exiting, usage, in_map, released, panicked>>

\* WaitPid::apply and the __WALL / __WCLONE filter.
Eligible(t, c) ==
    /\ c \in wait[t].sel
    /\ \/ "__WALL" \in wait[t].options
       \/ exit_signal[c] = IF "__WCLONE" \in wait[t].options THEN "none" ELSE "SIGCHLD"

WaitScan(t) ==
    LET candidates == {c \in kin[t] : Eligible(t, c)}
        exited == {c \in candidates : all_tasks_exited(c)}
    IN
    /\ pc[t] = "scan"
    /\ \/ /\ exited # {} /\ "WNOWAIT" \notin wait[t].options
          /\ \E c \in exited : found' = [found EXCEPT ![t] = c]
          /\ kin' = [kin EXCEPT ![t] = {}]
          /\ Goto(t, "reap") /\ UNCHANGED <<wait, woke, event>>
       \/ /\ \/ candidates = {}
             \/ exited # {} /\ "WNOWAIT" \in wait[t].options
             \/ exited = {} /\ "WNOHANG" \in wait[t].options
          /\ EndWait(t, "user")
       \/ /\ candidates # {} /\ exited = {} /\ "WNOHANG" \notin wait[t].options
          /\ kin' = [kin EXCEPT ![t] = {}]
          /\ Goto(t, "sigs") /\ UNCHANGED <<wait, woke, found, event>>
    /\ UNCHANGED <<status, sigkill, sigchld, snap, reaper, has_zombie_child,
                   links, exiting, usage, in_map, released, panicked>>

\* A waiter that does not ask whether it was the first.
AlwaysWins(t) == TRUE

\* remove_child_from_parent: only one of several waiters wins the child.
WinsReap(t) == found[t] \in children[ProcOf[t]]

WaitReap(t) ==
    LET p == ProcOf[t] IN
    /\ pc[t] = "reap"
    /\ IF WinsReap(t)
       THEN /\ children' = [children EXCEPT ![p] = @ \ {found[t]}]
            /\ Goto(t, "unmap") /\ UNCHANGED <<wait, woke, kin, found, event>>
       ELSE EndWait(t, "user") /\ UNCHANGED children
    /\ UNCHANGED <<status, sigkill, sigchld, snap, reaper, has_zombie_child, tasks,
                   parent_pid, exit_signal, exiting, usage, in_map, released, panicked>>

\* remove_from_global_map panics when the process is not in the map.
WaitUnmap(t) ==
    /\ pc[t] = "unmap"
    /\ panicked' = (panicked \/ ~in_map[found[t]])
    /\ in_map' = [in_map EXCEPT ![found[t]] = FALSE]
    /\ EndWait(t, "user")
    /\ UNCHANGED <<status, sigkill, sigchld, snap, reaper, has_zombie_child,
                   links, exiting, usage, released>>

\* A pending SIGKILL ends the call, SIGCHLD is consumed before sleeping.
WaitSignals(t) ==
    /\ pc[t] = "sigs"
    /\ IF sigkill[t]
       THEN EndWait(t, "user") /\ UNCHANGED sigchld
       ELSE /\ sigchld' = [sigchld EXCEPT ![t] = FALSE]
            /\ Goto(t, "block") /\ UNCHANGED <<wait, woke, kin, found, event>>
    /\ UNCHANGED <<status, sigkill, snap, reaper, has_zombie_child, links,
                   exiting, usage, in_map, released, panicked>>

\* A sleeper that does not look at its wake flag before it blocks.
BlockAnyway(t) ==
    /\ pc[t] = "block"
    /\ status' = [status EXCEPT ![t] = "Blocked"]
    /\ Goto(t, "asleep")
    /\ UNCHANGED <<sigkill, sigchld, woke, args, links, meta>>

\* block_current_if_not_woken
WaitBlock(t) ==
    /\ pc[t] = "block"
    /\ woke' = [woke EXCEPT ![t] = FALSE]
    /\ IF woke[t]
       THEN Goto(t, "top") /\ UNCHANGED status
       ELSE Goto(t, "asleep") /\ status' = [status EXCEPT ![t] = "Blocked"]
    /\ UNCHANGED <<sigkill, sigchld, args, links, meta>>

WaitResume(t) ==
    /\ pc[t] = "asleep" /\ status[t] = "Running"
    /\ Goto(t, "top")
    /\ UNCHANGED <<threads, args, links, meta>>

-----------------------------------------------------------------------------
GroupStep(t) ==
    GroupSnapshot(t) \/ GroupWake(t) \/ GroupCode(t) \/ GroupSend(t) \/ GroupKill(t)

ExitStep(t) ==
    \/ ExitZombie(t) \/ ExitRetain(t) \/ ExitSnapshot(t) \/ ExitWake(t)
    \/ CheckSnapshot(t) \/ CheckZombies(t)
    \/ PublishUsage(t) \/ ReleaseOwner(t) \/ SetCode(t)
    \/ Notify(t) \/ ParentSnapshot(t) \/ SignalParent(t) \/ WakeParent(t)

ReparentStep(t) ==
    \/ TakeOrphans(t) \/ FirstAncestor(t) \/ FindReaper(t) \/ AdoptChild(t)
    \/ LinkChild(t) \/ Adopted(t) \/ WakeReaper(t) \/ SignalReaper(t)

WaitStep(t) ==
    \/ WaitTop(t) \/ WaitPoll(t) \/ WaitScan(t) \/ WaitReap(t) \/ WaitUnmap(t)
    \/ WaitSignals(t) \/ WaitBlock(t) \/ WaitResume(t)

Voluntary(t) ==
    /\ UNCHANGED scene
    /\ \/ SysExit(t) \/ SysExitGroup(t)
       \/ \E u \in Tasks : CloneThread(t, u)
       \/ \E w \in Waits : Waitpid(t, w)

KernelStep(t) ==
    /\ UNCHANGED scene
    /\ \/ Preempt(t) \/ TrapReturn(t) \/ GroupStep(t) \/ ExitStep(t)
       \/ ReparentStep(t) \/ WaitStep(t)

Next == \E t \in Tasks : Voluntary(t) \/ KernelStep(t)

Spec == Init /\ [][Next]_vars

\* A thread that entered the kernel, or has a signal to take, goes on.
FairSpec == Spec /\ \A t \in Tasks : WF_vars(KernelStep(t))

-----------------------------------------------------------------------------
Threads(p) == {t \in Tasks : ProcOf[t] = p /\ pc[t] # "unborn"}

Sleeps(t) == pc[t] = "asleep" /\ status[t] = "Blocked"

\* No thread is inside the kernel except the sleepers.
Quiet == \A t \in Tasks : pc[t] \in {"unborn", "user", "gone"} \/ Sleeps(t)

\* Type correctness of the task control blocks and the process metadata; the
\* status says Zombie exactly after the exit path set it, and stays so.
TypeOK ==
    /\ status \in [Tasks -> {"unborn", "Running", "Blocked", "Zombie"}]
    /\ sigkill \in [Tasks -> BOOLEAN] /\ sigchld \in [Tasks -> BOOLEAN]
    /\ woke \in [Tasks -> BOOLEAN] /\ has_zombie_child \in [Tasks -> BOOLEAN]
    /\ pc \in [Tasks -> Labels] /\ wait \in [Tasks -> Waits \cup {None}]
    /\ snap \in [Tasks -> SUBSET Tasks] /\ kin \in [Tasks -> SUBSET Procs]
    /\ found \in [Tasks -> Procs \cup {None}] /\ reaper \in [Tasks -> Procs \cup {None}]
    /\ tasks \in [Procs -> SUBSET Tasks] /\ children \in [Procs -> SUBSET Procs]
    /\ parent_pid \in [Procs -> Procs \cup {None}]
    /\ exit_signal \in [Procs -> {"SIGCHLD", "none"}]
    /\ exiting \in [Procs -> BOOLEAN] /\ usage \in [Procs -> BOOLEAN]
    /\ in_map \in [Procs -> BOOLEAN] /\ released \in [Procs -> Nat]
    /\ event \in [Procs -> Tasks \cup {None}] /\ panicked \in BOOLEAN
    /\ scene \in Scenarios
    /\ \A t \in Tasks : status[t] = "Zombie" <=> pc[t] \in Dead

\* remove_from_global_map never panics: however many waiters find the same
\* zombie, and however it is reparented meanwhile, it is reaped once.
NoPanic == ~panicked

\* A process is torn down ("all threads of the process have exited, reclaim
\* its resources") only when none of its threads can run any more.  A thread
\* that a sibling clones while the check runs is not in the snapshot.
TornDownWhenDead ==
    \A t \in Tasks : pc[t] \in Teardown =>
        \A u \in Threads(ProcOf[t]) \ Unborn : status[u] = "Zombie"

\* Concurrent exits never leave the teardown to each other: when the last
\* thread is gone the usage is published, the owner counts released at least
\* once and the exit code set.
ExitIsFinished ==
    \A p \in Procs :
        (Threads(p) # {} /\ \A t \in Threads(p) : pc[t] = "gone")
            => usage[p] /\ exiting[p] /\ released[p] > 0

\* "The resource owner counts are decremented exactly once when each process
\* group exits": however many of its threads leave at the same time, a process
\* calls release_owner no second time.
ReleasedOnce == \A p \in Procs : released[p] <= 1

\* A waiter never sees the empty task list of a process whose last thread is
\* still tearing it down: what is reaped has published its usage.
ReapedAfterTeardown == \A p \in Procs : in_map[p] \/ (usage[p] /\ released[p] > 0)

\* A child that p had, or an orphan that one of these children left to p.
Near(p, c) == scene.parent[c] = p \/ (scene.parent[c] # None /\ scene.parent[scene.parent[c]] = p)

\* No waiter sleeps beside a child it could reap once all notifications are
\* done: the exit that races the poll of waitpid is not missed.  An orphan
\* that comes from further down is left out: when it exits between the zombie
\* test and the link of exit_and_reparent, its exit wakes the adopter before
\* it is in the adopter's list, and nothing wakes the adopter afterwards.
ExitNotMissed ==
    Quiet => \A t \in Tasks : pc[t] = "asleep" =>
                ~\E c \in children[ProcOf[t]] :
                    Near(ProcOf[t], c) /\ Eligible(t, c) /\ all_tasks_exited(c)

\* The child lists agree with parent_pid through every reparenting.
LinkedToParent == \A p \in Procs : \A c \in children[p] : parent_pid[c] = p

\* exit_group ends the group.  Again and again every process whose code is set
\* has lost all its threads (the code stays set, so each group that exits dies),
\* but for a thread that SIGKILL reached between the signal check of waitpid and
\* Blocked: block_current_if_not_woken looks at the wake flag only, and such a
\* thread sleeps until a child wakes it.  A thread that sleeps in waitpid when
\* the signal is sent is woken by it, and so leaves.
GroupDies ==
    /\ []<>(\A p \in Procs : exiting[p] =>
               \A t \in Threads(p) : pc[t] = "gone" \/ (Sleeps(t) /\ sigkill[t]))
    /\ [][\A t \in Tasks : Sleeps(t) /\ ~sigkill[t] /\ sigkill'[t] => status'[t] # "Blocked"]_vars
=============================================================================
