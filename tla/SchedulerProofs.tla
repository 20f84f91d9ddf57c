--------------------------- MODULE SchedulerProofs ---------------------------
(***************************************************************************)
(* The theorems about Scheduler, for any number of harts and tasks.        *)
(* Scheduler!Inv is inductive: every action is a step of one hart, so its  *)
(* effect on the invariant is first reduced to obligations about that hart *)
(* (LocalStep); one lemma per action then discharges them.                 *)
(* Work conservation is about all harts at once: it follows from a count   *)
(* of the tasks in the queue against the harts that are on their way to it *)
(* (Supply).                                                               *)
(***************************************************************************)
EXTENDS Scheduler, FiniteSetTheorems, TLAPS

\* A leaf that does not name its prover is for Zenon.
USE Zenon


\* The boot state satisfies the invariant.
LEMMA InitInv == Init => Inv
<1> SUFFICES ASSUME Init PROVE Inv
  OBVIOUS
<1>0. 0 \in Harts /\ 0 \in 0 .. HartCount - 1 /\ 0 \in 0 .. HartCount
  BY SchedulerAssumption, SMT DEF Harts
<1> USE SchedulerAssumption DEF Init
<1>1. TaskTypeOK /\ HartTypeOK /\ LocalTypeOK
  BY <1>0, SMT DEF TaskTypeOK, HartTypeOK, LocalTypeOK, Statuses, Asleep, TaskPCs, Calls, LoopPCs, Dispatching
<1>2. \A h \in Harts : SlotsAgree(h)
  BY SMT DEF SlotsAgree, InTask, At, TaskPCs, Calls, LoopPCs, Dispatching
<1>3. \A h \in Harts : OwnershipAgrees(h)
  BY DEF OwnershipAgrees, Executes, Reserves, Dispatching
<1>4. OneHartPerTask
  BY DEF OneHartPerTask, Holds, Dispatching
<1>5. OnCpuIsExecuted /\ QueueSound /\ RunningIsHeld
  BY DEF OnCpuIsExecuted, QueueSound, RunningIsHeld
<1>6. NoLostReady
  BY DEF NoLostReady
<1> QED
  BY <1>1, <1>2, <1>3, <1>4, <1>5, <1>6 DEF Inv

-----------------------------------------------------------------------------
\* What a step of hart h must satisfy, in terms of that hart alone.

\* It touches no other hart's control state or slots.
OthersKept(h) ==
    \A g \in Harts \ {h} :
        /\ pc'[g] = pc[g] /\ ret'[g] = ret[g]
        /\ current'[g] = current[g] /\ stack'[g] = stack[g] /\ arg'[g] = arg[g]

\* It changes the on_cpu flag only of tasks it holds, and the status only of
\* those, of tasks it wakes and of tasks it takes from the queue; it takes hold
\* of a task only from the queue.
OwnTasksOnly(h) ==
    \A t \in Tasks :
        /\ status'[t] # status[t] =>
              \/ Holds(h, t) /\ status[t] # "Unborn" /\ status'[t] # "Unborn"
              \/ /\ status[t] \notin {"Running", "Zombie"} /\ status'[t] # "Unborn"
                 /\ status'[t] = "Ready" \/ on_rq[t]
        /\ on_cpu'[t] # on_cpu[t] => Holds(h, t) /\ status'[t] # "Unborn"
        /\ Holds(h, t)' => Holds(h, t) \/ on_rq[t]

\* It lets go of an executed task only by clearing on_cpu or as a Zombie.
ReleasesProperly(h) ==
    \A t \in Tasks :
        on_cpu'[t] => \/ Executes(h, t)'
                      \/ status'[t] = "Zombie"
                      \/ on_cpu[t] /\ ~Executes(h, t)

\* A task it leaves Ready outside the queue is its own to enqueue, or still on
\* a CPU, or was in that position before and not this hart's business.
KeepsReady(h) ==
    \A t \in Tasks :
        status'[t] = "Ready" /\ ~on_rq'[t] =>
            \/ WillEnqueue(h, t)'
            \/ on_cpu'[t]
            \/ status[t] = "Ready" /\ ~on_rq[t] /\ ~WillEnqueue(h, t) /\ ~Exits(h, t)

\* A task it leaves Running is held by it, or was Running and is another's.
KeepsRunning(h) ==
    \A t \in Tasks :
        status'[t] = "Running" => Holds(h, t)' \/ (status[t] = "Running" /\ ~Holds(h, t))

LocalStep(h) ==
    /\ TaskTypeOK' /\ HartTypeOK' /\ LocalTypeOK'
    /\ OthersKept(h) /\ SlotsAgree(h)' /\ OwnershipAgrees(h)'
    /\ OwnTasksOnly(h) /\ ReleasesProperly(h) /\ QueueSound'
    /\ KeepsReady(h) /\ KeepsRunning(h)

\* What a hart may assume about another one's task: nobody else holds it, and a
\* held task is not queued.
LEMMA HeldFacts ==
    ASSUME Inv, NEW h \in Harts, NEW t \in Tasks, Holds(h, t)
    PROVE  /\ ~on_rq[t]
           /\ \A g \in Harts \ {h} : ~Holds(g, t)
<1>1. Executes(h, t) \/ Reserves(h, t)
  BY DEF Holds, Executes, Reserves
<1>2. ~on_rq[t]
  BY <1>1 DEF Inv, OwnershipAgrees, QueueSound
<1> QED
  BY <1>2 DEF Inv, OneHartPerTask

\* A local step preserves the invariant.
LEMMA LocalStepInv ==
    ASSUME Inv, NEW h \in Harts, LocalStep(h)
    PROVE  Inv'
<1> USE DEF LocalStep
<1>1. ASSUME NEW g \in Harts \ {h}, NEW t \in Tasks
      PROVE  /\ Holds(g, t)' <=> Holds(g, t)
             /\ Executes(g, t)' <=> Executes(g, t)
             /\ Reserves(g, t)' <=> Reserves(g, t)
             /\ WillEnqueue(g, t)' <=> WillEnqueue(g, t)
             /\ Exits(g, t)' <=> Exits(g, t)
  BY DEF OthersKept, Holds, Executes, Reserves, WillEnqueue, Exits, At
<1>2. ASSUME NEW g \in Harts \ {h}, NEW t \in Tasks, Holds(g, t)
      PROVE  /\ ~Holds(h, t) /\ ~on_rq[t] /\ on_cpu'[t] = on_cpu[t]
             /\ status[t] \in {"Running", "Zombie"} => status'[t] = status[t]
             /\ status[t] # "Running" => status'[t] # "Running"
  BY <1>2, HeldFacts DEF OwnTasksOnly
<1>3. \A g \in Harts : SlotsAgree(g)'
  <2> SUFFICES ASSUME NEW g \in Harts \ {h} PROVE SlotsAgree(g)'
    OBVIOUS
  <2>1. SlotsAgree(g)
    BY DEF Inv
  <2>2. InTask(g)' <=> InTask(g)
    BY DEF OthersKept, InTask, At
  <2>3. InTask(g) => /\ stack[g] \in Tasks
                     /\ status[stack[g]] \in {"Running", "Zombie"}
                          => status'[stack[g]] = status[stack[g]]
                     /\ status[stack[g]] # "Running" => status'[stack[g]] # "Running"
    BY <1>2, <2>1 DEF SlotsAgree, Holds
  <2>4. current[g] \in Tasks /\ status[current[g]] # "Running"
          => status'[current[g]] # "Running"
    BY <1>2 DEF Holds
  <2>5. pc[g] = "finish" => arg[g] \in Tasks /\ status'[arg[g]] # "Running"
    BY <1>2, <2>1 DEF SlotsAgree, Holds
  <2> QED
    BY <2>1, <2>2, <2>3, <2>4, <2>5, SMT DEF OthersKept, SlotsAgree, InTask, At, TaskPCs
<1>4. \A g \in Harts : OwnershipAgrees(g)'
  <2> SUFFICES ASSUME NEW g \in Harts \ {h}, NEW t \in Tasks
               PROVE  /\ Executes(g, t)' => on_cpu'[t]
                      /\ Reserves(g, t)' => status'[t] = "Running" /\ ~on_cpu'[t]
    BY DEF OwnershipAgrees
  <2>1. Executes(g, t) \/ Reserves(g, t) => Holds(g, t)
    BY DEF Executes, Reserves, Holds
  <2> QED
    BY <1>1, <1>2, <2>1 DEF Inv, OwnershipAgrees
<1>5. OneHartPerTask'
  <2> SUFFICES ASSUME NEW t \in Tasks, NEW g \in Harts \ {h}, Holds(h, t)', NEW k \in Harts,
                      Holds(g, t)'
               PROVE  FALSE
    BY <1>1 DEF Inv, OneHartPerTask
  <2> QED
    BY <1>1, <1>2 DEF OwnTasksOnly
<1>6. OnCpuIsExecuted'
  <2> SUFFICES ASSUME NEW t \in Tasks, on_cpu'[t], status'[t] # "Zombie"
               PROVE  status'[t] # "Unborn" /\ \E g \in Harts : Executes(g, t)'
    BY DEF OnCpuIsExecuted
  <2>1. status'[t] # "Unborn"
    BY DEF OwnTasksOnly, Inv, OnCpuIsExecuted
  <2>2. CASE Executes(h, t)'
    BY <2>1, <2>2
  <2>3. CASE on_cpu[t] /\ ~Executes(h, t)
    <3>1. status[t] # "Zombie"
      BY <2>3 DEF OwnTasksOnly, Holds, Executes, Reserves, Inv, OwnershipAgrees
    <3>2. PICK g \in Harts : Executes(g, t)
      BY <2>3, <3>1 DEF Inv, OnCpuIsExecuted
    <3> QED
      BY <1>1, <2>1, <2>3, <3>2
  <2> QED
    BY <2>2, <2>3 DEF ReleasesProperly
<1>7. NoLostReady'
  <2> SUFFICES ASSUME NEW t \in Tasks, status'[t] = "Ready", ~on_rq'[t]
               PROVE  \E g \in Harts : WillEnqueue(g, t)' \/ Exits(g, t)'
    BY DEF NoLostReady, QueueSound
  <2>1. CASE WillEnqueue(h, t)'
    BY <2>1
  <2>2. CASE on_cpu'[t]
    <3>1. PICK g \in Harts : Executes(g, t)'
      BY <1>6, <2>2 DEF OnCpuIsExecuted
    <3>2. SlotsAgree(g)'
      BY <1>3
    <3>3. CASE stack'[g] = t /\ At(g, {"exiting"})'
      BY <3>3 DEF Exits
    <3>4. CASE ~(stack'[g] = t /\ At(g, {"exiting"})')
      <4>1. stack'[g] = t => current'[g] = t
        BY <3>2, <3>4 DEF SlotsAgree, At, InTask
      <4> QED
        BY <3>1, <4>1 DEF Executes, WillEnqueue
    <3> QED
      BY <3>3, <3>4
  <2>3. CASE status[t] = "Ready" /\ ~on_rq[t] /\ ~WillEnqueue(h, t) /\ ~Exits(h, t)
    <3>1. PICK g \in Harts : WillEnqueue(g, t) \/ Exits(g, t)
      BY <2>3, SMT DEF Inv, NoLostReady, QueueSound
    <3> QED
      BY <1>1, <2>3, <3>1
  <2> QED
    BY <2>1, <2>2, <2>3 DEF KeepsReady
<1>8. RunningIsHeld'
  <2> SUFFICES ASSUME NEW t \in Tasks, status'[t] = "Running"
               PROVE  \E g \in Harts : Holds(g, t)'
    BY DEF RunningIsHeld
  <2>1. CASE Holds(h, t)'
    BY <2>1
  <2>2. CASE status[t] = "Running" /\ ~Holds(h, t)
    <3>1. PICK g \in Harts : Holds(g, t)
      BY <2>2 DEF Inv, RunningIsHeld
    <3> QED
      BY <1>1, <2>2, <3>1
  <2> QED
    BY <2>1, <2>2 DEF KeepsRunning
<1> QED
  BY <1>3, <1>4, <1>5, <1>6, <1>7, <1>8 DEF Inv

\* The same for a step that changes neither a TCB nor what the hart holds.
LEMMA QuietStepInv ==
    ASSUME Inv, NEW h \in Harts,
           TaskTypeOK', HartTypeOK', LocalTypeOK', OthersKept(h), SlotsAgree(h)',
           UNCHANGED <<status, on_cpu, on_rq, entries>>,
           \A t \in Tasks :
               /\ Executes(h, t)' <=> Executes(h, t)
               /\ Reserves(h, t)' <=> Reserves(h, t)
               /\ WillEnqueue(h, t) /\ status[t] = "Ready" => WillEnqueue(h, t)' \/ on_rq[t]
    PROVE  Inv'
<1>1. \A t \in Tasks : Holds(h, t)' <=> Holds(h, t)
  BY DEF Holds, Executes, Reserves
<1>2. OwnershipAgrees(h)' /\ QueueSound'
  BY DEF Inv, OwnershipAgrees, QueueSound
<1>3. \A t \in Tasks : Exits(h, t) => on_cpu'[t]
  BY DEF Exits, Inv, OwnershipAgrees, Executes
<1>4. OwnTasksOnly(h) /\ ReleasesProperly(h) /\ KeepsReady(h) /\ KeepsRunning(h)
  BY <1>1, <1>3 DEF OwnTasksOnly, ReleasesProperly, KeepsReady, KeepsRunning
<1> QED
  BY <1>2, <1>4, LocalStepInv DEF LocalStep

-----------------------------------------------------------------------------
\* What the invariant says about hart h on its own.
HartFacts(h) ==
    /\ TaskTypeOK /\ HartTypeOK /\ LocalTypeOK
    /\ SlotsAgree(h) /\ OwnershipAgrees(h) /\ QueueSound

LEMMA InvHartFacts == ASSUME Inv, NEW h \in Harts PROVE HartFacts(h)
BY DEF Inv, HartFacts

\* A hart in kernel code owns the task whose stack it uses, and that task is not
\* queued.
LEMMA StackOwner ==
    ASSUME NEW h \in Harts, Inv, InTask(h)
    PROVE  /\ HartFacts(h)
           /\ stack[h] \in Tasks /\ on_cpu[stack[h]] /\ ~on_rq[stack[h]]
           /\ status[stack[h]] # "Unborn"
BY DEF Inv, HartFacts, SlotsAgree, OwnershipAgrees, Executes, QueueSound, OnCpuIsExecuted

\* Where an operation has an operand, the operand is a task.
LEMMA OperandIsTask ==
    ASSUME NEW h \in Harts, Inv,
           pc[h] \in Calls \cup Dispatching \cup {"finish", "finish2", "requeue",
                        "aff_load", "aff_store", "aff_test", "aff_ipi"}
    PROVE  HartFacts(h) /\ arg[h] \in Tasks
BY DEF Inv, HartFacts, SlotsAgree

\* A reserved task is Running, off the CPU and out of the queue, and its hart has
\* no other task.
LEMMA ReservedTask ==
    ASSUME NEW h \in Harts, Inv, pc[h] \in Dispatching
    PROVE  /\ HartFacts(h) /\ arg[h] \in Tasks
           /\ status[arg[h]] = "Running" /\ ~on_cpu[arg[h]] /\ ~on_rq[arg[h]]
           /\ current[h] \notin Tasks /\ stack[h] \notin Tasks
<1>1. HartFacts(h) /\ arg[h] \in Tasks
  BY OperandIsTask
<1>2. status[arg[h]] = "Running" /\ ~on_cpu[arg[h]] /\ ~on_rq[arg[h]]
  BY <1>1 DEF HartFacts, OwnershipAgrees, Reserves, QueueSound
<1>3. current[h] \notin Tasks /\ stack[h] \notin Tasks
  BY <1>1, SchedulerAssumption
     DEF HartFacts, SlotsAgree, InTask, At, TaskPCs, LoopPCs, Calls, Dispatching
<1> QED
  BY <1>1, <1>2, <1>3

\* Zero is a hart and a loop index.
LEMMA ZeroInRange == 0 \in Harts /\ 0 \in 0 .. HartCount
BY SchedulerAssumption, SMT DEF Harts

-----------------------------------------------------------------------------
\* The actions.  Every proof below reads off where the hart is and what its
\* slots hold.
USE SchedulerAssumption
    DEF HartFacts, TaskPCs, Calls, LoopPCs, Dispatching, Goto, Does, Exits, locals, tcbVars

\* A cooperative suspension keeps the task with its hart.
LEMMA SuspendCurrentInv ==
    ASSUME NEW h \in Harts, Inv, SuspendCurrent(h)
    PROVE  Inv'
<1> USE DEF SuspendCurrent, Suspend
<1>0. /\ HartFacts(h)
      /\ stack[h] \in Tasks /\ on_cpu[stack[h]] /\ ~on_rq[stack[h]]
      /\ status[stack[h]] # "Unborn"
  BY StackOwner DEF InTask, At
<1>1. TaskTypeOK' /\ HartTypeOK' /\ LocalTypeOK'
  BY <1>0, ZeroInRange DEF TaskTypeOK, HartTypeOK, LocalTypeOK, Statuses, Asleep
<1>2. OthersKept(h) /\ SlotsAgree(h)'
  BY <1>0, SMT DEF TaskTypeOK, HartTypeOK, OthersKept, SlotsAgree, InTask, At
<1>3. OwnershipAgrees(h)' /\ OwnTasksOnly(h) /\ ReleasesProperly(h)
  BY <1>0, SMT DEF TaskTypeOK, HartTypeOK, OwnershipAgrees, OwnTasksOnly, ReleasesProperly,
     Holds, Executes, Reserves, SlotsAgree, InTask, At
<1>4. QueueSound' /\ KeepsReady(h) /\ KeepsRunning(h)
  BY <1>0 DEF TaskTypeOK, HartTypeOK, QueueSound, KeepsReady, KeepsRunning, WillEnqueue,
     Holds, SlotsAgree, InTask, At
<1> QED
  BY <1>1, <1>2, <1>3, <1>4, LocalStepInv DEF LocalStep

\* So does a timer preemption.
LEMMA PreemptInv ==
    ASSUME NEW h \in Harts, Inv, Preempt(h)
    PROVE  Inv'
<1> USE DEF Preempt, Suspend
<1>0. /\ HartFacts(h)
      /\ stack[h] \in Tasks /\ on_cpu[stack[h]] /\ ~on_rq[stack[h]]
      /\ status[stack[h]] # "Unborn"
  BY StackOwner DEF InTask, At
<1>1. TaskTypeOK' /\ HartTypeOK' /\ LocalTypeOK'
  BY <1>0, ZeroInRange DEF TaskTypeOK, HartTypeOK, LocalTypeOK, Statuses, Asleep
<1>2. OthersKept(h) /\ SlotsAgree(h)'
  BY <1>0, SMT DEF TaskTypeOK, HartTypeOK, OthersKept, SlotsAgree, InTask, At
<1>3. OwnershipAgrees(h)' /\ OwnTasksOnly(h) /\ ReleasesProperly(h)
  BY <1>0 DEF TaskTypeOK, HartTypeOK, OwnershipAgrees, OwnTasksOnly, ReleasesProperly,
     Holds, Executes, Reserves, SlotsAgree, InTask, At
<1>4. QueueSound' /\ KeepsReady(h) /\ KeepsRunning(h)
  BY <1>0, SMT DEF TaskTypeOK, HartTypeOK, QueueSound, KeepsReady, KeepsRunning, WillEnqueue,
     Holds, SlotsAgree, InTask, At
<1> QED
  BY <1>1, <1>2, <1>3, <1>4, LocalStepInv DEF LocalStep

\* So does the software interrupt, whether or not the task migrates.
LEMMA IpiTrapInv ==
    ASSUME NEW h \in Harts, Inv, IpiTrap(h)
    PROVE  Inv'
<1> USE DEF IpiTrap, Suspend
<1>0. /\ HartFacts(h)
      /\ stack[h] \in Tasks /\ on_cpu[stack[h]] /\ ~on_rq[stack[h]]
      /\ status[stack[h]] # "Unborn"
  BY StackOwner DEF InTask, At
<1>1. TaskTypeOK' /\ HartTypeOK' /\ LocalTypeOK'
  <2>1. TaskTypeOK'
    BY <1>0 DEF TaskTypeOK, Statuses, Asleep
  <2>2. HartTypeOK'
    BY <1>0, SMT DEF HartTypeOK
  <2>3. LocalTypeOK'
    BY <1>0, ZeroInRange DEF TaskTypeOK, LocalTypeOK
  <2> QED
    BY <2>1, <2>2, <2>3
<1>2. OthersKept(h) /\ SlotsAgree(h)'
  BY <1>0, SMTT(30) DEF TaskTypeOK, HartTypeOK, OthersKept, SlotsAgree, InTask, At
<1>3. OwnershipAgrees(h)' /\ OwnTasksOnly(h) /\ ReleasesProperly(h)
  BY <1>0, SMT DEF TaskTypeOK, HartTypeOK, OwnershipAgrees, OwnTasksOnly, ReleasesProperly,
     Holds, Executes, Reserves, SlotsAgree, InTask, At
<1>4. QueueSound' /\ KeepsReady(h) /\ KeepsRunning(h)
  <2>1. CASE scheduled_hart[stack[h]] # h
    BY <1>0, <2>1, SMTT(30) DEF TaskTypeOK, HartTypeOK, QueueSound, KeepsReady, KeepsRunning,
       WillEnqueue, Holds, SlotsAgree, InTask, At
  <2>2. CASE ~(scheduled_hart[stack[h]] # h)
    BY <1>0, <2>2, SMT DEF TaskTypeOK, HartTypeOK, QueueSound, KeepsReady, KeepsRunning,
       WillEnqueue, Holds, SlotsAgree, InTask, At
  <2> QED
    BY <2>1, <2>2
<1> QED
  BY <1>1, <1>2, <1>3, <1>4, LocalStepInv DEF LocalStep

\* Publishing Blocked leaves the task on its CPU.
LEMMA PublishBlockedInv ==
    ASSUME NEW h \in Harts, Inv, PublishBlocked(h)
    PROVE  Inv'
<1> USE DEF PublishBlocked
<1>0. /\ HartFacts(h)
      /\ stack[h] \in Tasks /\ on_cpu[stack[h]] /\ ~on_rq[stack[h]]
      /\ status[stack[h]] # "Unborn"
  BY StackOwner DEF InTask, At
<1>1. TaskTypeOK' /\ HartTypeOK' /\ LocalTypeOK'
  BY <1>0, ZeroInRange DEF TaskTypeOK, HartTypeOK, LocalTypeOK, Statuses, Asleep
<1>2. OthersKept(h) /\ SlotsAgree(h)'
  BY <1>0, SMT DEF TaskTypeOK, HartTypeOK, OthersKept, SlotsAgree, InTask, At
<1>3. OwnershipAgrees(h)' /\ OwnTasksOnly(h) /\ ReleasesProperly(h)
  BY <1>0 DEF TaskTypeOK, HartTypeOK, OwnershipAgrees, OwnTasksOnly, ReleasesProperly,
     Holds, Executes, Reserves, SlotsAgree, InTask, At
<1>4. QueueSound' /\ KeepsReady(h) /\ KeepsRunning(h)
  BY <1>0, SMT DEF TaskTypeOK, HartTypeOK, QueueSound, KeepsReady, KeepsRunning, WillEnqueue,
     Holds, SlotsAgree, InTask, At
<1> QED
  BY <1>1, <1>2, <1>3, <1>4, LocalStepInv DEF LocalStep

\* So does taking the publication back.
LEMMA RevokeBlockedInv ==
    ASSUME NEW h \in Harts, Inv, RevokeBlocked(h)
    PROVE  Inv'
<1> USE DEF RevokeBlocked
<1>0. /\ HartFacts(h)
      /\ stack[h] \in Tasks /\ on_cpu[stack[h]] /\ ~on_rq[stack[h]]
      /\ status[stack[h]] # "Unborn"
  BY StackOwner DEF InTask, At
<1>1. TaskTypeOK' /\ HartTypeOK' /\ LocalTypeOK'
  BY <1>0, ZeroInRange DEF TaskTypeOK, HartTypeOK, LocalTypeOK, Statuses, Asleep
<1>2. OthersKept(h) /\ SlotsAgree(h)'
  BY <1>0 DEF TaskTypeOK, HartTypeOK, OthersKept, SlotsAgree, InTask, At
<1>3. OwnershipAgrees(h)' /\ OwnTasksOnly(h) /\ ReleasesProperly(h)
  BY <1>0, SMT DEF TaskTypeOK, HartTypeOK, OwnershipAgrees, OwnTasksOnly, ReleasesProperly,
     Holds, Executes, Reserves, SlotsAgree, InTask, At
<1>4. QueueSound' /\ KeepsReady(h) /\ KeepsRunning(h)
  BY <1>0, SMT DEF TaskTypeOK, HartTypeOK, QueueSound, KeepsReady, KeepsRunning, WillEnqueue,
     Holds, SlotsAgree, InTask, At
<1> QED
  BY <1>1, <1>2, <1>3, <1>4, LocalStepInv DEF LocalStep

\* Committing to the switch changes only the location.
LEMMA CommitBlockedInv ==
    ASSUME NEW h \in Harts, Inv, CommitBlocked(h)
    PROVE  Inv'
<1> USE DEF CommitBlocked
<1>0. /\ HartFacts(h)
      /\ stack[h] \in Tasks /\ on_cpu[stack[h]] /\ ~on_rq[stack[h]]
      /\ status[stack[h]] # "Unborn"
  BY StackOwner DEF InTask, At
<1>1. TaskTypeOK' /\ HartTypeOK' /\ LocalTypeOK'
  BY <1>0, ZeroInRange DEF TaskTypeOK, HartTypeOK, LocalTypeOK, Statuses, Asleep
<1>2. OthersKept(h) /\ SlotsAgree(h)'
  BY <1>0 DEF TaskTypeOK, HartTypeOK, OthersKept, SlotsAgree, InTask, At
<1>3. \A t \in Tasks :
          /\ Executes(h, t)' <=> Executes(h, t)
          /\ Reserves(h, t)' <=> Reserves(h, t)
          /\ WillEnqueue(h, t) /\ status[t] = "Ready" => WillEnqueue(h, t)' \/ on_rq[t]
  BY <1>0 DEF HartTypeOK, Executes, Reserves, WillEnqueue
<1> QED
  BY <1>1, <1>2, <1>3, QuietStepInv

\* A stopped task is still on its CPU.
LEMMA StopCurrentInv ==
    ASSUME NEW h \in Harts, Inv, StopCurrent(h)
    PROVE  Inv'
<1> USE DEF StopCurrent
<1>0. /\ HartFacts(h)
      /\ stack[h] \in Tasks /\ on_cpu[stack[h]] /\ ~on_rq[stack[h]]
      /\ status[stack[h]] # "Unborn"
  BY StackOwner DEF InTask, At
<1>1. TaskTypeOK' /\ HartTypeOK' /\ LocalTypeOK'
  BY <1>0, ZeroInRange DEF TaskTypeOK, HartTypeOK, LocalTypeOK, Statuses, Asleep
<1>2. OthersKept(h) /\ SlotsAgree(h)'
  BY <1>0, SMT DEF TaskTypeOK, HartTypeOK, OthersKept, SlotsAgree, InTask, At
<1>3. OwnershipAgrees(h)' /\ OwnTasksOnly(h) /\ ReleasesProperly(h)
  BY <1>0 DEF TaskTypeOK, HartTypeOK, OwnershipAgrees, OwnTasksOnly, ReleasesProperly,
     Holds, Executes, Reserves, SlotsAgree, InTask, At
<1>4. QueueSound' /\ KeepsReady(h) /\ KeepsRunning(h)
  BY <1>0, SMT DEF TaskTypeOK, HartTypeOK, QueueSound, KeepsReady, KeepsRunning, WillEnqueue,
     Holds, SlotsAgree, InTask, At
<1> QED
  BY <1>1, <1>2, <1>3, <1>4, LocalStepInv DEF LocalStep

\* The child is the caller's to enqueue, and nobody holds it.
LEMMA CloneInv ==
    ASSUME NEW h \in Harts, NEW u \in Tasks, NEW kind \in {"thread", "fork", "vfork"}, Inv, Clone(h, u, kind)
    PROVE  Inv'
<1> USE DEF Clone
<1>0. /\ HartFacts(h)
      /\ stack[h] \in Tasks /\ on_cpu[stack[h]] /\ ~on_rq[stack[h]]
      /\ status[stack[h]] # "Unborn"
  BY StackOwner DEF InTask, At
<1>1. TaskTypeOK' /\ HartTypeOK' /\ LocalTypeOK'
  <2>1. TaskTypeOK'
    BY <1>0, SMTT(30) DEF TaskTypeOK, Statuses, Asleep
  <2>2. HartTypeOK'
    BY <1>0, SMTT(30) DEF HartTypeOK
  <2>3. LocalTypeOK'
    BY <1>0 DEF LocalTypeOK
  <2> QED
    BY <2>1, <2>2, <2>3
<1>2. OthersKept(h) /\ SlotsAgree(h)'
  BY <1>0, SMTT(30) DEF TaskTypeOK, HartTypeOK, OthersKept, SlotsAgree, InTask, At
<1>3. OwnershipAgrees(h)' /\ OwnTasksOnly(h) /\ ReleasesProperly(h)
  BY <1>0, SMTT(30) DEF TaskTypeOK, HartTypeOK, OwnershipAgrees, OwnTasksOnly, ReleasesProperly,
     Holds, Executes, Reserves, SlotsAgree, InTask, At
<1>4. QueueSound' /\ KeepsReady(h) /\ KeepsRunning(h)
  BY <1>0, SMT DEF TaskTypeOK, HartTypeOK, QueueSound, KeepsReady, KeepsRunning, WillEnqueue,
     Holds, SlotsAgree, InTask, At
<1> QED
  BY <1>1, <1>2, <1>3, <1>4, LocalStepInv DEF LocalStep

\* A system call suspends its caller like any other task.
LEMMA SuspendInCallInv ==
    ASSUME NEW h \in Harts, Inv, SuspendInCall(h)
    PROVE  Inv'
<1> USE DEF SuspendInCall, Suspend
<1>0. /\ HartFacts(h)
      /\ stack[h] \in Tasks /\ on_cpu[stack[h]] /\ ~on_rq[stack[h]]
      /\ status[stack[h]] # "Unborn"
  BY StackOwner DEF InTask, At
<1>1. TaskTypeOK' /\ HartTypeOK' /\ LocalTypeOK'
  BY <1>0, ZeroInRange DEF TaskTypeOK, HartTypeOK, LocalTypeOK, Statuses, Asleep
<1>2. OthersKept(h) /\ SlotsAgree(h)'
  BY <1>0, SMT DEF TaskTypeOK, HartTypeOK, OthersKept, SlotsAgree, InTask, At
<1>3. OwnershipAgrees(h)' /\ OwnTasksOnly(h) /\ ReleasesProperly(h)
  BY <1>0 DEF TaskTypeOK, HartTypeOK, OwnershipAgrees, OwnTasksOnly, ReleasesProperly,
     Holds, Executes, Reserves, SlotsAgree, InTask, At
<1>4. QueueSound' /\ KeepsReady(h) /\ KeepsRunning(h)
  BY <1>0 DEF TaskTypeOK, HartTypeOK, QueueSound, KeepsReady, KeepsRunning, WillEnqueue,
     Holds, SlotsAgree, InTask, At
<1> QED
  BY <1>1, <1>2, <1>3, <1>4, LocalStepInv DEF LocalStep

\* A caller that finds itself killed changes nothing yet.
LEMMA LeaveInCallInv ==
    ASSUME NEW h \in Harts, Inv, LeaveInCall(h)
    PROVE  Inv'
<1> USE DEF LeaveInCall
<1>0. /\ HartFacts(h)
      /\ stack[h] \in Tasks /\ on_cpu[stack[h]] /\ ~on_rq[stack[h]]
      /\ status[stack[h]] # "Unborn"
  BY StackOwner DEF InTask, At
<1>1. TaskTypeOK' /\ HartTypeOK' /\ LocalTypeOK'
  BY <1>0, ZeroInRange DEF TaskTypeOK, HartTypeOK, LocalTypeOK, Statuses, Asleep
<1>2. OthersKept(h) /\ SlotsAgree(h)'
  BY <1>0 DEF TaskTypeOK, HartTypeOK, OthersKept, SlotsAgree, InTask, At
<1>3. OwnershipAgrees(h)' /\ OwnTasksOnly(h) /\ ReleasesProperly(h)
  BY <1>0, SMT DEF TaskTypeOK, HartTypeOK, OwnershipAgrees, OwnTasksOnly, ReleasesProperly,
     Holds, Executes, Reserves, SlotsAgree, InTask, At
<1>4. QueueSound' /\ KeepsReady(h) /\ KeepsRunning(h)
  BY <1>0 DEF TaskTypeOK, HartTypeOK, QueueSound, KeepsReady, KeepsRunning, WillEnqueue,
     Holds, SlotsAgree, InTask, At
<1> QED
  BY <1>1, <1>2, <1>3, <1>4, LocalStepInv DEF LocalStep

\* An exiting task leaves the current slot but keeps its stack.
LEMMA ExitInv ==
    ASSUME NEW h \in Harts, Inv, Exit(h)
    PROVE  Inv'
<1> USE DEF Exit, TakeForExit
<1>0. /\ HartFacts(h)
      /\ stack[h] \in Tasks /\ on_cpu[stack[h]] /\ ~on_rq[stack[h]]
      /\ status[stack[h]] # "Unborn"
  BY StackOwner DEF InTask, At
<1>1. TaskTypeOK' /\ HartTypeOK' /\ LocalTypeOK'
  BY <1>0, ZeroInRange DEF TaskTypeOK, HartTypeOK, LocalTypeOK, Statuses, Asleep
<1>2. OthersKept(h) /\ SlotsAgree(h)'
  BY <1>0 DEF TaskTypeOK, HartTypeOK, OthersKept, SlotsAgree, InTask, At
<1>3. OwnershipAgrees(h)' /\ OwnTasksOnly(h) /\ ReleasesProperly(h)
  BY <1>0, SMT DEF TaskTypeOK, HartTypeOK, OwnershipAgrees, OwnTasksOnly, ReleasesProperly,
     Holds, Executes, Reserves, SlotsAgree, InTask, At
<1>4. QueueSound' /\ KeepsReady(h) /\ KeepsRunning(h)
  BY <1>0 DEF TaskTypeOK, HartTypeOK, QueueSound, KeepsReady, KeepsRunning, WillEnqueue,
     Holds, SlotsAgree, InTask, At
<1> QED
  BY <1>1, <1>2, <1>3, <1>4, LocalStepInv DEF LocalStep

\* So does one that exits in a system call, whatever its status.
LEMMA ExitInCallInv ==
    ASSUME NEW h \in Harts, Inv, ExitInCall(h)
    PROVE  Inv'
<1> USE DEF ExitInCall, TakeForExit
<1>0. /\ HartFacts(h)
      /\ stack[h] \in Tasks /\ on_cpu[stack[h]] /\ ~on_rq[stack[h]]
      /\ status[stack[h]] # "Unborn"
  BY StackOwner DEF InTask, At
<1>1. TaskTypeOK' /\ HartTypeOK' /\ LocalTypeOK'
  BY <1>0, ZeroInRange DEF TaskTypeOK, HartTypeOK, LocalTypeOK, Statuses, Asleep
<1>2. OthersKept(h) /\ SlotsAgree(h)'
  BY <1>0 DEF TaskTypeOK, HartTypeOK, OthersKept, SlotsAgree, InTask, At
<1>3. OwnershipAgrees(h)' /\ OwnTasksOnly(h) /\ ReleasesProperly(h)
  BY <1>0, SMT DEF TaskTypeOK, HartTypeOK, OwnershipAgrees, OwnTasksOnly, ReleasesProperly,
     Holds, Executes, Reserves, SlotsAgree, InTask, At
<1>4. QueueSound' /\ KeepsReady(h) /\ KeepsRunning(h)
  BY <1>0 DEF TaskTypeOK, HartTypeOK, QueueSound, KeepsReady, KeepsRunning, WillEnqueue,
     Holds, SlotsAgree, InTask, At
<1> QED
  BY <1>1, <1>2, <1>3, <1>4, LocalStepInv DEF LocalStep

\* A Zombie is not Running any more and needs no queueing.
LEMMA PublishZombieInv ==
    ASSUME NEW h \in Harts, Inv, PublishZombie(h)
    PROVE  Inv'
<1> USE DEF PublishZombie
<1>0. /\ HartFacts(h)
      /\ stack[h] \in Tasks /\ on_cpu[stack[h]] /\ ~on_rq[stack[h]]
      /\ status[stack[h]] # "Unborn"
  BY StackOwner DEF InTask, At
<1>1. TaskTypeOK' /\ HartTypeOK' /\ LocalTypeOK'
  BY <1>0, ZeroInRange DEF TaskTypeOK, HartTypeOK, LocalTypeOK, Statuses, Asleep
<1>2. OthersKept(h) /\ SlotsAgree(h)'
  BY <1>0 DEF TaskTypeOK, HartTypeOK, OthersKept, SlotsAgree, InTask, At
<1>3. OwnershipAgrees(h)' /\ OwnTasksOnly(h) /\ ReleasesProperly(h)
  BY <1>0, SMT DEF TaskTypeOK, HartTypeOK, OwnershipAgrees, OwnTasksOnly, ReleasesProperly,
     Holds, Executes, Reserves, SlotsAgree, InTask, At
<1>4. QueueSound' /\ KeepsReady(h) /\ KeepsRunning(h)
  BY <1>0, SMT DEF TaskTypeOK, HartTypeOK, QueueSound, KeepsReady, KeepsRunning, WillEnqueue,
     Holds, SlotsAgree, InTask, At
<1> QED
  BY <1>1, <1>2, <1>3, <1>4, LocalStepInv DEF LocalStep

\* abandon() lets go of a Zombie.
LEMMA AbandonInv ==
    ASSUME NEW h \in Harts, Inv, Abandon(h)
    PROVE  Inv'
<1> USE DEF Abandon
<1>0. /\ HartFacts(h)
      /\ stack[h] \in Tasks /\ on_cpu[stack[h]] /\ ~on_rq[stack[h]]
      /\ status[stack[h]] # "Unborn"
  BY StackOwner DEF InTask, At
<1>1. TaskTypeOK' /\ HartTypeOK' /\ LocalTypeOK'
  BY <1>0, ZeroInRange DEF TaskTypeOK, HartTypeOK, LocalTypeOK, Statuses, Asleep
<1>2. OthersKept(h) /\ SlotsAgree(h)'
  BY <1>0 DEF TaskTypeOK, HartTypeOK, OthersKept, SlotsAgree, InTask, At
<1>3. OwnershipAgrees(h)' /\ OwnTasksOnly(h) /\ ReleasesProperly(h)
  BY <1>0, SMT DEF TaskTypeOK, HartTypeOK, OwnershipAgrees, OwnTasksOnly, ReleasesProperly,
     Holds, Executes, Reserves, SlotsAgree, InTask, At
<1>4. QueueSound' /\ KeepsReady(h) /\ KeepsRunning(h)
  BY <1>0 DEF TaskTypeOK, HartTypeOK, QueueSound, KeepsReady, KeepsRunning, WillEnqueue,
     Holds, SlotsAgree, InTask, At
<1> QED
  BY <1>1, <1>2, <1>3, <1>4, LocalStepInv DEF LocalStep

\* The waker takes charge of enqueueing the task it makes Ready.
LEMMA MakeReadyInv ==
    ASSUME NEW h \in Harts, NEW u \in Tasks, Inv, MakeReady(h, u)
    PROVE  Inv'
<1> USE DEF MakeReady, Asleep
<1>0. HartFacts(h)
  BY InvHartFacts
<1>1. TaskTypeOK' /\ HartTypeOK' /\ LocalTypeOK'
  BY <1>0, ZeroInRange DEF TaskTypeOK, HartTypeOK, LocalTypeOK, Statuses, Asleep
<1>2. OthersKept(h) /\ SlotsAgree(h)'
  BY <1>0, SMT DEF TaskTypeOK, HartTypeOK, OthersKept, SlotsAgree, InTask, At
<1>3. OwnershipAgrees(h)' /\ OwnTasksOnly(h) /\ ReleasesProperly(h)
  BY <1>0 DEF TaskTypeOK, HartTypeOK, OwnershipAgrees, OwnTasksOnly, ReleasesProperly,
     Holds, Executes, Reserves, SlotsAgree, InTask, At
<1>4. QueueSound' /\ KeepsReady(h) /\ KeepsRunning(h)
  <2>1. \A t \in Tasks : Exits(h, t) => on_cpu[t]
    BY <1>0 DEF OwnershipAgrees, Executes
  <2>2. QueueSound' /\ KeepsRunning(h)
    BY <1>0, SMT DEF TaskTypeOK, HartTypeOK, QueueSound, KeepsRunning, Holds, SlotsAgree,
       InTask, At
  <2>3. KeepsReady(h)
    <3> HIDE DEF Exits
    <3> QED
      BY <1>0, <2>1, SMT DEF TaskTypeOK, HartTypeOK, QueueSound, KeepsReady, WillEnqueue,
         SlotsAgree, InTask, At
  <2> QED
    BY <2>2, <2>3
<1> QED
  BY <1>1, <1>2, <1>3, <1>4, LocalStepInv DEF LocalStep

\* add_task queues the task, or on_cpu or on_rq says who will.
LEMMA AddTaskInv ==
    ASSUME NEW h \in Harts, Inv, AddTask(h)
    PROVE  Inv'
<1> USE DEF AddTask, Enqueues, Push, Return
<1>0. HartFacts(h) /\ arg[h] \in Tasks
  BY OperandIsTask
<1>1. TaskTypeOK' /\ HartTypeOK' /\ LocalTypeOK'
  <2>1. TaskTypeOK'
    <3>1. CASE Enqueues(arg[h])
      <4>1. entries[arg[h]] + 1 \in Nat
        BY <1>0, SMT DEF TaskTypeOK
      <4>2. /\ on_rq' = [on_rq EXCEPT ![arg[h]] = TRUE]
            /\ entries' = [entries EXCEPT ![arg[h]] = @ + 1]
            /\ UNCHANGED <<status, cpu_affinity, scheduled_hart, on_cpu>>
        BY <3>1
      <4> QED
        BY <1>0, <4>1, <4>2 DEF TaskTypeOK
    <3>2. CASE ~Enqueues(arg[h])
      BY <1>0, <3>2 DEF TaskTypeOK
    <3> QED
      BY <3>1, <3>2
  <2>2. HartTypeOK'
    BY <1>0, SMT DEF HartTypeOK
  <2>3. LocalTypeOK'
    BY <1>0, ZeroInRange, SMTT(30) DEF LocalTypeOK
  <2> QED
    BY <2>1, <2>2, <2>3
<1>2. OthersKept(h) /\ SlotsAgree(h)'
  BY <1>0, SMTT(30) DEF TaskTypeOK, HartTypeOK, OthersKept, SlotsAgree, InTask, At
<1>3. OwnershipAgrees(h)' /\ OwnTasksOnly(h) /\ ReleasesProperly(h)
  BY <1>0, SMT DEF TaskTypeOK, HartTypeOK, OwnershipAgrees, OwnTasksOnly, ReleasesProperly,
     Holds, Executes, Reserves, SlotsAgree, InTask, At
<1>4. QueueSound' /\ KeepsReady(h) /\ KeepsRunning(h)
  <2>0. \A t \in Tasks : Exits(h, t) => on_cpu[t]
    BY <1>0 DEF OwnershipAgrees, Executes
  <2> HIDE DEF Exits
  <2>1. CASE Enqueues(arg[h])
    <3>1. QueueSound' /\ KeepsRunning(h)
      BY <1>0, <2>1, SMTT(30) DEF TaskTypeOK, HartTypeOK, QueueSound, KeepsRunning, Holds,
         SlotsAgree, InTask, At
    <3>2. KeepsReady(h)
      BY <1>0, <2>0, <2>1, SMTT(30) DEF TaskTypeOK, HartTypeOK, QueueSound, KeepsReady,
         WillEnqueue, SlotsAgree, InTask, At
    <3> QED
      BY <3>1, <3>2
  <2>2. CASE ~(Enqueues(arg[h]))
    <3>1. QueueSound' /\ KeepsRunning(h)
      BY <1>0, <2>2, SMTT(30) DEF TaskTypeOK, HartTypeOK, QueueSound, KeepsRunning, Holds,
         SlotsAgree, InTask, At
    <3>2. KeepsReady(h)
      BY <1>0, <2>0, <2>2, SMTT(30) DEF TaskTypeOK, HartTypeOK, QueueSound, KeepsReady,
         WillEnqueue, SlotsAgree, InTask, At
    <3> QED
      BY <3>1, <3>2
  <2> QED
    BY <2>1, <2>2
<1> QED
  BY <1>1, <1>2, <1>3, <1>4, LocalStepInv DEF LocalStep

\* Reading the affinity mask changes nothing shared.
LEMMA ReadMaskInv ==
    ASSUME NEW h \in Harts, Inv, ReadMask(h)
    PROVE  Inv'
<1> USE DEF ReadMask
<1>0. HartFacts(h) /\ arg[h] \in Tasks
  BY OperandIsTask
<1>1. TaskTypeOK' /\ HartTypeOK' /\ LocalTypeOK'
  BY <1>0, ZeroInRange, SMT DEF TaskTypeOK, HartTypeOK, LocalTypeOK, Statuses, Asleep
<1>2. OthersKept(h) /\ SlotsAgree(h)'
  BY <1>0 DEF TaskTypeOK, HartTypeOK, OthersKept, SlotsAgree, InTask, At
<1>3. \A t \in Tasks :
          /\ Executes(h, t)' <=> Executes(h, t)
          /\ Reserves(h, t)' <=> Reserves(h, t)
          /\ WillEnqueue(h, t) /\ status[t] = "Ready" => WillEnqueue(h, t)' \/ on_rq[t]
  BY <1>0 DEF HartTypeOK, Executes, Reserves, WillEnqueue
<1> QED
  BY <1>1, <1>2, <1>3, QuietStepInv

\* Nor does a notification.
LEMMA NotifyInv ==
    ASSUME NEW h \in Harts, Inv, Notify(h)
    PROVE  Inv'
<1> USE DEF Notify, Return, MoreTargets
<1>0. HartFacts(h) /\ arg[h] \in Tasks
  BY OperandIsTask
<1>1. TaskTypeOK' /\ HartTypeOK' /\ LocalTypeOK'
  <2>1. TaskTypeOK'
    BY <1>0 DEF TaskTypeOK, Statuses, Asleep
  <2>2. HartTypeOK'
    BY <1>0, SMT DEF HartTypeOK
  <2>3. LocalTypeOK'
    <3>1. MoreTargets(h) => target[h] + 1 \in 0 .. HartCount
      BY SMTT(30) DEF Harts
    <3>2. CASE MoreTargets(h)
      <4>0. ipi' = ipi \/ ipi' = [ipi EXCEPT ![target[h]] = TRUE]
        BY <3>2
      <4>1. ipi' \in [Harts -> BOOLEAN]
        BY <4>0 DEF Inv, LocalTypeOK
      <4> QED
        BY <1>0, <3>1, <3>2, <4>1, SMT DEF LocalTypeOK
    <3>3. CASE ~MoreTargets(h)
      BY <1>0, <3>3, ZeroInRange, SMTT(30) DEF LocalTypeOK
    <3> QED
      BY <3>2, <3>3
  <2> QED
    BY <2>1, <2>2, <2>3
<1>2. OthersKept(h) /\ SlotsAgree(h)'
  BY <1>0, SMT DEF TaskTypeOK, HartTypeOK, OthersKept, SlotsAgree, InTask, At
<1>3. \A t \in Tasks :
          /\ Executes(h, t)' <=> Executes(h, t)
          /\ Reserves(h, t)' <=> Reserves(h, t)
          /\ WillEnqueue(h, t) /\ status[t] = "Ready" => WillEnqueue(h, t)' \/ on_rq[t]
  <2>1. /\ pc[h] = "notify" /\ pc'[h] \in {"notify", ret[h]}
        /\ ret[h] \in {"run", "suspend", "leaving", "exiting", "zombie", "aff_ipi", "loop"}
        /\ current'[h] = current[h] /\ stack'[h] = stack[h]
    BY <1>0, SMT DEF HartTypeOK
  <2> QED
    BY <2>1 DEF Executes, Reserves, WillEnqueue
<1> QED
  BY <1>1, <1>2, <1>3, QuietStepInv

\* Nor does storing a mask.
LEMMA SetAffinityInv ==
    ASSUME NEW h \in Harts, NEW u \in Tasks, NEW m \in Masks, Inv, SetAffinity(h, u, m)
    PROVE  Inv'
<1> USE DEF SetAffinity
<1>0. /\ HartFacts(h)
      /\ stack[h] \in Tasks /\ on_cpu[stack[h]] /\ ~on_rq[stack[h]]
      /\ status[stack[h]] # "Unborn"
  BY StackOwner DEF InTask, At
<1>1. TaskTypeOK' /\ HartTypeOK' /\ LocalTypeOK'
  BY <1>0, ZeroInRange DEF TaskTypeOK, HartTypeOK, LocalTypeOK, Statuses, Asleep
<1>2. OthersKept(h) /\ SlotsAgree(h)'
  BY <1>0, SMT DEF TaskTypeOK, HartTypeOK, OthersKept, SlotsAgree, InTask, At
<1>3. \A t \in Tasks :
          /\ Executes(h, t)' <=> Executes(h, t)
          /\ Reserves(h, t)' <=> Reserves(h, t)
          /\ WillEnqueue(h, t) /\ status[t] = "Ready" => WillEnqueue(h, t)' \/ on_rq[t]
  BY <1>0 DEF HartTypeOK, Executes, Reserves, WillEnqueue
<1> QED
  BY <1>1, <1>2, <1>3, QuietStepInv

\* Nor does reading the placement.
LEMMA AffLoadInv ==
    ASSUME NEW h \in Harts, Inv, AffLoad(h)
    PROVE  Inv'
<1> USE DEF AffLoad
<1>0. /\ HartFacts(h) /\ arg[h] \in Tasks
      /\ stack[h] \in Tasks /\ on_cpu[stack[h]] /\ ~on_rq[stack[h]]
      /\ status[stack[h]] # "Unborn"
  BY StackOwner, OperandIsTask DEF InTask, At
<1>1. TaskTypeOK' /\ HartTypeOK' /\ LocalTypeOK'
  BY <1>0, ZeroInRange, SMT DEF TaskTypeOK, HartTypeOK, LocalTypeOK, Statuses, Asleep
<1>2. OthersKept(h) /\ SlotsAgree(h)'
  BY <1>0 DEF TaskTypeOK, HartTypeOK, OthersKept, SlotsAgree, InTask, At
<1>3. \A t \in Tasks :
          /\ Executes(h, t)' <=> Executes(h, t)
          /\ Reserves(h, t)' <=> Reserves(h, t)
          /\ WillEnqueue(h, t) /\ status[t] = "Ready" => WillEnqueue(h, t)' \/ on_rq[t]
  BY <1>0 DEF HartTypeOK, Executes, Reserves, WillEnqueue
<1> QED
  BY <1>1, <1>2, <1>3, QuietStepInv

\* Nor does moving the placement.
LEMMA AffStoreInv ==
    ASSUME NEW h \in Harts, Inv, AffStore(h)
    PROVE  Inv'
<1> USE DEF AffStore
<1>0. /\ HartFacts(h) /\ arg[h] \in Tasks
      /\ stack[h] \in Tasks /\ on_cpu[stack[h]] /\ ~on_rq[stack[h]]
      /\ status[stack[h]] # "Unborn"
  BY StackOwner, OperandIsTask DEF InTask, At
<1>1. TaskTypeOK' /\ HartTypeOK' /\ LocalTypeOK'
  <2>1. TaskTypeOK'
    BY <1>0, SMT DEF TaskTypeOK, LocalTypeOK
  <2>2. HartTypeOK'
    BY <1>0 DEF HartTypeOK
  <2>3. LocalTypeOK'
    BY <1>0, ZeroInRange DEF TaskTypeOK, LocalTypeOK
  <2> QED
    BY <2>1, <2>2, <2>3
<1>2. OthersKept(h) /\ SlotsAgree(h)'
  BY <1>0, SMT DEF TaskTypeOK, HartTypeOK, OthersKept, SlotsAgree, InTask, At
<1>3. \A t \in Tasks :
          /\ Executes(h, t)' <=> Executes(h, t)
          /\ Reserves(h, t)' <=> Reserves(h, t)
          /\ WillEnqueue(h, t) /\ status[t] = "Ready" => WillEnqueue(h, t)' \/ on_rq[t]
  BY <1>0 DEF HartTypeOK, Executes, Reserves, WillEnqueue
<1> QED
  BY <1>1, <1>2, <1>3, QuietStepInv

\* Nor does comparing it.
LEMMA AffTestInv ==
    ASSUME NEW h \in Harts, Inv, AffTest(h)
    PROVE  Inv'
<1> USE DEF AffTest, DropArg
<1>0. /\ HartFacts(h) /\ arg[h] \in Tasks
      /\ stack[h] \in Tasks /\ on_cpu[stack[h]] /\ ~on_rq[stack[h]]
      /\ status[stack[h]] # "Unborn"
  BY StackOwner, OperandIsTask DEF InTask, At
<1>1. TaskTypeOK' /\ HartTypeOK' /\ LocalTypeOK'
  <2>1. TaskTypeOK'
    BY <1>0 DEF TaskTypeOK, Statuses, Asleep
  <2>2. HartTypeOK'
    BY <1>0, SMT DEF HartTypeOK
  <2>3. LocalTypeOK'
    <3>1. cpu_affinity[arg[h]] \in SUBSET Harts
      BY <1>0 DEF TaskTypeOK
    <3>2. /\ mask \in [Harts -> SUBSET Harts] /\ old_hart \in [Harts -> Harts]
          /\ target \in [Harts -> 0 .. HartCount]
      BY <1>0 DEF HartFacts, LocalTypeOK
    <3>3. mask' \in [Harts -> SUBSET Harts]
      BY <3>1, <3>2
    <3>4. old_hart' \in [Harts -> Harts]
      BY <3>2, ZeroInRange, SMT
    <3>5. target' \in [Harts -> 0 .. HartCount]
      BY <3>2, ZeroInRange
    <3> QED
      BY <1>0, <3>3, <3>4, <3>5 DEF HartFacts, LocalTypeOK
  <2> QED
    BY <2>1, <2>2, <2>3
<1>2. OthersKept(h) /\ SlotsAgree(h)'
  BY <1>0, SMT DEF TaskTypeOK, HartTypeOK, OthersKept, SlotsAgree, InTask, At
<1>3. \A t \in Tasks :
          /\ Executes(h, t)' <=> Executes(h, t)
          /\ Reserves(h, t)' <=> Reserves(h, t)
          /\ WillEnqueue(h, t) /\ status[t] = "Ready" => WillEnqueue(h, t)' \/ on_rq[t]
  <2>1. /\ pc[h] = "aff_test" /\ pc'[h] \in {"run", "notify"}
        /\ current'[h] = current[h] /\ stack'[h] = stack[h]
    BY <1>0, SMT DEF HartTypeOK
  <2> QED
    BY <2>1 DEF Executes, Reserves, WillEnqueue
<1> QED
  BY <1>1, <1>2, <1>3, QuietStepInv

\* The caller suspends itself, or interrupts another hart.
LEMMA AffIpiInv ==
    ASSUME NEW h \in Harts, Inv, AffIpi(h)
    PROVE  Inv'
<1> USE DEF AffIpi, DropArg
<1>0. /\ HartFacts(h) /\ arg[h] \in Tasks
      /\ stack[h] \in Tasks /\ on_cpu[stack[h]] /\ ~on_rq[stack[h]]
      /\ status[stack[h]] # "Unborn"
  BY StackOwner, OperandIsTask DEF InTask, At
<1>1. TaskTypeOK' /\ HartTypeOK' /\ LocalTypeOK'
  <2>1. TaskTypeOK'
    BY <1>0 DEF TaskTypeOK, Statuses, Asleep
  <2>2. HartTypeOK'
    BY <1>0, SMT DEF HartTypeOK
  <2>3. LocalTypeOK'
    BY <1>0, ZeroInRange DEF TaskTypeOK, LocalTypeOK
  <2> QED
    BY <2>1, <2>2, <2>3
<1>2. OthersKept(h) /\ SlotsAgree(h)'
  BY <1>0, SMTT(30) DEF TaskTypeOK, HartTypeOK, OthersKept, SlotsAgree, InTask, At
<1>3. OwnershipAgrees(h)' /\ OwnTasksOnly(h) /\ ReleasesProperly(h)
  BY <1>0, SMT DEF TaskTypeOK, HartTypeOK, OwnershipAgrees, OwnTasksOnly, ReleasesProperly,
     Holds, Executes, Reserves, SlotsAgree, InTask, At
<1>4. QueueSound' /\ KeepsReady(h) /\ KeepsRunning(h)
  <2>1. CASE arg[h] = stack[h]
    BY <1>0, <2>1, SMTT(30) DEF TaskTypeOK, HartTypeOK, QueueSound, KeepsReady, KeepsRunning,
       WillEnqueue, Holds, SlotsAgree, InTask, At
  <2>2. CASE ~(arg[h] = stack[h])
    BY <1>0, <2>2, SMT DEF TaskTypeOK, HartTypeOK, QueueSound, KeepsReady, KeepsRunning,
       WillEnqueue, Holds, SlotsAgree, InTask, At
  <2> QED
    BY <2>1, <2>2
<1> QED
  BY <1>1, <1>2, <1>3, <1>4, LocalStepInv DEF LocalStep

\* Leaving the kernel stack keeps the task in the current slot.
LEMMA SwitchToIdleInv ==
    ASSUME NEW h \in Harts, Inv, SwitchToIdle(h)
    PROVE  Inv'
<1> USE DEF SwitchToIdle
<1>0. /\ HartFacts(h)
      /\ stack[h] \in Tasks /\ on_cpu[stack[h]] /\ ~on_rq[stack[h]]
      /\ status[stack[h]] # "Unborn"
  BY StackOwner DEF InTask, At
<1>1. TaskTypeOK' /\ HartTypeOK' /\ LocalTypeOK'
  BY <1>0, ZeroInRange DEF TaskTypeOK, HartTypeOK, LocalTypeOK, Statuses, Asleep
<1>2. OthersKept(h) /\ SlotsAgree(h)'
  BY <1>0, SMTT(30) DEF TaskTypeOK, HartTypeOK, OthersKept, SlotsAgree, InTask, At
<1>3. OwnershipAgrees(h)' /\ OwnTasksOnly(h) /\ ReleasesProperly(h)
  BY <1>0, SMT DEF TaskTypeOK, HartTypeOK, OwnershipAgrees, OwnTasksOnly, ReleasesProperly,
     Holds, Executes, Reserves, SlotsAgree, InTask, At
<1>4. QueueSound' /\ KeepsReady(h) /\ KeepsRunning(h)
  BY <1>0 DEF TaskTypeOK, HartTypeOK, QueueSound, KeepsReady, KeepsRunning, WillEnqueue,
     Holds, SlotsAgree, InTask, At
<1> QED
  BY <1>1, <1>2, <1>3, <1>4, LocalStepInv DEF LocalStep

\* take_current_task moves it to the finish_task operand.
LEMMA TakeCurrentInv ==
    ASSUME NEW h \in Harts, Inv, TakeCurrent(h)
    PROVE  Inv'
<1> USE DEF TakeCurrent
<1>0. HartFacts(h)
  BY InvHartFacts
<1>1. TaskTypeOK' /\ HartTypeOK' /\ LocalTypeOK'
  <2>1. TaskTypeOK'
    BY <1>0 DEF TaskTypeOK, Statuses, Asleep
  <2>2. HartTypeOK'
    BY <1>0, SMT DEF HartTypeOK
  <2>3. LocalTypeOK'
    BY <1>0, ZeroInRange DEF TaskTypeOK, LocalTypeOK
  <2> QED
    BY <2>1, <2>2, <2>3
<1>2. OthersKept(h) /\ SlotsAgree(h)'
  BY <1>0, SMTT(30) DEF TaskTypeOK, HartTypeOK, OthersKept, SlotsAgree, InTask, At
<1>3. OwnershipAgrees(h)' /\ OwnTasksOnly(h) /\ ReleasesProperly(h)
  BY <1>0, SMT DEF TaskTypeOK, HartTypeOK, OwnershipAgrees, OwnTasksOnly, ReleasesProperly,
     Holds, Executes, Reserves, SlotsAgree, InTask, At
<1>4. QueueSound' /\ KeepsReady(h) /\ KeepsRunning(h)
  <2>1. CASE current[h] = NoTask
    BY <1>0, <2>1 DEF TaskTypeOK, HartTypeOK, QueueSound, KeepsReady, KeepsRunning,
       WillEnqueue, Holds, SlotsAgree, InTask, At
  <2>2. CASE ~(current[h] = NoTask)
    BY <1>0, <2>2, SMT DEF TaskTypeOK, HartTypeOK, QueueSound, KeepsReady, KeepsRunning,
       WillEnqueue, Holds, SlotsAgree, InTask, At
  <2> QED
    BY <2>1, <2>2
<1> QED
  BY <1>1, <1>2, <1>3, <1>4, LocalStepInv DEF LocalStep

\* finish_task releases it; it is not Running, and Ready means requeue.
LEMMA MarkOffCpuInv ==
    ASSUME NEW h \in Harts, Inv, MarkOffCpu(h)
    PROVE  Inv'
<1> USE DEF MarkOffCpu
<1>0. /\ HartFacts(h) /\ arg[h] \in Tasks
      /\ on_cpu[arg[h]] /\ ~on_rq[arg[h]] /\ status[arg[h]] # "Unborn"
      /\ current[h] \notin Tasks /\ stack[h] \notin Tasks
  <2>1. HartFacts(h) /\ arg[h] \in Tasks
    BY OperandIsTask
  <2>2. on_cpu[arg[h]] /\ ~on_rq[arg[h]] /\ status[arg[h]] # "Unborn"
    BY <2>1 DEF OwnershipAgrees, Executes, QueueSound, Inv, OnCpuIsExecuted
  <2>3. current[h] \notin Tasks /\ stack[h] \notin Tasks
    BY <2>1 DEF SlotsAgree, InTask, At
  <2> QED
    BY <2>1, <2>2, <2>3
<1>1. TaskTypeOK' /\ HartTypeOK' /\ LocalTypeOK'
  BY <1>0, ZeroInRange DEF TaskTypeOK, HartTypeOK, LocalTypeOK, Statuses, Asleep
<1>2. OthersKept(h) /\ SlotsAgree(h)'
  BY <1>0 DEF TaskTypeOK, HartTypeOK, OthersKept, SlotsAgree, InTask, At
<1>3. OwnershipAgrees(h)' /\ OwnTasksOnly(h) /\ ReleasesProperly(h)
  BY <1>0 DEF TaskTypeOK, HartTypeOK, OwnershipAgrees, OwnTasksOnly, ReleasesProperly,
     Holds, Executes, Reserves, SlotsAgree, InTask, At
<1>4. QueueSound' /\ KeepsReady(h) /\ KeepsRunning(h)
  BY <1>0, SMT DEF TaskTypeOK, HartTypeOK, QueueSound, KeepsReady, KeepsRunning, WillEnqueue,
     Holds, SlotsAgree, InTask, At
<1> QED
  BY <1>1, <1>2, <1>3, <1>4, LocalStepInv DEF LocalStep

\* Reading the status decides about the requeue.
LEMMA ReadPrevInv ==
    ASSUME NEW h \in Harts, Inv, ReadPrev(h)
    PROVE  Inv'
<1> USE DEF ReadPrev, DropArg, Runnable
<1>0. HartFacts(h) /\ arg[h] \in Tasks
  BY OperandIsTask
<1>1. TaskTypeOK' /\ HartTypeOK' /\ LocalTypeOK'
  <2>1. TaskTypeOK'
    BY <1>0 DEF TaskTypeOK, Statuses, Asleep
  <2>2. HartTypeOK'
    BY <1>0, SMT DEF HartTypeOK
  <2>3. LocalTypeOK'
    BY <1>0, ZeroInRange DEF TaskTypeOK, LocalTypeOK
  <2> QED
    BY <2>1, <2>2, <2>3
<1>2. OthersKept(h) /\ SlotsAgree(h)'
  BY <1>0, SMT DEF TaskTypeOK, HartTypeOK, OthersKept, SlotsAgree, InTask, At
<1>3. \A t \in Tasks :
          /\ Executes(h, t)' <=> Executes(h, t)
          /\ Reserves(h, t)' <=> Reserves(h, t)
          /\ WillEnqueue(h, t) /\ status[t] = "Ready" => WillEnqueue(h, t)' \/ on_rq[t]
  <2>1. /\ pc[h] = "finish2" /\ pc'[h] \in {"requeue", "fetch"}
        /\ current'[h] = current[h] /\ stack'[h] = stack[h]
        /\ status[arg[h]] = "Ready" => pc'[h] = "requeue" /\ arg'[h] = arg[h]
    BY <1>0, SMT DEF HartTypeOK
  <2> QED
    BY <2>1 DEF Executes, Reserves, WillEnqueue
<1> QED
  BY <1>1, <1>2, <1>3, QuietStepInv

\* requeue_current queues the task, or it is another's by now.
LEMMA RequeueInv ==
    ASSUME NEW h \in Harts, Inv, Requeue(h)
    PROVE  Inv'
<1> USE DEF Requeue, Enqueues, Push, DropArg
<1>0. HartFacts(h) /\ arg[h] \in Tasks
  BY OperandIsTask
<1>1. TaskTypeOK' /\ HartTypeOK' /\ LocalTypeOK'
  <2>1. TaskTypeOK'
    <3>1. CASE Enqueues(arg[h])
      <4>1. entries[arg[h]] + 1 \in Nat
        BY <1>0, SMT DEF TaskTypeOK
      <4>2. /\ on_rq' = [on_rq EXCEPT ![arg[h]] = TRUE]
            /\ entries' = [entries EXCEPT ![arg[h]] = @ + 1]
            /\ UNCHANGED <<status, cpu_affinity, scheduled_hart, on_cpu>>
        BY <3>1
      <4> QED
        BY <1>0, <4>1, <4>2 DEF TaskTypeOK
    <3>2. CASE ~Enqueues(arg[h])
      BY <1>0, <3>2 DEF TaskTypeOK
    <3> QED
      BY <3>1, <3>2
  <2>2. HartTypeOK'
    BY <1>0 DEF HartTypeOK
  <2>3. LocalTypeOK'
    BY <1>0, ZeroInRange DEF TaskTypeOK, LocalTypeOK
  <2> QED
    BY <2>1, <2>2, <2>3
<1>2. OthersKept(h) /\ SlotsAgree(h)'
  BY <1>0, SMT DEF TaskTypeOK, HartTypeOK, OthersKept, SlotsAgree, InTask, At
<1>3. OwnershipAgrees(h)' /\ OwnTasksOnly(h) /\ ReleasesProperly(h)
  BY <1>0 DEF TaskTypeOK, HartTypeOK, OwnershipAgrees, OwnTasksOnly, ReleasesProperly,
     Holds, Executes, Reserves, SlotsAgree, InTask, At
<1>4. QueueSound' /\ KeepsReady(h) /\ KeepsRunning(h)
  <2>1. CASE Enqueues(arg[h])
    BY <1>0, <2>1, SMTT(30) DEF TaskTypeOK, HartTypeOK, QueueSound, KeepsReady, KeepsRunning,
       WillEnqueue, Holds, SlotsAgree, InTask, At
  <2>2. CASE ~(Enqueues(arg[h]))
    BY <1>0, <2>2, SMT DEF TaskTypeOK, HartTypeOK, QueueSound, KeepsReady, KeepsRunning,
       WillEnqueue, Holds, SlotsAgree, InTask, At
  <2> QED
    BY <2>1, <2>2
<1> QED
  BY <1>1, <1>2, <1>3, <1>4, LocalStepInv DEF LocalStep

\* fetch_task reserves a queued task, which nobody holds.
LEMMA FetchTaskInv ==
    ASSUME NEW h \in Harts, NEW u \in Tasks, Inv, FetchTask(h, u)
    PROVE  Inv'
<1> USE DEF FetchTask, Eligible, StaleEntries
<1>0. HartFacts(h) /\ on_rq[u] /\ ~on_cpu[u] /\ StaleEntries = {}
  BY InvHartFacts, SMT DEF QueueSound, TaskTypeOK
<1>1. TaskTypeOK' /\ HartTypeOK' /\ LocalTypeOK'
  <2>1. TaskTypeOK'
    <3>1. entries[u] - 1 \in Nat
      BY <1>0, SMT DEF TaskTypeOK
    <3> QED
      BY <1>0, <3>1, SMT DEF TaskTypeOK, Statuses
  <2>2. HartTypeOK'
    BY <1>0 DEF HartTypeOK
  <2>3. LocalTypeOK'
    BY <1>0, ZeroInRange DEF TaskTypeOK, LocalTypeOK
  <2> QED
    BY <2>1, <2>2, <2>3
<1>2. OthersKept(h) /\ SlotsAgree(h)'
  BY <1>0, SMTT(30) DEF TaskTypeOK, HartTypeOK, OthersKept, SlotsAgree, InTask, At
<1>3. OwnershipAgrees(h)' /\ OwnTasksOnly(h) /\ ReleasesProperly(h)
  BY <1>0, SMTT(30) DEF TaskTypeOK, HartTypeOK, OwnershipAgrees, OwnTasksOnly, ReleasesProperly,
     Holds, Executes, Reserves, SlotsAgree, InTask, At
<1>4. QueueSound' /\ KeepsReady(h) /\ KeepsRunning(h)
  BY <1>0, SMT DEF TaskTypeOK, HartTypeOK, QueueSound, KeepsReady, KeepsRunning, WillEnqueue,
     Holds, SlotsAgree, InTask, At
<1> QED
  BY <1>1, <1>2, <1>3, <1>4, LocalStepInv DEF LocalStep

\* With nothing eligible, and nothing stale, fetch_task changes nothing.
LEMMA FetchNoneInv ==
    ASSUME NEW h \in Harts, Inv, FetchNone(h)
    PROVE  Inv'
<1>0. HartFacts(h)
  BY InvHartFacts
<1>1. UNCHANGED <<on_rq, entries>>
  <2>1. StaleEntries = {}
    BY <1>0, SMT DEF QueueSound, StaleEntries
  <2>2. PICK D \in SUBSET StaleEntries :
          /\ on_rq' = [t \in Tasks |-> on_rq[t] /\ t \notin D]
          /\ entries' = [t \in Tasks |-> IF t \in D THEN 0 ELSE entries[t]]
    BY DEF FetchNone
  <2> QED
    BY <1>0, <2>1, <2>2 DEF TaskTypeOK
<1>2. /\ pc[h] = "fetch" /\ Goto(h, "publish")
      /\ UNCHANGED <<status, cpu_affinity, scheduled_hart, on_cpu, ret, current,
                     stack, arg, locals, hart_idle, ipi>>
  BY DEF FetchNone
<1>3. TaskTypeOK' /\ HartTypeOK' /\ LocalTypeOK'
  BY <1>0, <1>1, <1>2 DEF TaskTypeOK, HartTypeOK, LocalTypeOK
<1>4. OthersKept(h) /\ SlotsAgree(h)'
  BY <1>0, <1>1, <1>2 DEF HartTypeOK, OthersKept, SlotsAgree, InTask, At
<1>5. \A t \in Tasks :
          /\ Executes(h, t)' <=> Executes(h, t)
          /\ Reserves(h, t)' <=> Reserves(h, t)
          /\ WillEnqueue(h, t) /\ status[t] = "Ready" => WillEnqueue(h, t)' \/ on_rq[t]
  BY <1>0, <1>2 DEF HartTypeOK, Executes, Reserves, WillEnqueue
<1> QED
  BY <1>1, <1>2, <1>3, <1>4, <1>5, QuietStepInv

\* A rejected reservation becomes a pending enqueue.
LEMMA CheckAffinityInv ==
    ASSUME NEW h \in Harts, Inv, CheckAffinity(h)
    PROVE  Inv'
<1> USE DEF CheckAffinity
<1>0. /\ HartFacts(h) /\ arg[h] \in Tasks
      /\ status[arg[h]] = "Running" /\ ~on_cpu[arg[h]] /\ ~on_rq[arg[h]]
      /\ current[h] \notin Tasks /\ stack[h] \notin Tasks
  BY ReservedTask
<1>1. TaskTypeOK' /\ HartTypeOK' /\ LocalTypeOK'
  <2> DEFINE ready == [status EXCEPT ![arg[h]] = "Ready"]
  <2>0. /\ \/ status' = status /\ ret' = ret /\ pc' = [pc EXCEPT ![h] = "place"]
           \/ /\ status' = ready /\ ret' = [ret EXCEPT ![h] = "loop"]
              /\ pc' = [pc EXCEPT ![h] = "add"]
        /\ UNCHANGED <<cpu_affinity, scheduled_hart, on_cpu, on_rq, entries, current, stack, arg>>
    OBVIOUS
  <2>1. TaskTypeOK'
    <3>1. status \in [Tasks -> Statuses] /\ ready \in [Tasks -> Statuses]
      BY <1>0 DEF TaskTypeOK, Statuses
    <3> HIDE DEF ready, CheckAffinity
    <3>2. status' \in [Tasks -> Statuses]
      BY <2>0, <3>1
    <3> QED
      BY <1>0, <2>0, <3>2 DEF TaskTypeOK
  <2>2. HartTypeOK'
    <3> HIDE DEF ready, CheckAffinity
    <3>1. HartTypeOK
      BY <1>0
    <3>2. pc' \in [Harts -> TaskPCs \cup Calls \cup LoopPCs]
      BY <2>0, <3>1, ZenonT(30) DEF HartTypeOK
    <3>3. ret' \in [Harts -> {"run", "suspend", "leaving", "exiting", "zombie", "aff_ipi", "loop"}]
      BY <2>0, <3>1, ZenonT(30) DEF HartTypeOK
    <3> QED
      BY <2>0, <3>1, <3>2, <3>3 DEF HartTypeOK
  <2>3. LocalTypeOK'
    BY <1>0, ZeroInRange DEF TaskTypeOK, LocalTypeOK
  <2> QED
    BY <2>1, <2>2, <2>3
<1>2. OthersKept(h) /\ SlotsAgree(h)'
  BY <1>0, SMTT(30) DEF TaskTypeOK, HartTypeOK, OthersKept, SlotsAgree, InTask, At
<1>3. OwnershipAgrees(h)' /\ OwnTasksOnly(h) /\ ReleasesProperly(h)
  BY <1>0, SMT DEF TaskTypeOK, HartTypeOK, OwnershipAgrees, OwnTasksOnly, ReleasesProperly,
     Holds, Executes, Reserves, SlotsAgree, InTask, At
<1>4. QueueSound' /\ KeepsReady(h) /\ KeepsRunning(h)
  <2>1. CASE can_run_on(arg[h], h)
    BY <1>0, <2>1, SMTT(30) DEF TaskTypeOK, HartTypeOK, QueueSound, KeepsReady, KeepsRunning,
       WillEnqueue, Holds, SlotsAgree, InTask, At
  <2>2. CASE ~(can_run_on(arg[h], h))
    BY <1>0, <2>2, SMT DEF TaskTypeOK, HartTypeOK, QueueSound, KeepsReady, KeepsRunning,
       WillEnqueue, Holds, SlotsAgree, InTask, At
  <2> QED
    BY <2>1, <2>2
<1> QED
  BY <1>1, <1>2, <1>3, <1>4, LocalStepInv DEF LocalStep

\* Publishing the placement keeps the reservation.
LEMMA PlaceInv ==
    ASSUME NEW h \in Harts, Inv, Place(h)
    PROVE  Inv'
<1> USE DEF Place
<1>0. /\ HartFacts(h) /\ arg[h] \in Tasks
      /\ status[arg[h]] = "Running" /\ ~on_cpu[arg[h]] /\ ~on_rq[arg[h]]
      /\ current[h] \notin Tasks /\ stack[h] \notin Tasks
  BY ReservedTask
<1>1. TaskTypeOK' /\ HartTypeOK' /\ LocalTypeOK'
  BY <1>0, ZeroInRange DEF TaskTypeOK, HartTypeOK, LocalTypeOK, Statuses, Asleep
<1>2. OthersKept(h) /\ SlotsAgree(h)'
  BY <1>0 DEF TaskTypeOK, HartTypeOK, OthersKept, SlotsAgree, InTask, At
<1>3. \A t \in Tasks :
          /\ Executes(h, t)' <=> Executes(h, t)
          /\ Reserves(h, t)' <=> Reserves(h, t)
          /\ WillEnqueue(h, t) /\ status[t] = "Ready" => WillEnqueue(h, t)' \/ on_rq[t]
  BY <1>0 DEF HartTypeOK, Executes, Reserves, WillEnqueue
<1> QED
  BY <1>1, <1>2, <1>3, QuietStepInv

\* So does publishing Running again.
LEMMA StartInv ==
    ASSUME NEW h \in Harts, Inv, Start(h)
    PROVE  Inv'
<1> USE DEF Start
<1>0. /\ HartFacts(h) /\ arg[h] \in Tasks
      /\ status[arg[h]] = "Running" /\ ~on_cpu[arg[h]] /\ ~on_rq[arg[h]]
      /\ current[h] \notin Tasks /\ stack[h] \notin Tasks
  BY ReservedTask
<1>1. TaskTypeOK' /\ HartTypeOK' /\ LocalTypeOK'
  BY <1>0, ZeroInRange DEF TaskTypeOK, HartTypeOK, LocalTypeOK, Statuses, Asleep
<1>2. OthersKept(h) /\ SlotsAgree(h)'
  BY <1>0 DEF TaskTypeOK, HartTypeOK, OthersKept, SlotsAgree, InTask, At
<1>3. OwnershipAgrees(h)' /\ OwnTasksOnly(h) /\ ReleasesProperly(h)
  BY <1>0 DEF TaskTypeOK, HartTypeOK, OwnershipAgrees, OwnTasksOnly, ReleasesProperly,
     Holds, Executes, Reserves, SlotsAgree, InTask, At
<1>4. QueueSound' /\ KeepsReady(h) /\ KeepsRunning(h)
  BY <1>0, SMT DEF TaskTypeOK, HartTypeOK, QueueSound, KeepsReady, KeepsRunning, WillEnqueue,
     Holds, SlotsAgree, InTask, At
<1> QED
  BY <1>1, <1>2, <1>3, <1>4, LocalStepInv DEF LocalStep

\* The reservation becomes an execution.
LEMMA ClaimInv ==
    ASSUME NEW h \in Harts, Inv, Claim(h)
    PROVE  Inv'
<1> USE DEF Claim, DropArg
<1>0. /\ HartFacts(h) /\ arg[h] \in Tasks
      /\ status[arg[h]] = "Running" /\ ~on_cpu[arg[h]] /\ ~on_rq[arg[h]]
      /\ current[h] \notin Tasks /\ stack[h] \notin Tasks
  BY ReservedTask
<1>1. TaskTypeOK' /\ HartTypeOK' /\ LocalTypeOK'
  BY <1>0, ZeroInRange DEF TaskTypeOK, HartTypeOK, LocalTypeOK, Statuses, Asleep
<1>2. OthersKept(h) /\ SlotsAgree(h)'
  BY <1>0, SMT DEF TaskTypeOK, HartTypeOK, OthersKept, SlotsAgree, InTask, At
<1>3. OwnershipAgrees(h)' /\ OwnTasksOnly(h) /\ ReleasesProperly(h)
  BY <1>0, ZenonT(30) DEF TaskTypeOK, HartTypeOK, OwnershipAgrees, OwnTasksOnly, ReleasesProperly,
     Holds, Executes, Reserves, SlotsAgree, InTask, At
<1>4. QueueSound' /\ KeepsReady(h) /\ KeepsRunning(h)
  BY <1>0, SMT DEF TaskTypeOK, HartTypeOK, QueueSound, KeepsReady, KeepsRunning, WillEnqueue,
     Holds, SlotsAgree, InTask, At
<1> QED
  BY <1>1, <1>2, <1>3, <1>4, LocalStepInv DEF LocalStep

\* Publishing the idle state involves no task.
LEMMA PublishIdleInv ==
    ASSUME NEW h \in Harts, Inv, PublishIdle(h)
    PROVE  Inv'
<1> USE DEF PublishIdle, SetIdle
<1>0. HartFacts(h)
  BY InvHartFacts
<1>1. TaskTypeOK' /\ HartTypeOK' /\ LocalTypeOK'
  BY <1>0, ZeroInRange DEF TaskTypeOK, HartTypeOK, LocalTypeOK, Statuses, Asleep
<1>2. OthersKept(h) /\ SlotsAgree(h)'
  BY <1>0 DEF TaskTypeOK, HartTypeOK, OthersKept, SlotsAgree, InTask, At
<1>3. \A t \in Tasks :
          /\ Executes(h, t)' <=> Executes(h, t)
          /\ Reserves(h, t)' <=> Reserves(h, t)
          /\ WillEnqueue(h, t) /\ status[t] = "Ready" => WillEnqueue(h, t)' \/ on_rq[t]
  BY <1>0 DEF HartTypeOK, Executes, Reserves, WillEnqueue
<1> QED
  BY <1>1, <1>2, <1>3, QuietStepInv

\* Nor does withdrawing it.
LEMMA ClearIdleInv ==
    ASSUME NEW h \in Harts, Inv, ClearIdle(h)
    PROVE  Inv'
<1> USE DEF ClearIdle, SetIdle
<1>0. HartFacts(h)
  BY InvHartFacts
<1>1. TaskTypeOK' /\ HartTypeOK' /\ LocalTypeOK'
  BY <1>0, ZeroInRange DEF TaskTypeOK, HartTypeOK, LocalTypeOK, Statuses, Asleep
<1>2. OthersKept(h) /\ SlotsAgree(h)'
  BY <1>0 DEF TaskTypeOK, HartTypeOK, OthersKept, SlotsAgree, InTask, At
<1>3. \A t \in Tasks :
          /\ Executes(h, t)' <=> Executes(h, t)
          /\ Reserves(h, t)' <=> Reserves(h, t)
          /\ WillEnqueue(h, t) /\ status[t] = "Ready" => WillEnqueue(h, t)' \/ on_rq[t]
  BY <1>0 DEF HartTypeOK, Executes, Reserves, WillEnqueue
<1> QED
  BY <1>1, <1>2, <1>3, QuietStepInv

\* Nor does the second look at the queue.
LEMMA RecheckInv ==
    ASSUME NEW h \in Harts, Inv, Recheck(h)
    PROVE  Inv'
<1> USE DEF Recheck
<1>0. HartFacts(h)
  BY InvHartFacts
<1>1. TaskTypeOK' /\ HartTypeOK' /\ LocalTypeOK'
  BY <1>0, ZeroInRange DEF TaskTypeOK, HartTypeOK, LocalTypeOK, Statuses, Asleep
<1>2. OthersKept(h) /\ SlotsAgree(h)'
  BY <1>0 DEF TaskTypeOK, HartTypeOK, OthersKept, SlotsAgree, InTask, At
<1>3. \A t \in Tasks :
          /\ Executes(h, t)' <=> Executes(h, t)
          /\ Reserves(h, t)' <=> Reserves(h, t)
          /\ WillEnqueue(h, t) /\ status[t] = "Ready" => WillEnqueue(h, t)' \/ on_rq[t]
  BY <1>0 DEF HartTypeOK, Executes, Reserves, WillEnqueue
<1> QED
  BY <1>1, <1>2, <1>3, QuietStepInv

\* Nor does waking up from wfi.
LEMMA WakeFromWfiInv ==
    ASSUME NEW h \in Harts, Inv, WakeFromWfi(h)
    PROVE  Inv'
<1> USE DEF WakeFromWfi
<1>0. HartFacts(h)
  BY InvHartFacts
<1>1. TaskTypeOK' /\ HartTypeOK' /\ LocalTypeOK'
  BY <1>0, ZeroInRange DEF TaskTypeOK, HartTypeOK, LocalTypeOK, Statuses, Asleep
<1>2. OthersKept(h) /\ SlotsAgree(h)'
  BY <1>0 DEF TaskTypeOK, HartTypeOK, OthersKept, SlotsAgree, InTask, At
<1>3. \A t \in Tasks :
          /\ Executes(h, t)' <=> Executes(h, t)
          /\ Reserves(h, t)' <=> Reserves(h, t)
          /\ WillEnqueue(h, t) /\ status[t] = "Ready" => WillEnqueue(h, t)' \/ on_rq[t]
  BY <1>0 DEF HartTypeOK, Executes, Reserves, WillEnqueue
<1> QED
  BY <1>1, <1>2, <1>3, QuietStepInv

-----------------------------------------------------------------------------
\* Every step preserves the invariant.
LEMMA NextInv == Inv /\ [Next]_vars => Inv'
<1> SUFFICES ASSUME Inv, [Next]_vars PROVE Inv'
  BY SMTT(30)
<1>1. CASE UNCHANGED vars
  <2>1. UNCHANGED <<status, on_cpu, on_rq, entries, pc, ret, current, stack, arg,
                    cpu_affinity, scheduled_hart, mask, target, old_hart, hart_idle, ipi>>
    BY <1>1 DEF vars, tcbVars, locals
  <2>2. TaskTypeOK' /\ HartTypeOK' /\ LocalTypeOK'
    BY <2>1 DEF Inv, TaskTypeOK, HartTypeOK, LocalTypeOK
  <2>3. \A h \in Harts : SlotsAgree(h)' /\ OwnershipAgrees(h)'
    <3> SUFFICES ASSUME NEW h \in Harts PROVE SlotsAgree(h)' /\ OwnershipAgrees(h)'
      OBVIOUS
    <3>1. SlotsAgree(h) /\ OwnershipAgrees(h)
      BY DEF Inv
    <3>2. SlotsAgree(h)'
      <4>1. /\ At(h, {"exiting", "zombie"})' <=> At(h, {"exiting", "zombie"})
            /\ At(h, {"run", "aff_load", "aff_store", "aff_test", "aff_ipi"})'
               <=> At(h, {"run", "aff_load", "aff_store", "aff_test", "aff_ipi"})
            /\ At(h, {"zombie"})' <=> At(h, {"zombie"})
            /\ At(h, {"blocking", "switch"})' <=> At(h, {"blocking", "switch"})
            /\ At(h, {"loop"})' <=> At(h, {"loop"})
            /\ InTask(h)' <=> InTask(h)
        BY <2>1 DEF At, InTask
      <4> HIDE DEF TaskPCs, Calls, LoopPCs, Dispatching
      <4> QED
        BY <2>1, <3>1, <4>1 DEF SlotsAgree
    <3>3. OwnershipAgrees(h)'
      <4>1. \A t \in Tasks : /\ Executes(h, t)' <=> Executes(h, t)
                             /\ Reserves(h, t)' <=> Reserves(h, t)
        BY <2>1 DEF Executes, Reserves
      <4> QED
        BY <2>1, <3>1, <4>1 DEF OwnershipAgrees
    <3> QED
      BY <3>2, <3>3
  <2>4. OnCpuIsExecuted' /\ OneHartPerTask'
    BY <2>1, ZenonT(30) DEF Inv, OnCpuIsExecuted, OneHartPerTask, Executes, Holds
  <2>5. QueueSound' /\ RunningIsHeld'
    <3>1. \A h \in Harts, t \in Tasks : Holds(h, t)' <=> Holds(h, t)
      BY <2>1 DEF Holds
    <3>2. QueueSound /\ RunningIsHeld
      BY DEF Inv
    <3>3. QueueSound'
      BY <2>1, <3>2 DEF QueueSound
    <3>4. RunningIsHeld'
      BY <2>1, <3>1, <3>2 DEF RunningIsHeld
    <3> QED
      BY <3>3, <3>4
  <2>6. NoLostReady'
    <3>1. \A h \in Harts, t \in Tasks :
              /\ WillEnqueue(h, t)' <=> WillEnqueue(h, t)
              /\ Exits(h, t)' <=> Exits(h, t)
      BY <2>1 DEF WillEnqueue, At
    <3> HIDE DEF Exits
    <3> QED
      BY <2>1, <3>1 DEF Inv, NoLostReady
  <2> QED
    BY <2>2, <2>3, <2>4, <2>5, <2>6 DEF Inv
<1>2. ASSUME NEW h \in Harts, TaskStep(h) PROVE Inv'
  BY <1>2, SuspendCurrentInv, PreemptInv, IpiTrapInv, PublishBlockedInv,
     RevokeBlockedInv, CommitBlockedInv, StopCurrentInv, CloneInv, SuspendInCallInv,
     LeaveInCallInv, ExitInv, ExitInCallInv, PublishZombieInv, AbandonInv, MakeReadyInv,
     SetAffinityInv, AffLoadInv, AffStoreInv, AffTestInv, AffIpiInv, ZenonT(30)
     DEF TaskStep
<1>3. ASSUME NEW h \in Harts, LoopStep(h) PROVE Inv'
  BY <1>3, AddTaskInv, ReadMaskInv, NotifyInv, SwitchToIdleInv, TakeCurrentInv,
     MarkOffCpuInv, ReadPrevInv, RequeueInv, FetchTaskInv, FetchNoneInv,
     CheckAffinityInv, PlaceInv, StartInv, ClaimInv, PublishIdleInv, RecheckInv,
     WakeFromWfiInv, ClearIdleInv, ZenonT(30)
     DEF LoopStep, IpiWake
<1>4. ASSUME NEW h \in Harts, TimerTick(h) PROVE Inv'
  BY <1>4, WakeFromWfiInv DEF TimerTick
<1> QED
  BY <1>1, <1>2, <1>3, <1>4 DEF Next

\* The invariant holds in every reachable state of run_tasks, add_task, the task
\* entry points of task/mod.rs and sched_setaffinity.
THEOREM Invariance == Spec => []Inv
<1>1. Init => Inv
  BY InitInv
<1>2. Inv /\ [Next]_vars => Inv'
  BY NextInv
<1> QED
  BY <1>1, <1>2, PTL DEF Spec

\* No two harts own or reserve the same task: the prepare_task / finish_task
\* protocol of run_tasks never lets two harts execute one context.
THEOREM ExclusiveOwnership == Spec => []OneHartPerTask
<1>1. Inv => OneHartPerTask
  BY DEF Inv
<1> QED
  BY <1>1, Invariance, PTL

\* The ready queue holds at most one item per task, exactly the on_rq tasks, all
\* Ready and off every CPU: fetch_task never meets a stale item.
THEOREM QueueIntegrity == Spec => []QueueSound
<1>1. Inv => QueueSound
  BY DEF Inv
<1> QED
  BY <1>1, Invariance, PTL

\* No wakeup is lost: a Ready task is queued, or some hart is bound to queue it, or
\* it exits on its hart (a vfork parent that the killing signal has made Ready).
THEOREM NoWakeupLost == Spec => []NoLostReady
<1>1. Inv => NoLostReady
  BY DEF Inv
<1> QED
  BY <1>1, Invariance, PTL

\* A Running task is reserved or executed by a hart.
THEOREM RunningHeld == Spec => []RunningIsHeld
<1>1. Inv => RunningIsHeld
  BY DEF Inv
<1> QED
  BY <1>1, Invariance, PTL

-----------------------------------------------------------------------------
\* The wake budget.

\* The queue length is a number.
LEMMA QueueLenNat == QueueLen \in Nat
<1>1. IsFiniteSet({u \in Tasks : entries[u] > 0})
  BY SchedulerAssumption, FS_Subset
<1> QED
  BY <1>1, FS_CardinalityType DEF QueueLen

\* Every step keeps the wake budget of notify_harts_of_runnable_task between
\* zero and the number of other harts: the decrement never underflows.
LEMMA NextBudget == BudgetTypeOK /\ [Next]_vars => BudgetTypeOK'
<1> SUFFICES ASSUME BudgetTypeOK, [Next]_vars PROVE BudgetTypeOK'
  OBVIOUS
<1> USE DEF BudgetTypeOK
<1>0. 0 \in 0 .. HartCount - 1
  BY SchedulerAssumption, SMT
<1>1. CASE UNCHANGED budget
  BY <1>1
<1>2. ASSUME NEW h \in Harts, AddTask(h) PROVE BudgetTypeOK'
  <2>1. (IF QueueLen + 1 < HartCount THEN QueueLen + 1 ELSE HartCount - 1)
           \in 0 .. HartCount - 1
    BY QueueLenNat, SchedulerAssumption, SMTT(30)
  <2> QED
    BY <1>0, <1>2, <2>1, SMT DEF AddTask, Return
<1>3. ASSUME NEW h \in Harts, Notify(h) PROVE BudgetTypeOK'
  <2>1. budget[h] # 0 => budget[h] - 1 \in 0 .. HartCount - 1
    BY SchedulerAssumption, SMT
  <2> QED
    BY <1>0, <1>3, <2>1, SMT DEF Notify, Return
<1>4. ASSUME NEW h \in Harts, AffTest(h) PROVE BudgetTypeOK'
  <2>1. (IF HartCount > 1 THEN 1 ELSE 0) \in 0 .. HartCount - 1
    BY SchedulerAssumption, SMT
  <2> QED
    BY <1>4, <2>1 DEF AffTest
<1>5. ASSUME NEW h \in Harts, TaskStep(h), ~AffTest(h) PROVE UNCHANGED budget
  BY <1>5 DEF TaskStep, SuspendCurrent, Preempt, IpiTrap, PublishBlocked, RevokeBlocked,
     CommitBlocked, StopCurrent, SuspendInCall, LeaveInCall, Exit, ExitInCall, TakeForExit, PublishZombie, Abandon, MakeReady,
     Clone, SetAffinity, AffLoad, AffStore, AffIpi, locals
<1>6. ASSUME NEW h \in Harts, LoopStep(h), ~AddTask(h), ~Notify(h) PROVE UNCHANGED budget
  BY <1>6 DEF LoopStep, ReadMask, SwitchToIdle, TakeCurrent, MarkOffCpu, ReadPrev, Requeue,
     FetchTask, FetchNone, CheckAffinity, Place, Start, Claim, PublishIdle, ClearIdle,
     SetIdle, Recheck, IpiWake, WakeFromWfi, locals
<1>7. ASSUME NEW h \in Harts, TimerTick(h) PROVE UNCHANGED budget
  BY <1>7 DEF TimerTick, WakeFromWfi, locals
<1>8. CASE UNCHANGED vars
  BY <1>1, <1>8 DEF vars, locals
<1> QED
  BY <1>1, <1>2, <1>3, <1>4, <1>5, <1>6, <1>7, <1>8 DEF Next

\* Every variable keeps its type, the wake budget included.
THEOREM TypeCorrect == Spec => []TypeOK
<1>1. Init => BudgetTypeOK
  BY SchedulerAssumption, SMT DEF Init, BudgetTypeOK
<1>2. BudgetTypeOK /\ [Next]_vars => BudgetTypeOK'
  BY NextBudget
<1>3. Inv /\ BudgetTypeOK => TypeOK
  BY DEF Inv, TypeOK
<1> QED
  BY <1>1, <1>2, <1>3, Invariance, PTL DEF Spec

-----------------------------------------------------------------------------
\* Work conservation.  With masks it fails (sched_setaffinity notifies the harts
\* of the new mask before the caller is back in the queue), so it is proved for
\* programs that leave every task free to run everywhere.  A queued task is then accounted for:
\* there are as many harts on their way to the queue as tasks in it, or a hart is
\* still notifying and will make up the difference, or nobody sleeps.
Unpinned == \A m \in Masks : m = Harts

Queued == {u \in Tasks : entries[u] > 0}
Sleepers == {h \in Harts : DeepIdle(h)}

\* Hart h looks at the queue before it sleeps, and has no task of its own to queue
\* before that.
Seeks(h) ==
    \/ pc[h] \in {"fetch", "publish", "recheck", "unidle"}
    \/ pc[h] = "wfi" /\ ipi[h]
    \/ At(h, {"loop"}) /\ current[h] = NoTask
Seekers == {h \in Harts : Seeks(h)}

\* The seekers that the notification on hart h does not spend its budget on any
\* more: it has passed them, or they have not published that they are idle.
Passed(h) == {g \in Seekers : g < target[h] \/ pc[g] = "fetch"}

\* The harts it may still interrupt; no sleeper is behind it.
Rest(h) == {g \in Harts \ {h} : target[h] <= g}
Ahead(h) == \A g \in Sleepers : target[h] <= g

Covers(h) ==
    /\ pc[h] \in {"mask", "notify"}
    /\ \/ /\ budget[h] > 0 => Ahead(h)
          /\ Cardinality(Queued) <= budget[h] + Cardinality(Passed(h))
       \/ Ahead(h) /\ Cardinality(Rest(h)) <= budget[h]

Supply ==
    Sleepers # {} => \/ Cardinality(Queued) <= Cardinality(Seekers)
                     \/ \E h \in Harts : Covers(h)

\* Where the flags of the idle protocol and the locals of the notification are.
Full == \A u \in Tasks : cpu_affinity[u] = Harts
Idling == \A h \in Harts : hart_idle[h] <=> pc[h] \in {"recheck", "wfi", "unidle"}
Sweeping == \A h \in Harts : IF pc[h] = "notify" THEN mask[h] = Harts ELSE target[h] = 0
Steady == Full /\ Idling /\ Sweeping

\* The sets are finite, before and after a step.
LEMMA QueuedFinite ==
    /\ IsFiniteSet(Queued) /\ Cardinality(Queued) \in Nat
    /\ IsFiniteSet(Queued') /\ Cardinality(Queued') \in Nat
<1>1. Queued \in SUBSET Tasks /\ Queued' \in SUBSET Tasks
  BY DEF Queued
<1> QED
  BY <1>1, SchedulerAssumption, FS_Subset, FS_CardinalityType

LEMMA HartsFinite ==
    ASSUME NEW S \in SUBSET Harts
    PROVE  IsFiniteSet(S) /\ Cardinality(S) \in Nat
<1>1. IsFiniteSet(Harts)
  BY FS_Interval, SchedulerAssumption, SMT DEF Harts
<1> QED
  BY <1>1, FS_Subset, FS_CardinalityType

LEMMA SeekersFinite ==
    /\ IsFiniteSet(Seekers) /\ Cardinality(Seekers) \in Nat
    /\ IsFiniteSet(Seekers') /\ Cardinality(Seekers') \in Nat
<1>1. Seekers \in SUBSET Harts /\ Seekers' \in SUBSET Harts
  BY DEF Seekers
<1> QED
  BY <1>1, HartsFinite

LEMMA PassedFinite ==
    ASSUME NEW h \in Harts
    PROVE  /\ IsFiniteSet(Passed(h)) /\ Cardinality(Passed(h)) \in Nat
           /\ IsFiniteSet(Passed(h)') /\ Cardinality(Passed(h)') \in Nat
           /\ IsFiniteSet(Rest(h)) /\ Cardinality(Rest(h)) \in Nat
           /\ IsFiniteSet(Rest(h)') /\ Cardinality(Rest(h)') \in Nat
<1>1. /\ Passed(h) \in SUBSET Harts /\ Passed(h)' \in SUBSET Harts
      /\ Rest(h) \in SUBSET Harts /\ Rest(h)' \in SUBSET Harts
  BY DEF Passed, Rest, Seekers
<1> QED
  BY <1>1, HartsFinite

\* A set that gains or loses one element.
LEMMA Gains ==
    ASSUME NEW S, NEW T, IsFiniteSet(T), NEW x, x \notin S, S \cup {x} \in SUBSET T
    PROVE  Cardinality(S) + 1 <= Cardinality(T)
<1>1. IsFiniteSet(S \cup {x}) /\ Cardinality(S \cup {x}) <= Cardinality(T)
  BY FS_Subset
<1>2. S \in SUBSET (S \cup {x})
  OBVIOUS
<1>3. IsFiniteSet(S)
  BY <1>1, <1>2, FS_Subset
<1> QED
  BY <1>1, <1>3, FS_AddElement

LEMMA OneLess ==
    ASSUME NEW S, IsFiniteSet(S), NEW x \in S
    PROVE  IsFiniteSet(S \ {x}) /\ Cardinality(S \ {x}) = Cardinality(S) - 1
BY FS_RemoveElement

LEMMA Loses ==
    ASSUME NEW S, NEW T, IsFiniteSet(S), IsFiniteSet(T), NEW x, S \ {x} \in SUBSET T
    PROVE  Cardinality(S) - 1 <= Cardinality(T)
<1>1. IsFiniteSet(S \ {x}) /\ Cardinality(S \ {x}) <= Cardinality(T)
  BY FS_Subset
<1>2. Cardinality(S) \in Nat /\ Cardinality(T) \in Nat /\ Cardinality(S \ {x}) \in Nat
  BY <1>1, FS_CardinalityType
<1>3. Cardinality(S \ {x}) = IF x \in S THEN Cardinality(S) - 1 ELSE Cardinality(S)
  BY FS_RemoveElement
<1> QED
  BY <1>1, <1>2, <1>3, SMT

\* What a notification in progress covers.
LEMMA CoversKept ==
    ASSUME BudgetTypeOK, NEW h \in Harts, Covers(h), NEW d \in Int,
           \A g \in Harts : DeepIdle(g)' => DeepIdle(g),
           pc'[h] \in {"mask", "notify"}, budget'[h] = budget[h], target'[h] = target[h],
           Cardinality(Queued') <= Cardinality(Queued) + d,
           Cardinality(Passed(h)) + d <= Cardinality(Passed(h)')
    PROVE  Covers(h)'
<1>1. Ahead(h) => Ahead(h)'
  BY DEF Ahead, Sleepers
<1>2. Rest(h)' = Rest(h)
  BY DEF Rest
<1>3. budget[h] \in Int
  BY SchedulerAssumption, SMT DEF BudgetTypeOK
<1>4. CASE /\ budget[h] > 0 => Ahead(h)
           /\ Cardinality(Queued) <= budget[h] + Cardinality(Passed(h))
  <2>1. Cardinality(Queued') <= budget[h] + Cardinality(Passed(h)')
    BY <1>3, <1>4, QueuedFinite, PassedFinite, SMT
  <2> QED
    BY <1>1, <1>4, <2>1 DEF Covers
<1>5. CASE Ahead(h) /\ Cardinality(Rest(h)) <= budget[h]
  BY <1>1, <1>2, <1>5 DEF Covers
<1> QED
  BY <1>4, <1>5 DEF Covers

\* A step that changes the number of tasks and of seekers alike, and puts nobody
\* to sleep.
LEMMA Balanced ==
    ASSUME Supply, BudgetTypeOK, NEW d \in Int,
           \A h \in Harts : DeepIdle(h)' => DeepIdle(h),
           \A h \in Harts : pc[h] \in {"mask", "notify"} =>
               /\ pc'[h] \in {"mask", "notify"}
               /\ budget'[h] = budget[h] /\ target'[h] = target[h],
           Cardinality(Queued') <= Cardinality(Queued) + d,
           Cardinality(Seekers) + d <= Cardinality(Seekers'),
           \A h \in Harts : pc[h] \in {"mask", "notify"} =>
               Cardinality(Passed(h)) + d <= Cardinality(Passed(h)')
    PROVE  Supply'
<1> SUFFICES ASSUME Sleepers' # {}
             PROVE  \/ Cardinality(Queued') <= Cardinality(Seekers')
                    \/ \E h \in Harts : Covers(h)'
  BY DEF Supply
<1>1. CASE Cardinality(Queued) <= Cardinality(Seekers)
  BY <1>1, QueuedFinite, SeekersFinite, SMT
<1>2. ASSUME NEW h \in Harts, Covers(h) PROVE Covers(h)'
  <2>1. pc[h] \in {"mask", "notify"}
    BY <1>2 DEF Covers
  <2> QED
    BY <1>2, <2>1, CoversKept
<1>3. Sleepers # {}
  BY DEF Sleepers
<1> QED
  BY <1>1, <1>2, <1>3 DEF Supply

\* A step that only frees harts and takes nothing into the queue.
Calm ==
    /\ \A g \in Harts : DeepIdle(g)' => DeepIdle(g)
    /\ \A g \in Harts : Seeks(g) => Seeks(g)'
    /\ \A g \in Harts : pc[g] = "fetch" => pc'[g] = "fetch"
    /\ \A g \in Harts : pc[g] \in {"mask", "notify"} =>
           /\ pc'[g] \in {"mask", "notify"}
           /\ budget'[g] = budget[g] /\ target'[g] = target[g]
    /\ entries' = entries

LEMMA CalmSupply ==
    ASSUME Supply, BudgetTypeOK, Calm
    PROVE  Supply'
<1>1. Queued' = Queued
  BY DEF Calm, Queued
<1>2. Seekers \in SUBSET Seekers'
  BY DEF Calm, Seekers
<1>3. \A h \in Harts : pc[h] \in {"mask", "notify"} => Passed(h) \in SUBSET (Passed(h)')
  BY <1>2 DEF Calm, Passed, Seekers
<1>4. Cardinality(Queued') <= Cardinality(Queued) + 0
  BY <1>1, QueuedFinite, SMT
<1>5. Cardinality(Seekers) + 0 <= Cardinality(Seekers')
  <2>1. Cardinality(Seekers) <= Cardinality(Seekers')
    BY <1>2, SeekersFinite, FS_Subset
  <2> QED
    BY <2>1, SeekersFinite, SMT
<1>6. ASSUME NEW h \in Harts, pc[h] \in {"mask", "notify"}
      PROVE  Cardinality(Passed(h)) + 0 <= Cardinality(Passed(h)')
  <2>1. Cardinality(Passed(h)) <= Cardinality(Passed(h)')
    BY <1>3, <1>6, PassedFinite, FS_Subset
  <2> QED
    BY <2>1, PassedFinite, SMT
<1>7. 0 \in Int
  BY SMT
<1> QED
  BY <1>4, <1>5, <1>6, <1>7, Balanced DEF Calm

\* The steps of a task on its hart are calm.
LEMMA TaskCalm ==
    ASSUME NEW h \in Harts, Inv, BudgetTypeOK, TaskStep(h)
    PROVE  Calm
<1> USE DEF Calm, Seeks, DeepIdle, At, HartTypeOK, LocalTypeOK
<1>0. HartTypeOK /\ LocalTypeOK /\ SlotsAgree(h)
  BY DEF Inv
<1>1. CASE SuspendCurrent(h)
  BY <1>0, <1>1, SMTT(30) DEF SuspendCurrent, Suspend
<1>2. CASE Preempt(h)
  BY <1>0, <1>2, SMTT(30) DEF Preempt, Suspend
<1>3. CASE IpiTrap(h)
  BY <1>0, <1>3, SMTT(30) DEF IpiTrap, Suspend
<1>4. CASE PublishBlocked(h)
  BY <1>0, <1>4, SMTT(30) DEF PublishBlocked
<1>5. CASE RevokeBlocked(h)
  BY <1>0, <1>5, SMTT(30) DEF RevokeBlocked
<1>6. CASE CommitBlocked(h)
  BY <1>0, <1>6, SMTT(30) DEF CommitBlocked
<1>7. CASE StopCurrent(h)
  BY <1>0, <1>7, SMTT(30) DEF StopCurrent
<1>8. CASE SuspendInCall(h)
  BY <1>0, <1>8, SMTT(30) DEF SuspendInCall, Suspend
<1>9. CASE Exit(h) \/ ExitInCall(h)
  BY <1>0, <1>9, SMTT(30) DEF Exit, ExitInCall, TakeForExit
<1>10. CASE PublishZombie(h)
  BY <1>0, <1>10, SMTT(30) DEF PublishZombie
<1>11. CASE Abandon(h)
  BY <1>0, <1>11, SMTT(30) DEF Abandon, SlotsAgree, InTask
<1>12. CASE AffLoad(h)
  BY <1>0, <1>12, SMTT(30) DEF AffLoad
<1>13. CASE AffStore(h)
  BY <1>0, <1>13, SMTT(30) DEF AffStore
<1>14. CASE AffTest(h)
  BY <1>0, <1>14, SMTT(30) DEF AffTest, DropArg, BudgetTypeOK
<1>15. CASE AffIpi(h)
  BY <1>0, <1>15, SMTT(30) DEF AffIpi, DropArg
<1>16. ASSUME NEW u \in Tasks, MakeReady(h, u) PROVE Calm
  BY <1>0, <1>16, SMTT(30) DEF MakeReady
<1>17. ASSUME NEW u \in Tasks, NEW k, Clone(h, u, k) PROVE Calm
  BY <1>0, <1>17, SMTT(30) DEF Clone
<1>18. ASSUME NEW u \in Tasks, NEW m, SetAffinity(h, u, m) PROVE Calm
  BY <1>0, <1>18, SMT DEF SetAffinity
<1>19. CASE LeaveInCall(h)
  BY <1>0, <1>19, SMTT(30) DEF LeaveInCall
<1> QED
  BY ZenonT(30), <1>1, <1>2, <1>3, <1>4, <1>5, <1>6, <1>7, <1>8, <1>9, <1>10, <1>11, <1>12, <1>13, <1>14, <1>15,
     <1>16, <1>17, <1>18, <1>19 DEF TaskStep

\* The steps of the loop of a hart that leave the queue alone are calm.
LEMMA LoopCalm ==
    ASSUME NEW h \in Harts, Inv,
           \/ ReadMask(h) \/ SwitchToIdle(h) \/ TakeCurrent(h) \/ MarkOffCpu(h) \/ ReadPrev(h)
           \/ CheckAffinity(h) \/ Place(h) \/ Start(h) \/ Claim(h)
           \/ PublishIdle(h) \/ ClearIdle(h) \/ WakeFromWfi(h)
    PROVE  Calm
<1> USE DEF Calm, Seeks, DeepIdle, At, HartTypeOK, LocalTypeOK
<1>0. HartTypeOK /\ LocalTypeOK /\ SlotsAgree(h)
  BY ZenonT(30) DEF Inv
<1>1. CASE ReadMask(h)
  <2>1. pc[h] = "mask" /\ pc' = [pc EXCEPT ![h] = "notify"]
    BY <1>1 DEF ReadMask, Goto
  <2>2. UNCHANGED <<ret, current, ipi, budget, target, entries>>
    BY <1>1 DEF ReadMask, tcbVars
  <2> QED
    BY <1>0, <2>1, <2>2, SMTT(30)
<1>2. CASE SwitchToIdle(h)
  BY <1>0, <1>2, SMTT(30) DEF SwitchToIdle
<1>3. CASE TakeCurrent(h)
  BY <1>0, <1>3, SMTT(30) DEF TakeCurrent
<1>4. CASE MarkOffCpu(h)
  BY <1>0, <1>4, SMTT(30) DEF MarkOffCpu
<1>5. CASE ReadPrev(h)
  BY <1>0, <1>5, SMTT(30) DEF ReadPrev, DropArg
<1>6. CASE CheckAffinity(h)
  BY <1>0, <1>6, SMTT(30) DEF CheckAffinity
<1>7. CASE Place(h)
  BY <1>0, <1>7, SMTT(30) DEF Place
<1>8. CASE Start(h)
  BY <1>0, <1>8, SMTT(30) DEF Start
<1>9. CASE Claim(h)
  BY <1>0, <1>9, SMTT(30) DEF Claim, DropArg
<1>10. CASE PublishIdle(h)
  BY <1>0, <1>10, SMTT(30) DEF PublishIdle, SetIdle
<1>11. CASE ClearIdle(h)
  <2>1. pc[h] = "unidle" /\ pc' = [pc EXCEPT ![h] = "loop"]
    BY <1>11 DEF ClearIdle, SetIdle, Goto
  <2>2. UNCHANGED <<ret, current, ipi, budget, target, entries>>
    BY <1>11 DEF ClearIdle, SetIdle, tcbVars, locals
  <2>3. current[h] = NoTask
    <3>1. pc[h] \in LoopPCs \ {"loop"}
      BY <2>1 DEF LoopPCs
    <3> QED
      BY <1>0, <3>1 DEF SlotsAgree
  <2> QED
    BY <1>0, <2>1, <2>2, <2>3, SMTT(30)
<1>12. CASE WakeFromWfi(h)
  BY <1>0, <1>12, SMTT(30) DEF WakeFromWfi
<1> QED
  BY <1>1, <1>2, <1>3, <1>4, <1>5, <1>6, <1>7, <1>8, <1>9, <1>10, <1>11, <1>12, ZenonT(30)

\* An add_task that queues nothing is calm too.
LEMMA IdleAddCalm ==
    ASSUME NEW h \in Harts, Inv, BudgetTypeOK, AddTask(h), ~Enqueues(arg[h])
    PROVE  Calm
<1>0. HartTypeOK /\ LocalTypeOK
  BY DEF Inv
<1> QED
  BY <1>0, SMTT(30) DEF Calm, Seeks, DeepIdle, At, HartTypeOK, LocalTypeOK, BudgetTypeOK, AddTask, Return

\* An empty queue needs no seekers.
LEMMA EmptySupply == ASSUME Queued' = {} PROVE Supply'
<1>1. Cardinality(Queued') <= Cardinality(Seekers')
  BY FS_EmptySet, SeekersFinite, SMT
<1> QED
  BY <1>1 DEF Supply

\* Without masks, fetch_task finds nothing only when the queue is empty.
LEMMA FetchNoneSupply ==
    ASSUME NEW h \in Harts, Inv, Full, FetchNone(h)
    PROVE  Supply'
<1>1. \A u \in Tasks : entries[u] > 0 => status[u] = "Ready" /\ can_run_on(u, h)
  <2> SUFFICES ASSUME NEW u \in Tasks, entries[u] > 0 PROVE status[u] = "Ready" /\ can_run_on(u, h)
    OBVIOUS
  <2>1. entries[u] = (IF on_rq[u] THEN 1 ELSE 0) /\ (on_rq[u] => status[u] = "Ready")
    BY DEF Inv, QueueSound
  <2>2. ~(0 > 0)
    BY SMT
  <2>3. on_rq[u]
    BY <2>1, <2>2
  <2> QED
    BY <2>1, <2>3 DEF Full, can_run_on
<1>2. Blocking(h) = {} /\ StaleEntries = {}
  BY <1>1 DEF Blocking, StaleEntries
<1>3. Eligible(h) = {} /\ \A t \in Tasks : entries'[t] = entries[t]
  BY <1>2 DEF FetchNone
<1>4. Queued' = {}
  BY <1>1, <1>3 DEF Queued, Eligible
<1> QED
  BY <1>4, EmptySupply

\* So does the second look.
LEMMA RecheckSupply ==
    ASSUME NEW h \in Harts, Inv, Full, BudgetTypeOK, Supply, Recheck(h)
    PROVE  Supply'
<1>0. HartTypeOK /\ LocalTypeOK
  BY DEF Inv
<1>1. CASE has_ready_for_hart(h)
  <2>1. Calm
    BY <1>0, <1>1, SMT DEF Calm, Seeks, DeepIdle, At, HartTypeOK, LocalTypeOK, Recheck
  <2> QED
    BY <2>1, CalmSupply
<1>2. CASE ~has_ready_for_hart(h)
  <2>1. Queued' = {}
    BY <1>2 DEF Recheck, has_ready_for_hart, can_run_on, Full, Queued
  <2> QED
    BY <2>1, EmptySupply
<1> QED
  BY <1>1, <1>2

\* fetch_task takes one task and one seeker.
LEMMA FetchTaskSupply ==
    ASSUME NEW h \in Harts, NEW u \in Tasks, Inv, BudgetTypeOK, Supply, FetchTask(h, u)
    PROVE  Supply'
<1>0. HartTypeOK /\ LocalTypeOK /\ TaskTypeOK /\ QueueSound
  BY DEF Inv
<1>1. u \in Queued /\ Queued' \in SUBSET (Queued \ {u})
  <2>1. entries[u] = 1
    <3>1. entries[u] > 0
      BY DEF FetchTask, Eligible
    <3>2. entries[u] = IF on_rq[u] THEN 1 ELSE 0
      BY <1>0 DEF QueueSound
    <3> QED
      BY <3>1, <3>2, SMT
  <2>2. \A t \in Tasks : entries'[t] > 0 => entries[t] > 0 /\ t # u
    BY <1>0, <2>1, SMT DEF FetchTask, TaskTypeOK
  <2> QED
    BY <2>1, <2>2, SMTT(30) DEF Queued
<1>2. Cardinality(Queued') <= Cardinality(Queued) - 1
  <2>1. Cardinality(Queued \ {u}) = Cardinality(Queued) - 1 /\ IsFiniteSet(Queued \ {u})
    BY <1>1, QueuedFinite, OneLess
  <2>2. Cardinality(Queued') <= Cardinality(Queued \ {u})
    BY <1>1, <2>1, FS_Subset
  <2> QED
    BY <2>1, <2>2
<1>3. \A g \in Harts : g # h => pc'[g] = pc[g] /\ (Seeks(g) => Seeks(g)')
  BY <1>0, SMT DEF FetchTask, HartTypeOK, Seeks, At
<1>4. Cardinality(Seekers) - 1 <= Cardinality(Seekers')
  <2>1. Seekers \ {h} \in SUBSET Seekers'
    BY <1>3 DEF Seekers
  <2> QED
    BY <2>1, SeekersFinite, Loses
<1>5. ASSUME NEW g \in Harts PROVE Cardinality(Passed(g)) - 1 <= Cardinality(Passed(g)')
  <2>1. target' = target
    BY DEF FetchTask
  <2>2. Passed(g) \ {h} \in SUBSET (Passed(g)')
    BY <1>3, <2>1 DEF Passed, Seekers
  <2> QED
    BY <2>2, PassedFinite, Loses
<1>6. /\ \A g \in Harts : DeepIdle(g)' => DeepIdle(g)
      /\ \A g \in Harts : pc[g] \in {"mask", "notify"} =>
             /\ pc'[g] \in {"mask", "notify"}
             /\ budget'[g] = budget[g] /\ target'[g] = target[g]
  BY <1>0, SMTT(30) DEF FetchTask, HartTypeOK, DeepIdle
<1>7. /\ -1 \in Int
      /\ Cardinality(Queued') <= Cardinality(Queued) + -1
      /\ Cardinality(Seekers) + -1 <= Cardinality(Seekers')
      /\ \A g \in Harts : Cardinality(Passed(g)) + -1 <= Cardinality(Passed(g)')
  BY <1>2, <1>4, <1>5, QueuedFinite, SeekersFinite, PassedFinite, SMTT(30)
<1> QED
  BY <1>6, <1>7, Balanced

\* A push makes the queue longer by one at most.
LEMMA OneMore ==
    ASSUME NEW u, Queued' \in SUBSET (Queued \cup {u})
    PROVE  Cardinality(Queued') <= Cardinality(Queued) + 1
<1>1. /\ IsFiniteSet(Queued \cup {u})
      /\ Cardinality(Queued \cup {u}) =
            IF u \in Queued THEN Cardinality(Queued) ELSE Cardinality(Queued) + 1
  BY QueuedFinite, FS_AddElement
<1>2. Cardinality(Queued') <= Cardinality(Queued \cup {u})
  BY <1>1, FS_Subset
<1> QED
  BY <1>1, <1>2, QueuedFinite, SMT

\* requeue_current adds the task of a hart that is then a seeker.
LEMMA RequeueSupply ==
    ASSUME NEW h \in Harts, Inv, BudgetTypeOK, Supply, Requeue(h)
    PROVE  Supply'
<1>0. HartTypeOK /\ LocalTypeOK /\ TaskTypeOK /\ arg[h] \in Tasks
  BY OperandIsTask DEF Inv, Requeue
<1>1. Cardinality(Queued') <= Cardinality(Queued) + 1
  <2>1. Queued' \in SUBSET (Queued \cup {arg[h]})
    BY <1>0, SMTT(30) DEF Requeue, Push, Queued, TaskTypeOK
  <2> QED
    BY <2>1, OneMore
<1>2. /\ \A g \in Harts : g # h => pc'[g] = pc[g] /\ (Seeks(g) => Seeks(g)')
      /\ ~Seeks(h) /\ Seeks(h)' /\ pc'[h] = "fetch"
  BY <1>0, SMT DEF Requeue, DropArg, HartTypeOK, Seeks, At
<1>3. Cardinality(Seekers) + 1 <= Cardinality(Seekers')
  <2>1. h \notin Seekers /\ Seekers \cup {h} \in SUBSET Seekers'
    BY <1>2 DEF Seekers
  <2> QED
    BY <2>1, SeekersFinite, Gains
<1>4. ASSUME NEW g \in Harts PROVE Cardinality(Passed(g)) + 1 <= Cardinality(Passed(g)')
  <2>1. target' = target
    BY DEF Requeue
  <2>2. h \notin Passed(g) /\ Passed(g) \cup {h} \in SUBSET (Passed(g)')
    BY <1>2, <2>1 DEF Passed, Seekers
  <2> QED
    BY <2>2, PassedFinite, Gains
<1>5. /\ \A g \in Harts : DeepIdle(g)' => DeepIdle(g)
      /\ \A g \in Harts : pc[g] \in {"mask", "notify"} =>
             /\ pc'[g] \in {"mask", "notify"}
             /\ budget'[g] = budget[g] /\ target'[g] = target[g]
  BY <1>0, SMT DEF Requeue, HartTypeOK, DeepIdle
<1>6. 1 \in Int
  BY SMT
<1> QED
  BY <1>1, <1>3, <1>4, <1>5, <1>6, Balanced

\* The budget of a push covers the queue, or all other harts.
LEMMA PushSupply ==
    ASSUME NEW h \in Harts, Inv, BudgetTypeOK, Steady, AddTask(h), Enqueues(arg[h])
    PROVE  Supply'
<1>0. HartTypeOK /\ LocalTypeOK /\ TaskTypeOK /\ arg[h] \in Tasks
  BY OperandIsTask, ZenonT(30) DEF Inv, AddTask
<1>1. /\ pc'[h] = "mask" /\ target'[h] = 0
      /\ budget'[h] = IF QueueLen + 1 < HartCount THEN QueueLen + 1 ELSE HartCount - 1
  BY <1>0, SMTT(30) DEF HartTypeOK, BudgetTypeOK, Steady, Sweeping, AddTask
<1>2. Ahead(h)'
  BY <1>1, SMT DEF Ahead, Sleepers, Harts
<1>3. CASE QueueLen + 1 < HartCount
  <2>1. Cardinality(Queued') <= QueueLen + 1
    <3>1. Queued' \in SUBSET (Queued \cup {arg[h]})
      BY <1>0, SMTT(30) DEF AddTask, Push, Queued, TaskTypeOK
    <3> QED
      BY <3>1, OneMore DEF QueueLen, Queued
  <2>2. Cardinality(Queued') <= budget'[h] + Cardinality(Passed(h)')
    BY <1>1, <1>3, <2>1, QueueLenNat, QueuedFinite, PassedFinite, SMTT(30)
  <2> QED
    BY <1>1, <1>2, <2>2 DEF Supply, Covers
<1>4. CASE ~(QueueLen + 1 < HartCount)
  <2>1. Cardinality(Rest(h)') <= HartCount - 1
    <3>1. IsFiniteSet(Harts) /\ Cardinality(Harts) = HartCount
      BY FS_Interval, SchedulerAssumption, SMT DEF Harts
    <3>2. Cardinality(Harts \ {h}) = HartCount - 1 /\ IsFiniteSet(Harts \ {h})
      BY <3>1, FS_RemoveElement
    <3>3. Rest(h)' \in SUBSET (Harts \ {h})
      BY DEF Rest
    <3>4. Cardinality(Rest(h)') <= Cardinality(Harts \ {h})
      BY <3>2, <3>3, FS_Subset
    <3> QED
      BY <3>2, <3>4
  <2> QED
    BY <1>1, <1>2, <1>4, <2>1 DEF Supply, Covers
<1> QED
  BY <1>3, <1>4

\* A look at one more hart: it is interrupted at the expense of the budget, or it
\* is no sleeper, or the budget is spent.
LEMMA SweepCovers ==
    ASSUME NEW h \in Harts, Inv, BudgetTypeOK, Steady, Notify(h), MoreTargets(h), Covers(h)
    PROVE  Covers(h)'
<1> DEFINE t == target[h]
           b == budget[h]
           hit == t # h /\ t \in mask[h] /\ hart_idle[t] /\ b # 0
<1>0. HartTypeOK /\ LocalTypeOK
  BY DEF Inv
<1>1. /\ pc[h] = "notify" /\ pc'[h] = "notify" /\ target'[h] = t + 1 /\ t \in Harts
      /\ t \in Nat /\ b \in Nat /\ Harts \in SUBSET Int /\ mask[h] = Harts
  <2>1. /\ pc[h] = "notify" /\ pc'[h] = "notify" /\ target'[h] = t + 1 /\ t \in Harts
        /\ mask[h] = Harts
    BY <1>0, SMT DEF Notify, MoreTargets, HartTypeOK, LocalTypeOK, Steady, Sweeping
  <2>2. t \in Nat /\ b \in Nat
    BY <1>0, SchedulerAssumption, SMT DEF LocalTypeOK, BudgetTypeOK
  <2>3. Harts \in SUBSET Int
    BY SchedulerAssumption, SMTT(30) DEF Harts
  <2> QED
    BY <2>1, <2>2, <2>3
<1>2. \A g \in Harts : DeepIdle(g)' => DeepIdle(g)
  BY <1>0, <1>1, SMT DEF Notify, MoreTargets, DeepIdle, HartTypeOK, LocalTypeOK
<1>3. Passed(h) \in SUBSET (Passed(h)')
  <2>1. \A g \in Harts : pc'[g] = pc[g] /\ (Seeks(g) => Seeks(g)')
    BY <1>0, <1>1, SMTT(30) DEF Notify, MoreTargets, Seeks, At, HartTypeOK, LocalTypeOK
  <2>2. \A g \in Harts : g < t => g < t + 1
    BY <1>1, SMT
  <2> QED
    BY <1>1, <2>1, <2>2 DEF Passed, Seekers
<1>4. Queued' = Queued
  BY DEF Notify, Queued, tcbVars
<1>5. Rest(h)' \in SUBSET (Rest(h) \ {t})
  <2>1. \A g \in Harts : t + 1 <= g => t <= g /\ g # t
    BY <1>1, SMT
  <2> QED
    BY <1>1, <2>1 DEF Rest
<1>6. CASE hit
  <2>1. budget'[h] = b - 1 /\ ipi'[t] /\ pc[t] \in {"recheck", "wfi", "unidle"} /\ pc'[t] = pc[t]
    BY <1>0, <1>1, <1>6, SMTT(30)
       DEF Notify, MoreTargets, HartTypeOK, LocalTypeOK, BudgetTypeOK, Steady, Idling
  <2>2. Ahead(h)
    <3>1. b > 0
      BY <1>1, <1>6, SMTT(30)
    <3> QED
      BY <3>1 DEF Covers
  <2>3. Ahead(h)'
    BY <1>1, <1>2, <2>1, <2>2, SMTT(30) DEF Ahead, Sleepers, DeepIdle
  <2>4. CASE Cardinality(Queued) <= b + Cardinality(Passed(h))
    <3>1. t \notin Passed(h)
      BY <1>1, <2>1, SMTT(30) DEF Passed
    <3>2. t \in Passed(h)'
      BY <1>1, <2>1, SMT DEF Passed, Seekers, Seeks
    <3>3. Cardinality(Passed(h)) + 1 <= Cardinality(Passed(h)')
      <4>1. IsFiniteSet(Passed(h)') /\ Passed(h) \cup {t} \in SUBSET (Passed(h)')
        BY <1>3, <3>2, PassedFinite
      <4> QED
        BY <3>1, <4>1, Gains
    <3>4. Cardinality(Queued') <= budget'[h] + Cardinality(Passed(h)')
      BY <1>1, <1>4, <2>1, <2>4, <3>3, QueuedFinite, PassedFinite, SMTT(30)
    <3> QED
      BY <1>1, <2>3, <3>4 DEF Covers
  <2>5. CASE Cardinality(Rest(h)) <= b
    <3>1. t \in Rest(h)
      BY <1>1, <1>6, SMT DEF Rest
    <3>2. IsFiniteSet(Rest(h) \ {t}) /\ Cardinality(Rest(h) \ {t}) = Cardinality(Rest(h)) - 1
      <4>1. IsFiniteSet(Rest(h))
        BY PassedFinite
      <4> QED
        BY <3>1, <4>1, OneLess
    <3>3. Cardinality(Rest(h)') <= Cardinality(Rest(h) \ {t})
      BY <1>5, <3>2, FS_Subset
    <3>4. Cardinality(Rest(h)') <= budget'[h]
      BY <1>1, <2>1, <2>5, <3>2, <3>3, PassedFinite, SMTT(30)
    <3> QED
      BY <1>1, <2>3, <3>4 DEF Covers
  <2> QED
    BY <2>4, <2>5 DEF Covers
<1>7. CASE ~hit
  <2>1. budget'[h] = b
    <3>1. UNCHANGED budget
      BY <1>1, <1>7 DEF Notify, MoreTargets
    <3> QED
      BY <3>1
  <2>2. Cardinality(Passed(h)) <= Cardinality(Passed(h)')
    BY <1>3, PassedFinite, FS_Subset
  <2>3. Cardinality(Rest(h)') <= Cardinality(Rest(h))
    BY <1>5, PassedFinite, FS_Subset
  <2>4. CASE b = 0 /\ Cardinality(Queued) <= b + Cardinality(Passed(h))
    <3>1. Cardinality(Queued') <= budget'[h] + Cardinality(Passed(h)')
      BY <1>4, <2>1, <2>2, <2>4, QueuedFinite, PassedFinite, SMTT(30)
    <3>2. ~(budget'[h] > 0)
      BY <2>1, <2>4, SMTT(30)
    <3> QED
      BY <1>1, <3>1, <3>2 DEF Covers
  <2>5. CASE b = 0 /\ Ahead(h) /\ Cardinality(Rest(h)) <= b
    <3>1. Rest(h) = {}
      BY <2>5, PassedFinite, FS_EmptySet, SMTT(30)
    <3>2. \A g \in Sleepers : g \in Rest(h)
      BY <1>1, <2>5 DEF Ahead, Rest, Sleepers, DeepIdle
    <3>3. Ahead(h)'
      BY <1>2, <3>1, <3>2 DEF Ahead, Sleepers
    <3>4. Cardinality(Rest(h)') <= budget'[h]
      BY <1>1, <2>1, <2>3, <2>5, PassedFinite, SMTT(30)
    <3> QED
      BY <1>1, <3>3, <3>4 DEF Covers
  <2>6. CASE b # 0
    <3>1. ~DeepIdle(t)
      BY <1>1, <1>7, <2>6, ZenonT(30) DEF Steady, Idling, DeepIdle
    <3>2. Ahead(h)
      BY <1>1, <2>6, SMTT(30) DEF Covers
    <3>3. Ahead(h)'
      BY <1>1, <1>2, <3>1, <3>2, SMTT(30) DEF Ahead, Sleepers
    <3>4. \/ Cardinality(Queued') <= budget'[h] + Cardinality(Passed(h)')
          \/ Cardinality(Rest(h)') <= budget'[h]
      <4>1. \/ Cardinality(Queued) <= b + Cardinality(Passed(h))
            \/ Cardinality(Rest(h)) <= b
        BY DEF Covers
      <4> QED
        BY <1>1, <1>4, <2>1, <2>2, <2>3, <4>1, QueuedFinite, PassedFinite, SMTT(30)
    <3> QED
      BY <1>1, <3>3, <3>4 DEF Covers
  <2> QED
    BY <2>4, <2>5, <2>6, ZenonT(30) DEF Covers
<1> QED
  BY <1>6, <1>7

\* A notification that has seen every hart has done its part.
LEMMA SweptSupply ==
    ASSUME NEW h \in Harts, Inv, BudgetTypeOK, Notify(h), ~MoreTargets(h), Covers(h)
    PROVE  Sleepers = {} \/ Cardinality(Queued) <= Cardinality(Seekers)
<1>1. \A g \in Harts : ~(target[h] <= g)
  BY SchedulerAssumption, SMTT(30) DEF Inv, LocalTypeOK, MoreTargets, Harts
<1>2. Ahead(h) => Sleepers = {}
  BY <1>1 DEF Ahead, Sleepers
<1>3. budget[h] \in Nat
  BY SchedulerAssumption, SMTT(30) DEF BudgetTypeOK
<1>4. CASE ~(budget[h] > 0) /\ Cardinality(Queued) <= budget[h] + Cardinality(Passed(h))
  <2>1. Passed(h) \in SUBSET Seekers
    BY DEF Passed
  <2>2. Cardinality(Passed(h)) <= Cardinality(Seekers)
    BY <2>1, SeekersFinite, FS_Subset
  <2> QED
    BY <1>3, <1>4, <2>2, QueuedFinite, SeekersFinite, PassedFinite, SMTT(30)
<1> QED
  BY <1>2, <1>4 DEF Covers

\* The notification keeps the supply.
LEMMA NotifySupply ==
    ASSUME NEW h \in Harts, Inv, BudgetTypeOK, Steady, Supply, Notify(h)
    PROVE  Supply'
<1>0. HartTypeOK /\ LocalTypeOK /\ target[h] \in Int
  BY SMTT(30) DEF Inv, LocalTypeOK
<1>1. /\ \A g \in Harts : DeepIdle(g)' => DeepIdle(g)
      /\ \A g \in Harts : Seeks(g) => Seeks(g)'
      /\ \A g \in Harts : g # h => pc'[g] = pc[g] /\ budget'[g] = budget[g] /\ target'[g] = target[g]
      /\ pc[h] = "notify"
  BY <1>0, SMTT(30) DEF Notify, MoreTargets, Return, Seeks, At, DeepIdle, HartTypeOK, LocalTypeOK, BudgetTypeOK
<1>2. Queued' = Queued
  BY DEF Notify, Queued, tcbVars
<1>3. Cardinality(Seekers) <= Cardinality(Seekers')
  <2>1. Seekers \in SUBSET Seekers'
    BY <1>1 DEF Seekers
  <2> QED
    BY <2>1, SeekersFinite, FS_Subset
<1>4. ASSUME NEW g \in Harts, g # h, Covers(g) PROVE Covers(g)'
  <2>1. Passed(g) \in SUBSET (Passed(g)')
    <3>1. \A k \in Harts : pc[k] = "fetch" => pc'[k] = "fetch"
      BY <1>1
    <3> QED
      BY <1>1, <1>4, <3>1 DEF Passed, Seekers
  <2>2. Cardinality(Passed(g)) <= Cardinality(Passed(g)')
    BY <2>1, PassedFinite, FS_Subset
  <2>3. /\ 0 \in Int /\ Cardinality(Queued') <= Cardinality(Queued) + 0
        /\ Cardinality(Passed(g)) + 0 <= Cardinality(Passed(g)')
    BY <1>2, <2>2, QueuedFinite, PassedFinite, SMTT(30)
  <2>4. pc'[g] \in {"mask", "notify"}
    BY <1>1, <1>4 DEF Covers
  <2> QED
    BY <1>1, <1>4, <2>3, <2>4, CoversKept
<1> SUFFICES ASSUME Sleepers' # {}
             PROVE  \/ Cardinality(Queued') <= Cardinality(Seekers')
                    \/ \E g \in Harts : Covers(g)'
  BY DEF Supply
<1>5. Sleepers # {}
  BY <1>1 DEF Sleepers
<1>6. CASE Cardinality(Queued) <= Cardinality(Seekers)
  BY <1>2, <1>3, <1>6, QueuedFinite, SeekersFinite, SMTT(30)
<1>7. CASE Covers(h)
  BY <1>5, <1>6, <1>7, SweepCovers, SweptSupply
<1> QED
  BY <1>4, <1>5, <1>6, <1>7 DEF Supply

\* The places that Steady speaks of, and a step between two others.
Marked == {"notify", "recheck", "wfi", "unidle"}

Elsewhere(h) ==
    /\ pc[h] \notin Marked
    /\ pc' = pc \/ \E q : q \notin Marked /\ pc' = [pc EXCEPT ![h] = q]
    /\ mask' = mask \/ \E m : mask' = [mask EXCEPT ![h] = m]
    /\ target' = target \/ target' = [target EXCEPT ![h] = 0]
    /\ UNCHANGED hart_idle

LEMMA ElsewhereSteady ==
    ASSUME NEW h \in Harts, Steady, HartTypeOK, LocalTypeOK, Elsewhere(h), Full'
    PROVE  Steady'
<1>0. DOMAIN pc = Harts /\ DOMAIN mask = Harts /\ DOMAIN target = Harts
  BY DEF HartTypeOK, LocalTypeOK
<1>1. pc'[h] \notin Marked /\ \A g \in Harts \ {h} : pc'[g] = pc[g]
  BY <1>0 DEF Elsewhere
<1>2. \A g \in Harts \ {h} : mask'[g] = mask[g]
  BY <1>0 DEF Elsewhere
<1>3. target[h] = 0 /\ pc[h] \notin Marked
  BY DEF Steady, Sweeping, Elsewhere, Marked
<1>4. target'[h] = 0 /\ \A g \in Harts \ {h} : target'[g] = target[g]
  BY <1>0, <1>3 DEF Elsewhere
<1>5. Idling'
  <2> SUFFICES ASSUME NEW g \in Harts PROVE hart_idle'[g] <=> pc'[g] \in {"recheck", "wfi", "unidle"}
    BY DEF Idling
  <2> QED
    BY <1>1, <1>3 DEF Steady, Idling, Elsewhere, Marked
<1>6. Sweeping'
  <2> SUFFICES ASSUME NEW g \in Harts
               PROVE  IF pc'[g] = "notify" THEN mask'[g] = Harts ELSE target'[g] = 0
    BY DEF Sweeping
  <2>1. CASE g = h
    BY <1>1, <1>4, <2>1 DEF Marked
  <2>2. CASE g # h
    BY <1>1, <1>2, <1>4, <2>2 DEF Steady, Sweeping
  <2> QED
    BY <2>1, <2>2
<1> QED
  BY <1>5, <1>6 DEF Steady

\* A step that begins to notify every hart.
LEMMA BeginsSteady ==
    ASSUME NEW h \in Harts, Steady, HartTypeOK, LocalTypeOK, pc[h] \notin Marked,
           pc' = [pc EXCEPT ![h] = "notify"], mask' = [mask EXCEPT ![h] = Harts],
           UNCHANGED <<target, hart_idle, cpu_affinity>>
    PROVE  Steady'
<1>0. DOMAIN pc = Harts /\ DOMAIN mask = Harts
  BY DEF HartTypeOK, LocalTypeOK
<1>1. /\ pc'[h] = "notify" /\ mask'[h] = Harts
      /\ \A g \in Harts \ {h} : pc'[g] = pc[g] /\ mask'[g] = mask[g]
  BY <1>0
<1>2. Full'
  BY DEF Steady, Full
<1>3. Idling'
  <2> SUFFICES ASSUME NEW g \in Harts PROVE hart_idle'[g] <=> pc'[g] \in {"recheck", "wfi", "unidle"}
    BY DEF Idling
  <2> QED
    BY <1>1 DEF Steady, Idling, Marked
<1>4. Sweeping'
  BY <1>1 DEF Steady, Sweeping
<1> QED
  BY <1>2, <1>3, <1>4 DEF Steady

\* Neither a task nor sched_setaffinity narrows an affinity.
LEMMA TaskFull ==
    ASSUME Unpinned, NEW h \in Harts, Inv, Full, TaskStep(h)
    PROVE  Full'
<1>0. DOMAIN cpu_affinity = Tasks /\ SlotsAgree(h)
  BY DEF Inv, TaskTypeOK
<1>1. ASSUME NEW u \in Tasks, NEW k, Clone(h, u, k) PROVE Full'
  <2>1. stack[h] \in Tasks
    BY <1>0, <1>1 DEF Clone, SlotsAgree, InTask, At, TaskPCs
  <2>2. \E m : m = Harts /\ cpu_affinity' = [cpu_affinity EXCEPT ![u] = m]
    BY <1>1, <2>1 DEF Clone, Full
  <2> QED
    BY <1>0, <2>2 DEF Full
<1>2. ASSUME NEW u \in Tasks, NEW m \in Masks, SetAffinity(h, u, m) PROVE Full'
  <2>1. m = Harts /\ cpu_affinity' = [cpu_affinity EXCEPT ![u] = m]
    BY <1>2 DEF SetAffinity, Unpinned
  <2> QED
    BY <1>0, <2>1 DEF Full
<1>3. CASE UNCHANGED cpu_affinity
  BY <1>3 DEF Full
<1>4. CASE \/ SuspendCurrent(h) \/ Preempt(h) \/ IpiTrap(h) \/ PublishBlocked(h) \/ RevokeBlocked(h)
           \/ CommitBlocked(h) \/ StopCurrent(h) \/ SuspendInCall(h) \/ LeaveInCall(h) \/ Exit(h) \/ ExitInCall(h) \/ PublishZombie(h)
           \/ Abandon(h) \/ AffLoad(h) \/ AffStore(h) \/ AffTest(h) \/ AffIpi(h)
           \/ \E u \in Tasks : MakeReady(h, u)
  <2>1. UNCHANGED cpu_affinity
    BY <1>4 DEF SuspendCurrent, Preempt, IpiTrap, Suspend, PublishBlocked, RevokeBlocked, CommitBlocked,
                StopCurrent, SuspendInCall, LeaveInCall, Exit, ExitInCall, TakeForExit, PublishZombie, Abandon, AffLoad, AffStore, AffTest,
                AffIpi, MakeReady, tcbVars
  <2> QED
    BY <1>3, <2>1
<1> QED
  BY <1>1, <1>2, <1>4 DEF TaskStep

\* A task in the kernel is neither idle nor notifying, until sched_setaffinity notifies.
LEMMA TaskSteady ==
    ASSUME Unpinned, NEW h \in Harts, Inv, Steady, TaskStep(h)
    PROVE  Steady'
<1>0. HartTypeOK /\ LocalTypeOK /\ SlotsAgree(h) /\ Full
  BY DEF Inv, Steady
<1> USE DEF Elsewhere, Marked, Goto, locals
<1>1. SuspendCurrent(h) \/ Preempt(h) \/ SuspendInCall(h) => Elsewhere(h)
  BY DEF SuspendCurrent, Preempt, SuspendInCall, Suspend
<1>2. IpiTrap(h) => Elsewhere(h)
  BY DEF IpiTrap, Suspend
<1>3. PublishBlocked(h) \/ RevokeBlocked(h) \/ CommitBlocked(h) \/ StopCurrent(h) => Elsewhere(h)
  BY DEF PublishBlocked, RevokeBlocked, CommitBlocked, StopCurrent
<1>4. LeaveInCall(h) \/ Exit(h) \/ ExitInCall(h) \/ PublishZombie(h) \/ Abandon(h) => Elsewhere(h)
  BY DEF LeaveInCall, Exit, ExitInCall, TakeForExit, PublishZombie, Abandon
<1>5. ASSUME NEW u \in Tasks, MakeReady(h, u) PROVE Elsewhere(h)
  BY <1>5 DEF MakeReady
<1>6. ASSUME NEW u \in Tasks, NEW k, Clone(h, u, k) PROVE Elsewhere(h)
  BY <1>6 DEF Clone
<1>7. ASSUME NEW u \in Tasks, NEW m, SetAffinity(h, u, m) PROVE Elsewhere(h)
  BY <1>7 DEF SetAffinity
<1>8. AffLoad(h) \/ AffStore(h) => Elsewhere(h)
  <2>1. AffLoad(h) => \E q \in {"aff_test", "aff_store"} : pc' = [pc EXCEPT ![h] = q]
    BY DEF AffLoad
  <2> QED
    BY <2>1 DEF AffLoad, AffStore
<1>9. AffIpi(h) => Elsewhere(h)
  BY DEF AffIpi
<1>10. CASE Elsewhere(h)
  <2>1. Full'
    BY <1>0, TaskFull
  <2> QED
    BY <1>0, <1>10, <2>1, ElsewhereSteady
<1>11. CASE AffTest(h)
  <2>1. CASE scheduled_hart[arg[h]] = old_hart[h]
    BY <1>10, <1>11, <2>1 DEF AffTest
  <2>2. CASE scheduled_hart[arg[h]] # old_hart[h]
    <3>1. arg[h] \in Tasks
      BY <1>0, <1>11 DEF AffTest, SlotsAgree
    <3>2. /\ pc[h] = "aff_test" /\ pc' = [pc EXCEPT ![h] = "notify"]
          /\ mask' = [mask EXCEPT ![h] = cpu_affinity[arg[h]]]
          /\ UNCHANGED <<target, hart_idle, cpu_affinity>>
      BY <1>11, <2>2 DEF AffTest, tcbVars
    <3>3. cpu_affinity[arg[h]] = Harts
      BY <1>0, <3>1 DEF Full
    <3> QED
      BY <1>0, <3>2, <3>3, BeginsSteady
  <2> QED
    BY <2>1, <2>2
<1> QED
  BY <1>1, <1>2, <1>3, <1>4, <1>5, <1>6, <1>7, <1>8, <1>9, <1>10, <1>11, ZenonT(30) DEF TaskStep

\* The idle flag and the loop over the harts follow the control state.
LEMMA LoopSteady ==
    ASSUME Unpinned, NEW h \in Harts, Inv, BudgetTypeOK, Steady, LoopStep(h) \/ TimerTick(h)
    PROVE  Steady'
<1>0. TaskTypeOK /\ HartTypeOK /\ LocalTypeOK /\ SlotsAgree(h) /\ BudgetTypeOK
  BY DEF Inv
<1>1. ASSUME Elsewhere(h), UNCHANGED cpu_affinity PROVE Steady'
  <2>1. Full'
    BY <1>1 DEF Steady, Full
  <2> QED
    BY <1>0, <1>1, <2>1, ElsewhereSteady
<1>2. CASE AddTask(h)
  <2>1. ret[h] \notin Marked
    BY <1>0 DEF HartTypeOK, Marked
  <2>2. Elsewhere(h)
    BY <1>2, <2>1 DEF AddTask, Return, Elsewhere, Marked, Goto
  <2>3. UNCHANGED cpu_affinity
    BY <1>2 DEF AddTask
  <2> QED
    BY <1>1, <2>2, <2>3
<1>3. CASE ReadMask(h)
  <2>1. arg[h] \in Tasks
    BY <1>0, <1>3 DEF ReadMask, SlotsAgree, Calls
  <2>2. /\ pc[h] = "mask" /\ pc' = [pc EXCEPT ![h] = "notify"]
        /\ mask' = [mask EXCEPT ![h] = cpu_affinity[arg[h]]]
        /\ UNCHANGED <<target, hart_idle, cpu_affinity>>
    BY <1>3 DEF ReadMask, Goto, tcbVars
  <2>3. cpu_affinity[arg[h]] = Harts
    BY <2>1 DEF Steady, Full
  <2> QED
    BY <1>0, <2>2, <2>3, BeginsSteady DEF Marked
<1>4. CASE Notify(h)
  <2>0. DOMAIN pc = Harts /\ DOMAIN mask = Harts /\ DOMAIN target = Harts
    BY <1>0 DEF HartTypeOK, LocalTypeOK
  <2>1. CASE MoreTargets(h)
    <3>1. /\ pc[h] = "notify" /\ \E n : target' = [target EXCEPT ![h] = n]
          /\ UNCHANGED <<cpu_affinity, pc, mask, hart_idle>>
      BY <1>4, <2>1 DEF Notify, tcbVars
    <3>2. \A g \in Harts \ {h} : target'[g] = target[g]
      BY <2>0, <3>1
    <3>3. Sweeping'
      BY <3>1, <3>2 DEF Steady, Sweeping
    <3> QED
      BY <3>1, <3>3 DEF Steady, Full, Idling
  <2>2. CASE ~MoreTargets(h)
    <3>1. /\ pc[h] = "notify" /\ pc' = [pc EXCEPT ![h] = ret[h]]
          /\ target' = [target EXCEPT ![h] = 0] /\ mask' = [mask EXCEPT ![h] = {}]
          /\ UNCHANGED <<cpu_affinity, hart_idle>>
      BY <1>4, <2>2 DEF Notify, Return, Goto, tcbVars
    <3>2. ret[h] \in {"run", "suspend", "leaving", "exiting", "zombie", "aff_ipi", "loop"}
      BY <1>0 DEF HartTypeOK
    <3>3. /\ pc'[h] = ret[h] /\ target'[h] = 0
          /\ \A g \in Harts \ {h} : pc'[g] = pc[g] /\ target'[g] = target[g] /\ mask'[g] = mask[g]
      BY <2>0, <3>1
    <3>4. Idling'
      <4> SUFFICES ASSUME NEW g \in Harts
                   PROVE  hart_idle'[g] <=> pc'[g] \in {"recheck", "wfi", "unidle"}
        BY DEF Idling
      <4> QED
        BY <3>1, <3>2, <3>3 DEF Steady, Idling
    <3>5. Sweeping'
      BY <3>2, <3>3 DEF Steady, Sweeping
    <3> QED
      BY <3>1, <3>4, <3>5 DEF Steady, Full
  <2> QED
    BY <2>1, <2>2
<1>5. CASE SwitchToIdle(h) \/ MarkOffCpu(h) \/ FetchNone(h) \/ Place(h) \/ Start(h)
  <2>1. Elsewhere(h)
    BY <1>5 DEF SwitchToIdle, MarkOffCpu, FetchNone, Place, Start, Elsewhere, Marked, Goto, locals
  <2>2. UNCHANGED cpu_affinity
    BY <1>5 DEF SwitchToIdle, MarkOffCpu, FetchNone, Place, Start, tcbVars
  <2> QED
    BY <1>1, <2>1, <2>2
<1>6. CASE Requeue(h) \/ Claim(h) \/ \E u \in Tasks : FetchTask(h, u)
  <2>1. Elsewhere(h)
    BY <1>6 DEF Requeue, Claim, FetchTask, Elsewhere, Marked, Goto, locals
  <2>2. UNCHANGED cpu_affinity
    BY <1>6 DEF Requeue, Claim, FetchTask
  <2> QED
    BY <1>1, <2>1, <2>2
<1>7. CASE TakeCurrent(h) \/ ReadPrev(h) \/ CheckAffinity(h)
  <2>1. PICK q \in {"fetch", "finish", "requeue", "place", "add"} : pc' = [pc EXCEPT ![h] = q]
    BY <1>7 DEF TakeCurrent, ReadPrev, CheckAffinity, Goto
  <2>2. pc[h] \in {"loop", "finish2", "check"} /\ UNCHANGED <<cpu_affinity, hart_idle, mask, target>>
    BY <1>7 DEF TakeCurrent, ReadPrev, CheckAffinity, tcbVars, locals
  <2>3. Elsewhere(h)
    BY <2>1, <2>2 DEF Elsewhere, Marked
  <2> QED
    BY <1>1, <2>2, <2>3
<1>8. CASE PublishIdle(h) \/ Recheck(h) \/ ClearIdle(h) \/ WakeFromWfi(h)
  <2>0. DOMAIN pc = Harts /\ DOMAIN hart_idle = Harts
    BY <1>0 DEF HartTypeOK, LocalTypeOK
  <2>1. /\ pc[h] \in {"publish", "recheck", "unidle", "wfi"} /\ UNCHANGED <<cpu_affinity, mask, target>>
    BY <1>8 DEF PublishIdle, Recheck, ClearIdle, WakeFromWfi, SetIdle, tcbVars, locals
  <2>2. PICK q \in {"recheck", "unidle", "wfi", "loop"} : pc' = [pc EXCEPT ![h] = q]
    BY <1>8 DEF PublishIdle, Recheck, ClearIdle, WakeFromWfi, SetIdle, Goto
  <2>3. pc'[h] = q /\ \A g \in Harts \ {h} : pc'[g] = pc[g]
    BY <2>0, <2>2
  <2>4. \A g \in Harts \ {h} : hart_idle'[g] = hart_idle[g]
    BY <1>8, <2>0 DEF PublishIdle, Recheck, ClearIdle, WakeFromWfi, SetIdle
  <2>5. hart_idle'[h] <=> q # "loop"
    <3>1. CASE PublishIdle(h)
      BY <2>0, <2>3, <3>1 DEF PublishIdle, SetIdle, Goto
    <3>2. CASE ClearIdle(h)
      BY <2>0, <2>3, <3>2 DEF ClearIdle, SetIdle, Goto
    <3>3. CASE Recheck(h) \/ WakeFromWfi(h)
      <4>1. pc[h] \in {"recheck", "wfi"} /\ hart_idle' = hart_idle /\ pc'[h] \in {"unidle", "wfi"}
        BY <2>0, <3>3 DEF Recheck, WakeFromWfi, Goto
      <4>2. hart_idle[h]
        BY <4>1 DEF Steady, Idling
      <4> QED
        BY <2>3, <4>1, <4>2
    <3> QED
      BY <1>8, <3>1, <3>2, <3>3
  <2>6. Idling'
    <3> SUFFICES ASSUME NEW g \in Harts
                 PROVE  hart_idle'[g] <=> pc'[g] \in {"recheck", "wfi", "unidle"}
      BY DEF Idling
    <3>1. CASE g = h
      BY <2>3, <2>5, <3>1
    <3>2. CASE g # h
      BY <2>3, <2>4, <3>2 DEF Steady, Idling
    <3> QED
      BY <3>1, <3>2
  <2>7. Sweeping'
    <3>1. target[h] = 0
      BY <2>1 DEF Steady, Sweeping
    <3> QED
      BY <2>1, <2>3, <3>1 DEF Steady, Sweeping
  <2> QED
    BY <2>1, <2>6, <2>7 DEF Steady, Full
<1> QED
  BY <1>2, <1>3, <1>4, <1>5, <1>6, <1>7, <1>8 DEF LoopStep, IpiWake, TimerTick

LEMMA TaskSupply ==
    ASSUME NEW h \in Harts, Inv, BudgetTypeOK, Supply, TaskStep(h)
    PROVE  Supply'
BY TaskCalm, CalmSupply

LEMMA LoopSupply ==
    ASSUME NEW h \in Harts, Inv, BudgetTypeOK, Steady, Supply, LoopStep(h) \/ TimerTick(h)
    PROVE  Supply'
<1>1. CASE AddTask(h)
  BY <1>1, IdleAddCalm, CalmSupply, PushSupply
<1>2. CASE Notify(h) \/ Requeue(h)
  BY <1>2, NotifySupply, RequeueSupply
<1>3. CASE FetchNone(h) \/ Recheck(h)
  BY <1>3, FetchNoneSupply, RecheckSupply DEF Steady
<1>4. ASSUME NEW u \in Tasks, FetchTask(h, u) PROVE Supply'
  BY <1>4, FetchTaskSupply
<1>5. ASSUME \/ ReadMask(h) \/ SwitchToIdle(h) \/ TakeCurrent(h) \/ MarkOffCpu(h) \/ ReadPrev(h)
             \/ CheckAffinity(h) \/ Place(h) \/ Start(h) \/ Claim(h)
             \/ PublishIdle(h) \/ ClearIdle(h) \/ WakeFromWfi(h)
      PROVE  Supply'
  BY <1>5, LoopCalm, CalmSupply
<1> QED
  BY <1>1, <1>2, <1>3, <1>4, <1>5 DEF LoopStep, IpiWake, TimerTick

\* What is inductive, with Inv and the budget.
Conserving == Steady /\ Supply

LEMMA InitConserving == Init => Conserving
<1> SUFFICES ASSUME Init PROVE Conserving
  OBVIOUS
<1>1. Steady
  BY SMT DEF Init, Steady, Full, Idling, Sweeping
<1>2. Sleepers = {}
  BY DEF Init, Sleepers, DeepIdle
<1> QED
  BY <1>1, <1>2 DEF Conserving, Supply

LEMMA NextConserving ==
    ASSUME Unpinned
    PROVE  Inv /\ BudgetTypeOK /\ Conserving /\ [Next]_vars => Conserving'
<1> SUFFICES ASSUME Inv, BudgetTypeOK, Conserving, [Next]_vars PROVE Conserving'
  OBVIOUS
<1>1. CASE UNCHANGED vars
  <2>1. UNCHANGED <<entries, cpu_affinity, pc, ret, current, mask, budget, target, hart_idle, ipi>>
    BY <1>1 DEF vars, tcbVars, locals
  <2>2. Steady'
    BY <2>1, ZenonT(30) DEF Conserving, Steady, Full, Idling, Sweeping
  <2>3. Calm
    <3>1. \A g \in Harts : (DeepIdle(g)' <=> DeepIdle(g)) /\ (Seeks(g)' <=> Seeks(g))
      BY <2>1 DEF Seeks, At, DeepIdle
    <3> QED
      BY <2>1, <3>1 DEF Calm
  <2> QED
    BY <2>2, <2>3, CalmSupply DEF Conserving
<1>2. ASSUME NEW h \in Harts, TaskStep(h) PROVE Conserving'
  BY <1>2, TaskSteady, TaskSupply DEF Conserving
<1>3. ASSUME NEW h \in Harts, LoopStep(h) \/ TimerTick(h) PROVE Conserving'
  BY <1>3, LoopSteady, LoopSupply DEF Conserving
<1> QED
  BY <1>1, <1>2, <1>3 DEF Next

\* When all harts have settled nobody seeks or notifies.
LEMMA SettledSupply == Conserving => WorkConserving
<1> SUFFICES ASSUME Conserving, \A h \in Harts : Settled(h), NEW t \in Tasks, entries[t] > 0,
                    NEW h \in Harts, DeepIdle(h)
             PROVE  FALSE
  BY DEF WorkConserving
<1>1. \A g \in Harts : ~Seeks(g) /\ ~Covers(g)
  BY DEF Settled, DeepIdle, Seeks, At, Covers
<1>2. Seekers = {} /\ h \in Sleepers /\ t \in Queued
  BY <1>1 DEF Seekers, Sleepers, Queued
<1>3. Cardinality(Queued) <= Cardinality(Seekers)
  BY <1>1, <1>2 DEF Conserving, Supply
<1>4. Cardinality(Queued) = 0
  BY <1>2, <1>3, FS_EmptySet, QueuedFinite, SMTT(30)
<1> QED
  BY <1>2, <1>4, FS_EmptySet, QueuedFinite

\* While no program restricts an affinity, harts that have settled leave no task
\* queued beside a sleeping hart, whatever the numbers of harts and tasks: the idle
\* publication, the second look at the queue, the wake budget of add_task and the
\* silent requeue_current add up.
THEOREM WorkIsConserved == ASSUME Unpinned PROVE Spec => []WorkConserving
<1>1. Init => BudgetTypeOK /\ Conserving
  BY InitConserving, SchedulerAssumption, SMT DEF Init, BudgetTypeOK
<1>2. BudgetTypeOK /\ [Next]_vars => BudgetTypeOK'
  BY NextBudget
<1>3. Inv /\ BudgetTypeOK /\ Conserving /\ [Next]_vars => Conserving'
  BY NextConserving
<1>4. Conserving => WorkConserving
  BY SettledSupply
<1> QED
  BY <1>1, <1>2, <1>3, <1>4, Invariance, PTL DEF Spec

=============================================================================
