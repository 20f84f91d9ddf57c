----------------------------- MODULE MCScheduler -----------------------------
(* Scheduler on a few harts and tasks. *)
EXTENDS Scheduler

CONSTANTS t1, t2, t3

MCTasks2 == {t1, t2}
MCTasks3 == {t1, t2, t3}
MCBoot1 == {t1}
MCBoot2 == {t1, t2}
MCNoMasks == {}
MCPins == {{0}, {1}}

\* Every task may do everything.
MCFree == [t \in Tasks |-> Deeds]

\* More tasks than harts: one that never sleeps, one that forks the third and
\* exits, and the third, which blocks and stops until it exits.
MCCrowd ==
    [t \in Tasks |-> CASE t = t1 -> {"wake", "yield"}
                       [] t = t2 -> {"fork", "wake", "exit"}
                       [] t = t3 -> {"block", "stop", "exit"}]
=============================================================================
