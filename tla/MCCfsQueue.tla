----------------------------- MODULE MCCfsQueue -----------------------------
(***************************************************************************)
(* Instances of CfsQueue: three tasks at nice 0, -1 and +3.                *)
(***************************************************************************)
EXTENDS CfsQueue

MCTasks == 1 .. 3
MCWeight == <<1024, 1277, 526>>

\* Task 1 is pinned to hart 0, the others may run anywhere.
MCPinned == [t \in MCTasks |-> IF t = 1 THEN {0} ELSE Harts]
=============================================================================
