--------------------------- MODULE MCProcessExit ---------------------------
(* Process trees and workloads for ProcessExit.  Process 1 is init; threads *)
(* are numbered 10 * process + index.                                      *)
EXTENDS ProcessExit, TLC

Owner == [t \in Tasks |-> t \div 10]

\* The trees: the children in the set hang below init, or a chain of n processes.
Flat(cs) == [p \in Procs |-> IF p \in cs THEN 1 ELSE None]
Chain(n) == [p \in Procs |-> IF p \in 2..n THEN p - 1 ELSE None]

Leave == {"exit"}
Either == {"exit", "exit_group"}
Clonee == Leave
Wait(sel, options) == [sel |-> sel, options |-> options]
AnyChild == {Wait(Procs, {})}

\* The threads that are not in roles do not exist, unless one is cloned.
Scenario(tree, roles, waits) ==
    [parent |-> tree, subreapers |-> {}, clones |-> {},
     unborn |-> Tasks \ DOMAIN roles, waits |-> waits,
     script |-> [t \in Tasks |-> IF t \in DOMAIN roles THEN roles[t] ELSE Clonee]]

\* Two threads of a process wait for one child; one waits for two threads of
\* which one exits alone or ends the group.
TwoWaiters ==
    Scenario(Chain(3), (11 :> {} @@ 21 :> {"wait"} @@ 22 :> {"wait"} @@ 31 :> Either), AnyChild)
TwoThreads ==
    Scenario(Flat({2}), (11 :> {"wait"} @@ 21 :> Either @@ 22 :> Leave), AnyChild)

\* One waiter with every option, a child and a clone child.
Options == [Scenario(Flat({2, 3}), (11 :> {"wait"} @@ 21 :> Leave @@ 31 :> Leave),
                     {Wait(Procs, o) : o \in {{}, {"WNOHANG"}, {"WNOWAIT"},
                                              {"__WALL"}, {"__WCLONE"}}})
            EXCEPT !.clones = {3}]

\* Three generations below init: a process and its child exit while the nearest
\* reaper waits, which is init, or the grandparent if that is a subreaper.
Adopting(waiter, subreapers) ==
    [Scenario(Chain(4), [t \in {11, 21, 31, 41} |-> CASE t = waiter -> {"wait"}
                                                   [] t \in {31, 41} -> Leave
                                                   [] OTHER -> {}], AnyChild)
     EXCEPT !.subreapers = subreapers]

\* A thread ends the group while its sibling clones a third one.
Cloning ==
    Scenario(Flat({2}), (11 :> {} @@ 21 :> {"exit_group"} @@ 22 :> {"exit", "clone"}), AnyChild)

\* A thread ends the group while its sibling waits for a child.
Interrupting ==
    Scenario(Chain(3), (11 :> {} @@ 21 :> {"exit_group"} @@ 22 :> {"wait"} @@ 31 :> Leave), AnyChild)

Early == {TwoThreads}
Passing == {TwoWaiters, TwoThreads, Options, Adopting(11, {}), Adopting(21, {2}), Cloning,
            Interrupting}
=============================================================================
