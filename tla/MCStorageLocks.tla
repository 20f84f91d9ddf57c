--------------------------- MODULE MCStorageLocks ---------------------------
(* Scenarios of StorageLocks for TLC: tasks 1, 2 and 3, resources 1 and 2. *)
EXTENDS StorageLocks

Locks(l, m) == [op |-> "lock", on |-> l, mode |-> m]
Unlocks(l, m) == [op |-> "unlock", on |-> l, mode |-> m]
In(i) == [op |-> "enter", on |-> i]
Out(i) == [op |-> "leave", on |-> i]
IO == [op |-> "request"]

\* Readers, one of them recursive, around a writer; a kill and a signal.
Sharing ==
    [script |-> << <<Locks(1, "Read"), Locks(1, "Read"), IO, Unlocks(1, "Read"),
                     Unlocks(1, "Read")>>,
                   <<Locks(1, "Write"), IO, Unlocks(1, "Write")>>,
                   <<Locks(1, "Read"), IO, Unlocks(1, "Read")>> >>,
     kills |-> 1, signals |-> 1, capacity |-> 1]

\* Writers that nest, also a read section in their own write section.
Nesting ==
    [script |-> << <<Locks(1, "Write"), Locks(2, "Write"), IO, Unlocks(2, "Write"),
                     Locks(1, "Write"), Unlocks(1, "Write"), Unlocks(1, "Write")>>,
                   <<Locks(2, "Write"), Locks(2, "Read"), IO, Unlocks(2, "Read"),
                     Unlocks(2, "Write")>>,
                   <<Locks(1, "Read"), Locks(2, "Read"), Unlocks(2, "Read"),
                     Unlocks(1, "Read")>> >>,
     kills |-> 2, signals |-> 0, capacity |-> 1]

\* Operations on one inode; the second waiter displaces the first.
SameInode ==
    [script |-> << <<In(1), Locks(1, "Write"), IO, Unlocks(1, "Write"), Out(1)>>,
                   <<In(1), Locks(1, "Read"), Unlocks(1, "Read"), Out(1)>>,
                   <<In(1), Out(1), In(1), Out(1)>> >>,
     kills |-> 0, signals |-> 0, capacity |-> 1]

\* The same with room for both waiters, one of which a signal interrupts.
Interrupted == [SameInode EXCEPT !.signals = 1, !.capacity = 2]

All == {Sharing, Nesting, SameInode, Interrupted}
=============================================================================
