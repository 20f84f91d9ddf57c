------------------------------- MODULE MCFutex -------------------------------
(* Instances of Futex for TLC. *)
EXTENDS Futex

CONSTANTS t1, t2, t3, k1

AnyBit == {{0, 1}}
OneValue == {0}
TwoValues == {0, 1}

\* A thread wakes and moves the two that wait, between two words.
Requeues == [waiters |-> {t1, t2}, callers |-> {t3}, keys |-> Keys,
             commands |-> {"wake", "requeue"}, signals |-> {}, timed |-> FALSE]

\* Two threads wait with a timeout and wake each other, signals interrupt them.
Timeouts == [waiters |-> {t1, t2}, callers |-> {t1, t2}, keys |-> {k1},
             commands |-> {"wake"}, signals |-> {"deliverable"}, timed |-> TRUE]

\* Between its timed waits the thread sleeps elsewhere; masked signals wake it.
Sleeps == [waiters |-> {t1}, callers |-> {t1, t2}, keys |-> {k1},
           commands |-> {"wake", "sleep"}, signals |-> {"masked"}, timed |-> TRUE]

AllMixes == {Requeues, Timeouts, Sleeps}

Wakeups == {[waiters |-> Tasks, callers |-> Tasks, keys |-> Keys, commands |-> {"wake"},
             signals |-> {}, timed |-> FALSE]}
=============================================================================
