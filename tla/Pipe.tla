-------------------------------- MODULE Pipe --------------------------------
(***************************************************************************)
(* Pipes: os/src/fs/files/pipe (ring_buffer.rs, wait.rs, file_impl.rs,     *)
(* splice.rs, mod.rs), with the part of signal/ that reaches a blocked     *)
(* reader or writer.                                                       *)
(*                                                                         *)
(* One step is one critical section of a pipe's buffer lock or of a TCB    *)
(* inner lock.  splice and tee hold two buffer locks, taken in the order   *)
(* of their addresses, for one section.  A byte is a number that no other  *)
(* byte has.  The scenario says which threads make which calls on which    *)
(* pipe ends.                                                              *)
(***************************************************************************)
EXTENDS PipeBuffer

CONSTANTS Tasks,        \* threads
          Pipes,        \* pipes
          None,         \* no thread
          SmallLength,  \* transfers up to this length go byte by byte (10)
          Scenarios     \* records [script, readers, writers, capacity, owner, signals]

Takers == {"read", "splice", "tee"}           \* calls that wait for input
Givers == {"write", "page", "splice", "tee"}  \* calls that wait for space
Calls ==
    [op : Takers \cup Givers \cup {"kernel", "set_capacity", "close_read", "close_write"},
     in : Pipes, out : Pipes, n : Nat \ {0}, nonblock : BOOLEAN]

\* splice and tee refuse a pipe onto itself (EINVAL).
ASSUME PipeAssumption ==
    /\ None \notin Tasks /\ SmallLength \in Nat
    /\ \A s \in Scenarios :
          /\ s.readers \in [Pipes -> Nat] /\ s.writers \in [Pipes -> Nat]
          /\ s.capacity \in [Pipes -> Nat]
          /\ s.owner \in [Pipes -> Tasks \cup {None}]
          /\ s.signals \in Nat
          /\ s.script \in [Tasks -> Seq(Calls)]
          /\ \A t \in Tasks : \A i \in DOMAIN s.script[t] :
                LET c == s.script[t][i] IN c.op \in {"splice", "tee"} => c.in # c.out

VARIABLES
    scene,                            \* the scenario of this behaviour
    bufs, bytes, capacity,            \* PipeRingBuffer: segments, count, limit
    read_end_count, write_end_count,
    read_waiters, write_waiters,
    status,       \* task_status: "Running", "Blocked" or "Ready"
    sig,          \* pending unmasked signal: "none", "ignored" or "visible"
    sig_wake,     \* a sender has seen the task Blocked
    alarms,       \* signals that other processes may still send
    pc, at,       \* where a thread is, and which call of its script it makes
    side,         \* the end it waits at: "in" or "out"
    victim,       \* whom it signals next
    made          \* number of bytes written so far

ring == <<bufs, bytes, capacity, read_end_count, write_end_count, read_waiters,
          write_waiters>>
signals == <<sig, sig_wake, alarms>>
vars == <<scene, ring, status, signals, pc, at, side, victim, made>>

Script(t) == scene.script[t]
Call(t) == Script(t)[at[t]]
In(t) == Call(t).in
Out(t) == Call(t).out

Goto(t, l) == pc' = [pc EXCEPT ![t] = l]

\* The call returns to the program, which goes on to its next one.
Return(t) ==
    /\ Goto(t, "user")
    /\ at' = [at EXCEPT ![t] = @ + 1]

-----------------------------------------------------------------------------
\* PipeRingBuffer.

available_write(p) == capacity[p] - bytes[p]

\* Mutant: the length asked for.
AsRequested(p, len) == len

\* The number of bytes that a request for len bytes gets.
Readable(p, len) == Minimum(bytes[p], len)

\* The number of bytes that a request for len bytes may add.
Fits(p, len) == Minimum(available_write(p), len)

Listed(q, t) == \E i \in DOMAIN q : q[i] = t

\* push_reader, push_writer: unless it is registered already.
PushWaiter(q, t) == IF Listed(q, t) THEN q ELSE Append(q, t)

\* wake_waiters(one): entries of threads that are not Blocked are dropped.
FirstBlocked(q, st) ==
    {i \in DOMAIN q : st[q[i]] = "Blocked" /\ \A j \in 1 .. i - 1 : st[q[j]] # "Blocked"}
AfterFirst(q, st) ==
    IF FirstBlocked(q, st) = {} THEN <<>>
    ELSE SubSeq(q, (CHOOSE i \in FirstBlocked(q, st) : TRUE) + 1, Len(q))
Awake(q, I, st) ==
    [t \in Tasks |-> IF \E i \in I : q[i] = t THEN "Ready" ELSE st[t]]

WakeOne(q, st) == Awake(q, FirstBlocked(q, st), st)

\* wake_waiters(all).
WakeAll(q, st) == Awake(q, {i \in DOMAIN q : st[q[i]] = "Blocked"}, st)

\* bytes and bufs after len bytes are removed from p, or the segments new added.
Removed(p, len) ==
    /\ bufs' = [bufs EXCEPT ![p] = LeftBufs(@, len)]
    /\ bytes' = [bytes EXCEPT ![p] = @ - len]
    /\ UNCHANGED made

Added(p, len, new) ==
    /\ bufs' = [bufs EXCEPT ![p] = @ \o new]
    /\ bytes' = [bytes EXCEPT ![p] = @ + len]
    /\ made' = made + len

\* wake_reader(p), wake_writer(p).
WakeReader(p) ==
    /\ status' = WakeOne(read_waiters[p], status)
    /\ read_waiters' = [read_waiters EXCEPT ![p] = AfterFirst(@, status)]

WakeWriter(p) ==
    /\ status' = WakeOne(write_waiters[p], status)
    /\ write_waiters' = [write_waiters EXCEPT ![p] = AfterFirst(@, status)]

\* The caller sends a signal once it has released the lock, then returns.
Raise(t, u) ==
    IF u = None THEN Return(t) /\ UNCHANGED victim
    ELSE victim' = [victim EXCEPT ![t] = u] /\ Goto(t, "raise") /\ UNCHANGED at

-----------------------------------------------------------------------------
\* A thread in user mode begins the next call of its script.

Begin(t) ==
    /\ pc[t] = "user" /\ at[t] <= Len(Script(t))
    /\ Call(t).op \in Takers \cup Givers
    /\ side' = [side EXCEPT ![t] = IF Call(t).op \in Takers THEN "in" ELSE "out"]
    /\ Goto(t, "check")
    /\ UNCHANGED <<scene, ring, status, signals, at, victim, made>>

\* Drop for Pipe: the last descriptor of an end goes away.
CloseRead(t) ==
    /\ pc[t] = "user" /\ at[t] <= Len(Script(t)) /\ Call(t).op = "close_read"
    /\ read_end_count' = [read_end_count EXCEPT ![In(t)] = IF @ > 0 THEN @ - 1 ELSE 0]
    /\ status' = WakeAll(write_waiters[In(t)], status)
    /\ write_waiters' = [write_waiters EXCEPT ![In(t)] = <<>>]
    /\ Return(t)
    /\ UNCHANGED <<scene, bufs, bytes, capacity, write_end_count, read_waiters, signals,
                   side, victim, made>>

CloseWrite(t) ==
    /\ pc[t] = "user" /\ at[t] <= Len(Script(t)) /\ Call(t).op = "close_write"
    /\ write_end_count' = [write_end_count EXCEPT ![Out(t)] = IF @ > 0 THEN @ - 1 ELSE 0]
    /\ status' = WakeAll(read_waiters[Out(t)], status)
    /\ read_waiters' = [read_waiters EXCEPT ![Out(t)] = <<>>]
    /\ Return(t)
    /\ UNCHANGED <<scene, bufs, bytes, capacity, read_end_count, write_waiters, signals,
                   side, victim, made>>

\* set_capacity: EBUSY when more is buffered.
SetCapacity(t) ==
    /\ pc[t] = "user" /\ at[t] <= Len(Script(t)) /\ Call(t).op = "set_capacity"
    /\ \/ /\ Call(t).n < bytes[Out(t)]
          /\ UNCHANGED <<capacity, status, write_waiters>>
       \/ /\ Call(t).n >= bytes[Out(t)]
          /\ capacity' = [capacity EXCEPT ![Out(t)] = Call(t).n]
          /\ status' = WakeAll(write_waiters[Out(t)], status)
          /\ write_waiters' = [write_waiters EXCEPT ![Out(t)] = <<>>]
    /\ Return(t)
    /\ UNCHANGED <<scene, bufs, bytes, read_end_count, write_end_count, read_waiters,
                   signals, side, victim, made>>

\* write_kernel_bytes: all or nothing, without waiting.
WriteKernelBytes(t) ==
    /\ pc[t] = "user" /\ at[t] <= Len(Script(t)) /\ Call(t).op = "kernel"
    /\ LET p == Out(t)
           len == Call(t).n
       IN \/ /\ read_end_count[p] = 0
             /\ Raise(t, t)
             /\ UNCHANGED <<bufs, bytes, made, status, read_waiters>>
          \/ /\ read_end_count[p] # 0 /\ available_write(p) < len
             /\ Return(t)
             /\ UNCHANGED <<bufs, bytes, made, status, read_waiters, victim>>
          \/ /\ read_end_count[p] # 0 /\ available_write(p) >= len
             /\ Added(p, len, Segments(made, len, FALSE))
             /\ WakeReader(p)
             /\ Raise(t, scene.owner[p])
    /\ UNCHANGED <<scene, capacity, read_end_count, write_end_count, write_waiters, signals,
                   side>>

-----------------------------------------------------------------------------
\* read, write, wait_readable and wait_writable: the loop.

CanRead(p) == bytes[p] > 0 \/ write_end_count[p] = 0
CanWrite(p) == read_end_count[p] = 0 \/ available_write(p) > 0

\* Neither possible: O_NONBLOCK or SPLICE_F_NONBLOCK returns EAGAIN.
WouldBlock(t) ==
    \/ Call(t).nonblock /\ Return(t)
    \/ ~Call(t).nonblock /\ Goto(t, "ignorable") /\ UNCHANGED at

\* The input end.  read() takes the bytes under the lock of the check, which
\* wait_readable() releases for splice and tee.
CheckIn(t) ==
    /\ pc[t] = "check" /\ side[t] = "in"
    /\ LET p == In(t)
           len == Readable(p, Call(t).n)
       IN \/ /\ ~CanRead(p)
             /\ WouldBlock(t)
             /\ UNCHANGED <<bufs, bytes, made, status, write_waiters>>
          \/ /\ CanRead(p) /\ Call(t).op # "read"
             /\ Goto(t, "peek")
             /\ UNCHANGED <<bufs, bytes, made, status, write_waiters, at>>
          \/ /\ Call(t).op = "read" /\ bytes[p] > 0
             /\ Removed(p, len)
             /\ WakeWriter(p)
             /\ Return(t)
          \/ /\ Call(t).op = "read" /\ bytes[p] = 0 /\ write_end_count[p] = 0
             /\ Return(t)
             /\ UNCHANGED <<bufs, bytes, made, status, write_waiters>>
    /\ UNCHANGED <<scene, capacity, read_end_count, write_end_count, read_waiters, signals,
                   side, victim>>

\* splice_to_pipe, tee_to_pipe: end of file, or wait for the output.
Peek(t) ==
    /\ pc[t] = "peek"
    /\ \/ bytes[In(t)] = 0 /\ Return(t) /\ UNCHANGED side
       \/ bytes[In(t)] > 0 /\ side' = [side EXCEPT ![t] = "out"] /\ Goto(t, "check")
          /\ UNCHANGED at
    /\ UNCHANGED <<scene, ring, status, signals, victim, made>>

\* The output end.  Only write() raises SIGPIPE; it adds its bytes under the lock
\* of the check, which wait_writable() releases for the others.
CheckOut(t) ==
    /\ pc[t] = "check" /\ side[t] = "out"
    /\ LET p == Out(t)
           len == Fits(p, Call(t).n)
       IN \/ /\ ~CanWrite(p)
             /\ WouldBlock(t)
             /\ UNCHANGED <<bufs, bytes, made, status, read_waiters, victim>>
          \/ /\ read_end_count[p] = 0
             /\ Raise(t, IF Call(t).op = "write" THEN t ELSE None)
             /\ UNCHANGED <<bufs, bytes, made, status, read_waiters>>
          \/ /\ CanWrite(p) /\ read_end_count[p] # 0 /\ Call(t).op # "write"
             /\ Goto(t, "transfer")
             /\ UNCHANGED <<bufs, bytes, made, status, read_waiters, victim, at>>
          \/ /\ CanWrite(p) /\ read_end_count[p] # 0 /\ Call(t).op = "write"
             /\ Added(p, len, Segments(made, len, Call(t).n <= SmallLength))
             /\ WakeReader(p)
             /\ Raise(t, scene.owner[p])
    /\ UNCHANGED <<scene, capacity, read_end_count, write_end_count, write_waiters, signals,
                   side>>

\* Mutant: a loop for as long as such a signal is pending, which nobody consumes.
KeepIgnorable(t) ==
    /\ pc[t] = "ignorable"
    /\ Goto(t, IF sig[t] = "ignored" THEN "ignorable" ELSE "signals")
    /\ UNCHANGED <<scene, ring, status, signals, at, side, victim, made>>

\* consume_ignorable_pending_signal_for_current_task.
ConsumeIgnorable(t) ==
    /\ pc[t] = "ignorable"
    /\ sig' = [sig EXCEPT ![t] = IF @ = "ignored" THEN "none" ELSE @]
    /\ Goto(t, IF sig[t] = "ignored" THEN "check" ELSE "signals")
    /\ UNCHANGED <<scene, ring, status, sig_wake, alarms, at, side, victim, made>>

\* check_if_any_sig_for_current_task; the program may repeat a call after EINTR.
CheckSignals(t) ==
    /\ pc[t] = "signals"
    /\ \/ sig[t] = "none" /\ Goto(t, "publish") /\ UNCHANGED at
       \/ sig[t] # "none" /\ Return(t)
       \/ sig[t] # "none" /\ Goto(t, "user") /\ UNCHANGED at
    /\ UNCHANGED <<scene, ring, status, signals, side, victim, made>>

Publish(t) ==
    /\ pc[t] = "publish"
    /\ status' = [status EXCEPT ![t] = "Blocked"]
    /\ Goto(t, "recheck")
    /\ UNCHANGED <<scene, ring, signals, at, side, victim, made>>

\* Mutant: the second look does not ask whether the other end is closed.
LookAtBytesOnly(t) ==
    \/ side[t] = "in" /\ bytes[In(t)] > 0
    \/ side[t] = "out" /\ available_write(Out(t)) > 0

\* The condition of the second look.
Recovered(t) ==
    \/ side[t] = "in" /\ CanRead(In(t))
    \/ side[t] = "out" /\ CanWrite(Out(t))

\* The second look, under the buffer lock: go on, or register and switch away.
Recheck(t) ==
    /\ pc[t] = "recheck"
    /\ \/ /\ Recovered(t)
          /\ status' = [status EXCEPT ![t] = "Running"]
          /\ IF side[t] = "out" /\ read_end_count[Out(t)] = 0
             THEN Raise(t, IF Call(t).op = "write" THEN t ELSE None)
             ELSE Goto(t, "check") /\ UNCHANGED <<at, victim>>
          /\ UNCHANGED <<read_waiters, write_waiters>>
       \/ /\ ~Recovered(t)
          /\ \/ /\ side[t] = "in"
                /\ read_waiters' = [read_waiters EXCEPT ![In(t)] = PushWaiter(@, t)]
                /\ UNCHANGED write_waiters
             \/ /\ side[t] = "out"
                /\ write_waiters' = [write_waiters EXCEPT ![Out(t)] = PushWaiter(@, t)]
                /\ UNCHANGED read_waiters
          /\ Goto(t, "asleep")
          /\ UNCHANGED <<status, at, victim>>
    /\ UNCHANGED <<scene, bufs, bytes, capacity, read_end_count, write_end_count, signals,
                   side, made>>

\* Switched in again; the loop starts over.
Resume(t) ==
    /\ pc[t] = "asleep" /\ status[t] = "Ready"
    /\ status' = [status EXCEPT ![t] = "Running"]
    /\ Goto(t, "check")
    /\ UNCHANGED <<scene, ring, signals, at, side, victim, made>>

-----------------------------------------------------------------------------
\* What splice, tee and push_file_page do once both ends looked ready.

\* Mutant: the writer of the input pipe is not woken.
WakesNoWriter(t) == FALSE

\* splice frees space in its input; tee does not.
FreesInput(t) == Call(t).op = "splice"

Transfer(t) ==
    /\ pc[t] = "transfer"
    /\ LET p == In(t)
           q == Out(t)
           page == Call(t).op = "page"
           len == Fits(q, IF page THEN Call(t).n ELSE Readable(p, Call(t).n))
           new == IF page THEN Segments(made, len, FALSE) ELSE TakenBufs(bufs[p], len)
           moved == Call(t).op = "splice"
           st == IF FreesInput(t) THEN WakeOne(write_waiters[p], status) ELSE status
       IN \/ /\ read_end_count[q] = 0 \/ len = 0
             /\ UNCHANGED <<bufs, bytes, made, status, read_waiters, write_waiters>>
          \/ /\ read_end_count[q] # 0 /\ len > 0
             /\ bufs' = [bufs EXCEPT ![p] = IF moved THEN LeftBufs(@, len) ELSE @,
                                     ![q] = @ \o new]
             /\ bytes' = [bytes EXCEPT ![p] = IF moved THEN @ - len ELSE @,
                                       ![q] = @ + len]
             /\ made' = IF page THEN made + len ELSE made
             /\ write_waiters' = [write_waiters EXCEPT ![p] =
                                     IF FreesInput(t) THEN AfterFirst(@, status) ELSE @]
             /\ status' = WakeOne(read_waiters[q], st)
             /\ read_waiters' = [read_waiters EXCEPT ![q] = AfterFirst(@, st)]
    /\ Return(t)
    /\ UNCHANGED <<scene, capacity, read_end_count, write_end_count, signals, side, victim>>

-----------------------------------------------------------------------------
\* Signals: add_signal_with_info sets the pending bit; a thread it has seen
\* Blocked is made Ready in a second critical section.

Post(u, kind) ==
    /\ sig' = [sig EXCEPT ![u] = IF @ = "visible" THEN @ ELSE kind]
    /\ sig_wake' = [sig_wake EXCEPT ![u] = @ \/ status[u] = "Blocked"]

\* broken_pipe sends SIGPIPE to the caller, notify_async_read_ready SIGIO to the
\* owner.
SendRaised(t) ==
    /\ pc[t] = "raise"
    /\ Post(victim[t], "visible")
    /\ victim' = [victim EXCEPT ![t] = None]
    /\ Return(t)
    /\ UNCHANGED <<scene, ring, status, alarms, side, made>>

\* Another process signals a thread.
Alarm(u, kind) ==
    /\ alarms > 0
    /\ alarms' = alarms - 1
    /\ Post(u, kind)
    /\ UNCHANGED <<scene, ring, status, pc, at, side, victim, made>>

SignalWake(t) ==
    /\ sig_wake[t]
    /\ sig_wake' = [sig_wake EXCEPT ![t] = FALSE]
    /\ status' = [status EXCEPT ![t] = IF @ = "Blocked" THEN "Ready" ELSE @]
    /\ UNCHANGED <<scene, ring, sig, alarms, pc, at, side, victim, made>>

\* The trap return delivers or discards the pending signal.
HandleSignal(t) ==
    /\ pc[t] = "user" /\ sig[t] # "none"
    /\ sig' = [sig EXCEPT ![t] = "none"]
    /\ UNCHANGED <<scene, ring, status, sig_wake, alarms, pc, at, side, victim, made>>

-----------------------------------------------------------------------------
Init ==
    /\ scene \in Scenarios
    /\ bufs = [p \in Pipes |-> <<>>]
    /\ bytes = [p \in Pipes |-> 0]
    /\ capacity = scene.capacity
    /\ read_end_count = scene.readers
    /\ write_end_count = scene.writers
    /\ read_waiters = [p \in Pipes |-> <<>>]
    /\ write_waiters = [p \in Pipes |-> <<>>]
    /\ status = [t \in Tasks |-> "Running"]
    /\ sig = [t \in Tasks |-> "none"]
    /\ sig_wake = [t \in Tasks |-> FALSE]
    /\ alarms = scene.signals
    /\ pc = [t \in Tasks |-> "user"]
    /\ at = [t \in Tasks |-> 1]
    /\ side = [t \in Tasks |-> "in"]
    /\ victim = [t \in Tasks |-> None]
    /\ made = 0

Step(t) ==
    \/ Begin(t) \/ CloseRead(t) \/ CloseWrite(t) \/ SetCapacity(t) \/ WriteKernelBytes(t)
    \/ CheckIn(t) \/ Peek(t) \/ CheckOut(t) \/ ConsumeIgnorable(t) \/ CheckSignals(t)
    \/ Publish(t) \/ Recheck(t) \/ Resume(t) \/ Transfer(t) \/ SendRaised(t)
    \/ SignalWake(t) \/ HandleSignal(t)

Next ==
    \/ \E t \in Tasks : Step(t)
    \/ \E t \in Tasks, kind \in {"ignored", "visible"} : Alarm(t, kind)

Spec == Init /\ [][Next]_vars

\* Every thread that can run does; signals from outside may never come.
FairSpec == Spec /\ \A t \in Tasks : WF_vars(Step(t))

-----------------------------------------------------------------------------
\* Properties.

Labels == {"user", "check", "peek", "ignorable", "signals", "publish", "recheck", "asleep",
           "transfer", "raise"}

\* The type invariant.
TypeOK ==
    /\ scene \in Scenarios
    /\ bytes \in [Pipes -> Nat] /\ capacity \in [Pipes -> Nat]
    /\ read_end_count \in [Pipes -> Nat] /\ write_end_count \in [Pipes -> Nat]
    /\ read_waiters \in [Pipes -> Seq(Tasks)] /\ write_waiters \in [Pipes -> Seq(Tasks)]
    /\ status \in [Tasks -> {"Running", "Blocked", "Ready"}]
    /\ sig \in [Tasks -> {"none", "ignored", "visible"}] /\ sig_wake \in [Tasks -> BOOLEAN]
    /\ pc \in [Tasks -> Labels] /\ at \in [Tasks -> Nat \ {0}]
    /\ side \in [Tasks -> {"in", "out"}] /\ victim \in [Tasks -> Tasks \cup {None}]

\* A thread is in a call until its script is over.
Finished(t) == pc[t] = "user" /\ at[t] > Len(Script(t))
Asleep(t) == pc[t] = "asleep" /\ status[t] = "Blocked"

\* "pipe buffer overflow" never happens, and the subtraction of available_write
\* never wraps: the buffer holds at most its capacity, whatever set_capacity did.
WithinCapacity == \A p \in Pipes : bytes[p] <= capacity[p]

\* The count agrees with the segments after every split and move, so pop_bufs
\* finds a segment to pop, and no segment is empty.
BytesCounted ==
    \A p \in Pipes :
        /\ bytes[p] = Start(bufs[p], Len(bufs[p]))
        /\ \A i \in DOMAIN bufs[p] : bufs[p][i] # <<>>

\* Nobody sleeps through a hangup: a sleeper is registered where the last close
\* of the other end finds it, and the other end is still open.
NoMissedHangup ==
    \A t \in Tasks : Asleep(t) =>
        /\ side[t] = "in" => /\ write_end_count[In(t)] > 0
                             /\ Listed(read_waiters[In(t)], t)
        /\ side[t] = "out" => /\ read_end_count[Out(t)] > 0
                              /\ Listed(write_waiters[Out(t)], t)

\* The threads whose script takes from, or adds to, a pipe, and a thread that
\* has its end of the pipe to itself.
Takes(u, p) == \E i \in DOMAIN Script(u) : Script(u)[i].op \in Takers /\ Script(u)[i].in = p
Gives(u, p) == \E i \in DOMAIN Script(u) : Script(u)[i].op \in Givers /\ Script(u)[i].out = p
SoleTaker(t, p) == \A u \in Tasks \ {t} : ~Takes(u, p)
SoleGiver(t, p) == \A u \in Tasks \ {t} : ~Gives(u, p)

\* No wakeup is lost between the check and the sleep ("publish Blocked, then look
\* again under the buffer lock and register"): a thread that has its end of the
\* pipe to itself never sleeps beside data or space.
NoLostWakeup ==
    \A t \in Tasks : Asleep(t) =>
        /\ side[t] = "in" /\ SoleTaker(t, In(t)) => bytes[In(t)] = 0
        /\ side[t] = "out" /\ SoleGiver(t, Out(t)) => available_write(Out(t)) = 0

\* Every call returns, when the ends are closed in the end: the scripts finish.
Terminates == <>(\A t \in Tasks : Finished(t))
=============================================================================
