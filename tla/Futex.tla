-------------------------------- MODULE Futex --------------------------------
(***************************************************************************)
(* futex(2): os/src/task/futex.rs, with the completion helpers of          *)
(* os/src/task/manager.rs, the timeout heap of timer/timer_condvar.rs and  *)
(* the part of signal delivery that reaches a waiting task.                *)
(*                                                                         *)
(* One step is one critical section of FUTEX_QUEUE_BITMAP or of a TCB      *)
(* inner lock, one atomic access, or one access to user memory.  A queue   *)
(* key stands for the private or the shared key of a user word.            *)
(***************************************************************************)
EXTENDS Integers, Sequences, FiniteSets

CONSTANTS Tasks,      \* the threads that use futexes
          Keys,       \* futex words
          Values,     \* contents of a futex word
          Bitsets,    \* the masks of the _BITSET operations, sets of bits
          NoKey,      \* futex_pa = 0
          Timer,      \* the hart doing the global timer maintenance
          Mixes,      \* what the threads of a behaviour do, see Mix
          MaxWaits    \* bound: FUTEX_WAIT calls in a behaviour

Gens == 1 .. MaxWaits

\* The threads that wait and those that make other calls, which calls and on which
\* words, how signals find them, and whether their waits carry a timeout.
Mix == [waiters : SUBSET Tasks, callers : SUBSET Tasks, keys : SUBSET Keys,
        commands : SUBSET {"wake", "requeue", "sleep"},
        signals : SUBSET {"masked", "deliverable"}, timed : BOOLEAN]

ASSUME FutexAssumption ==
    /\ IsFiniteSet(Tasks) /\ Timer \notin Tasks /\ NoKey \notin Keys
    /\ MaxWaits \in Nat /\ Mixes \subseteq Mix

VARIABLES
    mix,             \* the member of Mixes this behaviour is about
    word,            \* the user-space futex words
    status,          \* task_status
    futex_key,       \* the generation of the wait the TCB records, 0 for none
    futex_pa,        \* the queue key the TCB records
    futex_timedout,  \* the timer has completed the wait
    sig,             \* pending signals: "none", "masked" or "deliverable"
    sig_wake,        \* a signal sender has seen the task Blocked
    queue,           \* FUTEX_QUEUE_BITMAP: the waiters of a key in order
    present,         \* the keys that have a map entry, maybe with no waiter
    timers,          \* TIMERS: <<task, generation>>
    next_key,        \* FUTEX_KEY_COUNTER + 1
    pc,              \* where a task, or the timer maintenance, is
    call,            \* the arguments and locals of the call in progress
    stale,           \* FUTEX_QUEUE_VERSION has moved since the task loaded it
    result,          \* history: what the last FUTEX_WAIT returned
    outcome,         \* history: who completed a generation
    missed,          \* history: all waiters of a word the task is about to wait
                     \* on were woken after it was changed
    panicked         \* the expect() of handle_timer has failed

tcbVars == <<status, futex_key, futex_pa, futex_timedout>>
queueVars == <<queue, present>>
history == <<result, outcome, missed>>
vars == <<mix, word, tcbVars, sig, sig_wake, queueVars, timers, next_key, pc, call,
          stale, history, panicked>>

NoCall == [op |-> "none"]

Goto(p, l) == pc' = [pc EXCEPT ![p] = l]

\* A system call returns to user mode.
Return(t) == Goto(t, "user") /\ call' = [call EXCEPT ![t] = NoCall]

\* bump_futex_queue_version, seen by the tasks that have loaded the version and
\* not yet compared it.
Bumped == stale' = [t \in Tasks |-> stale[t] \/ pc[t] = "lock"]

\* The test of wakeup_futex_task, timeout_futex_task and requeue_futex_task.
Live(e) == status[e.task] = "Blocked" /\ futex_key[e.task] = e.gen

\* wakeup_futex_task for a set of entries that are Live, when the TCBs record pa.
Complete(E, pa, by) ==
    LET W == {e.task : e \in E}
    IN /\ status' = [t \in Tasks |-> IF t \in W THEN "Ready" ELSE status[t]]
       /\ futex_key' = [t \in Tasks |-> IF t \in W THEN 0 ELSE futex_key[t]]
       /\ futex_pa' = [t \in Tasks |-> IF t \in W THEN NoKey ELSE pa[t]]
       /\ outcome' = [g \in Gens |-> IF g \in {e.gen : e \in E} THEN by ELSE outcome[g]]

\* The n-th of the positions H, or the last position when H is smaller.
Nth(H, n) == CHOOSE i \in H : Cardinality({j \in H : j <= i}) = n
NthOrLast(H, n, last) == IF Cardinality(H) < n THEN last ELSE Nth(H, n)

\* The entries at the positions H, in their order.
Chosen(q, H) == [n \in 1 .. Cardinality(H) |-> q[Nth(H, n)]]

\* The entry of one generation is taken out of a queue.
Without(q, gen) == Chosen(q, {i \in DOMAIN q : q[i].gen # gen})

-----------------------------------------------------------------------------
\* User mode.

\* The task changes a futex word.
Store(t, k, v) ==
    /\ pc[t] = "user"
    /\ word[k] # v
    /\ word' = [word EXCEPT ![k] = v]
    /\ UNCHANGED <<tcbVars, sig, sig_wake, queueVars, timers, next_key, pc, call,
                   stale, history, panicked>>

\* sys_futex: FUTEX_WAIT or FUTEX_WAIT_BITSET.
Wait(t, k, expected, bits, timed) ==
    /\ t \in mix.waiters
    /\ pc[t] = "user"
    /\ next_key <= MaxWaits
    /\ call' = [call EXCEPT ![t] = [op |-> "wait", key |-> k, expected |-> expected,
                                    bits |-> bits, timed |-> timed, gen |-> next_key]]
    /\ next_key' = next_key + 1
    /\ Goto(t, "read")
    /\ result' = [result EXCEPT ![t] = [code |-> "none", gen |-> 0]]
    /\ UNCHANGED <<word, tcbVars, sig, sig_wake, queueVars, timers, stale, outcome, missed,
                   panicked>>

\* sys_futex: FUTEX_WAKE or FUTEX_WAKE_BITSET; a nonpositive count is one.
Wake(t, k, n, bits) ==
    /\ t \in mix.callers /\ "wake" \in mix.commands
    /\ pc[t] = "user"
    /\ call' = [call EXCEPT ![t] = [op |-> "wake", key |-> k, n |-> n, bits |-> bits]]
    /\ Goto(t, "bump")
    /\ UNCHANGED <<word, tcbVars, sig, sig_wake, queueVars, timers, next_key, stale,
                   history, panicked>>

\* sys_futex: FUTEX_REQUEUE.
Requeue(t, k, n, k2, n2) ==
    /\ t \in mix.callers /\ "requeue" \in mix.commands
    /\ pc[t] = "user"
    /\ call' = [call EXCEPT ![t] = [op |-> "requeue", key |-> k, n |-> n,
                                    key2 |-> k2, n2 |-> n2]]
    /\ Goto(t, "bump")
    /\ UNCHANGED <<word, tcbVars, sig, sig_wake, queueVars, timers, next_key, stale,
                   history, panicked>>

\* Some other wait: a pipe, a sleep, a socket.
Sleep(t) ==
    /\ t \in mix.callers /\ "sleep" \in mix.commands
    /\ pc[t] = "user"
    /\ status' = [status EXCEPT ![t] = "Blocked"]
    /\ Goto(t, "elsewhere")
    /\ UNCHANGED <<word, futex_key, futex_pa, futex_timedout, sig, sig_wake, queueVars,
                   timers, next_key, call, stale, history, panicked>>

\* What that wait waited for has come, or it is run again.
EndSleep(t) ==
    /\ pc[t] = "elsewhere"
    /\ \/ status[t] = "Blocked" /\ status' = [status EXCEPT ![t] = "Ready"] /\ UNCHANGED pc
       \/ status[t] = "Ready" /\ status' = [status EXCEPT ![t] = "Running"] /\ Goto(t, "user")
    /\ UNCHANGED <<word, futex_key, futex_pa, futex_timedout, sig, sig_wake, queueVars,
                   timers, next_key, call, stale, history, panicked>>

-----------------------------------------------------------------------------
\* futex_wait_bitset.

\* The user word is read before the queue lock is taken.
ReadWord(t) ==
    /\ pc[t] = "read"
    /\ \/ /\ word[call[t].key] # call[t].expected
          /\ result' = [result EXCEPT ![t] = [code |-> "EAGAIN", gen |-> call[t].gen]]
          /\ Return(t)
       \/ /\ word[call[t].key] = call[t].expected
          /\ Goto(t, "version")
          /\ UNCHANGED <<call, result>>
    /\ missed' = [missed EXCEPT ![t] = FALSE]
    /\ UNCHANGED <<word, tcbVars, sig, sig_wake, queueVars, timers, next_key, stale,
                   outcome, panicked>>

LoadVersion(t) ==
    /\ pc[t] = "version"
    /\ Goto(t, "lock")
    /\ UNCHANGED <<word, tcbVars, sig, sig_wake, queueVars, timers, next_key, call,
                   stale, history, panicked>>

\* Mutant: the flag of an earlier wait survives.
KeepTimedout(t) == futex_timedout[t]

\* inner.futex_timedout = false.
ClearTimedout(t) == FALSE

\* Under the queue lock: compare the version, check for signals, register the
\* waiter and publish Blocked.
Publish(t) ==
    /\ pc[t] = "lock"
    /\ LET c == call[t]
       IN \/ /\ stale[t]
             /\ Goto(t, "read")
             /\ UNCHANGED <<tcbVars, queueVars, call, result>>
          \/ /\ ~stale[t] /\ sig[t] = "deliverable"
             /\ result' = [result EXCEPT ![t] = [code |-> "EINTR", gen |-> c.gen]]
             /\ Return(t)
             /\ UNCHANGED <<tcbVars, queueVars>>
          \/ /\ ~stale[t] /\ sig[t] # "deliverable"
             /\ futex_timedout' = [futex_timedout EXCEPT ![t] = ClearTimedout(t)]
             /\ futex_pa' = [futex_pa EXCEPT ![t] = c.key]
             /\ futex_key' = [futex_key EXCEPT ![t] = c.gen]
             /\ queue' = [queue EXCEPT ![c.key] =
                   Append(@, [task |-> t, bits |-> c.bits, gen |-> c.gen])]
             /\ present' = present \cup {c.key}
             /\ status' = [status EXCEPT ![t] = "Blocked"]
             /\ Goto(t, IF c.timed THEN "timer" ELSE "asleep")
             /\ UNCHANGED <<call, result>>
    /\ stale' = [stale EXCEPT ![t] = FALSE]
    /\ UNCHANGED <<word, sig, sig_wake, timers, next_key, outcome, missed, panicked>>

\* Mutant: a task has at most one timer.
AddFirstTimer(t) ==
    /\ pc[t] = "timer"
    /\ timers' = IF \E x \in timers : x[1] = t THEN timers ELSE timers \cup {<<t, call[t].gen>>}
    /\ Goto(t, "asleep")
    /\ UNCHANGED <<word, tcbVars, sig, sig_wake, queueVars, next_key, call, stale,
                   history, panicked>>

\* add_futex_timer, after the queue lock is released.
AddTimer(t) ==
    /\ pc[t] = "timer"
    /\ timers' = timers \cup {<<t, call[t].gen>>}
    /\ Goto(t, "asleep")
    /\ UNCHANGED <<word, tcbVars, sig, sig_wake, queueVars, next_key, call, stale,
                   history, panicked>>

\* Running again: look for a signal, then at the timeout flag, else success.  A
\* generation still recorded has to be taken out of the queue.
Resume(t) ==
    /\ pc[t] = "asleep"
    /\ status[t] = "Ready"
    /\ status' = [status EXCEPT ![t] = "Running"]
    /\ LET code == IF sig[t] = "deliverable" THEN "EINTR"
                   ELSE IF futex_timedout[t] THEN "ETIMEDOUT" ELSE "OK"
       IN /\ result' = [result EXCEPT ![t] = [code |-> code, gen |-> call[t].gen]]
          /\ futex_timedout' = [futex_timedout EXCEPT ![t] = @ /\ code # "ETIMEDOUT"]
          /\ \/ /\ code # "OK" /\ futex_key[t] # 0
                /\ call' = [call EXCEPT ![t] = [op |-> "clean", key |-> futex_pa[t],
                                                gen |-> futex_key[t]]]
                /\ Goto(t, "bump")
             \/ /\ code = "OK" \/ futex_key[t] = 0
                /\ Return(t)
    /\ UNCHANGED <<word, futex_key, futex_pa, sig, sig_wake, queueVars, timers, next_key,
                   stale, outcome, missed, panicked>>

\* Every change of the queues bumps the version before it takes the lock.
Bump(p) ==
    /\ pc[p] = "bump"
    /\ Bumped
    /\ Goto(p, call[p].op)
    /\ UNCHANGED <<word, tcbVars, sig, sig_wake, queueVars, timers, next_key, call,
                   history, panicked>>

\* The interrupted or timed-out waiter leaves the queue.
Clean(t) ==
    /\ pc[t] = "clean"
    /\ queue' = [queue EXCEPT ![call[t].key] = Without(@, call[t].gen)]
    /\ Return(t)
    /\ UNCHANGED <<word, tcbVars, sig, sig_wake, present, timers, next_key, stale,
                   history, panicked>>

-----------------------------------------------------------------------------
\* futex_wake_up_bitset, futex_requeue.

\* The queue is rotated up to the n-th waiter woken: entries whose bits match
\* leave it, the others go to its end.
DoWake(t) ==
    /\ pc[t] = "wake"
    /\ LET c == call[t]
           q == queue[c.key]
           matches(e) == e.bits \cap c.bits # {}
           hits == {i \in DOMAIN q : matches(q[i]) /\ Live(q[i])}
           stop == NthOrLast(hits, c.n, Len(q))
       IN /\ queue' = [queue EXCEPT ![c.key] = SubSeq(q, stop + 1, Len(q))
                          \o Chosen(q, {i \in 1 .. stop : ~matches(q[i])})]
          /\ Complete({q[i] : i \in {j \in hits : j <= stop}}, futex_pa, "woken")
          /\ missed' = [u \in Tasks |-> missed[u] \/
                /\ pc[u] \in {"version", "lock"} /\ call[u].key = c.key
                /\ call[u].expected # word[c.key]
                /\ matches(call[u]) /\ c.n = Cardinality(Tasks)]
    /\ Return(t)
    /\ UNCHANGED <<word, futex_timedout, sig, sig_wake, present, timers, next_key, stale,
                   result, panicked>>

\* Mutants: entries beyond both limits are dropped; the last one moved is kept too.
DropRest(q, from) == <<>>
RetainOneMore(q, from) == IF from > 1 THEN SubSeq(q, from - 1, Len(q)) ELSE q

\* The entries beyond both limits remain waiters of the old key.
Retained(q, from) == SubSeq(q, from, Len(q))

\* Mutant: the map entry is not put back.
ForgetKey(q, k) == {}

\* A queue that is not empty is inserted under its key.
KeyFor(q, k) == IF q # <<>> THEN {k} ELSE {}

\* Wake up to n waiters, move up to n2 of the next ones, keep the rest.
DoRequeue(t) ==
    /\ pc[t] = "requeue"
    /\ LET c == call[t]
           q == queue[c.key]
           live == {i \in DOMAIN q : Live(q[i])}
           stop == IF c.n = 0 THEN 0 ELSE NthOrLast(live, c.n, Len(q))
           rest == {i \in live : i > stop}
           stop2 == IF c.n2 = 0 THEN stop ELSE NthOrLast(rest, c.n2, Len(q))
           moving == {i \in rest : i <= stop2}
           moved == Chosen(q, moving)
           kept == Retained(q, stop2 + 1)
           old == IF c.key = c.key2 THEN kept \o moved ELSE kept
           W == {q[i] : i \in live \ rest}
           M == {q[i].task : i \in moving}
       IN IF c.key \notin present
          THEN UNCHANGED <<tcbVars, queueVars, outcome>>
          ELSE /\ Complete(W, [u \in Tasks |-> IF u \in M THEN c.key2 ELSE futex_pa[u]], "woken")
               /\ queue' = [k \in Keys |-> IF k = c.key THEN old
                                           ELSE IF k = c.key2 THEN queue[k] \o moved ELSE queue[k]]
               /\ present' = (present \ {c.key}) \cup KeyFor(old, c.key) \cup KeyFor(moved, c.key2)
               /\ UNCHANGED futex_timedout
    /\ Return(t)
    /\ UNCHANGED <<word, sig, sig_wake, timers, next_key, stale, result, missed, panicked>>

-----------------------------------------------------------------------------
\* check_futex_timer, handle_timer: one hart does it, holding the TIMERS lock.

Expire(x) ==
    /\ pc[Timer] = "user"
    /\ x \in timers
    /\ call' = [call EXCEPT ![Timer] = [op |-> "expire", task |-> x[1], gen |-> x[2]]]
    /\ Goto(Timer, "bump")
    /\ UNCHANGED <<word, tcbVars, sig, sig_wake, queueVars, timers, next_key, stale,
                   history, panicked>>

HandleTimer ==
    /\ pc[Timer] = "expire"
    /\ LET u == call[Timer].task
           gen == call[Timer].gen
           k == futex_pa[u]
           E == {e \in {queue[k][i] : i \in DOMAIN queue[k]} : e.gen = gen}
       IN \/ /\ futex_key[u] # gen
             /\ UNCHANGED <<tcbVars, queue, outcome, panicked>>
          \/ /\ futex_key[u] = gen /\ k \notin present
             /\ panicked' = TRUE
             /\ UNCHANGED <<tcbVars, queue, outcome>>
          \/ /\ futex_key[u] = gen /\ k \in present
             /\ queue' = [queue EXCEPT ![k] = Without(@, gen)]
             /\ Complete({e \in E : Live(e)}, futex_pa, "timeout")
             /\ futex_timedout' = [futex_timedout EXCEPT ![u] =
                                      @ \/ \E e \in E : Live(e)]
             /\ UNCHANGED panicked
    /\ timers' = timers \ {<<call[Timer].task, call[Timer].gen>>}
    /\ Return(Timer)
    /\ UNCHANGED <<word, sig, sig_wake, present, next_key, stale, result, missed>>

-----------------------------------------------------------------------------
\* add_signal_with_info for a task that has no interruptible waiter: set the
\* pending bit; a task seen Blocked is made Ready in a second critical section.

Signal(t, kind) ==
    /\ sig[t] = "none"
    /\ sig' = [sig EXCEPT ![t] = kind]
    /\ sig_wake' = [sig_wake EXCEPT ![t] = status[t] = "Blocked"]
    /\ UNCHANGED <<word, tcbVars, queueVars, timers, next_key, pc, call, stale,
                   history, panicked>>

SignalWake(t) ==
    /\ sig_wake[t]
    /\ sig_wake' = [sig_wake EXCEPT ![t] = FALSE]
    /\ status' = [status EXCEPT ![t] = IF @ = "Blocked" THEN "Ready" ELSE @]
    /\ UNCHANGED <<word, futex_key, futex_pa, futex_timedout, sig, queueVars, timers,
                   next_key, pc, call, stale, history, panicked>>

\* The trap return handles the signal, or the program unmasks and takes it.
HandleSignal(t) ==
    /\ pc[t] = "user"
    /\ sig[t] # "none" /\ ~sig_wake[t]
    /\ sig' = [sig EXCEPT ![t] = "none"]
    /\ UNCHANGED <<word, tcbVars, sig_wake, queueVars, timers, next_key, pc, call, stale,
                   history, panicked>>

-----------------------------------------------------------------------------
Procs == Tasks \cup {Timer}

Init ==
    /\ mix \in Mixes
    /\ word \in [Keys -> Values]
    /\ status = [t \in Tasks |-> "Running"]
    /\ futex_key = [t \in Tasks |-> 0]
    /\ futex_pa = [t \in Tasks |-> NoKey]
    /\ futex_timedout = [t \in Tasks |-> FALSE]
    /\ sig = [t \in Tasks |-> "none"]
    /\ sig_wake = [t \in Tasks |-> FALSE]
    /\ queue = [k \in Keys |-> <<>>]
    /\ present = {}
    /\ timers = {}
    /\ next_key = 1
    /\ pc = [p \in Procs |-> "user"]
    /\ call = [p \in Procs |-> NoCall]
    /\ stale = [t \in Tasks |-> FALSE]
    /\ result = [t \in Tasks |-> [code |-> "none", gen |-> 0]]
    /\ outcome = [g \in Gens |-> "open"]
    /\ missed = [t \in Tasks |-> FALSE]
    /\ panicked = FALSE

\* What the threads decide to do.
Request(t) ==
    \/ \E k \in mix.keys :
          \/ \E v \in Values : Store(t, k, v)
          \/ \E v \in Values, b \in Bitsets : Wait(t, k, v, b, mix.timed)
          \/ \E n \in {1, Cardinality(Tasks)}, b \in Bitsets : Wake(t, k, n, b)
          \/ \E n, n2 \in {0, 1}, k2 \in mix.keys : Requeue(t, k, n, k2, n2)
    \/ Sleep(t)
    \/ \E kind \in mix.signals : Signal(t, kind)

\* What the kernel does once asked.
TaskStep(t) ==
    \/ EndSleep(t) \/ ReadWord(t) \/ LoadVersion(t) \/ Publish(t) \/ AddTimer(t)
    \/ Resume(t) \/ Bump(t) \/ Clean(t) \/ DoWake(t) \/ DoRequeue(t)
    \/ SignalWake(t) \/ HandleSignal(t)

TimerStep == (\E x \in timers : Expire(x)) \/ Bump(Timer) \/ HandleTimer

Proceed(step) == ~panicked /\ step /\ UNCHANGED mix

Next ==
    \/ \E t \in mix.waiters \cup mix.callers : Proceed(Request(t))
    \/ \E t \in Tasks : Proceed(TaskStep(t))
    \/ Proceed(TimerStep)

Spec == Init /\ [][Next]_vars

\* Every call in progress is executed, and the periodic maintenance runs.
FairSpec == Spec /\ WF_vars(Proceed(TimerStep))
                 /\ \A t \in Tasks : WF_vars(Proceed(TaskStep(t)))

-----------------------------------------------------------------------------
\* Properties.

Entry == [task : Tasks, bits : Bitsets, gen : Gens]
Codes == {"none", "EAGAIN", "EINTR", "ETIMEDOUT", "OK"}

\* The type invariant.
TypeOK ==
    /\ mix \in Mixes
    /\ word \in [Keys -> Values]
    /\ status \in [Tasks -> {"Running", "Blocked", "Ready"}]
    /\ futex_key \in [Tasks -> 0 .. MaxWaits]
    /\ futex_pa \in [Tasks -> Keys \cup {NoKey}]
    /\ futex_timedout \in [Tasks -> BOOLEAN]
    /\ queue \in [Keys -> Seq(Entry)] /\ present \subseteq Keys
    /\ \A k \in Keys : queue[k] # <<>> => k \in present
    /\ timers \subseteq Tasks \X Gens
    /\ result \in [Tasks -> [code : Codes, gen : 0 .. MaxWaits]]
    /\ outcome \in [Gens -> {"open", "woken", "timeout"}]

Entries(k) == {queue[k][i] : i \in DOMAIN queue[k]}
InWait(t) == pc[t] \in {"timer", "asleep"}

\* No waiter is lost: a thread blocked in FUTEX_WAIT has its entry in the queue
\* its TCB names, whatever was woken, moved, timed out or interrupted meanwhile.
WaiterIsQueued ==
    \A t \in Tasks : InWait(t) /\ status[t] = "Blocked" =>
        /\ futex_pa[t] \in present
        /\ \E e \in Entries(futex_pa[t]) : e.task = t /\ e.gen = futex_key[t]

\* A generation has one entry in all queues together, so one wakeup completes
\* one wait.
OneEntryPerWait ==
    \A k, l \in Keys : \A i \in DOMAIN queue[k], j \in DOMAIN queue[l] :
        queue[k][i].gen = queue[l][j].gen => k = l /\ i = j

\* FUTEX_WAIT reports a timeout only when the timer completed this very wait, and
\* never when a FUTEX_WAKE did ("the successful wakeup is kept").
TimeoutIsReal ==
    \A t \in Tasks : result[t].code = "ETIMEDOUT" => outcome[result[t].gen] = "timeout"

\* A waiter with a timeout returns (check_futex_timer, handle_timer).
TimedWaitEnds == \A t \in Tasks : pc[t] = "timer" ~> pc[t] = "user"

\* The version number lets a waiter that has read the word detect a wakeup, so
\* nobody sleeps on a value that was changed and whose wakeup is already over.
NoLostWakeup == \A t \in Tasks : missed[t] => ~(InWait(t) /\ status[t] = "Blocked")
=============================================================================
