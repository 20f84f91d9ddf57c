------------------------------ MODULE RemoteTlb ------------------------------
(***************************************************************************)
(* Translation-cache coherence between harts: os/src/mm/remote_tlb.rs, the *)
(* locking entry points of mm/memory_set/handle.rs, the mailbox-aware      *)
(* mutex of sync/remote_tlb.rs and the places where a hart installs or     *)
(* leaves an address space (trap/mod.rs, task/processor.rs).               *)
(*                                                                         *)
(* An address space has one page; its page table entry is a version        *)
(* number, and a hart's TLB holds the version it has cached, or 0.  One    *)
(* step is one atomic access or one critical section in which no other     *)
(* hart can observe the difference.                                        *)
(***************************************************************************)
EXTENDS Integers

CONSTANTS HartCount,        \* harts 0 .. HartCount - 1
          Spaces,           \* address spaces
          Kernel,           \* the immutable kernel page table
          FlushOnActivate,  \* PageTable::activate always flushes (RISC-V), or
                            \* only when the root changes (LoongArch)
          Operations,       \* the MemorySet entry points in use
          MaxUpdates        \* bound: page-table updates in a behaviour

Harts == 0 .. HartCount - 1
None == HartCount

ASSUME TlbAssumption ==
    /\ HartCount \in Nat \ {0} /\ MaxUpdates \in Nat
    /\ Spaces # {} /\ Kernel \notin Spaces
    /\ FlushOnActivate \in BOOLEAN
    /\ Operations \subseteq {"retire", "fault", "mprotect", "vma", "switch"}

VARIABLES
    pt,              \* page table entry of a space: the current version
    active_harts,    \* MemorySet.active_harts
    writer,          \* the hart that write-locks MemorySet.inner, or None
    update_lock,     \* the hart that holds UPDATE_LOCK, or None
    root,            \* the page table installed on a hart
    tlb,             \* the version of the installed space a hart has cached
    pending, sequence, acknowledged,   \* MAILBOXES
    ipi,             \* a software interrupt is pending on the hart
    space,           \* the address space of the hart's current task
    pc, ret,         \* where the hart is, and where poll() returns to
    was_active,      \* local of the MemorySet entry points
    read_sequence,   \* local of poll()
    remote_harts, todo, target, sequences,   \* locals of shootdown(): UPDATE_LOCK
                     \* admits one at a time
    issued           \* number of updates begun

mailbox == <<pending, sequence, acknowledged>>
sender == <<remote_harts, todo, target, sequences>>
vars == <<pt, active_harts, writer, update_lock, root, tlb, mailbox, ipi, space,
          pc, ret, was_active, read_sequence, sender, issued>>

Goto(h, l) == pc' = [pc EXCEPT ![h] = l]

\* Call poll() and continue at l.
CallPoll(h, l) == Goto(h, "poll") /\ ret' = [ret EXCEPT ![h] = l]

Init ==
    /\ pt = [s \in Spaces |-> 1]
    /\ active_harts = [s \in Spaces |-> {}]
    /\ writer = [s \in Spaces |-> None]
    /\ update_lock = None
    /\ root = [h \in Harts |-> Kernel]
    /\ tlb = [h \in Harts |-> 0]
    /\ pending = [h \in Harts |-> FALSE]
    /\ sequence = [h \in Harts |-> 0]
    /\ acknowledged = [h \in Harts |-> 0]
    /\ ipi = [h \in Harts |-> FALSE]
    /\ space \in [Harts -> Spaces]
    /\ pc = [h \in Harts |-> "kernel"]
    /\ ret = [h \in Harts |-> "kernel"]
    /\ was_active = [h \in Harts |-> FALSE]
    /\ read_sequence = [h \in Harts |-> 0]
    /\ remote_harts = {} /\ todo = {} /\ target = None
    /\ sequences = [h \in Harts |-> 0]
    /\ issued = 0

-----------------------------------------------------------------------------
\* The hardware and the trap path.

\* The page-table walker may cache the installed page table at any time.
Fill(h) ==
    /\ root[h] # Kernel /\ tlb[h] = 0
    /\ tlb' = [tlb EXCEPT ![h] = pt[root[h]]]
    /\ UNCHANGED <<pt, active_harts, writer, update_lock, root, mailbox, ipi, space, pc,
                   ret, was_active, read_sequence, sender, issued>>

\* A system call or an exception: the hart stays in active_harts.
Trap(h) ==
    /\ pc[h] = "user" /\ ~ipi[h]
    /\ Goto(h, "kernel")
    /\ UNCHANGED <<pt, active_harts, writer, update_lock, root, tlb, mailbox, ipi, space,
                   ret, was_active, read_sequence, sender, issued>>

\* trap_handler: clear_ipi() before poll().
IpiTrap(h) ==
    /\ pc[h] = "user" /\ ipi[h]
    /\ ipi' = [ipi EXCEPT ![h] = FALSE]
    /\ CallPoll(h, "kernel")
    /\ UNCHANGED <<pt, active_harts, writer, update_lock, root, tlb, mailbox, space,
                   was_active, read_sequence, sender, issued>>

\* trap_return polls before it activates the address space.
TrapReturn(h) ==
    /\ pc[h] = "kernel"
    /\ CallPoll(h, "activate")
    /\ UNCHANGED <<pt, active_harts, writer, update_lock, root, tlb, mailbox, ipi, space,
                   was_active, read_sequence, sender, issued>>

\* Mutant: a new root only; the mask does not count.
FlushesForNewRoot(h) == root[h] # space[h]

\* PageTable::activate, then the test of activate_for_user.
FlushesOnReturn(h) ==
    \/ FlushOnActivate
    \/ root[h] # space[h]
    \/ h \notin active_harts[space[h]]

\* Mutant: an ordinary read lock, which does not serve the mailbox.
ActivateWithoutPoll(h) ==
    /\ pc[h] = "activate"
    /\ \/ writer[space[h]] # None /\ UNCHANGED <<active_harts, root, tlb, pc>>
       \/ /\ writer[space[h]] = None
          /\ tlb' = [tlb EXCEPT ![h] = IF FlushesOnReturn(h) THEN 0 ELSE @]
          /\ root' = [root EXCEPT ![h] = space[h]]
          /\ active_harts' = [active_harts EXCEPT ![space[h]] = @ \cup {h}]
          /\ Goto(h, "user")
    /\ UNCHANGED <<pt, writer, update_lock, mailbox, ipi, space, ret, was_active,
                   read_sequence, sender, issued>>

\* activate_for_user, under the read lock; get_ref polls while a writer holds it.
ActivateForUser(h) ==
    /\ pc[h] = "activate"
    /\ \/ /\ writer[space[h]] # None
          /\ CallPoll(h, "activate")
          /\ UNCHANGED <<active_harts, root, tlb>>
       \/ /\ writer[space[h]] = None
          /\ tlb' = [tlb EXCEPT ![h] = IF FlushesOnReturn(h) THEN 0 ELSE @]
          /\ root' = [root EXCEPT ![h] = space[h]]
          /\ active_harts' = [active_harts EXCEPT ![space[h]] = @ \cup {h}]
          /\ Goto(h, "user")
          /\ UNCHANGED ret
    /\ UNCHANGED <<pt, writer, update_lock, mailbox, ipi, space, was_active,
                   read_sequence, sender, issued>>

\* schedule, take_current_task: install the kernel page table, then leave the
\* mask; a task of space s is resumed in the kernel.
Schedule(h, s) ==
    /\ "switch" \in Operations
    /\ pc[h] = "kernel"
    /\ root' = [root EXCEPT ![h] = Kernel]
    /\ tlb' = [tlb EXCEPT ![h] = 0]
    /\ active_harts' = [active_harts EXCEPT ![space[h]] = @ \ {h}]
    /\ space' = [space EXCEPT ![h] = s]
    /\ UNCHANGED <<pt, writer, update_lock, mailbox, ipi, pc, ret, was_active,
                   read_sequence, sender, issued>>

-----------------------------------------------------------------------------
\* poll().

Poll(h) ==
    /\ pc[h] = "poll"
    /\ pending' = [pending EXCEPT ![h] = FALSE]
    /\ Goto(h, IF pending[h] THEN "flush" ELSE ret[h])
    /\ UNCHANGED <<pt, active_harts, writer, update_lock, root, tlb, sequence,
                   acknowledged, ipi, space, ret, was_active, read_sequence, sender, issued>>

Flush(h) ==
    /\ pc[h] = "flush"
    /\ tlb' = [tlb EXCEPT ![h] = 0]
    /\ Goto(h, "load")
    /\ UNCHANGED <<pt, active_harts, writer, update_lock, root, mailbox, ipi, space, ret,
                   was_active, read_sequence, sender, issued>>

LoadSequence(h) ==
    /\ pc[h] = "load"
    /\ read_sequence' = [read_sequence EXCEPT ![h] = sequence[h]]
    /\ Goto(h, "ack")
    /\ UNCHANGED <<pt, active_harts, writer, update_lock, root, tlb, mailbox, ipi, space,
                   ret, was_active, sender, issued>>

Acknowledge(h) ==
    /\ pc[h] = "ack"
    /\ acknowledged' = [acknowledged EXCEPT ![h] = read_sequence[h]]
    /\ Goto(h, ret[h])
    /\ UNCHANGED <<pt, active_harts, writer, update_lock, root, tlb, pending, sequence,
                   ipi, space, ret, was_active, read_sequence, sender, issued>>

-----------------------------------------------------------------------------
\* The entry points of MemorySet that change page tables.

\* All of them begin with deactivate_current_hart.
Enter(h, l) ==
    /\ pc[h] = "kernel"
    /\ was_active' = [was_active EXCEPT ![h] = h \in active_harts[space[h]]]
    /\ active_harts' = [active_harts EXCEPT ![space[h]] = @ \ {h}]
    /\ Goto(h, l)
    /\ UNCHANGED <<pt, writer, update_lock, root, tlb, mailbox, ipi, space, ret,
                   read_sequence, sender>>

\* if was_active { activate_current_hart() }
Republish(h) ==
    active_harts' = [active_harts EXCEPT ![space[h]] =
                        IF was_active[h] THEN @ \cup {h} ELSE @]

\* with_retained_frames_mut (munmap, mremap), the copy of a shared copy-on-write
\* page, and a demand fault, which goes the same way as far as its end.
Retire(h) ==
    /\ Operations \cap {"retire", "fault"} # {} /\ issued < MaxUpdates
    /\ Enter(h, "lock")
    /\ issued' = issued + 1

\* with_mprotect_mut.
Mprotect(h) ==
    /\ "mprotect" \in Operations /\ issued < MaxUpdates
    /\ Enter(h, "mprotect")
    /\ issued' = issued + 1

\* with_vma_mut, and an operation that fails: the entries of mapped pages stay as
\* they are.
Vma(h) ==
    /\ "vma" \in Operations
    /\ Enter(h, "vma")
    /\ UNCHANGED issued

\* The same for a fault on a present page.
VmaWrite(h) ==
    /\ pc[h] = "vma" /\ writer[space[h]] = None
    /\ Republish(h)
    /\ Goto(h, "kernel")
    /\ UNCHANGED <<pt, writer, update_lock, root, tlb, mailbox, ipi, space, ret,
                   was_active, read_sequence, sender, issued>>

\* The fast path when no other hart is active, else the path with a shootdown.
MprotectWrite(h) ==
    /\ pc[h] = "mprotect" /\ writer[space[h]] = None
    /\ \/ /\ active_harts[space[h]] = {}
          /\ pt' = [pt EXCEPT ![space[h]] = @ + 1]
          /\ tlb' = [tlb EXCEPT ![h] = 0]
          /\ Republish(h)
          /\ Goto(h, "kernel")
       \/ /\ active_harts[space[h]] # {}
          /\ Goto(h, "lock")
          /\ UNCHANGED <<pt, tlb, active_harts>>
    /\ UNCHANGED <<writer, update_lock, root, mailbox, ipi, space, ret, was_active,
                   read_sequence, sender, issued>>

\* lock_updates: RemoteTlbMutex::lock polls while the lock is contended.
LockUpdates(h) ==
    /\ pc[h] = "lock"
    /\ \/ update_lock = None /\ update_lock' = h /\ Goto(h, "write") /\ UNCHANGED ret
       \/ update_lock # None /\ CallPoll(h, "lock") /\ UNCHANGED update_lock
    /\ UNCHANGED <<pt, active_harts, writer, root, tlb, mailbox, ipi, space, was_active,
                   read_sequence, sender, issued>>

\* A fault that finds nothing to map: not its own page, or one that is present by
\* now and is looked at again under the write lock alone.
FaultChangesNothing(h) ==
    /\ "fault" \in Operations
    /\ pc[h] = "write" /\ writer[space[h]] = None
    /\ update_lock' = None
    /\ \E l \in {"republish", "vma"} : Goto(h, l)
    /\ UNCHANGED <<pt, active_harts, writer, root, tlb, mailbox, ipi, space, ret,
                   was_active, read_sequence, sender, issued>>

\* Take the write lock and change the page table.
Write(h) ==
    /\ pc[h] = "write" /\ writer[space[h]] = None
    /\ writer' = [writer EXCEPT ![space[h]] = h]
    /\ pt' = [pt EXCEPT ![space[h]] = @ + 1]
    /\ Goto(h, "shootdown")
    /\ UNCHANGED <<active_harts, update_lock, root, tlb, mailbox, ipi, space, ret,
                   was_active, read_sequence, sender, issued>>

-----------------------------------------------------------------------------
\* shootdown().

\* Mutant: nobody is notified.
NobodyRemote(h) == {}

\* Every hart in the mask but this one, in user mode or not.
RemoteHarts(h) == active_harts[space[h]] \ {h}

\* The local flush, then the mask of the harts to notify.
Shootdown(h) ==
    /\ pc[h] = "shootdown"
    /\ tlb' = [tlb EXCEPT ![h] = 0]
    /\ remote_harts' = RemoteHarts(h)
    /\ todo' = remote_harts'
    /\ Goto(h, IF remote_harts' = {} THEN "finish" ELSE "sequence")
    /\ UNCHANGED <<pt, active_harts, writer, update_lock, root, mailbox, ipi, space, ret,
                   was_active, read_sequence, target, sequences, issued>>

\* Go on with the next target, or with phase l for all targets.
NextTarget(h, t, same, l) ==
    /\ todo' = IF todo = {t} THEN remote_harts ELSE todo \ {t}
    /\ Goto(h, IF todo = {t} THEN l ELSE same)

\* Phase 1: a new sequence number, then the pending flag.  (The code visits the
\* targets by number; here and below, in any order.)
PrepareMailbox(h, t) ==
    /\ pc[h] = "sequence" /\ t \in todo
    /\ sequence' = [sequence EXCEPT ![t] = @ + 1]
    /\ sequences' = [sequences EXCEPT ![t] = sequence[t] + 1]
    /\ target' = t
    /\ Goto(h, "pending")
    /\ UNCHANGED <<pt, active_harts, writer, update_lock, root, tlb, pending, acknowledged,
                   ipi, space, ret, was_active, read_sequence, remote_harts, todo, issued>>

SetPending(h) ==
    /\ pc[h] = "pending"
    /\ pending' = [pending EXCEPT ![target] = TRUE]
    /\ target' = None
    /\ NextTarget(h, target, "sequence", "ipi")
    /\ UNCHANGED <<pt, active_harts, writer, update_lock, root, tlb, sequence, acknowledged,
                   ipi, space, ret, was_active, read_sequence, remote_harts, sequences,
                   issued>>

\* Phase 2: wake_hart.
SendIpi(h, t) ==
    /\ pc[h] = "ipi" /\ t \in todo
    /\ ipi' = [ipi EXCEPT ![t] = TRUE]
    /\ NextTarget(h, t, "ipi", "wait")
    /\ UNCHANGED <<pt, active_harts, writer, update_lock, root, tlb, mailbox, space, ret,
                   was_active, read_sequence, remote_harts, target, sequences, issued>>

\* Phase 3: wait until the target acknowledges or leaves the address space.
WaitAck(h, t) ==
    /\ pc[h] = "wait" /\ t \in todo
    /\ acknowledged[t] = sequences[t] \/ t \notin active_harts[space[h]]
    /\ NextTarget(h, t, "wait", "finish")
    /\ UNCHANGED <<pt, active_harts, writer, update_lock, root, tlb, mailbox, ipi, space,
                   ret, was_active, read_sequence, remote_harts, target, sequences, issued>>

\* Release the retained frames and both locks.
Unlock(h) ==
    /\ writer' = [writer EXCEPT ![space[h]] = None]
    /\ update_lock' = None
    /\ remote_harts' = {} /\ todo' = {} /\ target' = None
    /\ sequences' = [t \in Harts |-> 0]
    /\ UNCHANGED <<pt, root, tlb, mailbox, ipi, space, ret, was_active, read_sequence, issued>>

\* An update republishes the hart before the locks are released.
Finish(h) ==
    /\ pc[h] = "finish"
    /\ Republish(h)
    /\ Unlock(h)
    /\ Goto(h, "kernel")

\* A demand fault has released them by then.
FinishFault(h) ==
    /\ "fault" \in Operations
    /\ pc[h] = "finish"
    /\ Unlock(h)
    /\ Goto(h, "republish")
    /\ UNCHANGED active_harts

RepublishAfterFault(h) ==
    /\ pc[h] = "republish"
    /\ Republish(h)
    /\ Goto(h, "kernel")
    /\ UNCHANGED <<pt, writer, update_lock, root, tlb, mailbox, ipi, space, ret,
                   was_active, read_sequence, sender, issued>>

-----------------------------------------------------------------------------
\* What a task or the scheduler decides to do.
Choose(h) ==
    \/ Trap(h) \/ Retire(h) \/ Mprotect(h) \/ Vma(h)
    \/ \E s \in Spaces : Schedule(h, s)

\* What the kernel does once it has begun, and interrupts.
Step(h) ==
    \/ IpiTrap(h) \/ TrapReturn(h) \/ ActivateForUser(h)
    \/ Poll(h) \/ Flush(h) \/ LoadSequence(h) \/ Acknowledge(h)
    \/ VmaWrite(h) \/ MprotectWrite(h) \/ LockUpdates(h) \/ Write(h) \/ Shootdown(h)
    \/ \E t \in Harts : PrepareMailbox(h, t) \/ SendIpi(h, t) \/ WaitAck(h, t)
    \/ SetPending(h) \/ Finish(h)
    \/ FaultChangesNothing(h) \/ FinishFault(h) \/ RepublishAfterFault(h)

Next == \E h \in Harts : Choose(h) \/ Step(h) \/ Fill(h)

Spec == Init /\ [][Next]_vars

\* A hart does not stop in the kernel, and takes a pending interrupt.
FairSpec == Spec /\ \A h \in Harts : WF_vars(Step(h))

-----------------------------------------------------------------------------
\* Properties.

Sending == {"shootdown", "sequence", "pending", "ipi", "wait", "finish"}

Polling == {"poll", "flush", "load", "ack"}
Labels == Sending \cup Polling
             \cup {"user", "kernel", "activate", "vma", "mprotect", "lock", "write", "republish"}

\* The type invariant.
TypeOK ==
    /\ pt \in [Spaces -> Nat]
    /\ active_harts \in [Spaces -> SUBSET Harts]
    /\ writer \in [Spaces -> Harts \cup {None}]
    /\ update_lock \in Harts \cup {None}
    /\ root \in [Harts -> Spaces \cup {Kernel}]
    /\ tlb \in [Harts -> Nat]
    /\ pending \in [Harts -> BOOLEAN] /\ ipi \in [Harts -> BOOLEAN]
    /\ space \in [Harts -> Spaces]
    /\ pc \in [Harts -> Labels]
    /\ \A h \in Harts : pc[h] \in {"vma", "republish"} => Operations \cap {"vma", "fault"} # {}
    /\ ret \in [Harts -> {"kernel", "activate", "lock"}]
    /\ was_active \in [Harts -> BOOLEAN]
    /\ remote_harts \in SUBSET Harts /\ todo \in SUBSET remote_harts

\* What a hart has cached of its installed space is out of date.
IsStale(h) == root[h] # Kernel /\ tlb[h] \notin {0, pt[root[h]]}

\* Hart h is between deactivate_current_hart and the end of its operation.
InUpdate(h) ==
    \/ pc[h] \in Sending \cup {"vma", "mprotect", "lock", "write", "republish"}
    \/ pc[h] \in Polling /\ ret[h] = "lock"

\* The two locks admit one sender, and a sender owns both.
LocksHeld ==
    /\ \A h \in Harts : update_lock = h <=> pc[h] \in Sending \cup {"write"}
    /\ \A h \in Harts, s \in Spaces : writer[s] = h <=> pc[h] \in Sending /\ space[h] = s

\* A hart is in the mask of no space but its own, in that one while it runs user
\* code, and not while it changes it.
MaskAgrees ==
    \A h \in Harts :
        /\ \A s \in Spaces : h \in active_harts[s] => space[h] = s
        /\ root[h] \in {Kernel, space[h]}
        /\ pc[h] = "user" => h \in active_harts[space[h]] /\ root[h] = space[h]
        /\ InUpdate(h) => h \notin active_harts[space[h]]

\* The sender of hart h's space still has to interrupt h.
WillInterrupt(w, h) ==
    \/ pc[w] \in {"sequence", "pending"} /\ h \in remote_harts
    \/ pc[w] = "ipi" /\ h \in todo

\* Someone sees to it that hart h drops its translations before it uses them.
Covered(h) ==
    LET w == writer[space[h]]
    IN \/ w # None /\ pc[w] = "shootdown"
       \/ w # None /\ pc[w] \in {"sequence", "pending"} /\ h \in todo
       \/ /\ pending[h] \/ pc[h] = "flush"
          /\ \/ ipi[h] \/ pc[h] \in {"poll", "flush"}
             \/ w # None /\ WillInterrupt(w, h)

\* A sender has flushed its own translations.
SenderIsFresh ==
    /\ \A h \in Harts : pc[h] \in Sending \ {"shootdown"} => ~IsStale(h)
    /\ \A h \in Harts : pc[h] = "pending" => target \in todo

\* A stale translation of a hart in the mask is covered, or the hart is in the
\* kernel and flushes before it returns to user mode.
StaleIsCovered ==
    \A h \in Harts :
        h \in active_harts[space[h]] /\ IsStale(h) =>
            Covered(h) \/ (FlushOnActivate /\ pc[h] # "user")

\* The inductive invariant: who holds the locks, who is in which mask, and how
\* every stale translation is going to be dropped.
Inv == TypeOK /\ LocksHeld /\ MaskAgrees /\ SenderIsFresh /\ StaleIsCovered

\* A hart never executes user code on a translation that a completed update has
\* replaced: the frames it retired are free by then (with_retained_frames_mut
\* keeps them "until every remote stale translation has been invalidated").
NoStaleUser ==
    \A h \in Harts : pc[h] = "user" /\ ~ipi[h] /\ writer[space[h]] = None => ~IsStale(h)

\* Every update completes: two harts never wait for each other's interrupt.
UpdateCompletes ==
    \A h \in Harts : pc[h] \in {"lock", "write", "wait", "mprotect", "republish"} ~> pc[h] = "kernel"
=============================================================================
