--------------------------- MODULE RemoteTlbProofs ---------------------------
(***************************************************************************)
(* Proofs about RemoteTlb, for any number of harts and address spaces: the *)
(* inductive invariant, and that user code never runs on a retired         *)
(* translation, provided the operations that skip the flush are used only  *)
(* where returning to user mode always flushes (RISC-V).                   *)
(***************************************************************************)
EXTENDS RemoteTlb, TLAPS

\* The time a leaf may take.
USE SMTT(30)

\* The operations that republish a hart without a flush, or after the locks, are
\* used only where PageTable::activate flushes unconditionally.
VmaFlushes == Operations \cap {"vma", "fault"} # {} => FlushOnActivate

\* None is not a hart.
LEMMA NoneIsNoHart == None \notin Harts
BY TlbAssumption DEF None, Harts

\* The initial state satisfies the invariant: nothing is cached.
LEMMA InitInv == Init => Inv
BY NoneIsNoHart, TlbAssumption
   DEF Init, Inv, TypeOK, LocksHeld, MaskAgrees, SenderIsFresh, StaleIsCovered, IsStale,
       InUpdate, Labels, Sending, Polling

\* Trap: entering the kernel leaves everything as it is but exempts the hart.
LEMMA TrapInv ==
    ASSUME NEW h \in Harts, Inv, Trap(h)
    PROVE  Inv'
<1> USE NoneIsNoHart DEF Trap, Goto, mailbox, sender
<1>1. TypeOK'
  BY Zenon DEF Inv, TypeOK, Labels, Sending, Polling
<1>2. LocksHeld'
  BY DEF Inv, TypeOK, LocksHeld, Sending, Polling
<1>3. MaskAgrees'
  BY Zenon DEF Inv, TypeOK, MaskAgrees, InUpdate, Sending, Polling
<1>4. SenderIsFresh'
  BY DEF Inv, TypeOK, LocksHeld, MaskAgrees, SenderIsFresh, IsStale, Sending, Polling
<1>5. StaleIsCovered'
  BY DEF Inv, TypeOK, LocksHeld, MaskAgrees, SenderIsFresh, StaleIsCovered, Covered,
         WillInterrupt, IsStale, InUpdate, Sending, Polling
<1> QED
  BY <1>1, <1>2, <1>3, <1>4, <1>5, Zenon DEF Inv

\* Retire: the hart leaves the mask.
LEMMA RetireInv ==
    ASSUME NEW h \in Harts, Inv, Retire(h)
    PROVE  Inv'
<1> USE NoneIsNoHart DEF Retire, Enter, Goto, mailbox, sender
<1>1. TypeOK'
  BY DEF Inv, TypeOK, Labels, Sending, Polling
<1>2. LocksHeld'
  BY DEF Inv, TypeOK, LocksHeld, Sending, Polling
<1>3. MaskAgrees'
  BY DEF Inv, TypeOK, MaskAgrees, InUpdate, Sending, Polling
<1>4. SenderIsFresh'
  BY DEF Inv, TypeOK, LocksHeld, MaskAgrees, SenderIsFresh, IsStale, Sending, Polling
<1>5. StaleIsCovered'
  BY DEF Inv, TypeOK, LocksHeld, MaskAgrees, SenderIsFresh, StaleIsCovered, Covered,
         WillInterrupt, IsStale, InUpdate, Sending, Polling
<1> QED
  BY <1>1, <1>2, <1>3, <1>4, <1>5, Zenon DEF Inv

\* Mprotect: the hart leaves the mask.
LEMMA MprotectInv ==
    ASSUME NEW h \in Harts, Inv, Mprotect(h)
    PROVE  Inv'
<1> USE NoneIsNoHart DEF Mprotect, Enter, Goto, mailbox, sender
<1>1. TypeOK'
  BY DEF Inv, TypeOK, Labels, Sending, Polling
<1>2. LocksHeld'
  BY DEF Inv, TypeOK, LocksHeld, Sending, Polling
<1>3. MaskAgrees'
  BY DEF Inv, TypeOK, MaskAgrees, InUpdate, Sending, Polling
<1>4. SenderIsFresh'
  BY DEF Inv, TypeOK, LocksHeld, MaskAgrees, SenderIsFresh, IsStale, Sending, Polling
<1>5. StaleIsCovered'
  BY DEF Inv, TypeOK, LocksHeld, MaskAgrees, SenderIsFresh, StaleIsCovered, Covered,
         WillInterrupt, IsStale, InUpdate, Sending, Polling
<1> QED
  BY <1>1, <1>2, <1>3, <1>4, <1>5, Zenon DEF Inv

\* Vma: the hart leaves the mask.
LEMMA VmaInv ==
    ASSUME NEW h \in Harts, Inv, Vma(h)
    PROVE  Inv'
<1> USE NoneIsNoHart DEF Vma, Enter, Goto, mailbox, sender
<1>1. TypeOK'
  BY DEF Inv, TypeOK, Labels, Sending, Polling
<1>2. LocksHeld'
  BY DEF Inv, TypeOK, LocksHeld, Sending, Polling
<1>3. MaskAgrees'
  BY DEF Inv, TypeOK, MaskAgrees, InUpdate, Sending, Polling
<1>4. SenderIsFresh'
  BY DEF Inv, TypeOK, LocksHeld, MaskAgrees, SenderIsFresh, IsStale, Sending, Polling
<1>5. StaleIsCovered'
  BY DEF Inv, TypeOK, LocksHeld, MaskAgrees, SenderIsFresh, StaleIsCovered, Covered,
         WillInterrupt, IsStale, InUpdate, Sending, Polling
<1> QED
  BY <1>1, <1>2, <1>3, <1>4, <1>5, Zenon DEF Inv

\* Schedule: the kernel page table has no user translations.
LEMMA ScheduleInv ==
    ASSUME NEW h \in Harts, NEW s \in Spaces, Inv, Schedule(h, s)
    PROVE  Inv'
<1> USE NoneIsNoHart DEF Schedule, Goto, mailbox, sender
<1>1. TypeOK'
  BY Zenon DEF Inv, TypeOK, Labels, Sending, Polling
<1>2. LocksHeld'
  BY DEF Inv, TypeOK, LocksHeld, Sending, Polling
<1>3. MaskAgrees'
  BY DEF Inv, TypeOK, MaskAgrees, InUpdate, Sending, Polling
<1>4. SenderIsFresh'
  BY DEF Inv, TypeOK, LocksHeld, MaskAgrees, SenderIsFresh, IsStale, Sending, Polling
<1>5. StaleIsCovered'
  BY DEF Inv, TypeOK, LocksHeld, MaskAgrees, SenderIsFresh, StaleIsCovered, Covered,
         WillInterrupt, IsStale, InUpdate, Sending, Polling
<1> QED
  BY <1>1, <1>2, <1>3, <1>4, <1>5, Zenon DEF Inv

\* IpiTrap: the interrupt is cleared, but poll() comes next.
LEMMA IpiTrapInv ==
    ASSUME NEW h \in Harts, Inv, IpiTrap(h)
    PROVE  Inv'
<1> USE NoneIsNoHart DEF IpiTrap, CallPoll, Goto, mailbox, sender
<1>1. TypeOK'
  BY Zenon DEF Inv, TypeOK, Labels, Sending, Polling
<1>2. LocksHeld'
  BY DEF Inv, TypeOK, LocksHeld, Sending, Polling
<1>3. MaskAgrees'
  BY DEF Inv, TypeOK, MaskAgrees, InUpdate, Sending, Polling
<1>4. SenderIsFresh'
  BY DEF Inv, TypeOK, LocksHeld, MaskAgrees, SenderIsFresh, IsStale, Sending, Polling
<1>5. StaleIsCovered'
  BY DEF Inv, TypeOK, LocksHeld, MaskAgrees, SenderIsFresh, StaleIsCovered, Covered,
         WillInterrupt, IsStale, InUpdate, Sending, Polling
<1> QED
  BY <1>1, <1>2, <1>3, <1>4, <1>5, Zenon DEF Inv

\* TrapReturn: trap_return polls first.
LEMMA TrapReturnInv ==
    ASSUME NEW h \in Harts, Inv, TrapReturn(h)
    PROVE  Inv'
<1> USE NoneIsNoHart DEF TrapReturn, CallPoll, Goto, mailbox, sender
<1>1. TypeOK'
  BY Zenon DEF Inv, TypeOK, Labels, Sending, Polling
<1>2. LocksHeld'
  BY DEF Inv, TypeOK, LocksHeld, Sending, Polling
<1>3. MaskAgrees'
  BY DEF Inv, TypeOK, MaskAgrees, InUpdate, Sending, Polling
<1>4. SenderIsFresh'
  BY DEF Inv, TypeOK, LocksHeld, MaskAgrees, SenderIsFresh, IsStale, Sending, Polling
<1>5. StaleIsCovered'
  BY DEF Inv, TypeOK, LocksHeld, MaskAgrees, SenderIsFresh, StaleIsCovered, Covered,
         WillInterrupt, IsStale, InUpdate, Sending, Polling
<1> QED
  BY <1>1, <1>2, <1>3, <1>4, <1>5, Zenon DEF Inv

\* ActivateForUser: a stale hart in the mask that does not flush here has an
\* interrupt pending, for no writer holds the lock.
LEMMA ActivateForUserInv ==
    ASSUME NEW h \in Harts, Inv, ActivateForUser(h)
    PROVE  Inv'
<1> USE NoneIsNoHart DEF ActivateForUser, CallPoll, FlushesOnReturn, Goto, mailbox, sender
<1>1. TypeOK'
  BY DEF Inv, TypeOK, Labels, Sending, Polling
<1>2. LocksHeld'
  BY DEF Inv, TypeOK, LocksHeld, Sending, Polling
<1>3. MaskAgrees'
  BY DEF Inv, TypeOK, MaskAgrees, InUpdate, Sending, Polling
<1>4. SenderIsFresh'
  BY DEF Inv, TypeOK, LocksHeld, MaskAgrees, SenderIsFresh, IsStale, Sending, Polling
<1>5. StaleIsCovered'
  BY DEF Inv, TypeOK, LocksHeld, MaskAgrees, SenderIsFresh, StaleIsCovered, Covered,
         WillInterrupt, IsStale, InUpdate, Sending, Polling
<1> QED
  BY <1>1, <1>2, <1>3, <1>4, <1>5, Zenon DEF Inv

\* Poll: a request taken from the mailbox is followed by the flush.
LEMMA PollInv ==
    ASSUME NEW h \in Harts, Inv, Poll(h)
    PROVE  Inv'
<1> USE NoneIsNoHart DEF Poll, Goto, mailbox, sender
<1>1. TypeOK'
  BY Zenon DEF Inv, TypeOK, Labels, Sending, Polling
<1>2. LocksHeld'
  BY DEF Inv, TypeOK, LocksHeld, Sending, Polling
<1>3. MaskAgrees'
  BY DEF Inv, TypeOK, MaskAgrees, InUpdate, Sending, Polling
<1>4. SenderIsFresh'
  BY DEF Inv, TypeOK, LocksHeld, MaskAgrees, SenderIsFresh, IsStale, Sending, Polling
<1>5. StaleIsCovered'
  BY DEF Inv, TypeOK, LocksHeld, MaskAgrees, SenderIsFresh, StaleIsCovered, Covered,
         WillInterrupt, IsStale, InUpdate, Sending, Polling
<1> QED
  BY <1>1, <1>2, <1>3, <1>4, <1>5, Zenon DEF Inv

\* Flush: the hart is no longer stale.
LEMMA FlushInv ==
    ASSUME NEW h \in Harts, Inv, Flush(h)
    PROVE  Inv'
<1> USE NoneIsNoHart DEF Flush, Goto, mailbox, sender
<1>1. TypeOK'
  BY Zenon DEF Inv, TypeOK, Labels, Sending, Polling
<1>2. LocksHeld'
  BY DEF Inv, TypeOK, LocksHeld, Sending, Polling
<1>3. MaskAgrees'
  BY DEF Inv, TypeOK, MaskAgrees, InUpdate, Sending, Polling
<1>4. SenderIsFresh'
  BY DEF Inv, TypeOK, LocksHeld, MaskAgrees, SenderIsFresh, IsStale, Sending, Polling
<1>5. StaleIsCovered'
  BY DEF Inv, TypeOK, LocksHeld, MaskAgrees, SenderIsFresh, StaleIsCovered, Covered,
         WillInterrupt, IsStale, InUpdate, Sending, Polling
<1> QED
  BY <1>1, <1>2, <1>3, <1>4, <1>5, Zenon DEF Inv

\* LoadSequence: acknowledging does not touch what is stale.
LEMMA LoadSequenceInv ==
    ASSUME NEW h \in Harts, Inv, LoadSequence(h)
    PROVE  Inv'
<1> USE NoneIsNoHart DEF LoadSequence, Goto, mailbox, sender
<1>1. TypeOK'
  BY Zenon DEF Inv, TypeOK, Labels, Sending, Polling
<1>2. LocksHeld'
  BY DEF Inv, TypeOK, LocksHeld, Sending, Polling
<1>3. MaskAgrees'
  BY DEF Inv, TypeOK, MaskAgrees, InUpdate, Sending, Polling
<1>4. SenderIsFresh'
  BY DEF Inv, TypeOK, LocksHeld, MaskAgrees, SenderIsFresh, IsStale, Sending, Polling
<1>5. StaleIsCovered'
  BY DEF Inv, TypeOK, LocksHeld, MaskAgrees, SenderIsFresh, StaleIsCovered, Covered,
         WillInterrupt, IsStale, InUpdate, Sending, Polling
<1> QED
  BY <1>1, <1>2, <1>3, <1>4, <1>5, Zenon DEF Inv

\* Acknowledge: nor does publishing the acknowledgement.
LEMMA AcknowledgeInv ==
    ASSUME NEW h \in Harts, Inv, Acknowledge(h)
    PROVE  Inv'
<1> USE NoneIsNoHart DEF Acknowledge, Goto, mailbox, sender
<1>1. TypeOK'
  BY Zenon DEF Inv, TypeOK, Labels, Sending, Polling
<1>2. LocksHeld'
  BY DEF Inv, TypeOK, LocksHeld, Sending, Polling
<1>3. MaskAgrees'
  BY DEF Inv, TypeOK, MaskAgrees, InUpdate, Sending, Polling
<1>4. SenderIsFresh'
  BY DEF Inv, TypeOK, LocksHeld, MaskAgrees, SenderIsFresh, IsStale, Sending, Polling
<1>5. StaleIsCovered'
  BY DEF Inv, TypeOK, LocksHeld, MaskAgrees, SenderIsFresh, StaleIsCovered, Covered,
         WillInterrupt, IsStale, InUpdate, Sending, Polling
<1> QED
  BY <1>1, <1>2, <1>3, <1>4, <1>5, Zenon DEF Inv

\* VmaWrite: one of the two steps that put a stale hart back into the mask; it has to
\* flush on its way to user mode.
LEMMA VmaWriteInv ==
    ASSUME NEW h \in Harts, Inv, VmaFlushes, VmaWrite(h)
    PROVE  Inv'
<1> USE NoneIsNoHart DEF VmaWrite, Republish, Goto, mailbox, sender
<1>1. TypeOK'
  BY DEF Inv, TypeOK, Labels, Sending, Polling
<1>2. LocksHeld'
  BY DEF Inv, TypeOK, LocksHeld, Sending, Polling
<1>3. MaskAgrees'
  BY DEF Inv, TypeOK, MaskAgrees, InUpdate, Sending, Polling
<1>4. SenderIsFresh'
  BY DEF Inv, TypeOK, LocksHeld, MaskAgrees, SenderIsFresh, IsStale, Sending, Polling
<1>5. StaleIsCovered'
  BY DEF VmaFlushes, Inv, TypeOK, LocksHeld, MaskAgrees, SenderIsFresh, StaleIsCovered, Covered,
         WillInterrupt, IsStale, InUpdate, Sending, Polling
<1> QED
  BY <1>1, <1>2, <1>3, <1>4, <1>5, Zenon DEF Inv

\* RepublishAfterFault: the other one.
LEMMA RepublishAfterFaultInv ==
    ASSUME NEW h \in Harts, Inv, VmaFlushes, RepublishAfterFault(h)
    PROVE  Inv'
<1> USE NoneIsNoHart DEF RepublishAfterFault, Republish, Goto, mailbox, sender
<1>1. TypeOK'
  BY DEF Inv, TypeOK, Labels, Sending, Polling
<1>2. LocksHeld'
  BY DEF Inv, TypeOK, LocksHeld, Sending, Polling
<1>3. MaskAgrees'
  BY DEF Inv, TypeOK, MaskAgrees, InUpdate, Sending, Polling
<1>4. SenderIsFresh'
  BY DEF Inv, TypeOK, LocksHeld, MaskAgrees, SenderIsFresh, IsStale, Sending, Polling
<1>5. StaleIsCovered'
  BY DEF VmaFlushes, Inv, TypeOK, LocksHeld, MaskAgrees, SenderIsFresh, StaleIsCovered, Covered,
         WillInterrupt, IsStale, InUpdate, Sending, Polling
<1> QED
  BY <1>1, <1>2, <1>3, <1>4, <1>5, Zenon DEF Inv

\* MprotectWrite: with an empty mask nobody else is concerned.
LEMMA MprotectWriteInv ==
    ASSUME NEW h \in Harts, Inv, MprotectWrite(h)
    PROVE  Inv'
<1> USE NoneIsNoHart DEF MprotectWrite, Republish, Goto, mailbox, sender
<1>1. TypeOK'
  <2>1. CASE active_harts[space[h]] = {}
    <3>1. pt' \in [Spaces -> Nat] /\ tlb' \in [Harts -> Nat] /\ space \in [Harts -> Spaces]
      BY <2>1 DEF Inv, TypeOK
    <3>2. active_harts' \in [Spaces -> SUBSET Harts]
      BY <2>1 DEF Inv, TypeOK
    <3>3. /\ pc' \in [Harts -> Labels]
          /\ \A g \in Harts : pc'[g] \in {"vma", "republish"} => Operations \cap {"vma", "fault"} # {}
      BY <2>1 DEF Inv, TypeOK, Labels
    <3> QED
      BY <3>1, <3>2, <3>3, Zenon DEF Inv, TypeOK
  <2>2. CASE active_harts[space[h]] # {}
    BY <2>2 DEF Inv, TypeOK, Labels
  <2> QED
    BY <2>1, <2>2, Zenon
<1>2. LocksHeld'
  BY DEF Inv, TypeOK, LocksHeld, Sending, Polling
<1>3. MaskAgrees'
  BY DEF Inv, TypeOK, MaskAgrees, InUpdate, Sending, Polling
<1>4. SenderIsFresh'
  BY DEF Inv, TypeOK, LocksHeld, MaskAgrees, SenderIsFresh, IsStale, Sending, Polling
<1>5. StaleIsCovered'
  BY DEF Inv, TypeOK, LocksHeld, MaskAgrees, SenderIsFresh, StaleIsCovered, Covered,
         WillInterrupt, IsStale, InUpdate, Sending, Polling
<1> QED
  BY <1>1, <1>2, <1>3, <1>4, <1>5, Zenon DEF Inv

\* LockUpdates: one sender at a time.
LEMMA LockUpdatesInv ==
    ASSUME NEW h \in Harts, Inv, LockUpdates(h)
    PROVE  Inv'
<1> USE NoneIsNoHart DEF LockUpdates, CallPoll, Goto, mailbox, sender
<1>1. TypeOK'
  BY DEF Inv, TypeOK, Labels, Sending, Polling
<1>2. LocksHeld'
  BY DEF Inv, TypeOK, LocksHeld, Sending, Polling
<1>3. MaskAgrees'
  BY DEF Inv, TypeOK, MaskAgrees, InUpdate, Sending, Polling
<1>4. SenderIsFresh'
  BY DEF Inv, TypeOK, LocksHeld, MaskAgrees, SenderIsFresh, IsStale, Sending, Polling
<1>5. StaleIsCovered'
  BY DEF Inv, TypeOK, LocksHeld, MaskAgrees, SenderIsFresh, StaleIsCovered, Covered,
         WillInterrupt, IsStale, InUpdate, Sending, Polling
<1> QED
  BY <1>1, <1>2, <1>3, <1>4, <1>5, Zenon DEF Inv

\* Write: every hart in the mask may be stale now; the shootdown follows.
LEMMA WriteInv ==
    ASSUME NEW h \in Harts, Inv, Write(h)
    PROVE  Inv'
<1> USE NoneIsNoHart DEF Write, Goto, mailbox, sender
<1>1. TypeOK'
  BY DEF Inv, TypeOK, Labels, Sending, Polling
<1>2. LocksHeld'
  BY DEF Inv, TypeOK, LocksHeld, Sending, Polling
<1>3. MaskAgrees'
  BY DEF Inv, TypeOK, MaskAgrees, InUpdate, Sending, Polling
<1>4. SenderIsFresh'
  BY DEF Inv, TypeOK, LocksHeld, MaskAgrees, SenderIsFresh, IsStale, Sending, Polling
<1>5. StaleIsCovered'
  BY DEF Inv, TypeOK, LocksHeld, MaskAgrees, SenderIsFresh, StaleIsCovered, Covered,
         WillInterrupt, IsStale, InUpdate, Sending, Polling
<1> QED
  BY <1>1, <1>2, <1>3, <1>4, <1>5, Zenon DEF Inv

\* Shootdown: every other hart of the mask becomes a target.
LEMMA ShootdownInv ==
    ASSUME NEW h \in Harts, Inv, Shootdown(h)
    PROVE  Inv'
<1> USE NoneIsNoHart DEF Shootdown, RemoteHarts, Goto, mailbox, sender
<1>1. TypeOK'
  BY Zenon DEF Inv, TypeOK, Labels, Sending, Polling
<1>2. LocksHeld'
  BY DEF Inv, TypeOK, LocksHeld, Sending, Polling
<1>3. MaskAgrees'
  BY DEF Inv, TypeOK, MaskAgrees, InUpdate, Sending, Polling
<1>4. SenderIsFresh'
  BY DEF Inv, TypeOK, LocksHeld, MaskAgrees, SenderIsFresh, IsStale, Sending, Polling
<1>5. StaleIsCovered'
  BY DEF Inv, TypeOK, LocksHeld, MaskAgrees, SenderIsFresh, StaleIsCovered, Covered,
         WillInterrupt, IsStale, InUpdate, Sending, Polling
<1> QED
  BY <1>1, <1>2, <1>3, <1>4, <1>5, Zenon DEF Inv

\* PrepareMailbox: a new sequence number covers nobody yet.
LEMMA PrepareMailboxInv ==
    ASSUME NEW h \in Harts, NEW t \in Harts, Inv, PrepareMailbox(h, t)
    PROVE  Inv'
<1> USE NoneIsNoHart DEF PrepareMailbox, Goto, mailbox, sender
<1>1. TypeOK'
  BY Zenon DEF Inv, TypeOK, Labels, Sending, Polling
<1>2. LocksHeld'
  BY DEF Inv, TypeOK, LocksHeld, Sending, Polling
<1>3. MaskAgrees'
  BY DEF Inv, TypeOK, MaskAgrees, InUpdate, Sending, Polling
<1>4. SenderIsFresh'
  BY DEF Inv, TypeOK, LocksHeld, MaskAgrees, SenderIsFresh, IsStale, Sending, Polling
<1>5. StaleIsCovered'
  BY DEF Inv, TypeOK, LocksHeld, MaskAgrees, SenderIsFresh, StaleIsCovered, Covered,
         WillInterrupt, IsStale, InUpdate, Sending, Polling
<1> QED
  BY <1>1, <1>2, <1>3, <1>4, <1>5, Zenon DEF Inv

\* SendIpi: a target with a pending request is interrupted.
LEMMA SendIpiInv ==
    ASSUME NEW h \in Harts, NEW t \in Harts, Inv, SendIpi(h, t)
    PROVE  Inv'
<1> USE NoneIsNoHart DEF SendIpi, NextTarget, Goto, mailbox, sender
<1>1. TypeOK'
  BY Zenon DEF Inv, TypeOK, Labels, Sending, Polling
<1>2. LocksHeld'
  BY DEF Inv, TypeOK, LocksHeld, Sending, Polling
<1>3. MaskAgrees'
  BY DEF Inv, TypeOK, MaskAgrees, InUpdate, Sending, Polling
<1>4. SenderIsFresh'
  BY DEF Inv, TypeOK, LocksHeld, MaskAgrees, SenderIsFresh, IsStale, Sending, Polling
<1>5. StaleIsCovered'
  BY DEF Inv, TypeOK, LocksHeld, MaskAgrees, SenderIsFresh, StaleIsCovered, Covered,
         WillInterrupt, IsStale, InUpdate, Sending, Polling
<1> QED
  BY <1>1, <1>2, <1>3, <1>4, <1>5, Zenon DEF Inv

\* WaitAck: however the wait ends, the request and the interrupt stay.
LEMMA WaitAckInv ==
    ASSUME NEW h \in Harts, NEW t \in Harts, Inv, WaitAck(h, t)
    PROVE  Inv'
<1> USE NoneIsNoHart DEF WaitAck, NextTarget, Goto, mailbox, sender
<1>1. TypeOK'
  BY Zenon DEF Inv, TypeOK, Labels, Sending, Polling
<1>2. LocksHeld'
  BY DEF Inv, TypeOK, LocksHeld, Sending, Polling
<1>3. MaskAgrees'
  BY Zenon DEF Inv, TypeOK, MaskAgrees, InUpdate, Sending, Polling
<1>4. SenderIsFresh'
  BY DEF Inv, TypeOK, LocksHeld, MaskAgrees, SenderIsFresh, IsStale, Sending, Polling
<1>5. StaleIsCovered'
  BY DEF Inv, TypeOK, LocksHeld, MaskAgrees, SenderIsFresh, StaleIsCovered, Covered,
         WillInterrupt, IsStale, InUpdate, Sending, Polling
<1> QED
  BY <1>1, <1>2, <1>3, <1>4, <1>5, Zenon DEF Inv

\* SetPending: the target has a request.
LEMMA SetPendingInv ==
    ASSUME NEW h \in Harts, Inv, SetPending(h)
    PROVE  Inv'
<1> USE NoneIsNoHart DEF SetPending, NextTarget, Goto, mailbox, sender
<1>1. TypeOK'
  BY Zenon DEF Inv, TypeOK, Labels, Sending, Polling
<1>2. LocksHeld'
  BY DEF Inv, TypeOK, LocksHeld, Sending, Polling
<1>3. MaskAgrees'
  BY DEF Inv, TypeOK, MaskAgrees, InUpdate, Sending, Polling
<1>4. SenderIsFresh'
  BY DEF Inv, TypeOK, LocksHeld, MaskAgrees, SenderIsFresh, IsStale, Sending, Polling
<1>5. StaleIsCovered'
  BY DEF Inv, TypeOK, LocksHeld, MaskAgrees, SenderIsFresh, StaleIsCovered, Covered,
         WillInterrupt, IsStale, InUpdate, Sending, Polling
<1> QED
  BY <1>1, <1>2, <1>3, <1>4, <1>5, Zenon DEF Inv

\* Finish: the sender is fresh when it re-enters the mask.
LEMMA FinishInv ==
    ASSUME NEW h \in Harts, Inv, Finish(h)
    PROVE  Inv'
<1> USE NoneIsNoHart DEF Finish, Unlock, Republish, Goto, mailbox, sender
<1>1. TypeOK'
  BY Zenon DEF Inv, TypeOK, Labels, Sending, Polling
<1>2. LocksHeld'
  BY DEF Inv, TypeOK, LocksHeld, Sending, Polling
<1>3. MaskAgrees'
  BY DEF Inv, TypeOK, MaskAgrees, InUpdate, Sending, Polling
<1>4. SenderIsFresh'
  BY DEF Inv, TypeOK, LocksHeld, MaskAgrees, SenderIsFresh, IsStale, Sending, Polling
<1>5. StaleIsCovered'
  BY DEF Inv, TypeOK, LocksHeld, MaskAgrees, SenderIsFresh, StaleIsCovered, Covered,
         WillInterrupt, IsStale, InUpdate, Sending, Polling
<1> QED
  BY <1>1, <1>2, <1>3, <1>4, <1>5, Zenon DEF Inv

\* FinishFault: the hart stays out of the mask.
LEMMA FinishFaultInv ==
    ASSUME NEW h \in Harts, Inv, FinishFault(h)
    PROVE  Inv'
<1> USE NoneIsNoHart DEF FinishFault, Unlock, Goto, mailbox, sender
<1>1. TypeOK'
  BY Zenon DEF Inv, TypeOK, Labels, Sending, Polling
<1>2. LocksHeld'
  BY DEF Inv, TypeOK, LocksHeld, Sending, Polling
<1>3. MaskAgrees'
  BY DEF Inv, TypeOK, MaskAgrees, InUpdate, Sending, Polling
<1>4. SenderIsFresh'
  BY DEF Inv, TypeOK, LocksHeld, MaskAgrees, SenderIsFresh, IsStale, Sending, Polling
<1>5. StaleIsCovered'
  BY DEF Inv, TypeOK, LocksHeld, MaskAgrees, SenderIsFresh, StaleIsCovered, Covered,
         WillInterrupt, IsStale, InUpdate, Sending, Polling
<1> QED
  BY <1>1, <1>2, <1>3, <1>4, <1>5, Zenon DEF Inv

\* FaultChangesNothing: so does one that maps nothing.
LEMMA FaultChangesNothingInv ==
    ASSUME NEW h \in Harts, Inv, FaultChangesNothing(h)
    PROVE  Inv'
<1> USE NoneIsNoHart DEF FaultChangesNothing, Goto, mailbox, sender
<1>1. TypeOK'
  <2>1. PICK l \in {"republish", "vma"} : pc' = [pc EXCEPT ![h] = l]
    BY Zenon
  <2>2. Operations \cap {"vma", "fault"} # {}
    BY Zenon
  <2>3. pc' \in [Harts -> Labels]
    BY <2>1, Zenon DEF Inv, TypeOK, Labels
  <2> QED
    BY <2>2, <2>3, Zenon DEF Inv, TypeOK
<1>2. LocksHeld'
  BY DEF Inv, TypeOK, LocksHeld, Sending, Polling
<1>3. MaskAgrees'
  BY DEF Inv, TypeOK, MaskAgrees, InUpdate, Sending, Polling
<1>4. SenderIsFresh'
  BY DEF Inv, TypeOK, LocksHeld, MaskAgrees, SenderIsFresh, IsStale, Sending, Polling
<1>5. StaleIsCovered'
  BY DEF Inv, TypeOK, LocksHeld, MaskAgrees, SenderIsFresh, StaleIsCovered, Covered,
         WillInterrupt, IsStale, InUpdate, Sending, Polling
<1> QED
  BY <1>1, <1>2, <1>3, <1>4, <1>5, Zenon DEF Inv

\* Fill: the walker caches the current entry.
LEMMA FillInv ==
    ASSUME NEW h \in Harts, Inv, Fill(h)
    PROVE  Inv'
<1> USE NoneIsNoHart DEF Fill, Goto, mailbox, sender
<1>1. TypeOK'
  BY Zenon DEF Inv, TypeOK, Labels, Sending, Polling
<1>2. LocksHeld'
  BY DEF Inv, TypeOK, LocksHeld, Sending, Polling
<1>3. MaskAgrees'
  BY Zenon DEF Inv, TypeOK, MaskAgrees, InUpdate, Sending, Polling
<1>4. SenderIsFresh'
  BY DEF Inv, TypeOK, LocksHeld, MaskAgrees, SenderIsFresh, IsStale, Sending, Polling
<1>5. StaleIsCovered'
  BY DEF Inv, TypeOK, LocksHeld, MaskAgrees, SenderIsFresh, StaleIsCovered, Covered,
         WillInterrupt, IsStale, InUpdate, Sending, Polling
<1> QED
  BY <1>1, <1>2, <1>3, <1>4, <1>5, Zenon DEF Inv

\* Every step preserves the invariant.
LEMMA NextInv == ASSUME VmaFlushes PROVE Inv /\ [Next]_vars => Inv'
<1> SUFFICES ASSUME Inv, [Next]_vars PROVE Inv'
  BY Zenon
<1>1. CASE UNCHANGED vars
  BY <1>1 DEF vars, mailbox, sender, Inv, TypeOK, LocksHeld, MaskAgrees, SenderIsFresh,
              StaleIsCovered, Covered, WillInterrupt, IsStale, InUpdate
<1>2. CASE Next
  <2>1. PICK h \in Harts : Choose(h) \/ Step(h) \/ Fill(h)
    BY <1>2, Zenon DEF Next
  <2>2. CASE Choose(h)
    BY <2>2, TrapInv, RetireInv, MprotectInv, VmaInv, ScheduleInv, Zenon DEF Choose
  <2>3. CASE Step(h)
    BY <2>3, IpiTrapInv, TrapReturnInv, ActivateForUserInv, PollInv, FlushInv,
       LoadSequenceInv, AcknowledgeInv, VmaWriteInv, MprotectWriteInv, LockUpdatesInv,
       WriteInv, ShootdownInv, PrepareMailboxInv, SendIpiInv, WaitAckInv, SetPendingInv,
       FinishInv, FinishFaultInv, FaultChangesNothingInv, RepublishAfterFaultInv, Zenon DEF Step
  <2>4. CASE Fill(h)
    BY <2>4, FillInv, Zenon
  <2> QED
    BY <2>1, <2>2, <2>3, <2>4, Zenon
<1> QED
  BY <1>1, <1>2, Zenon

\* The invariant of the shootdown protocol holds for every number of harts and
\* address spaces.
THEOREM TlbInvariance == ASSUME VmaFlushes PROVE Spec => []Inv
<1>1. Inv /\ [Next]_vars => Inv'
  BY NextInv, Zenon
<1> QED
  BY <1>1, InitInv, PTL DEF Spec

\* User code never runs on a translation that a completed munmap, mprotect or
\* copy-on-write update has replaced, although senders do not wait for harts that
\* have left the mask and although an acknowledgement may be early.
THEOREM NoStaleTranslation == ASSUME VmaFlushes PROVE Spec => []NoStaleUser
<1>1. Inv => NoStaleUser
  BY NoneIsNoHart, Zenon
     DEF Inv, TypeOK, LocksHeld, MaskAgrees, StaleIsCovered, Covered, NoStaleUser
<1> QED
  BY <1>1, TlbInvariance, PTL
=============================================================================
