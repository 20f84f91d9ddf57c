--------------------------- MODULE CfsQueueProofs ---------------------------
(***************************************************************************)
(* CfsQueue!Inv is inductive, for any tasks, weights, affinities and       *)
(* slices.                                                                 *)
(***************************************************************************)
EXTENDS CfsQueue, TLAPS

\* Division by a weight is monotone.
LEMMA DivMonotone ==
    ASSUME NEW a \in Nat, NEW b \in Nat, NEW w \in Nat \ {0}, a <= b
    PROVE  /\ a \div w \in Nat
           /\ a \div w <= b \div w
  OBVIOUS

\* A segment of at most MaxSlice ticks is charged at most Charge(t, MaxSlice).
LEMMA ChargeBound ==
    ASSUME NEW t \in Tasks, NEW delta \in 0 .. MaxSlice
    PROVE  /\ Charge(t, delta) \in Nat /\ Charge(t, MaxSlice) \in Nat
           /\ Charge(t, delta) <= Charge(t, MaxSlice)
<1>1. /\ delta * NICE_0_LOAD \in Nat /\ MaxSlice * NICE_0_LOAD \in Nat
      /\ delta * NICE_0_LOAD <= MaxSlice * NICE_0_LOAD
  BY CfsAssumption DEF NICE_0_LOAD
<1>2. Weight[t] \in Nat \ {0}
  BY CfsAssumption
<1> QED
  BY <1>1, <1>2, DivMonotone DEF Charge

\* advance_min_vruntime keeps the base a number below every item of the heap.
LEMMA AdvanceFloor ==
    ASSUME NEW Q \in SUBSET Tasks, NEW current \in Nat, Advance(Q, current),
           min_vruntime \in Nat, key \in [Tasks -> Nat],
           \A t \in Q : min_vruntime <= key[t]
    PROVE  min_vruntime' \in Nat /\ \A t \in Q : min_vruntime' <= key[t]
  BY DEF Advance, Larger

LEMMA InitInv == Init => Inv
  BY CfsAssumption DEF Init, Inv, TypeOK, BaseIsFloor, BoundedOvertaking

\* A pushed task is placed at the base or above, with nobody before it yet.
LEMMA AddTaskInv == ASSUME Inv, NEW t \in Tasks, AddTask(t) PROVE Inv'
<1> USE DEF Inv, TypeOK
<1>1. PlaceAt(t) \in Nat /\ min_vruntime <= PlaceAt(t) /\ vruntime[t] <= PlaceAt(t)
  BY DEF PlaceAt, Larger
<1>2. t \notin queued /\ \A h \in Harts : running[h] # t
  BY DEF AddTask, Idle
<1>3. TypeOK'
  BY <1>1 DEF AddTask
<1>4. BaseIsFloor'
  BY <1>1 DEF AddTask, BaseIsFloor
<1>5. BoundedOvertaking'
  <2> SUFFICES ASSUME NEW q \in queued', NEW u \in Tasks, u \in passed'[q]
               PROVE  vruntime'[u] <= key'[q] + Charge(u, MaxSlice)
    BY DEF BoundedOvertaking
  <2>1. q \in queued /\ q # t /\ u \in passed[q]
    BY <1>2 DEF AddTask
  <2>2. vruntime[u] <= key[q] + Charge(u, MaxSlice) /\ key'[q] = key[q]
    BY <2>1 DEF BoundedOvertaking, AddTask
  <2>3. CASE u = t
    <3>1. PlaceAt(t) <= key[q] + Charge(u, MaxSlice)
      <4>1. min_vruntime <= key[q] /\ key[q] \in Nat /\ Charge(u, MaxSlice) \in Nat
        BY <2>1, ChargeBound, CfsAssumption DEF BaseIsFloor
      <4> QED
        BY <2>2, <2>3, <4>1 DEF PlaceAt, Larger
    <3> QED
      BY <2>2, <2>3, <3>1 DEF AddTask
  <2>4. CASE u # t
    BY <2>2, <2>4 DEF AddTask
  <2> QED
    BY <2>3, <2>4
<1>6. \A q \in queued' : key'[q] = vruntime'[q] /\ \A h \in Harts : running'[h] # q
  BY <1>1, <1>2 DEF AddTask
<1>7. \A q \in queued', h \in Harts :
          running'[h] \in passed'[q] => vruntime'[running'[h]] <= key'[q]
  BY <1>2 DEF AddTask
<1> QED
  BY <1>3, <1>4, <1>5, <1>6, <1>7 DEF AddTask

\* A fetched task is not later than the tasks it leaves behind.
LEMMA FetchTaskInv ==
    ASSUME Inv, NEW h \in Harts, NEW t \in Tasks, FetchTask(h, t) PROVE Inv'
<1> USE DEF Inv, TypeOK
<1>1. /\ t \in queued /\ key[t] = vruntime[t]
      /\ \A u \in queued : key[t] <= key[u]
      /\ \A g \in Harts : running[g] # t
  BY DEF FetchTask, Leftmost, Before
<1>2. min_vruntime' \in Nat /\ \A u \in queued \ {t} : min_vruntime' <= key[u]
  BY AdvanceFloor, SMTT(30) DEF FetchTask, BaseIsFloor
<1>3. /\ queued' = queued \ {t} /\ vruntime' = vruntime
      /\ running' = [running EXCEPT ![h] = t]
      /\ \A u \in queued' : key'[u] = key[u] /\ passed'[u] = passed[u] \cup {t}
  BY DEF FetchTask
<1>4. TypeOK'
  BY <1>2, <1>3 DEF FetchTask
<1>5. BaseIsFloor'
  BY <1>2, <1>3 DEF BaseIsFloor
<1>6. BoundedOvertaking'
  <2> SUFFICES ASSUME NEW q \in queued', NEW u \in Tasks, u \in passed'[q]
               PROVE  vruntime'[u] <= key'[q] + Charge(u, MaxSlice)
    BY DEF BoundedOvertaking
  <2>1. CASE u \in passed[q]
    BY <1>3, <2>1 DEF BoundedOvertaking
  <2>2. CASE u = t
    <3>1. vruntime[t] <= key[q] /\ Charge(u, MaxSlice) \in Nat
      BY <1>1, <1>3, ChargeBound, CfsAssumption
    <3> QED
      BY <1>3, <2>2, <3>1
  <2> QED
    BY <1>3, <2>1, <2>2
<1>7. \A q \in queued' : key'[q] = vruntime'[q] /\ \A g \in Harts : running'[g] # q
  BY <1>3
<1>8. \A g, k \in Harts : running'[g] = running'[k] /\ running'[g] # NoTask => g = k
  BY <1>1, <1>3
<1>9. \A q \in queued', g \in Harts :
          running'[g] \in passed'[q] => vruntime'[running'[g]] <= key'[q]
  BY <1>1, <1>3
<1> QED
  BY <1>4, <1>5, <1>6, <1>7, <1>8, <1>9

\* The charged task was not later than those it passed, and is charged once.
LEMMA AccountCurrentInv ==
    ASSUME Inv, NEW h \in Harts, NEW delta \in 0 .. MaxSlice, AccountCurrent(h, delta)
    PROVE  Inv'
<1> USE DEF Inv, TypeOK
<1> DEFINE t == running[h]
           v == vruntime[t] + Charge(t, delta)
<1>1. t \in Tasks /\ v \in Nat
  BY ChargeBound DEF AccountCurrent, Charged
<1>2. min_vruntime' \in Nat /\ \A u \in queued : min_vruntime' <= key[u]
  <2>1. Advance(queued, v)
    BY DEF AccountCurrent, Charged
  <2> QED
    BY <1>1, <2>1, AdvanceFloor DEF BaseIsFloor
<1>3. /\ vruntime' = [vruntime EXCEPT ![t] = v]
      /\ running' = [running EXCEPT ![h] = NoTask]
      /\ UNCHANGED <<queued, key, passed>>
  BY DEF AccountCurrent, Charged
<1>4. TypeOK'
  BY <1>1, <1>2, <1>3
<1>5. BaseIsFloor'
  BY <1>2, <1>3 DEF BaseIsFloor
<1>6. BoundedOvertaking'
  <2> SUFFICES ASSUME NEW q \in queued, NEW u \in Tasks, u \in passed[q]
               PROVE  vruntime'[u] <= key[q] + Charge(u, MaxSlice)
    BY <1>3 DEF BoundedOvertaking
  <2>1. CASE u = t
    <3>1. vruntime[t] <= key[q] /\ Charge(t, delta) <= Charge(t, MaxSlice)
          /\ Charge(t, delta) \in Nat /\ Charge(t, MaxSlice) \in Nat
      BY <1>1, <2>1, ChargeBound
    <3>2. v <= key[q] + Charge(t, MaxSlice)
      BY <1>1, <3>1
    <3> QED
      BY <1>1, <1>3, <2>1, <3>2
  <2>2. CASE u # t
    BY <1>1, <1>3, <2>2 DEF BoundedOvertaking
  <2> QED
    BY <2>1, <2>2
<1>7. \A q \in queued : key[q] = vruntime'[q] /\ \A g \in Harts : running'[g] # q
  BY <1>1, <1>3, CfsAssumption
<1>8. \A g, k \in Harts : running'[g] = running'[k] /\ running'[g] # NoTask => g = k
  BY <1>3
<1>9. \A q \in queued, g \in Harts :
          running'[g] \in passed[q] => vruntime'[running'[g]] <= key[q]
  BY <1>1, <1>3, CfsAssumption
<1> QED
  BY <1>3, <1>4, <1>5, <1>6, <1>7, <1>8, <1>9

LEMMA NextInv == Inv /\ [Next]_vars => Inv'
<1> SUFFICES ASSUME Inv, [Next]_vars PROVE Inv'
  OBVIOUS
<1>1. CASE UNCHANGED vars
  BY <1>1 DEF vars, Inv, TypeOK, BaseIsFloor, BoundedOvertaking
<1> QED
  BY <1>1, AddTaskInv, FetchTaskInv, AccountCurrentInv DEF Next

\* The invariant holds in every reachable state of the CFS queue.
THEOREM CfsInvariance == Spec => []Inv
<1>1. Init => Inv
  BY InitInv
<1>2. Inv /\ [Next]_vars => Inv'
  BY NextInv
<1> QED
  BY <1>1, <1>2, PTL DEF Spec

\* min_vruntime is below every queued key, whatever runs, sleeps and wakes.
THEOREM BaseFloor == Spec => []BaseIsFloor
<1>1. Inv => BaseIsFloor
  BY DEF Inv
<1> QED
  BY <1>1, CfsInvariance, PTL

\* No task fetched while another waits gets more than one charged segment ahead
\* of it.
THEOREM Overtaking == Spec => []BoundedOvertaking
<1>1. Inv => BoundedOvertaking
  BY DEF Inv
<1> QED
  BY <1>1, CfsInvariance, PTL
=============================================================================
