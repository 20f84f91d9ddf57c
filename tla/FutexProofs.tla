---------------------------- MODULE FutexProofs ----------------------------
(***************************************************************************)
(* For any threads, words, masks and mixes of calls of Futex: a thread     *)
(* blocked in FUTEX_WAIT is in the queue its TCB names, a wait has one     *)
(* entry in all queues together, and a reported timeout happened.          *)
(*                                                                         *)
(* Queues that are scanned, rotated, split and joined are reasoned about   *)
(* as sets of entries with distinct generations; a generation belongs to   *)
(* one thread from the call that draws it until its last trace is gone.    *)
(***************************************************************************)
EXTENDS Futex, FiniteSetTheorems, TLAPS

\* A leaf that does not name its prover is for Zenon.
USE Zenon

-----------------------------------------------------------------------------
\* Positions.

Rank(H, i) == Cardinality({j \in H : j <= i})

LEMMA PositionsFinite ==
    ASSUME NEW m \in Nat, NEW H \in SUBSET (1 .. m)
    PROVE  IsFiniteSet(H) /\ Cardinality(H) \in Nat
<1>1. IsFiniteSet(1 .. m)
  BY FS_Interval, SMT
<1> QED
  BY <1>1, FS_Subset, FS_CardinalityType

\* The rank of a position is between 1 and the number of positions.
LEMMA RankRange ==
    ASSUME NEW m \in Nat, NEW H \in SUBSET (1 .. m), NEW i \in H
    PROVE  Rank(H, i) \in 1 .. Cardinality(H)
<1> DEFINE R == {j \in H : j <= i}
<1>1. IsFiniteSet(H) /\ Cardinality(H) \in Nat
  BY PositionsFinite
<1>2. R \in SUBSET H /\ i \in R
  BY SMT
<1>3. IsFiniteSet(R) /\ Cardinality(R) \in Nat /\ Cardinality(R) <= Cardinality(H)
  BY <1>1, <1>2, FS_Subset, FS_CardinalityType
<1>4. Cardinality(R) # 0
  BY <1>2, <1>3, FS_EmptySet
<1> QED
  BY <1>1, <1>3, <1>4, SMT DEF Rank

\* Different positions have different ranks.
LEMMA RankDistinct ==
    ASSUME NEW m \in Nat, NEW H \in SUBSET (1 .. m), NEW i \in H, NEW k \in H,
           Rank(H, i) = Rank(H, k)
    PROVE  i = k
<1>1. ASSUME NEW a \in H, NEW b \in H, a < b, Rank(H, a) = Rank(H, b) PROVE FALSE
  <2> DEFINE A == {j \in H : j <= a}
             B == {j \in H : j <= b}
  <2>0. \A j \in H : j \in Int
    BY SMT
  <2>1. A \in SUBSET B /\ b \in B /\ b \notin A /\ B \in SUBSET (1 .. m)
    <3>1. \A j \in H : j <= a => j <= b
      BY <1>1, <2>0, SMT
    <3>2. b <= b /\ ~(b <= a)
      BY <1>1, <2>0, SMT
    <3> QED
      BY <3>1, <3>2
  <2>2. IsFiniteSet(B)
    BY <2>1, PositionsFinite
  <2>3. A = B
    BY <1>1, <2>1, <2>2, FS_Subset DEF Rank
  <2> QED
    BY <2>1, <2>3
<1>2. i < k \/ k < i \/ i = k
  BY SMT
<1> QED
  BY <1>1, <1>2

\* Every rank up to the number of positions is taken.
LEMMA NthRank ==
    ASSUME NEW m \in Nat, NEW H \in SUBSET (1 .. m), NEW n \in 1 .. Cardinality(H)
    PROVE  Nth(H, n) \in H /\ Rank(H, Nth(H, n)) = n
<1> DEFINE N == Cardinality(H)
           r == [i \in H |-> Rank(H, i)]
<1>1. IsFiniteSet(H) /\ N \in Nat
  BY PositionsFinite
<1>2. r \in [H -> 1 .. N]
  BY RankRange
<1>3. \A i, k \in H : r[i] = r[k] => i = k
  BY RankDistinct
<1>4. r \in Injection(H, 1 .. N)
  BY <1>2, <1>3 DEF Injection, IsInjective
<1>5. IsFiniteSet(1 .. N) /\ Cardinality(1 .. N) = N
  BY <1>1, FS_Interval, SMT
<1> HIDE DEF r
<1>6. r \in Surjection(H, 1 .. N)
  BY <1>4, <1>5, FS_Injection
<1>7. \E i \in H : r[i] = n
  BY <1>6 DEF Surjection
<1>8. \E i \in H : Rank(H, i) = n
  BY <1>7 DEF r
<1> QED
  BY <1>8 DEF Nth, Rank

-----------------------------------------------------------------------------
\* Queues as sets of entries with distinct generations.

Elements(q) == {q[i] : i \in DOMAIN q}
Distinct(q) == \A i, j \in DOMAIN q : q[i].gen = q[j].gen => i = j

LEMMA ChosenEntries ==
    ASSUME NEW q \in Seq(Entry), NEW H \in SUBSET DOMAIN q
    PROVE  /\ Chosen(q, H) \in Seq(Entry)
           /\ Elements(Chosen(q, H)) = {q[i] : i \in H}
           /\ Distinct(q) => Distinct(Chosen(q, H))
<1> DEFINE N == Cardinality(H)
           c == Chosen(q, H)
<1>0. Len(q) \in Nat /\ DOMAIN q = 1 .. Len(q) /\ \A i \in DOMAIN q : q[i] \in Entry
  BY SMT
<1>1. H \in SUBSET (1 .. Len(q)) /\ N \in Nat
  BY <1>0, PositionsFinite
<1>2. \A n \in 1 .. N : Nth(H, n) \in H /\ Rank(H, Nth(H, n)) = n
  BY <1>0, <1>1, NthRank
<1>3. \A i \in H : Rank(H, i) \in 1 .. N /\ Nth(H, Rank(H, i)) = i
  <2> TAKE i \in H
  <2>1. Rank(H, i) \in 1 .. N
    BY <1>0, <1>1, RankRange
  <2>2. Nth(H, Rank(H, i)) \in H /\ Rank(H, Nth(H, Rank(H, i))) = Rank(H, i)
    BY <1>2, <2>1
  <2> QED
    BY <1>0, <1>1, <2>1, <2>2, RankDistinct
<1>4. c = [n \in 1 .. N |-> q[Nth(H, n)]]
  BY DEF Chosen
<1>5. \A n \in 1 .. N : c[n] = q[Nth(H, n)] /\ q[Nth(H, n)] \in Entry
  BY <1>0, <1>2, <1>4
<1>6. c \in Seq(Entry) /\ DOMAIN c = 1 .. N
  <2>1. c \in [1 .. N -> Entry]
    BY <1>4, <1>5
  <2> HIDE DEF c
  <2> QED
    BY <1>1, <2>1, SMT
<1>7. Elements(c) = {q[i] : i \in H}
  <2>1. ASSUME NEW x \in Elements(c) PROVE x \in {q[i] : i \in H}
    <3>1. PICK n \in 1 .. N : x = c[n]
      BY <1>6, <2>1 DEF Elements
    <3> QED
      BY <1>2, <1>5, <3>1
  <2>2. ASSUME NEW i \in H PROVE q[i] \in Elements(c)
    BY <1>3, <1>5, <1>6, <2>2 DEF Elements
  <2> QED
    BY <2>1, <2>2
<1>8. ASSUME Distinct(q) PROVE Distinct(c)
  <2> SUFFICES ASSUME NEW a \in 1 .. N, NEW b \in 1 .. N, c[a].gen = c[b].gen PROVE a = b
    BY <1>6 DEF Distinct
  <2>1. Nth(H, a) = Nth(H, b)
    <3>1. /\ Nth(H, a) \in DOMAIN q /\ Nth(H, b) \in DOMAIN q
          /\ q[Nth(H, a)].gen = q[Nth(H, b)].gen
      BY <1>2, <1>5
    <3> QED
      BY <1>8, <3>1 DEF Distinct
  <2> QED
    BY <1>2, <2>1
<1> QED
  BY <1>6, <1>7, <1>8

LEMMA SuffixEntries ==
    ASSUME NEW q \in Seq(Entry), NEW m \in 0 .. Len(q)
    PROVE  LET s == SubSeq(q, m + 1, Len(q))
           IN /\ s \in Seq(Entry)
              /\ Elements(s) = {q[i] : i \in {j \in DOMAIN q : j > m}}
              /\ Distinct(q) => Distinct(s)
<1> DEFINE s == SubSeq(q, m + 1, Len(q))
           N == Len(q) - m
<1>1. /\ Len(q) \in Nat /\ DOMAIN q = 1 .. Len(q) /\ N \in Nat /\ s \in Seq(Entry)
      /\ Len(s) = N /\ DOMAIN s = 1 .. N
  BY SMT
<1>2. \A i \in 1 .. N : s[i] = q[i + m] /\ i + m \in DOMAIN q /\ i + m > m
  BY SMT
<1>3. \A j \in DOMAIN q : j > m => j - m \in 1 .. N /\ (j - m) + m = j
  BY SMT
<1> HIDE DEF s, N
<1>4. Elements(s) = {q[i] : i \in {j \in DOMAIN q : j > m}}
  <2>1. ASSUME NEW x \in Elements(s) PROVE x \in {q[i] : i \in {j \in DOMAIN q : j > m}}
    <3>1. PICK n \in 1 .. N : x = s[n]
      BY <1>1, <2>1 DEF Elements
    <3> QED
      BY <1>2, <3>1
  <2>2. ASSUME NEW i \in DOMAIN q, i > m PROVE q[i] \in Elements(s)
    <3>1. i - m \in DOMAIN s /\ s[i - m] = q[i]
      BY <1>1, <1>2, <1>3, <2>2
    <3> QED
      BY <3>1 DEF Elements
  <2> QED
    BY <2>1, <2>2
<1>5. ASSUME Distinct(q) PROVE Distinct(s)
  <2> SUFFICES ASSUME NEW a \in 1 .. N, NEW b \in 1 .. N, s[a].gen = s[b].gen PROVE a = b
    BY <1>1 DEF Distinct
  <2>1. /\ a + m \in DOMAIN q /\ b + m \in DOMAIN q
        /\ q[a + m].gen = q[b + m].gen
    BY <1>2
  <2>2. a + m = b + m
    BY <1>5, <2>1 DEF Distinct
  <2> QED
    BY <1>1, <2>2, SMT
<1> QED
  BY <1>1, <1>4, <1>5 DEF s

LEMMA JoinedEntries ==
    ASSUME NEW p \in Seq(Entry), NEW q \in Seq(Entry)
    PROVE  /\ p \o q \in Seq(Entry)
           /\ Elements(p \o q) = Elements(p) \cup Elements(q)
           /\ (/\ Distinct(p) /\ Distinct(q)
               /\ \A e \in Elements(p), f \in Elements(q) : e.gen # f.gen) => Distinct(p \o q)
<1> DEFINE s == p \o q
           M == Len(p)
           N == Len(q)
<1>1. /\ M \in Nat /\ N \in Nat /\ DOMAIN p = 1 .. M /\ DOMAIN q = 1 .. N
      /\ s \in Seq(Entry) /\ DOMAIN s = 1 .. M + N
  BY SMT
<1>2. \A i \in 1 .. M : i \in 1 .. M + N /\ s[i] = p[i]
  BY SMT
<1>3. \A i \in 1 .. N : M + i \in 1 .. M + N /\ s[M + i] = q[i]
  BY SMT
<1>4. \A i \in 1 .. M + N : i \in 1 .. M \/ (i - M \in 1 .. N /\ i = M + (i - M))
  BY SMT
<1> HIDE DEF s, M, N
<1>5. Elements(s) = Elements(p) \cup Elements(q)
  <2>1. ASSUME NEW x \in Elements(s) PROVE x \in Elements(p) \cup Elements(q)
    <3>1. PICK i \in 1 .. M + N : x = s[i]
      BY <1>1, <2>1 DEF Elements
    <3> QED
      BY <1>1, <1>2, <1>3, <1>4, <3>1, ZenonT(30) DEF Elements
  <2>2. Elements(p) \subseteq Elements(s) /\ Elements(q) \subseteq Elements(s)
    BY <1>1, <1>2, <1>3 DEF Elements
  <2> QED
    BY <2>1, <2>2
<1>6. ASSUME Distinct(p), Distinct(q),
             \A e \in Elements(p), f \in Elements(q) : e.gen # f.gen
      PROVE  Distinct(s)
  <2> SUFFICES ASSUME NEW a \in 1 .. M + N, NEW b \in 1 .. M + N, s[a].gen = s[b].gen
               PROVE  a = b
    BY <1>1 DEF Distinct
  <2>1. CASE a \in 1 .. M /\ b \in 1 .. M
    BY <1>1, <1>2, <1>6, <2>1 DEF Distinct
  <2>2. CASE a - M \in 1 .. N /\ b - M \in 1 .. N /\ a = M + (a - M) /\ b = M + (b - M)
    <3>0. s[a] = q[a - M] /\ s[b] = q[b - M]
      BY <1>3, <2>2
    <3>1. a - M = b - M
      BY <1>1, <1>6, <2>2, <3>0 DEF Distinct
    <3> QED
      BY <2>2, <3>1
  <2>3. \A i \in 1 .. M, j \in 1 .. N : s[i].gen # s[M + j].gen
    BY <1>1, <1>2, <1>3, <1>6 DEF Elements
  <2> QED
    BY <1>4, <2>1, <2>2, <2>3, ZenonT(30)
<1> QED
  BY <1>1, <1>5, <1>6 DEF s

LEMMA AppendedEntry ==
    ASSUME NEW q \in Seq(Entry), NEW e \in Entry
    PROVE  /\ Append(q, e) \in Seq(Entry) /\ Append(q, e) # <<>>
           /\ Elements(Append(q, e)) = Elements(q) \cup {e}
           /\ (Distinct(q) /\ \A f \in Elements(q) : f.gen # e.gen) => Distinct(Append(q, e))
<1> DEFINE s == Append(q, e)
           N == Len(q)
<1>1. /\ N \in Nat /\ DOMAIN q = 1 .. N /\ s \in Seq(Entry) /\ DOMAIN s = 1 .. N + 1
      /\ s # <<>> /\ N + 1 \in 1 .. N + 1 /\ s[N + 1] = e
  BY SMT
<1>2. \A i \in 1 .. N : i \in 1 .. N + 1 /\ s[i] = q[i]
  BY SMT
<1>3. \A i \in 1 .. N + 1 : i \in 1 .. N \/ i = N + 1
  BY SMT
<1> HIDE DEF s, N
<1>4. Elements(s) = Elements(q) \cup {e}
  <2>1. ASSUME NEW x \in Elements(s) PROVE x \in Elements(q) \cup {e}
    <3>1. PICK i \in 1 .. N + 1 : x = s[i]
      BY <1>1, <2>1 DEF Elements
    <3> QED
      BY <1>1, <1>2, <1>3, <3>1 DEF Elements
  <2>2. Elements(q) \subseteq Elements(s) /\ e \in Elements(s)
    BY <1>1, <1>2 DEF Elements
  <2> QED
    BY <2>1, <2>2
<1>5. ASSUME Distinct(q), \A f \in Elements(q) : f.gen # e.gen PROVE Distinct(s)
  <2> SUFFICES ASSUME NEW a \in 1 .. N + 1, NEW b \in 1 .. N + 1, s[a].gen = s[b].gen
               PROVE  a = b
    BY <1>1 DEF Distinct
  <2>1. \A i \in 1 .. N : s[i].gen # e.gen
    BY <1>1, <1>2, <1>5 DEF Elements
  <2> QED
    BY <1>1, <1>2, <1>3, <1>5, <2>1 DEF Distinct
<1> QED
  BY <1>1, <1>4, <1>5 DEF s

-----------------------------------------------------------------------------
\* The invariant.

Registering == {"read", "version", "lock"}
Waiting == {"timer", "asleep"}
TaskLabels == Registering \cup Waiting \cup {"user", "elsewhere", "bump", "wake", "requeue", "clean"}

\* The arguments and locals of the calls.
WaitCall == [op : {"wait"}, key : Keys, expected : Values, bits : Bitsets, timed : BOOLEAN,
             gen : Gens]
WakeCall == [op : {"wake"}, key : Keys, n : Nat \ {0}, bits : Bitsets]
RequeueCall == [op : {"requeue"}, key : Keys, n : Nat, key2 : Keys, n2 : Nat]
CleanCall == [op : {"clean"}, key : Keys, gen : Gens]
ExpireCall == [op : {"expire"}, task : Tasks, gen : Gens]

\* A call in progress has the arguments of its kind.
CallOf(t) ==
    /\ pc[t] \in TaskLabels
    /\ pc[t] \in Registering \cup Waiting => call[t] \in WaitCall
    /\ pc[t] = "bump" => call[t] \in WakeCall \cup RequeueCall \cup CleanCall
    /\ pc[t] = "wake" => call[t] \in WakeCall
    /\ pc[t] = "requeue" => call[t] \in RequeueCall
    /\ pc[t] = "clean" => call[t] \in CleanCall
Called ==
    /\ DOMAIN pc = Procs /\ DOMAIN call = Procs
    /\ \A t \in Tasks : CallOf(t)
    /\ pc[Timer] \in {"user", "bump", "expire"}
    /\ pc[Timer] # "user" => call[Timer] \in ExpireCall

\* The generation that a thread's wait has drawn, or that it is about to take out.
Draws(t, g) ==
    /\ \/ pc[t] \in Registering \cup Waiting \cup {"clean"}
       \/ pc[t] = "bump" /\ call[t].op = "clean"
    /\ call[t].gen = g

\* A thread has a generation in its call, in its TCB or in a queue.
Has(t, g) ==
    \/ Draws(t, g)
    \/ futex_key[t] = g
    \/ \E k \in Keys : \E e \in Elements(queue[k]) : e.task = t /\ e.gen = g

\* A generation has been drawn, and belongs to one thread.
Owned ==
    /\ next_key \in Nat \ {0}
    /\ \A g \in Gens : \A t \in Tasks : Has(t, g) =>
          g < next_key /\ \A u \in Tasks : Has(u, g) => t = u

\* One entry per generation.
Single ==
    /\ \A k \in Keys : Distinct(queue[k])
    /\ \A k, l \in Keys : \A e \in Elements(queue[k]), f \in Elements(queue[l]) :
          e.gen = f.gen => k = l

\* Nobody has completed a generation that is in a queue or on its way there.
Open ==
    /\ \A k \in Keys : \A e \in Elements(queue[k]) : outcome[e.gen] = "open"
    /\ \A g \in Gens : g >= next_key => outcome[g] = "open"
    /\ \A t \in Tasks : pc[t] \in Registering =>
          /\ outcome[call[t].gen] = "open"
          /\ \A k \in Keys : \A e \in Elements(queue[k]) : e.gen # call[t].gen

\* A thread blocked in its wait records the generation it has drawn, and is queued
\* where its TCB says.
QueuedAt(t) ==
    pc[t] \in Waiting /\ status[t] = "Blocked" =>
        /\ futex_key[t] = call[t].gen
        /\ \E e \in Elements(queue[futex_pa[t]]) : e.task = t /\ e.gen = call[t].gen
Queued ==
    /\ \A t \in Tasks : futex_key[t] # 0 => futex_pa[t] \in Keys
    /\ \A t \in Tasks : QueuedAt(t)

\* The flag of a waiting thread, and a reported timeout, are those of its wait.
Reported ==
    \A t \in Tasks : result[t].code = "ETIMEDOUT" =>
        result[t].gen \in Gens /\ outcome[result[t].gen] = "timeout"
Timely ==
    /\ \A t \in Tasks : pc[t] \in Waiting /\ futex_timedout[t] => outcome[call[t].gen] = "timeout"
    /\ Reported

Inv == TypeOK /\ Called /\ Owned /\ Single /\ Open /\ Queued /\ Timely

LEMMA InitInv == Init => Inv
<1> SUFFICES ASSUME Init PROVE Inv
  OBVIOUS
<1> USE FutexAssumption
<1>1. /\ \A t \in Tasks : pc[t] = "user" /\ futex_key[t] = 0
      /\ \A k \in Keys : queue[k] = <<>>
  BY DEF Init, Procs
<1>2. \A k \in Keys : Elements(queue[k]) = {}
  BY <1>1, SMT DEF Elements
<1>3. TypeOK
  <2>1. queue \in [Keys -> Seq(Entry)]
    BY SMT DEF Init
  <2>2. /\ futex_key \in [Tasks -> 0 .. MaxWaits]
        /\ result \in [Tasks -> [code : Codes, gen : 0 .. MaxWaits]]
    BY SMT DEF Init, Codes
  <2> QED
    BY <1>1, <2>1, <2>2 DEF Init, TypeOK
<1>4. Called
  BY <1>1 DEF Init, Called, CallOf, Procs, TaskLabels, Registering, Waiting
<1>5. Owned
  <2>1. \A g \in Gens : g # 0
    BY SMT DEF Gens
  <2>2. \A g \in Gens : \A t \in Tasks : ~Has(t, g)
    BY <1>1, <1>2, <2>1 DEF Has, Draws, Registering, Waiting
  <2>3. next_key \in Nat \ {0}
    BY SMT DEF Init
  <2> QED
    BY <2>2, <2>3 DEF Owned
<1>6. Single
  <2>1. \A k \in Keys : DOMAIN queue[k] = {}
    BY <1>1, SMT
  <2> QED
    BY <1>2, <2>1 DEF Single, Distinct
<1>7. Open
  BY <1>1, <1>2 DEF Init, Open, Registering
<1>8. Queued /\ Timely
  BY <1>1 DEF Init, Queued, QueuedAt, Timely, Reported, Waiting
<1> QED
  BY <1>3, <1>4, <1>5, <1>6, <1>7, <1>8 DEF Inv

-----------------------------------------------------------------------------
\* Steps.

\* Only p moves.
Moves(p) ==
    /\ DOMAIN pc' = Procs /\ DOMAIN call' = Procs
    /\ \A u \in Procs : u # p => pc'[u] = pc[u] /\ call'[u] = call[u]

LEMMA TaskMoves ==
    ASSUME Called, NEW t \in Tasks, Moves(t), CallOf(t)'
    PROVE  Called'
<1>1. \A u \in Tasks : u # t => CallOf(u)'
  BY DEF Called, CallOf, Moves, Procs
<1>2. Timer \in Procs /\ Timer # t
  BY FutexAssumption DEF Procs
<1> QED
  BY <1>1, <1>2 DEF Called, Moves

LEMMA TimerMoves ==
    ASSUME Called, Moves(Timer), pc'[Timer] \in {"user", "bump", "expire"},
           pc'[Timer] # "user" => call'[Timer] \in ExpireCall
    PROVE  Called'
<1>1. \A u \in Tasks : u \in Procs /\ u # Timer
  BY FutexAssumption DEF Procs
<1>2. \A u \in Tasks : CallOf(u)'
  BY <1>1 DEF Called, CallOf, Moves
<1> QED
  BY <1>2 DEF Called, Moves

\* The effect of Goto and of a new call.
LEMMA GotoMoves ==
    ASSUME Called, NEW p \in Procs, NEW l, Goto(p, l), call' = call
    PROVE  Moves(p) /\ pc'[p] = l /\ call'[p] = call[p]
BY DEF Called, Goto, Moves

LEMMA CallMoves ==
    ASSUME Called, NEW p \in Procs, NEW l, NEW c, Goto(p, l), call' = [call EXCEPT ![p] = c]
    PROVE  Moves(p) /\ pc'[p] = l /\ call'[p] = c
BY DEF Called, Goto, Moves

LEMMA OwnedKept ==
    ASSUME Owned, UNCHANGED next_key,
           \A u \in Tasks : \A g \in Gens : Has(u, g)' => Has(u, g)
    PROVE  Owned'
BY DEF Owned

\* What a queue holds.
LEMMA QueueEntries ==
    ASSUME TypeOK, NEW k \in Keys
    PROVE  /\ queue[k] \in Seq(Entry)
           /\ \A e \in Elements(queue[k]) :
                 e \in Entry /\ e.task \in Tasks /\ e.bits \in Bitsets /\ e.gen \in Gens
<1>1. queue[k] \in Seq(Entry)
  BY DEF TypeOK
<1>2. \A i \in DOMAIN queue[k] : queue[k][i] \in Entry
  BY <1>1, SMT
<1> QED
  BY <1>1, <1>2 DEF Elements, Entry

\* Steps that leave queues, generations and completions alone.
LEMMA Quiet ==
    ASSUME Inv, UNCHANGED <<queue, futex_key, futex_pa, outcome, next_key>>, Reported',
           \A u \in Tasks : pc'[u] \in Registering =>
               pc[u] \in Registering /\ call'[u].gen = call[u].gen,
           \A u \in Tasks : pc'[u] \in Waiting =>
               /\ pc[u] \in Waiting /\ call'[u].gen = call[u].gen
               /\ status'[u] = "Blocked" => status[u] = "Blocked"
               /\ futex_timedout'[u] => futex_timedout[u],
           \A u \in Tasks : \A g \in Gens : Draws(u, g)' => Has(u, g)
    PROVE  Owned' /\ Single' /\ Open' /\ Queued' /\ Timely'
<1>0. /\ queue' = queue /\ futex_key' = futex_key /\ futex_pa' = futex_pa
      /\ outcome' = outcome /\ next_key' = next_key
  OBVIOUS
<1>1. Owned'
  <2>1. ASSUME NEW u \in Tasks, NEW g \in Gens, Has(u, g)' PROVE Has(u, g)
    <3>1. CASE Draws(u, g)'
      BY <3>1
    <3>2. CASE ~Draws(u, g)'
      BY <1>0, <2>1, <3>2 DEF Has
    <3> QED
      BY <3>1, <3>2
  <2> QED
    BY <1>0, <2>1, OwnedKept DEF Inv
<1>2. Single'
  BY <1>0 DEF Inv, Single
<1>3. Open'
  <2>1. ASSUME NEW u \in Tasks, pc'[u] \in Registering
        PROVE  /\ outcome[call'[u].gen] = "open"
               /\ \A k \in Keys : \A e \in Elements(queue[k]) : e.gen # call'[u].gen
    <3>1. pc[u] \in Registering /\ call'[u].gen = call[u].gen
      BY <2>1
    <3>2. /\ outcome[call[u].gen] = "open"
          /\ \A k \in Keys : \A e \in Elements(queue[k]) : e.gen # call[u].gen
      BY <3>1 DEF Inv, Open
    <3> QED
      BY <3>1, <3>2
  <2>2. /\ \A k \in Keys : \A e \in Elements(queue[k]) : outcome[e.gen] = "open"
        /\ \A g \in Gens : g >= next_key => outcome[g] = "open"
    BY DEF Inv, Open
  <2>3. /\ \A k \in Keys : \A e \in Elements(queue'[k]) : outcome'[e.gen] = "open"
        /\ \A g \in Gens : g >= next_key' => outcome'[g] = "open"
    BY <1>0, <2>2
  <2>4. \A u \in Tasks : pc'[u] \in Registering =>
          /\ outcome'[call'[u].gen] = "open"
          /\ \A k \in Keys : \A e \in Elements(queue'[k]) : e.gen # call'[u].gen
    BY <1>0, <2>1, ZenonT(30)
  <2> QED
    BY <2>3, <2>4 DEF Open
<1>4. Queued'
  <2>1. ASSUME NEW u \in Tasks PROVE QueuedAt(u)'
    <3>1. QueuedAt(u)
      BY DEF Inv, Queued
    <3> QED
      BY <1>0, <3>1 DEF QueuedAt
  <2> QED
    BY <1>0, <2>1 DEF Inv, Queued
<1>5. Timely'
  BY <1>0 DEF Inv, Timely
<1> QED
  BY <1>1, <1>2, <1>3, <1>4, <1>5

\* Two entries of one generation are one.
LEMMA SameEntry ==
    ASSUME Single, NEW k \in Keys, NEW e \in Elements(queue[k]),
           NEW l \in Keys, NEW f \in Elements(queue[l]), e.gen = f.gen
    PROVE  k = l /\ e = f
<1>1. k = l
  BY DEF Single
<1>2. PICK i \in DOMAIN queue[k] : e = queue[k][i]
  BY DEF Elements
<1>3. PICK j \in DOMAIN queue[k] : f = queue[k][j]
  BY <1>1 DEF Elements
<1> QED
  BY <1>1, <1>2, <1>3 DEF Single, Distinct

LEMMA Apart ==
    ASSUME Single, NEW E, \A f \in E : \E k \in Keys : f \in Elements(queue[k]),
           NEW l \in Keys, NEW e \in Elements(queue[l]), e \notin E
    PROVE  \A f \in E : f.gen # e.gen
<1> SUFFICES ASSUME NEW f \in E, f.gen = e.gen PROVE FALSE
  OBVIOUS
<1>1. PICK k \in Keys : f \in Elements(queue[k])
  OBVIOUS
<1>2. f = e
  BY <1>1, SameEntry
<1> QED
  BY <1>2

\* The entry of a blocked thread is Live and has its generation.
Waits(t, k, e) ==
    /\ pc[t] \in Waiting /\ status[t] = "Blocked"
    /\ k = futex_pa[t] /\ k \in Keys /\ e \in Elements(queue[k])
    /\ e.task = t /\ e.gen = call[t].gen /\ futex_key[t] = call[t].gen

LEMMA BlockedWaits ==
    ASSUME Inv, NEW t \in Tasks, pc[t] \in Waiting, status[t] = "Blocked"
    PROVE  \E k, e : Waits(t, k, e)
<1>1. call[t] \in WaitCall
  BY DEF Inv, Called, CallOf
<1>2. call[t].gen # 0
  <2>1. call[t].gen \in Gens
    BY <1>1 DEF WaitCall
  <2> QED
    BY <2>1, SMT DEF Gens
<1>3. QueuedAt(t) /\ (futex_key[t] # 0 => futex_pa[t] \in Keys)
  BY DEF Inv, Queued
<1> QED
  BY <1>2, <1>3 DEF QueuedAt, Waits

\* A process that completes the entries E and returns.
LEMMA Completes ==
    ASSUME Inv, NEW p \in Procs, Moves(p), pc'[p] = "user", UNCHANGED <<next_key, result>>,
           NEW E, NEW pa, NEW by \in {"woken", "timeout"}, Complete(E, pa, by),
           \A e \in E : Live(e) /\ \E k \in Keys : e \in Elements(queue[k]),
           \A u \in Tasks : futex_key[u] # 0 => pa[u] \in Keys,
           \A k \in Keys : \A e \in Elements(queue'[k]) :
               e \notin E /\ \E l \in Keys : e \in Elements(queue[l]),
           \A u \in Tasks : \A k, e : Waits(u, k, e) /\ e \notin E => e \in Elements(queue'[pa[u]]),
           \A u \in Tasks : pc[u] \in Waiting /\ futex_timedout'[u] =>
               futex_timedout[u] \/ outcome'[call[u].gen] = "timeout"
    PROVE  Owned' /\ Open' /\ Queued' /\ Timely'
<1>0. \A u \in Tasks : u \in Procs
  BY DEF Procs
<1>1. \A u \in Tasks : pc'[u] # "user" => u # p /\ pc'[u] = pc[u] /\ call'[u] = call[u]
  BY <1>0 DEF Moves
<1>2. \A u \in Tasks : status'[u] = "Blocked" =>
          /\ status[u] = "Blocked" /\ futex_key'[u] = futex_key[u]
          /\ futex_pa'[u] = pa[u] /\ \A e \in E : e.task # u
  BY DEF Complete
<1>2a. \A u \in Tasks : futex_key'[u] # 0 => futex_key'[u] = futex_key[u] /\ futex_pa'[u] = pa[u]
  BY DEF Complete
<1>3. \A g \in Gens : outcome'[g] = outcome[g] \/ \E e \in E : e.gen = g /\ outcome'[g] = by
  BY DEF Complete
<1>4. ASSUME NEW e \in E
      PROVE  e.gen \in Gens /\ e.task \in Tasks /\ outcome[e.gen] = "open" /\ Has(e.task, e.gen)
  <2>1. PICK k \in Keys : e \in Elements(queue[k])
    BY <1>4
  <2>2. e.gen \in Gens /\ e.task \in Tasks
    BY <2>1, QueueEntries DEF Inv
  <2> QED
    BY <2>1, <2>2 DEF Inv, Open, Has
<1>5. \A g \in Gens : outcome[g] = "timeout" => outcome'[g] = "timeout"
  BY <1>3, <1>4
<1>6. Owned'
  <2>1. ASSUME NEW u \in Tasks, NEW g \in Gens, Has(u, g)' PROVE Has(u, g)
    <3>1. CASE Draws(u, g)'
      BY <1>1, <3>1 DEF Draws, Has, Registering, Waiting
    <3>2. CASE futex_key'[u] = g
      <4>1. g # 0
        BY SMT DEF Gens
      <4> QED
        BY <1>2a, <3>2, <4>1 DEF Has
    <3>3. CASE \E k \in Keys : \E e \in Elements(queue'[k]) : e.task = u /\ e.gen = g
      BY <3>3 DEF Has
    <3> QED
      BY <2>1, <3>1, <3>2, <3>3 DEF Has
  <2> QED
    BY <2>1, OwnedKept DEF Inv
<1>7. Open'
  <2>1. ASSUME NEW k \in Keys, NEW e \in Elements(queue'[k]) PROVE outcome'[e.gen] = "open"
    <3>1. PICK l \in Keys : e \in Elements(queue[l]) /\ e \notin E
      BY <2>1
    <3>2. e.gen \in Gens /\ outcome[e.gen] = "open"
      BY <3>1, QueueEntries DEF Inv, Open
    <3>3. \A f \in E : f.gen # e.gen
      BY <3>1, Apart DEF Inv
    <3> QED
      BY <1>3, <3>2, <3>3
  <2>2. ASSUME NEW g \in Gens, g >= next_key' PROVE outcome'[g] = "open"
    <3>1. ASSUME NEW f \in E, f.gen = g PROVE FALSE
      <4>1. g < next_key /\ next_key \in Nat /\ g \in Nat
        BY <1>4, <3>1, SMT DEF Inv, Owned, Gens
      <4> QED
        BY <2>2, <4>1, SMT
    <3> QED
      BY <1>3, <2>2, <3>1 DEF Inv, Open
  <2>3. ASSUME NEW u \in Tasks, pc'[u] \in Registering
        PROVE  /\ outcome'[call'[u].gen] = "open"
               /\ \A k \in Keys : \A e \in Elements(queue'[k]) : e.gen # call'[u].gen
    <3>1. pc[u] \in Registering /\ call'[u] = call[u]
      BY <1>1, <2>3 DEF Registering
    <3>2. \A k \in Keys : \A e \in Elements(queue[k]) : e.gen # call[u].gen
      BY <3>1 DEF Inv, Open
    <3>3. call[u].gen \in Gens /\ outcome[call[u].gen] = "open"
      BY <3>1 DEF Inv, Open, Called, CallOf, WaitCall
    <3>4. \A e \in E : e.gen # call[u].gen
      BY <3>2
    <3>5. outcome'[call[u].gen] = "open"
      BY <1>3, <3>3, <3>4
    <3>6. \A k \in Keys : \A e \in Elements(queue'[k]) : e.gen # call[u].gen
      BY <3>2
    <3> QED
      BY <3>1, <3>5, <3>6
  <2> QED
    BY <2>1, <2>2, <2>3 DEF Open
<1>8. Queued'
  <2>1. ASSUME NEW u \in Tasks PROVE QueuedAt(u)'
    <3> SUFFICES ASSUME pc'[u] \in Waiting, status'[u] = "Blocked"
                 PROVE  /\ futex_key'[u] = call'[u].gen
                        /\ \E e \in Elements(queue'[futex_pa'[u]]) : e.task = u /\ e.gen = call'[u].gen
      BY DEF QueuedAt
    <3>1. pc[u] \in Waiting /\ call'[u] = call[u] /\ status[u] = "Blocked"
      BY <1>1, <1>2 DEF Waiting
    <3>2. PICK k, e : Waits(u, k, e)
      BY <3>1, BlockedWaits
    <3>3. futex_key'[u] = futex_key[u] /\ futex_pa'[u] = pa[u]
      BY <1>2
    <3>4. e \notin E
      BY <1>2, <3>2 DEF Waits
    <3>5. e \in Elements(queue'[pa[u]])
      BY <3>2, <3>4
    <3> QED
      BY <3>1, <3>2, <3>3, <3>5 DEF Waits
  <2>2. ASSUME NEW u \in Tasks, futex_key'[u] # 0 PROVE futex_pa'[u] \in Keys
    <3>1. futex_key[u] # 0 /\ futex_pa'[u] = pa[u]
      BY <1>2a, <2>2
    <3> QED
      BY <3>1
  <2> QED
    BY <2>1, <2>2 DEF Queued
<1>9. Timely'
  <2>1. ASSUME NEW u \in Tasks, pc'[u] \in Waiting, futex_timedout'[u]
        PROVE  outcome'[call'[u].gen] = "timeout"
    <3>1. pc[u] \in Waiting /\ call'[u] = call[u]
      BY <1>1, <2>1 DEF Waiting
    <3>2. call[u].gen \in Gens
      BY <3>1 DEF Inv, Called, CallOf, WaitCall
    <3> QED
      BY <1>5, <2>1, <3>1, <3>2 DEF Inv, Timely
  <2>2. Reported'
    BY <1>5 DEF Inv, Timely, Reported
  <2> QED
    BY <2>1, <2>2 DEF Timely
<1> QED
  BY <1>6, <1>7, <1>8, <1>9

-----------------------------------------------------------------------------
\* Steps of a process that change no queue and complete nothing.

Local ==
    /\ word \in [Keys -> Values]
    /\ status \in [Tasks -> {"Running", "Blocked", "Ready"}]
    /\ futex_timedout \in [Tasks -> BOOLEAN]
    /\ timers \subseteq Tasks \X Gens
    /\ result \in [Tasks -> [code : Codes, gen : 0 .. MaxWaits]]
Steady ==
    /\ mix' = mix /\ queue' = queue /\ present' = present /\ futex_key' = futex_key
    /\ futex_pa' = futex_pa /\ outcome' = outcome /\ next_key' = next_key
Same(u) == status'[u] = status[u] /\ futex_timedout'[u] = futex_timedout[u] /\ result'[u] = result[u]

LEMMA SteadyTypes ==
    ASSUME TypeOK, Steady, Local'
    PROVE  TypeOK'
<1>1. /\ mix' \in Mixes /\ futex_key' \in [Tasks -> 0 .. MaxWaits]
      /\ futex_pa' \in [Tasks -> Keys \cup {NoKey}]
      /\ queue' \in [Keys -> Seq(Entry)] /\ present' \subseteq Keys
      /\ outcome' \in [Gens -> {"open", "woken", "timeout"}]
  BY DEF TypeOK, Steady
<1>2. \A k \in Keys : queue'[k] # <<>> => k \in present'
  BY DEF TypeOK, Steady
<1> QED
  BY <1>1, <1>2 DEF TypeOK, Local

LEMMA TaskQuiet ==
    ASSUME Inv, NEW t \in Tasks, Moves(t), CallOf(t)', Steady, Local',
           \A u \in Tasks : u # t => Same(u),
           pc'[t] \in Registering => pc[t] \in Registering /\ call'[t].gen = call[t].gen,
           pc'[t] \in Waiting =>
               /\ pc[t] \in Waiting /\ call'[t].gen = call[t].gen
               /\ status'[t] = "Blocked" => status[t] = "Blocked"
               /\ futex_timedout'[t] => futex_timedout[t],
           \A g \in Gens : Draws(t, g)' => Has(t, g),
           result'[t].code = "ETIMEDOUT" =>
               \/ result'[t] = result[t]
               \/ result'[t].gen \in Gens /\ outcome[result'[t].gen] = "timeout"
    PROVE  Inv'
<1>1. \A u \in Tasks : u # t => pc'[u] = pc[u] /\ call'[u] = call[u] /\ Same(u)
  BY DEF Moves, Procs
<1>2. \A u \in Tasks : pc'[u] \in Registering => pc[u] \in Registering /\ call'[u].gen = call[u].gen
  BY <1>1
<1>3. \A u \in Tasks : pc'[u] \in Waiting =>
          /\ pc[u] \in Waiting /\ call'[u].gen = call[u].gen
          /\ status'[u] = "Blocked" => status[u] = "Blocked"
          /\ futex_timedout'[u] => futex_timedout[u]
  BY <1>1 DEF Same
<1>4. ASSUME NEW u \in Tasks, NEW g \in Gens, Draws(u, g)' PROVE Has(u, g)
  <2>1. CASE u = t
    BY <1>4, <2>1
  <2>2. CASE u # t
    BY <1>1, <1>4, <2>2 DEF Draws, Has
  <2> QED
    BY <2>1, <2>2
<1>5. Reported'
  <2>1. ASSUME NEW u \in Tasks, result'[u].code = "ETIMEDOUT"
        PROVE  result'[u].gen \in Gens /\ outcome[result'[u].gen] = "timeout"
    <3>1. result'[u] = result[u] \/ (result'[u].gen \in Gens /\ outcome[result'[u].gen] = "timeout")
      BY <1>1, <2>1 DEF Same
    <3> QED
      BY <2>1, <3>1 DEF Inv, Timely, Reported
  <2>2. outcome' = outcome
    BY DEF Steady
  <2> QED
    BY <2>1, <2>2 DEF Reported
<1>6. Owned' /\ Single' /\ Open' /\ Queued' /\ Timely'
  <2>1. UNCHANGED <<queue, futex_key, futex_pa, outcome, next_key>>
    BY DEF Steady
  <2> QED
    BY <1>2, <1>3, <1>4, <1>5, <2>1, Quiet
<1>7. TypeOK' /\ Called'
  BY SteadyTypes, TaskMoves DEF Inv
<1> QED
  BY <1>6, <1>7 DEF Inv

LEMMA TimerQuiet ==
    ASSUME Inv, Moves(Timer), Steady, Local', status' = status, futex_timedout' = futex_timedout,
           result' = result, pc'[Timer] \in {"user", "bump", "expire"},
           pc'[Timer] # "user" => call'[Timer] \in ExpireCall
    PROVE  Inv'
<1>1. \A u \in Tasks : pc'[u] = pc[u] /\ call'[u] = call[u]
  BY FutexAssumption DEF Moves, Procs
<1>2. \A u \in Tasks : \A g \in Gens : Draws(u, g)' => Has(u, g)
  BY <1>1 DEF Draws, Has
<1>3. Reported'
  BY DEF Inv, Timely, Reported, Steady
<1>4. Owned' /\ Single' /\ Open' /\ Queued' /\ Timely'
  <2>1. UNCHANGED <<queue, futex_key, futex_pa, outcome, next_key>>
    BY DEF Steady
  <2> QED
    BY <1>1, <1>2, <1>3, <2>1, Quiet
<1>5. TypeOK' /\ Called'
  BY SteadyTypes, TimerMoves DEF Inv
<1> QED
  BY <1>4, <1>5 DEF Inv

\* The words, TCBs, timers and results that a step leaves alone keep their types.
LEMMA LocalKept ==
    ASSUME Inv, UNCHANGED <<word, status, futex_timedout, timers, result>>
    PROVE  Local' /\ \A u : Same(u)
<1>1. word' = word /\ status' = status /\ futex_timedout' = futex_timedout /\ timers' = timers
      /\ result' = result
  OBVIOUS
<1> QED
  BY <1>1 DEF Inv, TypeOK, Local, Same

\* Nothing that a step starts in user mode or leaves to it has drawn a generation.
LEMMA NoDraw ==
    ASSUME NEW t \in Tasks,
           \/ pc'[t] \in {"user", "elsewhere", "wake", "requeue"}
           \/ pc'[t] = "bump" /\ call'[t].op \in {"wake", "requeue"}
    PROVE  /\ \A g \in Gens : ~Draws(t, g)'
           /\ pc'[t] \notin Registering /\ pc'[t] \notin Waiting
BY DEF Draws, Registering, Waiting

LEMMA StoreInv ==
    ASSUME Inv, mix' = mix, NEW t \in Tasks, NEW k \in Keys, NEW v \in Values, Store(t, k, v)
    PROVE  Inv'
<1>1. /\ word' = [word EXCEPT ![k] = v] /\ pc' = pc /\ call' = call /\ Steady
      /\ status' = status /\ futex_timedout' = futex_timedout /\ timers' = timers
      /\ result' = result
  BY DEF Store, Steady, tcbVars, queueVars, history
<1>2. Local' /\ \A u : Same(u)
  BY <1>1 DEF Inv, TypeOK, Local, Same
<1>3. Moves(t) /\ CallOf(t)'
  BY <1>1 DEF Inv, Called, CallOf, Moves
<1>4. pc[t] = "user"
  BY DEF Store
<1>5. \A g \in Gens : ~Draws(t, g)' /\ pc'[t] \notin Registering /\ pc'[t] \notin Waiting
  BY <1>1, <1>4, NoDraw
<1>6. result'[t] = result[t]
  BY <1>1
<1> QED
  BY <1>1, <1>2, <1>3, <1>4, <1>5, <1>6, TaskQuiet DEF Registering, Waiting

LEMMA WakeInv ==
    ASSUME Inv, mix' = mix, NEW t \in Tasks, NEW k \in Keys, NEW n \in Nat \ {0},
           NEW b \in Bitsets, Wake(t, k, n, b)
    PROVE  Inv'
<1> DEFINE c == [op |-> "wake", key |-> k, n |-> n, bits |-> b]
<1>1. /\ Goto(t, "bump") /\ call' = [call EXCEPT ![t] = c] /\ Steady
      /\ UNCHANGED <<word, status, futex_timedout, timers, result>>
  BY DEF Wake, Steady, tcbVars, queueVars, history
<1>2. c \in WakeCall /\ c.op = "wake"
  BY DEF WakeCall
<1> HIDE DEF c
<1>3. Moves(t) /\ pc'[t] = "bump" /\ call'[t] = c
  BY <1>1, CallMoves DEF Inv, Procs
<1>4. CallOf(t)'
  BY <1>2, <1>3 DEF CallOf, TaskLabels, Registering, Waiting
<1>5. \A g \in Gens : ~Draws(t, g)' /\ pc'[t] \notin Registering /\ pc'[t] \notin Waiting
  BY <1>2, <1>3, NoDraw
<1>6. Local' /\ \A u : Same(u)
  BY <1>1, LocalKept
<1> QED
  BY <1>1, <1>3, <1>4, <1>5, <1>6, TaskQuiet DEF Same, Registering, Waiting

LEMMA RequeueInv ==
    ASSUME Inv, mix' = mix, NEW t \in Tasks, NEW k \in Keys, NEW n \in Nat,
           NEW k2 \in Keys, NEW n2 \in Nat, Requeue(t, k, n, k2, n2)
    PROVE  Inv'
<1> DEFINE c == [op |-> "requeue", key |-> k, n |-> n, key2 |-> k2, n2 |-> n2]
<1>1. /\ Goto(t, "bump") /\ call' = [call EXCEPT ![t] = c] /\ Steady
      /\ UNCHANGED <<word, status, futex_timedout, timers, result>>
  BY DEF Requeue, Steady, tcbVars, queueVars, history
<1>2. c \in RequeueCall /\ c.op = "requeue"
  BY DEF RequeueCall
<1> HIDE DEF c
<1>3. Moves(t) /\ pc'[t] = "bump" /\ call'[t] = c
  BY <1>1, CallMoves DEF Inv, Procs
<1>4. CallOf(t)'
  BY <1>2, <1>3 DEF CallOf, TaskLabels, Registering, Waiting
<1>5. \A g \in Gens : ~Draws(t, g)' /\ pc'[t] \notin Registering /\ pc'[t] \notin Waiting
  BY <1>2, <1>3, NoDraw
<1>6. Local' /\ \A u : Same(u)
  BY <1>1, LocalKept
<1> QED
  BY <1>1, <1>3, <1>4, <1>5, <1>6, TaskQuiet DEF Same, Registering, Waiting

\* A status changes while the thread is in another wait.
LEMMA SleepInv ==
    ASSUME Inv, mix' = mix, NEW t \in Tasks, Sleep(t) \/ EndSleep(t)
    PROVE  Inv'
<1>1. PICK s \in {"Running", "Blocked", "Ready"} : status' = [status EXCEPT ![t] = s]
  BY DEF Sleep, EndSleep
<1>2. /\ call' = call /\ Steady /\ word' = word /\ futex_timedout' = futex_timedout
      /\ timers' = timers /\ result' = result
  BY DEF Sleep, EndSleep, Steady, queueVars, history
<1>4. Moves(t) /\ pc'[t] \in {"user", "elsewhere"}
  <2>1. CASE Goto(t, "elsewhere") \/ Goto(t, "user")
    BY <1>2, <2>1, GotoMoves DEF Inv, Procs
  <2>2. CASE pc' = pc /\ pc[t] = "elsewhere"
    BY <1>2, <2>2 DEF Moves, Inv, Called
  <2> QED
    BY <2>1, <2>2 DEF Sleep, EndSleep
<1>5. CallOf(t)'
  BY <1>4 DEF CallOf, TaskLabels, Registering, Waiting
<1>6. \A g \in Gens : ~Draws(t, g)' /\ pc'[t] \notin Registering /\ pc'[t] \notin Waiting
  BY <1>4, NoDraw
<1>7. Local' /\ \A u \in Tasks : u # t => Same(u)
  BY <1>1, <1>2 DEF Inv, TypeOK, Local, Same
<1>8. result'[t] = result[t]
  BY <1>2
<1> QED
  BY <1>2, <1>4, <1>5, <1>6, <1>7, <1>8, TaskQuiet DEF Registering, Waiting

\* The call of a thread that waits, or is about to.
LEMMA WaitGen ==
    ASSUME Inv, NEW t \in Tasks, pc[t] \in Registering \cup Waiting
    PROVE  /\ call[t] \in WaitCall /\ call[t].key \in Keys /\ call[t].gen \in Gens
           /\ call[t].bits \in Bitsets /\ Has(t, call[t].gen)
<1>1. call[t] \in WaitCall
  BY DEF Inv, Called, CallOf
<1> QED
  BY <1>1 DEF WaitCall, Has, Draws

LEMMA ReadWordInv ==
    ASSUME Inv, mix' = mix, NEW t \in Tasks, ReadWord(t)
    PROVE  Inv'
<1>1. /\ Steady /\ word' = word /\ status' = status /\ futex_timedout' = futex_timedout
      /\ timers' = timers
  BY DEF ReadWord, Steady, tcbVars, queueVars
<1>2. pc[t] \in Registering /\ call[t] \in WaitCall /\ call[t].gen \in Gens
  BY WaitGen DEF ReadWord, Registering
<1>3. CASE /\ result' = [result EXCEPT ![t] = [code |-> "EAGAIN", gen |-> call[t].gen]]
           /\ Return(t)
  <2>1. Moves(t) /\ pc'[t] = "user"
    BY <1>3, CallMoves DEF Return, Inv, Procs
  <2>2. CallOf(t)'
    BY <2>1 DEF CallOf, TaskLabels, Registering, Waiting
  <2>3. \A g \in Gens : ~Draws(t, g)' /\ pc'[t] \notin Registering /\ pc'[t] \notin Waiting
    BY <2>1, NoDraw
  <2>4. Local' /\ result'[t].code # "ETIMEDOUT" /\ \A u \in Tasks : u # t => Same(u)
    <3>1. [code |-> "EAGAIN", gen |-> call[t].gen] \in [code : Codes, gen : 0 .. MaxWaits]
      BY <1>2, SMT DEF Codes, Gens
    <3> QED
      BY <1>1, <1>3, <3>1 DEF Inv, TypeOK, Local, Same
  <2> QED
    BY <1>1, <2>1, <2>2, <2>3, <2>4, TaskQuiet DEF Registering, Waiting
<1>4. CASE Goto(t, "version") /\ UNCHANGED <<call, result>>
  <2>1. Moves(t) /\ pc'[t] = "version" /\ call'[t] = call[t]
    BY <1>4, GotoMoves DEF Inv, Procs
  <2>2. CallOf(t)'
    BY <1>2, <2>1 DEF CallOf, TaskLabels, Registering, Waiting
  <2>3. \A g \in Gens : Draws(t, g)' => Has(t, g)
    BY <1>2, <2>1 DEF Draws, Has
  <2>4. Local' /\ \A u : Same(u)
    BY <1>1, <1>4, LocalKept
  <2> QED
    BY <1>1, <1>2, <2>1, <2>2, <2>3, <2>4, TaskQuiet DEF Same, Registering, Waiting
<1> QED
  BY <1>3, <1>4 DEF ReadWord

LEMMA LoadVersionInv ==
    ASSUME Inv, mix' = mix, NEW t \in Tasks, LoadVersion(t)
    PROVE  Inv'
<1>1. /\ Steady /\ Goto(t, "lock") /\ call' = call
      /\ UNCHANGED <<word, status, futex_timedout, timers, result>>
  BY DEF LoadVersion, Steady, tcbVars, queueVars, history
<1>2. pc[t] \in Registering /\ call[t] \in WaitCall
  BY WaitGen DEF LoadVersion, Registering
<1>3. Moves(t) /\ pc'[t] = "lock" /\ call'[t] = call[t]
  BY <1>1, GotoMoves DEF Inv, Procs
<1>4. CallOf(t)'
  BY <1>2, <1>3 DEF CallOf, TaskLabels, Registering, Waiting
<1>5. \A g \in Gens : Draws(t, g)' => Has(t, g)
  BY <1>2, <1>3 DEF Draws, Has
<1>6. Local' /\ \A u : Same(u)
  BY <1>1, LocalKept
<1> QED
  BY <1>1, <1>2, <1>3, <1>4, <1>5, <1>6, TaskQuiet DEF Same, Registering, Waiting

LEMMA AddTimerInv ==
    ASSUME Inv, mix' = mix, NEW t \in Tasks, AddTimer(t)
    PROVE  Inv'
<1>1. /\ Steady /\ Goto(t, "asleep") /\ call' = call
      /\ word' = word /\ status' = status /\ futex_timedout' = futex_timedout /\ result' = result
      /\ timers' = timers \cup {<<t, call[t].gen>>}
  BY DEF AddTimer, Steady, tcbVars, queueVars, history
<1>2. pc[t] \in Waiting /\ call[t] \in WaitCall /\ call[t].gen \in Gens
  BY WaitGen DEF AddTimer, Waiting
<1>3. Moves(t) /\ pc'[t] = "asleep" /\ call'[t] = call[t]
  BY <1>1, GotoMoves DEF Inv, Procs
<1>4. CallOf(t)'
  BY <1>2, <1>3 DEF CallOf, TaskLabels, Registering, Waiting
<1>5. \A g \in Gens : Draws(t, g)' => Has(t, g)
  BY <1>2, <1>3 DEF Draws, Has
<1>6. Local' /\ \A u : Same(u)
  <2>0. <<t, call[t].gen>> \in Tasks \X Gens /\ timers \subseteq Tasks \X Gens
    BY <1>2 DEF Inv, TypeOK
  <2>1. timers' \subseteq Tasks \X Gens
    BY <1>1, <2>0
  <2> QED
    BY <1>1, <2>1 DEF Inv, TypeOK, Local, Same
<1>7. status'[t] = status[t] /\ futex_timedout'[t] = futex_timedout[t] /\ result'[t] = result[t]
  BY <1>1
<1> QED
  BY <1>1, <1>2, <1>3, <1>4, <1>5, <1>6, <1>7, TaskQuiet DEF Registering, Waiting

LEMMA BumpInv ==
    ASSUME Inv, mix' = mix, NEW t \in Tasks, Bump(t)
    PROVE  Inv'
<1>1. /\ Steady /\ Goto(t, call[t].op) /\ call' = call
      /\ UNCHANGED <<word, status, futex_timedout, timers, result>>
  BY DEF Bump, Steady, tcbVars, queueVars, history
<1>2. pc[t] = "bump" /\ call[t] \in WakeCall \cup RequeueCall \cup CleanCall
  BY DEF Bump, Inv, Called, CallOf
<1>3. Moves(t) /\ pc'[t] = call[t].op /\ call'[t] = call[t]
  BY <1>1, GotoMoves DEF Inv, Procs
<1>4. /\ call[t] \in WakeCall => call[t].op = "wake"
      /\ call[t] \in RequeueCall => call[t].op = "requeue"
      /\ call[t] \in CleanCall => call[t].op = "clean"
  BY DEF WakeCall, RequeueCall, CleanCall
<1>5. pc'[t] \notin Registering /\ pc'[t] \notin Waiting
  BY <1>2, <1>3, <1>4 DEF Registering, Waiting
<1>6. CallOf(t)'
  BY <1>2, <1>3, <1>4, <1>5 DEF CallOf, TaskLabels
<1>7. \A g \in Gens : Draws(t, g)' => Has(t, g)
  <2> SUFFICES ASSUME NEW g \in Gens, Draws(t, g)' PROVE Draws(t, g)
    BY DEF Has
  <2>1. call[t].gen = g /\ call[t].op = "clean"
    BY <1>2, <1>3, <1>4, <1>5 DEF Draws
  <2> QED
    BY <1>2, <2>1 DEF Draws
<1>8. Local' /\ \A u : Same(u)
  BY <1>1, LocalKept
<1> QED
  BY <1>1, <1>3, <1>5, <1>6, <1>7, <1>8, TaskQuiet DEF Same

LEMMA BumpTimerInv ==
    ASSUME Inv, mix' = mix, Bump(Timer)
    PROVE  Inv'
<1>1. /\ Steady /\ Goto(Timer, call[Timer].op) /\ call' = call
      /\ UNCHANGED <<word, status, futex_timedout, timers, result>>
  BY DEF Bump, Steady, tcbVars, queueVars, history
<1>2. call[Timer] \in ExpireCall /\ call[Timer].op = "expire"
  BY DEF Bump, Inv, Called, ExpireCall
<1>3. Moves(Timer) /\ pc'[Timer] = "expire" /\ call'[Timer] = call[Timer]
  BY <1>1, <1>2, GotoMoves DEF Inv, Procs
<1>4. Local'
  BY <1>1, LocalKept
<1> QED
  BY <1>1, <1>2, <1>3, <1>4, TimerQuiet

LEMMA ExpireInv ==
    ASSUME Inv, mix' = mix, NEW x \in timers, Expire(x)
    PROVE  Inv'
<1> DEFINE c == [op |-> "expire", task |-> x[1], gen |-> x[2]]
<1>1. /\ Steady /\ Goto(Timer, "bump") /\ call' = [call EXCEPT ![Timer] = c]
      /\ UNCHANGED <<word, status, futex_timedout, timers, result>>
  BY DEF Expire, Steady, tcbVars, queueVars, history
<1>2. c \in ExpireCall
  <2>1. x \in Tasks \X Gens
    BY DEF Inv, TypeOK
  <2> QED
    BY <2>1 DEF ExpireCall
<1> HIDE DEF c
<1>3. Moves(Timer) /\ pc'[Timer] = "bump" /\ call'[Timer] = c
  BY <1>1, CallMoves DEF Inv, Procs
<1>4. Local'
  BY <1>1, LocalKept
<1> QED
  BY <1>1, <1>2, <1>3, <1>4, TimerQuiet

\* A signal sets pending bits and makes a blocked thread ready.
LEMMA SignalInv ==
    ASSUME Inv, mix' = mix, NEW t \in Tasks,
           SignalWake(t) \/ HandleSignal(t) \/ \E kind \in mix.signals : Signal(t, kind)
    PROVE  Inv'
<1>1. /\ Steady /\ pc' = pc /\ call' = call /\ word' = word /\ futex_timedout' = futex_timedout
      /\ timers' = timers /\ result' = result
  BY DEF SignalWake, HandleSignal, Signal, Steady, tcbVars, queueVars, history
<1>2. \/ status' = status
      \/ status' = [status EXCEPT ![t] = IF @ = "Blocked" THEN "Ready" ELSE @]
  BY DEF SignalWake, HandleSignal, Signal, tcbVars
<1>3. Local' /\ \A u \in Tasks : u # t => Same(u)
  BY <1>1, <1>2 DEF Inv, TypeOK, Local, Same
<1>4. status'[t] = "Blocked" => status[t] = "Blocked"
  BY <1>2 DEF Inv, TypeOK
<1>5. Moves(t) /\ CallOf(t)'
  BY <1>1 DEF Inv, Called, CallOf, Moves
<1>6. \A g \in Gens : Draws(t, g)' => Has(t, g)
  BY <1>1 DEF Draws, Has
<1>7. pc'[t] = pc[t] /\ call'[t] = call[t] /\ futex_timedout'[t] = futex_timedout[t]
      /\ result'[t] = result[t]
  BY <1>1
<1> QED
  BY <1>1, <1>3, <1>4, <1>5, <1>6, <1>7, TaskQuiet

\* The thread runs again and reports how its wait ended.
LEMMA ResumeInv ==
    ASSUME Inv, mix' = mix, NEW t \in Tasks, Resume(t)
    PROVE  Inv'
<1> DEFINE code == IF sig[t] = "deliverable" THEN "EINTR"
                   ELSE IF futex_timedout[t] THEN "ETIMEDOUT" ELSE "OK"
           c == [op |-> "clean", key |-> futex_pa[t], gen |-> futex_key[t]]
<1>1. /\ Steady /\ word' = word /\ timers' = timers /\ pc[t] = "asleep"
      /\ status' = [status EXCEPT ![t] = "Running"]
      /\ result' = [result EXCEPT ![t] = [code |-> code, gen |-> call[t].gen]]
      /\ futex_timedout' = [futex_timedout EXCEPT ![t] = @ /\ code # "ETIMEDOUT"]
  BY DEF Resume, Steady, queueVars
<1>2. \/ /\ futex_key[t] # 0 /\ Goto(t, "bump")
         /\ call' = [call EXCEPT ![t] = c]
      \/ Return(t)
  BY DEF Resume
<1>3. code \in Codes /\ (code = "ETIMEDOUT" => futex_timedout[t])
  BY DEF Codes
<1> HIDE DEF code
<1>4. call[t].gen \in Gens /\ pc[t] \in Waiting
  BY <1>1, WaitGen DEF Waiting
<1>5. Local' /\ \A u \in Tasks : u # t => Same(u)
  <2>1. [code |-> code, gen |-> call[t].gen] \in [code : Codes, gen : 0 .. MaxWaits]
    BY <1>3, <1>4, SMT DEF Gens
  <2>2. result' \in [Tasks -> [code : Codes, gen : 0 .. MaxWaits]]
    BY <1>1, <2>1 DEF Inv, TypeOK
  <2>3. futex_timedout' \in [Tasks -> BOOLEAN]
    BY <1>1 DEF Inv, TypeOK
  <2> QED
    BY <1>1, <2>2, <2>3 DEF Inv, TypeOK, Local, Same
<1>6. result'[t].code = "ETIMEDOUT" => result'[t].gen \in Gens /\ outcome[result'[t].gen] = "timeout"
  <2>1. result'[t].code = code /\ result'[t].gen = call[t].gen
    BY <1>1 DEF Inv, TypeOK
  <2> QED
    BY <1>3, <1>4, <2>1 DEF Inv, Timely
<1>7. CASE futex_key[t] # 0 /\ Goto(t, "bump") /\ call' = [call EXCEPT ![t] = c]
  <2>1. futex_key[t] \in Gens /\ futex_pa[t] \in Keys
    <3>1. futex_key[t] \in 0 .. MaxWaits
      BY DEF Inv, TypeOK
    <3>2. futex_key[t] \in Gens
      BY <1>7, <3>1, FutexAssumption, SMT DEF Gens
    <3> QED
      BY <1>7, <3>2 DEF Inv, Queued
  <2>2. c \in CleanCall /\ c.gen = futex_key[t]
    BY <2>1 DEF CleanCall
  <2> HIDE DEF c
  <2>3. Moves(t) /\ pc'[t] = "bump" /\ call'[t] = c
    BY <1>7, CallMoves DEF Inv, Procs
  <2>4. CallOf(t)' /\ pc'[t] \notin Registering /\ pc'[t] \notin Waiting
    BY <2>2, <2>3 DEF CallOf, TaskLabels, Registering, Waiting
  <2>5. \A g \in Gens : Draws(t, g)' => Has(t, g)
    BY <2>2, <2>3 DEF Draws, Has
  <2> QED
    BY <1>1, <1>5, <1>6, <2>3, <2>4, <2>5, TaskQuiet
<1>8. CASE Return(t)
  <2>1. Moves(t) /\ pc'[t] = "user"
    BY <1>8, CallMoves DEF Return, Inv, Procs
  <2>2. CallOf(t)'
    BY <2>1 DEF CallOf, TaskLabels, Registering, Waiting
  <2>3. \A g \in Gens : ~Draws(t, g)' /\ pc'[t] \notin Registering /\ pc'[t] \notin Waiting
    BY <2>1, NoDraw
  <2>4. pc'[t] \notin Registering /\ pc'[t] \notin Waiting
    BY <2>1 DEF Registering, Waiting
  <2> QED
    BY <1>1, <1>5, <1>6, <2>1, <2>2, <2>3, <2>4, TaskQuiet
<1> QED
  BY <1>2, <1>7, <1>8

-----------------------------------------------------------------------------
\* A generation is drawn, and queued.

LEMMA WaitInv ==
    ASSUME Inv, mix' = mix, NEW t \in Tasks, NEW k \in Keys, NEW v \in Values, NEW b \in Bitsets,
           NEW timed \in BOOLEAN, Wait(t, k, v, b, timed)
    PROVE  Inv'
<1> DEFINE c == [op |-> "wait", key |-> k, expected |-> v, bits |-> b, timed |-> timed,
                 gen |-> next_key]
<1>1. /\ next_key' = next_key + 1 /\ next_key <= MaxWaits
      /\ call' = [call EXCEPT ![t] = c] /\ Goto(t, "read")
      /\ result' = [result EXCEPT ![t] = [code |-> "none", gen |-> 0]]
      /\ word' = word /\ status' = status /\ futex_key' = futex_key /\ futex_pa' = futex_pa
      /\ futex_timedout' = futex_timedout /\ queue' = queue /\ present' = present
      /\ timers' = timers /\ outcome' = outcome
  BY DEF Wait, tcbVars, queueVars
<1>2. /\ next_key \in Nat \ {0} /\ next_key \in Gens
      /\ \A g \in Gens : (g >= next_key' => g >= next_key) /\ (g < next_key => g < next_key')
      /\ next_key < next_key' /\ next_key' \in Nat \ {0} /\ ~(next_key < next_key)
      /\ next_key >= next_key
  <2>1. next_key \in Nat \ {0}
    BY DEF Inv, Owned
  <2> QED
    BY <1>1, <2>1, FutexAssumption, SMT DEF Gens
<1>3. c \in WaitCall /\ c.gen = next_key
  BY <1>2 DEF WaitCall
<1> HIDE DEF c
<1>4. Moves(t) /\ pc'[t] = "read" /\ call'[t] = c
  BY <1>1, CallMoves DEF Inv, Procs
<1>5. CallOf(t)' /\ Called'
  <2>1. CallOf(t)'
    BY <1>3, <1>4 DEF CallOf, TaskLabels, Registering, Waiting
  <2> QED
    BY <1>4, <2>1, TaskMoves DEF Inv
<1>6. \A u \in Tasks : u # t => pc'[u] = pc[u] /\ call'[u] = call[u] /\ result'[u] = result[u]
  BY <1>1, <1>4 DEF Moves, Procs, Inv, TypeOK
<1>7. TypeOK'
  <2>1. result' \in [Tasks -> [code : Codes, gen : 0 .. MaxWaits]]
    <3>1. [code |-> "none", gen |-> 0] \in [code : Codes, gen : 0 .. MaxWaits]
      BY FutexAssumption, SMT DEF Codes
    <3> QED
      BY <1>1, <3>1 DEF Inv, TypeOK
  <2> QED
    BY <1>1, <2>1 DEF Inv, TypeOK
<1>8. \A u \in Tasks : \A g \in Gens : Has(u, g)' => Has(u, g) \/ (u = t /\ g = next_key)
  <2> SUFFICES ASSUME NEW u \in Tasks, NEW g \in Gens, Has(u, g)', ~Has(u, g)
               PROVE  u = t /\ g = next_key
    OBVIOUS
  <2>1. Draws(u, g)' /\ ~Draws(u, g)
    BY <1>1 DEF Has
  <2>2. u = t
    BY <1>6, <2>1 DEF Draws
  <2> QED
    BY <1>3, <1>4, <2>1, <2>2 DEF Draws
<1>9. \A u \in Tasks : ~Has(u, next_key)
  BY <1>2 DEF Inv, Owned
<1>10. Owned'
  <2>1. \A g \in Gens : \A u \in Tasks : Has(u, g) => g < next_key
    BY DEF Inv, Owned
  <2>2. \A g \in Gens : \A u, w \in Tasks : Has(u, g) /\ Has(w, g) => u = w
    BY DEF Inv, Owned
  <2>3. ASSUME NEW g \in Gens, NEW u \in Tasks, Has(u, g)' PROVE g < next_key'
    BY <1>2, <1>8, <2>1, <2>3
  <2>4. ASSUME NEW g \in Gens, NEW u \in Tasks, NEW w \in Tasks, Has(u, g)', Has(w, g)' PROVE u = w
    BY <1>8, <1>9, <2>2, <2>4
  <2> QED
    BY <1>2, <2>3, <2>4 DEF Owned
<1>11. Single'
  BY <1>1 DEF Inv, Single
<1>12. Open'
  <2>1. /\ \A l \in Keys : \A e \in Elements(queue[l]) : outcome[e.gen] = "open"
        /\ \A g \in Gens : g >= next_key => outcome[g] = "open"
    BY DEF Inv, Open
  <2>2. ASSUME NEW l \in Keys, NEW e \in Elements(queue[l]) PROVE e.gen # next_key
    <3>1. e.task \in Tasks /\ e.gen \in Gens
      BY QueueEntries DEF Inv
    <3>2. Has(e.task, e.gen)
      BY DEF Has
    <3> QED
      BY <1>9, <3>1, <3>2
  <2>3. ASSUME NEW u \in Tasks, pc'[u] \in Registering
        PROVE  /\ outcome[call'[u].gen] = "open"
               /\ \A l \in Keys : \A e \in Elements(queue[l]) : e.gen # call'[u].gen
    <3>1. CASE u = t
      BY <1>2, <1>3, <1>4, <2>1, <2>2, <3>1
    <3>2. CASE u # t
      BY <1>6, <2>3, <3>2 DEF Inv, Open
    <3> QED
      BY <3>1, <3>2
  <2> QED
    BY <1>1, <1>2, <2>1, <2>3 DEF Open
<1>13. Queued'
  <2>1. ASSUME NEW u \in Tasks PROVE QueuedAt(u)'
    <3>1. CASE u = t
      BY <1>4, <3>1 DEF QueuedAt, Waiting
    <3>2. CASE u # t
      <4>1. QueuedAt(u)
        BY DEF Inv, Queued
      <4> QED
        BY <1>1, <1>6, <3>2, <4>1 DEF QueuedAt
    <3> QED
      BY <3>1, <3>2
  <2> QED
    BY <1>1, <2>1 DEF Inv, Queued
<1>14. Timely'
  <2>1. ASSUME NEW u \in Tasks, pc'[u] \in Waiting, futex_timedout[u]
        PROVE  outcome[call'[u].gen] = "timeout"
    <3>1. u # t
      BY <1>4, <2>1 DEF Waiting
    <3> QED
      BY <1>6, <2>1, <3>1 DEF Inv, Timely
  <2>2. ASSUME NEW u \in Tasks, result'[u].code = "ETIMEDOUT"
        PROVE  result'[u].gen \in Gens /\ outcome[result'[u].gen] = "timeout"
    <3>1. u # t
      BY <1>1, <2>2 DEF Inv, TypeOK
    <3> QED
      BY <1>6, <2>2, <3>1 DEF Inv, Timely, Reported
  <2> QED
    BY <1>1, <2>1, <2>2 DEF Timely, Reported
<1> QED
  BY <1>5, <1>7, <1>10, <1>11, <1>12, <1>13, <1>14 DEF Inv

\* Under the queue lock the thread turns back, or registers.
LEMMA PublishInv ==
    ASSUME Inv, mix' = mix, NEW t \in Tasks, Publish(t)
    PROVE  Inv'
<1> DEFINE c == call[t]
           x == [task |-> t, bits |-> c.bits, gen |-> c.gen]
<1>1. pc[t] \in Registering /\ c \in WaitCall /\ c.key \in Keys /\ c.bits \in Bitsets /\ c.gen \in Gens
      /\ Draws(t, c.gen)
  BY WaitGen DEF Publish, Registering, Draws
<1>2. /\ word' = word /\ timers' = timers /\ next_key' = next_key /\ outcome' = outcome
  BY DEF Publish
<1>3. CASE Goto(t, "read") /\ UNCHANGED <<tcbVars, queueVars, call, result>>
  <2>1. Steady /\ call' = call /\ UNCHANGED <<word, status, futex_timedout, timers, result>>
    BY <1>2, <1>3 DEF Steady, tcbVars, queueVars
  <2>2. Moves(t) /\ pc'[t] = "read" /\ call'[t] = call[t]
    BY <1>3, <2>1, GotoMoves DEF Inv, Procs
  <2>3. CallOf(t)'
    BY <1>1, <2>2 DEF CallOf, TaskLabels, Registering, Waiting
  <2>4. \A g \in Gens : Draws(t, g)' => Has(t, g)
    BY <1>1, <2>2 DEF Draws, Has
  <2>5. Local' /\ \A u : Same(u)
    BY <2>1, LocalKept
  <2> QED
    BY <1>1, <2>1, <2>2, <2>3, <2>4, <2>5, TaskQuiet DEF Same, Registering, Waiting
<1>4. CASE /\ result' = [result EXCEPT ![t] = [code |-> "EINTR", gen |-> c.gen]]
           /\ Return(t) /\ UNCHANGED <<tcbVars, queueVars>>
  <2>1. Steady /\ status' = status /\ futex_timedout' = futex_timedout
    BY <1>2, <1>4 DEF Steady, tcbVars, queueVars
  <2>2. Moves(t) /\ pc'[t] = "user"
    BY <1>4, CallMoves DEF Return, Inv, Procs
  <2>3. CallOf(t)'
    BY <2>2 DEF CallOf, TaskLabels, Registering, Waiting
  <2>4. \A g \in Gens : ~Draws(t, g)' /\ pc'[t] \notin Registering /\ pc'[t] \notin Waiting
    BY <2>2, NoDraw
  <2>5. Local' /\ result'[t].code # "ETIMEDOUT" /\ \A u \in Tasks : u # t => Same(u)
    <3>1. [code |-> "EINTR", gen |-> c.gen] \in [code : Codes, gen : 0 .. MaxWaits]
      BY <1>1, SMT DEF Codes, Gens
    <3> QED
      BY <1>2, <1>4, <2>1, <3>1 DEF Inv, TypeOK, Local, Same
  <2> QED
    BY <2>1, <2>2, <2>3, <2>4, <2>5, TaskQuiet DEF Registering, Waiting
<1>5. CASE /\ futex_timedout' = [futex_timedout EXCEPT ![t] = FALSE]
           /\ futex_pa' = [futex_pa EXCEPT ![t] = c.key]
           /\ futex_key' = [futex_key EXCEPT ![t] = c.gen]
           /\ queue' = [queue EXCEPT ![c.key] = Append(@, x)]
           /\ present' = present \cup {c.key}
           /\ status' = [status EXCEPT ![t] = "Blocked"]
           /\ \E l \in Waiting : Goto(t, l)
           /\ call' = call /\ result' = result
  <2>1. x \in Entry /\ x.task = t /\ x.gen = c.gen
    BY <1>1 DEF Entry
  <2> HIDE DEF x
  <2>2. Moves(t) /\ pc'[t] \in Waiting /\ call'[t] = c
    BY <1>5, GotoMoves DEF Inv, Procs
  <2>3. Called'
    <3>1. pc'[t] \in TaskLabels /\ pc'[t] \notin {"bump", "wake", "requeue", "clean"}
      BY <2>2 DEF TaskLabels, Waiting
    <3>2. CallOf(t)'
      BY <1>1, <2>2, <3>1 DEF CallOf
    <3> QED
      BY <2>2, <3>2, TaskMoves DEF Inv
  <2>4. \A u \in Tasks : u # t => /\ pc'[u] = pc[u] /\ call'[u] = call[u] /\ status'[u] = status[u]
                                  /\ futex_timedout'[u] = futex_timedout[u]
                                  /\ futex_key'[u] = futex_key[u] /\ futex_pa'[u] = futex_pa[u]
    BY <1>5, <2>2 DEF Moves, Procs, Inv, TypeOK
  <2>5. futex_timedout'[t] = FALSE /\ futex_key'[t] = c.gen /\ futex_pa'[t] = c.key
    BY <1>5 DEF Inv, TypeOK
  <2>6. /\ \A k \in Keys : k # c.key => queue'[k] = queue[k]
        /\ queue'[c.key] = Append(queue[c.key], x)
        /\ queue[c.key] \in Seq(Entry)
    BY <1>1, <1>5 DEF Inv, TypeOK
  <2>7. \A k \in Keys : \A e \in Elements(queue[k]) : e.gen # c.gen
    BY <1>1 DEF Inv, Open
  <2>8. /\ queue'[c.key] \in Seq(Entry) /\ Elements(queue'[c.key]) = Elements(queue[c.key]) \cup {x}
        /\ Distinct(queue'[c.key])
    <3>1. Distinct(queue[c.key])
      BY <1>1 DEF Inv, Single
    <3>2. \A f \in Elements(queue[c.key]) : f.gen # x.gen
      BY <1>1, <2>1, <2>7
    <3> QED
      BY <2>1, <2>6, <3>1, <3>2, AppendedEntry
  <2>9. \A k \in Keys : \A e \in Elements(queue'[k]) : e \in Elements(queue[k]) \/ (e = x /\ k = c.key)
    BY <2>6, <2>8
  <2>10. \A k \in Keys : \A e \in Elements(queue[k]) : e \in Elements(queue'[k])
    BY <2>6, <2>8
  <2>11. TypeOK'
    <3>1. queue' \in [Keys -> Seq(Entry)]
      BY <1>1, <1>5, <2>6, <2>8 DEF Inv, TypeOK
    <3>2. futex_key' \in [Tasks -> 0 .. MaxWaits]
      <4>1. c.gen \in 0 .. MaxWaits
        BY <1>1, SMT DEF Gens
      <4> QED
        BY <1>5, <4>1 DEF Inv, TypeOK
    <3>3. futex_pa' \in [Tasks -> Keys \cup {NoKey}]
      BY <1>1, <1>5 DEF Inv, TypeOK
    <3>4. \A k \in Keys : queue'[k] # <<>> => k \in present'
      BY <1>5, <2>6 DEF Inv, TypeOK
    <3>5. present' \subseteq Keys
      BY <1>1, <1>5 DEF Inv, TypeOK
    <3>6. /\ status' \in [Tasks -> {"Running", "Blocked", "Ready"}]
          /\ futex_timedout' \in [Tasks -> BOOLEAN]
      BY <1>5 DEF Inv, TypeOK
    <3> QED
      BY <1>2, <1>5, <3>1, <3>2, <3>3, <3>4, <3>5, <3>6 DEF Inv, TypeOK
  <2>12. Owned'
    <3>1. ASSUME NEW u \in Tasks, NEW g \in Gens, Has(u, g)' PROVE Has(u, g)
      <4>1. CASE Draws(u, g)'
        <5>1. CASE u = t
          BY <1>1, <2>2, <4>1, <5>1 DEF Draws, Has
        <5>2. CASE u # t
          BY <2>4, <4>1, <5>2 DEF Draws, Has
        <5> QED
          BY <5>1, <5>2
      <4>2. CASE futex_key'[u] = g
        BY <1>1, <2>4, <2>5, <4>2 DEF Has
      <4>3. CASE \E k \in Keys : \E e \in Elements(queue'[k]) : e.task = u /\ e.gen = g
        <5>1. PICK k \in Keys : \E e \in Elements(queue'[k]) : e.task = u /\ e.gen = g
          BY <4>3
        <5>2. PICK e \in Elements(queue'[k]) : e.task = u /\ e.gen = g
          BY <5>1
        <5> QED
          BY <1>1, <2>1, <2>9, <5>2 DEF Has
      <4> QED
        BY <3>1, <4>1, <4>2, <4>3 DEF Has
    <3> QED
      BY <1>2, <3>1, OwnedKept DEF Inv
  <2>13. Single'
    <3>1. \A k \in Keys : Distinct(queue'[k])
      BY <2>6, <2>8 DEF Inv, Single
    <3>2. ASSUME NEW k \in Keys, NEW l \in Keys, NEW e \in Elements(queue'[k]),
                 NEW f \in Elements(queue'[l]), e.gen = f.gen
          PROVE  k = l
      <4>1. CASE e \in Elements(queue[k]) /\ f \in Elements(queue[l])
        BY <3>2, <4>1 DEF Inv, Single
      <4>2. CASE e = x /\ k = c.key
        BY <2>1, <2>7, <2>9, <3>2, <4>2
      <4>3. CASE f = x /\ l = c.key
        BY <2>1, <2>7, <2>9, <3>2, <4>3
      <4> QED
        BY <2>9, <4>1, <4>2, <4>3
    <3> QED
      BY <3>1, <3>2 DEF Single
  <2>14. Open'
    <3>1. outcome[c.gen] = "open"
      BY <1>1 DEF Inv, Open
    <3>2. ASSUME NEW k \in Keys, NEW e \in Elements(queue'[k]) PROVE outcome[e.gen] = "open"
      BY <2>1, <2>9, <3>1 DEF Inv, Open
    <3>3. \A g \in Gens : g >= next_key => outcome[g] = "open"
      BY DEF Inv, Open
    <3>4. ASSUME NEW u \in Tasks, pc'[u] \in Registering
          PROVE  /\ outcome[call'[u].gen] = "open"
                 /\ \A k \in Keys : \A e \in Elements(queue'[k]) : e.gen # call'[u].gen
      <4>1. u # t
        BY <2>2, <3>4 DEF Registering, Waiting
      <4>2. pc[u] \in Registering /\ call'[u] = call[u]
        BY <2>4, <3>4, <4>1
      <4>3. call[u].gen \in Gens /\ Has(u, call[u].gen)
        BY <4>2, WaitGen
      <4>4. call[u].gen # c.gen
        <5>1. Has(t, c.gen)
          BY <1>1 DEF Has
        <5> QED
          BY <1>1, <4>1, <4>3, <5>1 DEF Inv, Owned
      <4>5. outcome[call[u].gen] = "open" /\ \A k \in Keys : \A e \in Elements(queue[k]) : e.gen # call[u].gen
        BY <4>2 DEF Inv, Open
      <4> QED
        BY <2>1, <2>9, <4>2, <4>4, <4>5
    <3> QED
      BY <1>2, <3>2, <3>3, <3>4 DEF Open
  <2>15. Queued'
    <3>1. ASSUME NEW u \in Tasks PROVE QueuedAt(u)'
      <4>1. CASE u = t
        BY <1>1, <2>1, <2>2, <2>5, <2>8, <4>1 DEF QueuedAt
      <4>2. CASE u # t
        <5> SUFFICES ASSUME pc'[u] \in Waiting, status'[u] = "Blocked"
                     PROVE  /\ futex_key'[u] = call'[u].gen
                            /\ \E e \in Elements(queue'[futex_pa'[u]]) : e.task = u /\ e.gen = call'[u].gen
          BY DEF QueuedAt
        <5>1. PICK k, e : Waits(u, k, e)
          BY <2>4, <4>2, BlockedWaits
        <5> QED
          BY <2>4, <2>10, <4>2, <5>1 DEF Waits
      <4> QED
        BY <4>1, <4>2
    <3>2. \A u \in Tasks : futex_key'[u] # 0 => futex_pa'[u] \in Keys
      BY <1>1, <2>4, <2>5 DEF Inv, Queued
    <3> QED
      BY <3>1, <3>2 DEF Queued
  <2>16. Timely'
    <3>1. ASSUME NEW u \in Tasks, pc'[u] \in Waiting, futex_timedout'[u]
          PROVE  outcome[call'[u].gen] = "timeout"
      <4>1. u # t
        BY <2>5, <3>1
      <4>2. pc[u] \in Waiting /\ futex_timedout[u] /\ call'[u] = call[u]
        BY <2>4, <3>1, <4>1
      <4> QED
        BY <4>2 DEF Inv, Timely
    <3>2. Reported'
      BY <1>2, <1>5 DEF Inv, Timely, Reported
    <3> QED
      BY <1>2, <3>1, <3>2 DEF Timely
  <2> QED
    BY <2>3, <2>11, <2>12, <2>13, <2>14, <2>15, <2>16 DEF Inv
<1> QED
  <2>1. \A l : l \in {"timer", "asleep"} => l \in Waiting
    BY DEF Waiting
  <2> QED
    BY <1>3, <1>4, <1>5, <2>1 DEF Publish, ClearTimedout

-----------------------------------------------------------------------------
\* Entries leave their queues, and waits are completed.

LEMMA WithoutEntries ==
    ASSUME NEW q \in Seq(Entry), NEW gen
    PROVE  /\ Without(q, gen) \in Seq(Entry)
           /\ Elements(Without(q, gen)) = {e \in Elements(q) : e.gen # gen}
           /\ Distinct(q) => Distinct(Without(q, gen))
<1> DEFINE H == {i \in DOMAIN q : q[i].gen # gen}
<1>1. H \in SUBSET DOMAIN q /\ Without(q, gen) = Chosen(q, H)
  BY DEF Without
<1>2. {q[i] : i \in H} = {e \in Elements(q) : e.gen # gen}
  BY DEF Elements
<1> HIDE DEF H
<1> QED
  BY <1>1, <1>2, ChosenEntries

LEMMA NoEntries ==
    ASSUME NEW q \in Seq(Entry)
    PROVE  q # <<>> <=> Elements(q) # {}
<1>0. Len(q) \in Nat /\ DOMAIN q = 1 .. Len(q)
  BY SMT
<1>1. q # <<>> <=> DOMAIN q # {}
  <2>1. CASE Len(q) = 0
    BY <1>0, <2>1, SMT
  <2>2. CASE Len(q) # 0
    <3>1. 1 \in DOMAIN q
      BY <1>0, <2>2, SMT
    <3>2. q # <<>>
      BY <2>2, SMT
    <3> QED
      BY <3>1, <3>2
  <2> QED
    BY <2>1, <2>2
<1> QED
  BY <1>1 DEF Elements

\* Where the scan of a queue stops.
LEMMA StopRange ==
    ASSUME NEW m \in Nat, NEW H \in SUBSET (1 .. m), NEW n \in Nat \ {0}
    PROVE  NthOrLast(H, n, m) \in 0 .. m /\ NthOrLast(H, n, m) \in H \cup {m}
<1>1. Cardinality(H) \in Nat
  BY PositionsFinite
<1>2. CASE Cardinality(H) < n
  <2>1. m \in 0 .. m
    BY SMT
  <2> QED
    BY <1>2, <2>1 DEF NthOrLast
<1>3. CASE ~(Cardinality(H) < n)
  <2>1. n \in 1 .. Cardinality(H)
    BY <1>1, <1>3, SMT
  <2>2. Nth(H, n) \in 1 .. m /\ Nth(H, n) \in H
    BY <2>1, NthRank
  <2>3. Nth(H, n) \in 0 .. m
    BY <2>2, SMT
  <2> QED
    BY <1>3, <2>2, <2>3 DEF NthOrLast
<1> QED
  BY <1>2, <1>3

LEMMA Beyond ==
    ASSUME NEW m \in Nat, NEW a \in 0 .. m, NEW b \in 0 .. m, NEW i \in 1 .. m
    PROVE  /\ i > b \/ i <= b
           /\ ~(i > b /\ i <= b)
           /\ (i > b /\ (b = m \/ b = a \/ b > a)) => i > a
BY SMT

LEMMA ReturnMoves ==
    ASSUME Called, NEW p \in Procs, Return(p)
    PROVE  Called' /\ Moves(p) /\ pc'[p] = "user"
<1>1. Moves(p) /\ pc'[p] = "user"
  BY CallMoves DEF Return
<1>2. CASE p = Timer
  BY <1>1, <1>2, TimerMoves
<1>3. CASE p \in Tasks
  <2>1. CallOf(p)'
    BY <1>1 DEF CallOf, TaskLabels, Registering, Waiting
  <2> QED
    BY <1>1, <1>3, <2>1, TaskMoves
<1> QED
  BY <1>1, <1>2, <1>3 DEF Procs

LEMMA CompleteTypes ==
    ASSUME TypeOK, NEW E, NEW pa \in [Tasks -> Keys \cup {NoKey}], NEW by \in {"woken", "timeout"},
           Complete(E, pa, by)
    PROVE  /\ status' \in [Tasks -> {"Running", "Blocked", "Ready"}]
           /\ futex_key' \in [Tasks -> 0 .. MaxWaits]
           /\ futex_pa' \in [Tasks -> Keys \cup {NoKey}]
           /\ outcome' \in [Gens -> {"open", "woken", "timeout"}]
<1>0. 0 \in 0 .. MaxWaits
  BY FutexAssumption, SMT
<1>1. status' \in [Tasks -> {"Running", "Blocked", "Ready"}]
  BY DEF TypeOK, Complete
<1>2. futex_key' \in [Tasks -> 0 .. MaxWaits]
  BY <1>0 DEF TypeOK, Complete
<1>3. futex_pa' \in [Tasks -> Keys \cup {NoKey}]
  BY DEF TypeOK, Complete
<1>4. outcome' \in [Gens -> {"open", "woken", "timeout"}]
  BY DEF TypeOK, Complete
<1> QED
  BY <1>1, <1>2, <1>3, <1>4

\* Queues that only lose entries stay apart.
LEMMA Shrinks ==
    ASSUME Single, \A k \in Keys : Distinct(queue'[k]) /\ Elements(queue'[k]) \subseteq Elements(queue[k])
    PROVE  Single'
BY DEF Single

LEMMA PresentKept ==
    ASSUME TypeOK, NEW k \in Keys, queue'[k] \in Seq(Entry),
           Elements(queue'[k]) \subseteq Elements(queue[k]), queue'[k] # <<>>
    PROVE  k \in present
<1>1. Elements(queue'[k]) # {}
  BY NoEntries
<1>2. queue[k] # <<>>
  BY <1>1, NoEntries, QueueEntries
<1> QED
  BY <1>2 DEF TypeOK

LEMMA WaitsLive ==
    ASSUME NEW u \in Tasks, NEW k, NEW e, Waits(u, k, e)
    PROVE  Live(e)
BY DEF Waits, Live

\* A blocked thread has one live entry.
LEMMA LiveOwner ==
    ASSUME Single, NEW u \in Tasks, NEW k \in Keys, NEW e, Waits(u, k, e),
           NEW l \in Keys, NEW f \in Elements(queue[l]), Live(f), f.task = u
    PROVE  f = e /\ l = k
<1>1. e \in Elements(queue[k]) /\ f.gen = e.gen
  BY DEF Waits, Live
<1> QED
  BY <1>1, SameEntry

\* The interrupted or timed-out waiter takes its entry out.
LEMMA CleanInv ==
    ASSUME Inv, mix' = mix, NEW t \in Tasks, Clean(t)
    PROVE  Inv'
<1> DEFINE c == call[t]
           E == {}
<1>1. /\ pc[t] = "clean" /\ Return(t) /\ queue' = [queue EXCEPT ![c.key] = Without(@, c.gen)]
      /\ word' = word /\ status' = status /\ futex_key' = futex_key /\ futex_pa' = futex_pa
      /\ futex_timedout' = futex_timedout /\ present' = present /\ timers' = timers
      /\ next_key' = next_key /\ result' = result /\ outcome' = outcome
  BY DEF Clean, tcbVars, history
<1>2. c \in CleanCall /\ c.key \in Keys /\ c.gen \in Gens /\ Has(t, c.gen)
  <2>1. c \in CleanCall
    BY <1>1 DEF Inv, Called, CallOf
  <2> QED
    BY <1>1, <2>1 DEF CleanCall, Has, Draws
<1> HIDE DEF c
<1>3. t \in Procs /\ Called' /\ Moves(t) /\ pc'[t] = "user"
  BY <1>1, ReturnMoves DEF Inv, Procs
<1>4. /\ \A k \in Keys : k # c.key => queue'[k] = queue[k]
      /\ queue'[c.key] = Without(queue[c.key], c.gen)
  BY <1>1, <1>2 DEF Inv, TypeOK
<1>5. ASSUME NEW k \in Keys
      PROVE  /\ queue'[k] \in Seq(Entry) /\ Distinct(queue'[k])
             /\ Elements(queue'[k]) \subseteq Elements(queue[k])
             /\ \A e \in Elements(queue[k]) : e.gen # c.gen => e \in Elements(queue'[k])
  <2>1. queue[k] \in Seq(Entry) /\ Distinct(queue[k])
    BY QueueEntries DEF Inv, Single
  <2>2. CASE k = c.key
    <3>1. queue'[k] = Without(queue[k], c.gen)
      BY <1>4, <2>2
    <3> QED
      BY <2>1, <3>1, WithoutEntries
  <2>3. CASE k # c.key
    BY <1>4, <2>1, <2>3
  <2> QED
    BY <2>2, <2>3
<1>6. TypeOK'
  <2>1. queue' \in [Keys -> Seq(Entry)]
    BY <1>1, <1>5 DEF Inv, TypeOK
  <2>2. \A k \in Keys : queue'[k] # <<>> => k \in present
    BY <1>5, PresentKept DEF Inv
  <2> QED
    BY <1>1, <2>1, <2>2 DEF Inv, TypeOK
<1>7. Complete(E, futex_pa, "woken")
  BY <1>1 DEF Complete, Inv, TypeOK
<1>8. ASSUME NEW u \in Tasks, NEW k, NEW e, Waits(u, k, e) PROVE e \in Elements(queue'[futex_pa[u]])
  <2>1. u # t /\ k \in Keys /\ k = futex_pa[u] /\ e \in Elements(queue[k])
    BY <1>1, <1>8 DEF Waits, Waiting
  <2>2. Has(u, e.gen)
    BY <1>8 DEF Waits, Has
  <2>3. e.gen # c.gen
    BY <1>2, <2>1, <2>2 DEF Inv, Owned
  <2> QED
    BY <1>5, <2>1, <2>3
<1>9. \A u \in Tasks : futex_key[u] # 0 => futex_pa[u] \in Keys
  BY DEF Inv, Queued
<1>10. Owned' /\ Open' /\ Queued' /\ Timely'
  <2>1. \A k \in Keys : \A e \in Elements(queue'[k]) :
            e \notin E /\ \E l \in Keys : e \in Elements(queue[l])
    BY <1>5
  <2>2. UNCHANGED <<next_key, result>> /\ "woken" \in {"woken", "timeout"}
    BY <1>1
  <2>3. \A u \in Tasks : \A k, e : Waits(u, k, e) /\ e \notin E => e \in Elements(queue'[futex_pa[u]])
    BY <1>8
  <2>4. \A u \in Tasks : pc[u] \in Waiting /\ futex_timedout'[u] =>
            futex_timedout[u] \/ outcome'[call[u].gen] = "timeout"
    BY <1>1
  <2>5. \A e \in E : Live(e) /\ \E k \in Keys : e \in Elements(queue[k])
    OBVIOUS
  <2> HIDE DEF E
  <2> QED
    BY <1>3, <1>7, <1>9, <2>1, <2>2, <2>3, <2>4, <2>5, Completes
<1>11. Single'
  BY <1>5, Shrinks DEF Inv
<1> QED
  BY <1>3, <1>6, <1>10, <1>11 DEF Inv

\* The timer completes the wait its entry is about, or finds it over.
LEMMA HandleTimerInv ==
    ASSUME Inv, mix' = mix, HandleTimer
    PROVE  Inv'
<1> DEFINE w == call[Timer].task
           gen == call[Timer].gen
           k == futex_pa[w]
           X == {e \in {queue[k][i] : i \in DOMAIN queue[k]} : e.gen = gen}
           E == {e \in X : Live(e)}
<1>1. /\ pc[Timer] = "expire" /\ Return(Timer) /\ word' = word /\ present' = present
      /\ next_key' = next_key /\ result' = result /\ timers' = timers \ {<<w, gen>>}
  BY DEF HandleTimer
<1>2. w \in Tasks /\ gen \in Gens
  <2>1. call[Timer] \in ExpireCall
    BY <1>1 DEF Inv, Called
  <2> QED
    BY <2>1 DEF ExpireCall
<1>3. Timer \in Procs /\ Called' /\ Moves(Timer) /\ pc'[Timer] = "user"
  BY <1>1, ReturnMoves DEF Inv, Procs
<1>4. timers' \subseteq Tasks \X Gens
  BY <1>1 DEF Inv, TypeOK
<1>5. CASE UNCHANGED <<tcbVars, queue, outcome>>
  <2>1. Steady /\ status' = status /\ futex_timedout' = futex_timedout
    BY <1>1, <1>5 DEF Steady, tcbVars
  <2>2. Local'
    BY <1>1, <1>4, <2>1 DEF Local, Inv, TypeOK
  <2> QED
    BY <1>1, <1>3, <2>1, <2>2, TimerQuiet
<1>6. CASE /\ futex_key[w] = gen /\ queue' = [queue EXCEPT ![k] = Without(@, gen)]
           /\ Complete(E, futex_pa, "timeout")
           /\ futex_timedout' = [futex_timedout EXCEPT ![w] = @ \/ \E e \in X : Live(e)]
  <2>1. k \in Keys
    <3>1. gen # 0
      BY <1>2, SMT DEF Gens
    <3> QED
      BY <1>2, <1>6, <3>1 DEF Inv, Queued
  <2>2. \A e : e \in E <=> e \in Elements(queue[k]) /\ e.gen = gen /\ Live(e)
    BY DEF Elements
  <2>3. /\ \A l \in Keys : l # k => queue'[l] = queue[l]
        /\ queue'[k] = Without(queue[k], gen)
    BY <1>6, <2>1 DEF Inv, TypeOK
  <2>4. /\ \A u \in Tasks : u # w => futex_timedout'[u] = futex_timedout[u]
        /\ futex_timedout'[w] = (futex_timedout[w] \/ \E e : e \in E)
    BY <1>2, <1>6 DEF Inv, TypeOK
  <2>5. futex_timedout' \in [Tasks -> BOOLEAN]
    BY <1>6 DEF Inv, TypeOK
  <2> HIDE DEF E, X, k, w, gen
  <2>6. ASSUME NEW l \in Keys
        PROVE  /\ queue'[l] \in Seq(Entry) /\ Distinct(queue'[l])
               /\ Elements(queue'[l]) \subseteq Elements(queue[l])
               /\ \A e \in Elements(queue[l]) : e.gen # gen => e \in Elements(queue'[l])
               /\ l = k => \A e \in Elements(queue'[l]) : e.gen # gen
               /\ l # k => Elements(queue'[l]) = Elements(queue[l])
    <3>1. queue[l] \in Seq(Entry) /\ Distinct(queue[l])
      BY QueueEntries DEF Inv, Single
    <3>2. CASE l = k
      <4>1. queue'[l] = Without(queue[l], gen)
        BY <2>3, <3>2
      <4>2. /\ queue'[l] \in Seq(Entry) /\ Distinct(queue'[l])
            /\ Elements(queue'[l]) = {e \in Elements(queue[l]) : e.gen # gen}
        BY <3>1, <4>1, WithoutEntries
      <4> QED
        BY <3>2, <4>2
    <3>3. CASE l # k
      BY <2>3, <3>1, <3>3
    <3> QED
      BY <3>2, <3>3
  <2>7. TypeOK'
    <3>1. queue' \in [Keys -> Seq(Entry)]
      BY <1>6, <2>6 DEF Inv, TypeOK
    <3>2. \A l \in Keys : queue'[l] # <<>> => l \in present
      BY <2>6, PresentKept DEF Inv
    <3>3. /\ status' \in [Tasks -> {"Running", "Blocked", "Ready"}]
          /\ futex_key' \in [Tasks -> 0 .. MaxWaits]
          /\ futex_pa' \in [Tasks -> Keys \cup {NoKey}]
          /\ outcome' \in [Gens -> {"open", "woken", "timeout"}]
      BY <1>6, CompleteTypes DEF Inv, TypeOK
    <3> QED
      BY <1>1, <1>4, <2>5, <3>1, <3>2, <3>3 DEF Inv, TypeOK
  <2>8. \A e \in E : Live(e) /\ \E l \in Keys : e \in Elements(queue[l])
    BY <2>1, <2>2
  <2>9. \A l \in Keys : \A e \in Elements(queue'[l]) :
            e \notin E /\ \E m \in Keys : e \in Elements(queue[m])
    <3> SUFFICES ASSUME NEW l \in Keys, NEW e \in Elements(queue'[l]), e \in E PROVE FALSE
      BY <2>6
    <3>1. e \in Elements(queue[l]) /\ e \in Elements(queue[k]) /\ e.gen = gen
      BY <2>2, <2>6
    <3>2. l = k
      BY <2>1, <3>1, SameEntry DEF Inv
    <3> QED
      BY <2>6, <3>1, <3>2
  <2>10. ASSUME NEW u \in Tasks, NEW l, NEW e, Waits(u, l, e), e \notin E
         PROVE  e \in Elements(queue'[futex_pa[u]])
    <3>1. l \in Keys /\ l = futex_pa[u] /\ e \in Elements(queue[l]) /\ Live(e)
      BY <2>10, WaitsLive DEF Waits
    <3>2. l = k => e.gen # gen
      BY <2>2, <2>10, <3>1
    <3> QED
      BY <2>6, <3>1, <3>2
  <2>11. \A u \in Tasks : futex_key[u] # 0 => futex_pa[u] \in Keys
    BY DEF Inv, Queued
  <2>12. ASSUME NEW u \in Tasks, pc[u] \in Waiting, futex_timedout'[u], ~futex_timedout[u]
         PROVE  outcome'[call[u].gen] = "timeout"
    <3>1. u = w /\ \E e : e \in E
      BY <2>4, <2>12
    <3>2. PICK e : e \in E
      BY <3>1
    <3>3. e \in Elements(queue[k]) /\ e.gen = gen /\ Live(e)
      BY <2>2, <3>2
    <3>4. e.task \in Tasks
      BY <2>1, <3>3, QueueEntries DEF Inv
    <3>5. Has(e.task, gen) /\ Has(w, gen)
      BY <1>6, <2>1, <3>3 DEF Has
    <3>6. e.task = u
      BY <1>2, <3>1, <3>4, <3>5 DEF Inv, Owned
    <3>7. QueuedAt(u)
      BY DEF Inv, Queued
    <3>8. call[u].gen = gen
      BY <1>6, <2>12, <3>1, <3>3, <3>6, <3>7 DEF Live, QueuedAt
    <3> QED
      BY <1>2, <1>6, <3>2, <3>3, <3>8 DEF Complete
  <2>13. Owned' /\ Open' /\ Queued' /\ Timely'
    <3>1. UNCHANGED <<next_key, result>> /\ "timeout" \in {"woken", "timeout"}
      BY <1>1
    <3>2. \A u \in Tasks : \A l, e : Waits(u, l, e) /\ e \notin E => e \in Elements(queue'[futex_pa[u]])
      BY <2>10
    <3>3. \A u \in Tasks : pc[u] \in Waiting /\ futex_timedout'[u] =>
              futex_timedout[u] \/ outcome'[call[u].gen] = "timeout"
      BY <2>12
    <3> QED
      BY <1>3, <1>6, <2>8, <2>9, <2>11, <3>1, <3>2, <3>3, Completes
  <2>14. Single'
    BY <2>6, Shrinks DEF Inv
  <2> QED
    BY <1>3, <2>7, <2>13, <2>14 DEF Inv
<1> QED
  BY <1>5, <1>6 DEF HandleTimer

\* FUTEX_WAKE completes the matching waiters up to where it stops, and keeps the rest.
LEMMA DoWakeInv ==
    ASSUME Inv, mix' = mix, NEW t \in Tasks, DoWake(t)
    PROVE  Inv'
<1> DEFINE c == call[t]
           q == queue[c.key]
           matches(e) == e.bits \cap c.bits # {}
           hits == {i \in DOMAIN q : matches(q[i]) /\ Live(q[i])}
           stop == NthOrLast(hits, c.n, Len(q))
           S == {i \in 1 .. stop : ~matches(q[i])}
           E == {q[i] : i \in {j \in hits : j <= stop}}
           A == SubSeq(q, stop + 1, Len(q))
           B == Chosen(q, S)
<1>1. /\ pc[t] = "wake" /\ Return(t) /\ word' = word /\ present' = present
      /\ futex_timedout' = futex_timedout /\ next_key' = next_key /\ result' = result
      /\ timers' = timers /\ queue' = [queue EXCEPT ![c.key] = A \o B]
      /\ Complete(E, futex_pa, "woken")
  BY DEF DoWake
<1>2. c.key \in Keys /\ c.n \in Nat \ {0}
  <2>1. c \in WakeCall
    BY <1>1 DEF Inv, Called, CallOf
  <2> QED
    BY <2>1 DEF WakeCall
<1>3. q \in Seq(Entry) /\ Len(q) \in Nat /\ DOMAIN q = 1 .. Len(q) /\ Distinct(q)
  <2>1. q \in Seq(Entry) /\ Distinct(q)
    BY <1>2, QueueEntries DEF Inv, Single
  <2> QED
    BY <2>1, SMT
<1> HIDE DEF c, q
<1>4. hits \in SUBSET (1 .. Len(q))
  BY <1>3
<1> HIDE DEF hits
<1>5. stop \in 0 .. Len(q)
  BY <1>2, <1>3, <1>4, StopRange
<1>6. \A i \in DOMAIN q : /\ i > stop \/ i \in 1 .. stop
                          /\ i \in 1 .. stop => i <= stop /\ ~(i > stop)
                          /\ i <= stop => ~(i > stop)
  BY <1>3, <1>5, SMT
<1>7. S \in SUBSET DOMAIN q
  <2>1. \A i \in 1 .. stop : i \in 1 .. Len(q)
    BY <1>3, <1>5, SMT
  <2> QED
    BY <1>3, <2>1
<1> HIDE DEF stop
<1>8. /\ A \in Seq(Entry) /\ Elements(A) = {q[i] : i \in {j \in DOMAIN q : j > stop}} /\ Distinct(A)
  BY <1>3, <1>5, SuffixEntries
<1>9. /\ B \in Seq(Entry) /\ Elements(B) = {q[i] : i \in S} /\ Distinct(B)
  <2> HIDE DEF S
  <2> QED
    BY <1>3, <1>7, ChosenEntries
<1> HIDE DEF A, B
<1>10. \A e \in Elements(A) : e \in Elements(q) /\ e \notin E
  <2> SUFFICES ASSUME NEW e \in Elements(A) PROVE e \in Elements(q) /\ e \notin E
    OBVIOUS
  <2>1. PICK i \in DOMAIN q : i > stop /\ e = q[i]
    BY <1>8
  <2>2. ASSUME NEW j \in hits, j <= stop PROVE q[j] # e
    <3>1. j \in DOMAIN q
      BY <1>3, <1>4
    <3>2. j # i
      BY <1>6, <2>1, <2>2
    <3> QED
      BY <1>3, <2>1, <3>1, <3>2 DEF Distinct
  <2> QED
    BY <2>1, <2>2 DEF Elements
<1>11. \A e \in Elements(B) : e \in Elements(q) /\ e \notin E
  <2> SUFFICES ASSUME NEW e \in Elements(B) PROVE e \in Elements(q) /\ e \notin E
    OBVIOUS
  <2>1. PICK i \in S : e = q[i]
    BY <1>9
  <2>2. i \in DOMAIN q /\ ~matches(e)
    BY <1>7, <2>1
  <2>3. ASSUME NEW j \in hits PROVE q[j] # e
    BY <2>2, <2>3 DEF hits
  <2> QED
    BY <2>1, <2>2, <2>3 DEF Elements
<1>12. \A e \in Elements(A), f \in Elements(B) : e.gen # f.gen
  <2> SUFFICES ASSUME NEW e \in Elements(A), NEW f \in Elements(B), e.gen = f.gen PROVE FALSE
    OBVIOUS
  <2>1. PICK i \in DOMAIN q : i > stop /\ e = q[i]
    BY <1>8
  <2>2. PICK j \in S : f = q[j]
    BY <1>9
  <2>3. j \in DOMAIN q /\ j # i
    BY <1>6, <1>7, <2>1, <2>2
  <2> QED
    BY <1>3, <2>1, <2>2, <2>3 DEF Distinct
<1>13. ASSUME NEW e \in Elements(q), Live(e), e \notin E PROVE e \in Elements(A) \cup Elements(B)
  <2>1. PICK i \in DOMAIN q : e = q[i]
    BY <1>13 DEF Elements
  <2>2. CASE i > stop
    BY <1>8, <2>1, <2>2
  <2>3. CASE i \in 1 .. stop
    <3>1. i \notin hits
      BY <1>6, <1>13, <2>1, <2>3
    <3>2. ~matches(q[i])
      BY <1>13, <2>1, <3>1 DEF hits
    <3> QED
      BY <1>9, <2>1, <2>3, <3>2
  <2> QED
    BY <1>6, <2>1, <2>2, <2>3
<1>14. /\ A \o B \in Seq(Entry) /\ Elements(A \o B) = Elements(A) \cup Elements(B) /\ Distinct(A \o B)
  BY <1>8, <1>9, <1>12, JoinedEntries
<1>15. \A e \in E : Live(e) /\ e \in Elements(q)
  BY <1>3, <1>4 DEF hits, Elements
<1> HIDE DEF E, S, matches
<1>16. ASSUME NEW k \in Keys
       PROVE  /\ queue'[k] \in Seq(Entry) /\ Distinct(queue'[k])
              /\ Elements(queue'[k]) \subseteq Elements(queue[k])
              /\ k # c.key => Elements(queue'[k]) = Elements(queue[k])
              /\ k = c.key => Elements(queue'[k]) = Elements(A) \cup Elements(B)
  <2>1. CASE k = c.key
    <3>1. queue'[k] = A \o B
      BY <1>1, <2>1 DEF Inv, TypeOK
    <3> QED
      BY <1>10, <1>11, <1>14, <2>1, <3>1 DEF q
  <2>2. CASE k # c.key
    <3>1. queue'[k] = queue[k]
      BY <1>1, <2>2 DEF Inv, TypeOK
    <3>2. queue[k] \in Seq(Entry) /\ Distinct(queue[k])
      BY QueueEntries DEF Inv, Single
    <3> QED
      BY <2>2, <3>1, <3>2
  <2> QED
    BY <2>1, <2>2
<1>17. TypeOK'
  <2>1. queue' \in [Keys -> Seq(Entry)]
    BY <1>1, <1>16 DEF Inv, TypeOK
  <2>2. \A l \in Keys : queue'[l] # <<>> => l \in present
    BY <1>16, PresentKept DEF Inv
  <2>3. /\ status' \in [Tasks -> {"Running", "Blocked", "Ready"}]
        /\ futex_key' \in [Tasks -> 0 .. MaxWaits]
        /\ futex_pa' \in [Tasks -> Keys \cup {NoKey}]
        /\ outcome' \in [Gens -> {"open", "woken", "timeout"}]
    BY <1>1, CompleteTypes DEF Inv, TypeOK
  <2> QED
    BY <1>1, <2>1, <2>2, <2>3 DEF Inv, TypeOK
<1>18. \A k \in Keys : \A e \in Elements(queue'[k]) :
           e \notin E /\ \E l \in Keys : e \in Elements(queue[l])
  <2> SUFFICES ASSUME NEW k \in Keys, NEW e \in Elements(queue'[k]) PROVE e \notin E
    BY <1>16
  <2>1. CASE k = c.key
    BY <1>10, <1>11, <1>16, <2>1
  <2>2. CASE k # c.key
    <3> SUFFICES ASSUME e \in E PROVE FALSE
      OBVIOUS
    <3>1. e \in Elements(queue[k]) /\ e \in Elements(queue[c.key])
      BY <1>15, <1>16 DEF q
    <3> QED
      BY <1>2, <2>2, <3>1, SameEntry DEF Inv
  <2> QED
    BY <2>1, <2>2
<1>19. \A u \in Tasks : \A k, e : Waits(u, k, e) /\ e \notin E => e \in Elements(queue'[futex_pa[u]])
  <2> SUFFICES ASSUME NEW u \in Tasks, NEW k, NEW e, Waits(u, k, e), e \notin E
               PROVE  e \in Elements(queue'[futex_pa[u]])
    OBVIOUS
  <2>1. k \in Keys /\ k = futex_pa[u] /\ e \in Elements(queue[k]) /\ Live(e)
    BY WaitsLive DEF Waits
  <2> QED
    BY <1>13, <1>16, <2>1 DEF q
<1>20. Called' /\ Owned' /\ Open' /\ Queued' /\ Timely'
  <2>1. t \in Procs /\ Called' /\ Moves(t) /\ pc'[t] = "user"
    BY <1>1, ReturnMoves DEF Inv, Procs
  <2>2. UNCHANGED <<next_key, result>> /\ "woken" \in {"woken", "timeout"}
    BY <1>1
  <2>3. \A u \in Tasks : pc[u] \in Waiting /\ futex_timedout'[u] =>
            futex_timedout[u] \/ outcome'[call[u].gen] = "timeout"
    BY <1>1
  <2>4. \A u \in Tasks : futex_key[u] # 0 => futex_pa[u] \in Keys
    BY DEF Inv, Queued
  <2>5. \A e \in E : Live(e) /\ \E k \in Keys : e \in Elements(queue[k])
    BY <1>2, <1>15 DEF q
  <2> QED
    BY <1>1, <1>18, <1>19, <2>1, <2>2, <2>3, <2>4, <2>5, Completes
<1>21. Single'
  BY <1>16, Shrinks DEF Inv
<1> QED
  BY <1>17, <1>20, <1>21 DEF Inv

\* FUTEX_REQUEUE completes the first waiters, moves the next ones to the other word and
\* keeps the rest.
LEMMA DoRequeueInv ==
    ASSUME Inv, mix' = mix, NEW t \in Tasks, DoRequeue(t)
    PROVE  Inv'
<1> DEFINE c == call[t]
           q == queue[c.key]
           live == {i \in DOMAIN q : Live(q[i])}
           stop == IF c.n = 0 THEN 0 ELSE NthOrLast(live, c.n, Len(q))
           rest == {i \in live : i > stop}
           stop2 == IF c.n2 = 0 THEN stop ELSE NthOrLast(rest, c.n2, Len(q))
           moving == {i \in rest : i <= stop2}
           moved == Chosen(q, moving)
           kept == Retained(q, stop2 + 1)
           old == IF c.key = c.key2 THEN kept \o moved ELSE kept
           W == {q[i] : i \in live \ rest}
           M == {q[i].task : i \in moving}
           pa == [u \in Tasks |-> IF u \in M THEN c.key2 ELSE futex_pa[u]]
<1>1. /\ pc[t] = "requeue" /\ Return(t) /\ word' = word /\ next_key' = next_key
      /\ result' = result /\ timers' = timers
  BY DEF DoRequeue
<1>2. c.key \in Keys /\ c.key2 \in Keys /\ c.n \in Nat /\ c.n2 \in Nat
  <2>1. c \in RequeueCall
    BY <1>1 DEF Inv, Called, CallOf
  <2> QED
    BY <2>1 DEF RequeueCall
<1>3. t \in Procs /\ Called' /\ Moves(t) /\ pc'[t] = "user"
  BY <1>1, ReturnMoves DEF Inv, Procs
<1>4. CASE UNCHANGED <<tcbVars, queueVars, outcome>>
  <2>1. Steady /\ status' = status /\ futex_timedout' = futex_timedout
    BY <1>1, <1>4 DEF Steady, tcbVars, queueVars
  <2>2. Local' /\ \A u : Same(u)
    BY <1>1, <2>1, LocalKept
  <2>3. CallOf(t)'
    BY <1>3 DEF CallOf, TaskLabels, Registering, Waiting
  <2>4. \A g \in Gens : ~Draws(t, g)' /\ pc'[t] \notin Registering /\ pc'[t] \notin Waiting
    BY <1>3, NoDraw
  <2> QED
    BY <1>3, <2>1, <2>2, <2>3, <2>4, TaskQuiet DEF Same, Registering, Waiting
<1>5. CASE /\ Complete(W, pa, "woken") /\ futex_timedout' = futex_timedout
           /\ queue' = [k \in Keys |-> IF k = c.key THEN old
                                       ELSE IF k = c.key2 THEN queue[k] \o moved ELSE queue[k]]
           /\ present' = (present \ {c.key}) \cup KeyFor(old, c.key) \cup KeyFor(moved, c.key2)
  <2>1. q \in Seq(Entry) /\ Len(q) \in Nat /\ DOMAIN q = 1 .. Len(q) /\ Distinct(q)
    <3>1. q \in Seq(Entry) /\ Distinct(q)
      BY <1>2, QueueEntries DEF Inv, Single
    <3> QED
      BY <3>1, SMT
  <2> HIDE DEF c, q
  <2>2. live \in SUBSET (1 .. Len(q)) /\ \A i \in live : Live(q[i])
    BY <2>1
  <2>3. \A i \in DOMAIN q : Live(q[i]) => i \in live
    OBVIOUS
  <2> HIDE DEF live
  <2>4. stop \in 0 .. Len(q)
    <3>1. 0 \in 0 .. Len(q)
      BY <2>1, SMT
    <3> QED
      BY <1>2, <2>1, <2>2, <3>1, StopRange
  <2> HIDE DEF stop
  <2>5. rest \in SUBSET (1 .. Len(q)) /\ rest \subseteq live
    BY <2>2
  <2>6. stop2 \in 0 .. Len(q)
    <3> HIDE DEF rest
    <3> QED
      BY <1>2, <2>1, <2>4, <2>5, StopRange
  <2> HIDE DEF stop2
  <2>7. moving \in SUBSET DOMAIN q /\ moving \subseteq live /\ moving \subseteq rest
    BY <2>1, <2>2
  <2>8. \A i \in DOMAIN q : i > stop2 \/ i <= stop2
    BY <2>1, <2>4, <2>6, Beyond
  <2>9. \A i \in DOMAIN q : ~(i > stop2 /\ i <= stop2)
    BY <2>1, <2>4, <2>6, Beyond
  <2>10. \A i \in DOMAIN q : i > stop2 => i > stop
    <3>1. stop2 \in rest \cup {Len(q), stop}
      <4> HIDE DEF rest
      <4> QED
        BY <1>2, <2>1, <2>5, StopRange DEF stop2
    <3>2. stop2 = Len(q) \/ stop2 = stop \/ stop2 > stop
      BY <3>1
    <3> QED
      BY <2>1, <2>4, <2>6, <3>2, Beyond
  <2>11. /\ kept \in Seq(Entry) /\ Elements(kept) = {q[i] : i \in {j \in DOMAIN q : j > stop2}}
         /\ Distinct(kept)
    BY <2>1, <2>6, SuffixEntries DEF Retained
  <2>12. moved \in Seq(Entry) /\ Elements(moved) = {q[i] : i \in moving} /\ Distinct(moved)
    <3> HIDE DEF moving
    <3> QED
      BY <2>1, <2>7, ChosenEntries
  <2> HIDE DEF kept, moved
  <2>13. ASSUME NEW e \in Elements(kept) PROVE e \in Elements(q) /\ e \notin W
    <3>1. PICK i \in DOMAIN q : i > stop2 /\ e = q[i]
      BY <2>11, <2>13
    <3>2. ASSUME NEW j \in live \ rest PROVE q[j] # e
      <4>1. j \in DOMAIN q
        BY <2>1, <2>2
      <4>2. j # i
        BY <2>10, <3>1, <3>2
      <4> QED
        BY <2>1, <3>1, <4>1, <4>2 DEF Distinct
    <3> QED
      BY <3>1, <3>2 DEF Elements
  <2>14. ASSUME NEW e \in Elements(moved) PROVE e \in Elements(q) /\ e \notin W /\ Live(e)
    <3>1. PICK i \in moving : e = q[i]
      BY <2>12, <2>14
    <3>2. ASSUME NEW j \in live \ rest PROVE q[j] # e
      <4>1. j \in DOMAIN q /\ i \in DOMAIN q /\ j # i
        BY <2>1, <2>2, <2>7, <3>1, <3>2
      <4> QED
        BY <2>1, <3>1, <4>1 DEF Distinct
    <3>3. i \in DOMAIN q /\ Live(q[i])
      BY <2>2, <2>7, <3>1
    <3> QED
      BY <3>1, <3>2, <3>3 DEF Elements
  <2>15. \A e \in Elements(kept), f \in Elements(moved) : e.gen # f.gen
    <3> SUFFICES ASSUME NEW e \in Elements(kept), NEW f \in Elements(moved), e.gen = f.gen PROVE FALSE
      OBVIOUS
    <3>1. PICK i \in DOMAIN q : i > stop2 /\ e = q[i]
      BY <2>11
    <3>2. PICK j \in moving : f = q[j]
      BY <2>12
    <3>3. j \in DOMAIN q /\ j # i
      BY <2>7, <2>9, <3>1, <3>2
    <3> QED
      BY <2>1, <3>1, <3>2, <3>3 DEF Distinct
  <2>16. ASSUME NEW e \in Elements(q), Live(e), e \notin W
         PROVE  e \in Elements(kept) \/ e \in Elements(moved)
    <3>1. PICK i \in DOMAIN q : e = q[i]
      BY <2>16 DEF Elements
    <3>2. i \in rest
      BY <2>3, <2>16, <3>1
    <3>3. i > stop2 \/ i \in moving
      BY <2>8, <3>1, <3>2
    <3> QED
      BY <2>11, <2>12, <3>1, <3>3
  <2>17. \A e \in W : Live(e) /\ e \in Elements(q)
    BY <2>1, <2>2 DEF Elements
  <2>18. \A u : u \in M <=> \E e \in Elements(moved) : e.task = u
    BY <2>12
  <2>19. /\ \A u \in Tasks : u \in M => pa[u] = c.key2
         /\ \A u \in Tasks : u \notin M => pa[u] = futex_pa[u]
         /\ pa \in [Tasks -> Keys \cup {NoKey}]
    <3> HIDE DEF M
    <3> QED
      BY <1>2 DEF Inv, TypeOK
  <2>20. /\ old \in Seq(Entry) /\ Distinct(old)
         /\ c.key = c.key2 => Elements(old) = Elements(kept) \cup Elements(moved)
         /\ c.key # c.key2 => Elements(old) = Elements(kept)
    <3>1. CASE c.key = c.key2
      BY <2>11, <2>12, <2>15, <3>1, JoinedEntries
    <3>2. CASE c.key # c.key2
      BY <2>11, <3>2
    <3> QED
      BY <3>1, <3>2
  <2>21. /\ queue'[c.key] = old
         /\ \A k \in Keys : k # c.key /\ k = c.key2 => queue'[k] = queue[k] \o moved
         /\ \A k \in Keys : k # c.key /\ k # c.key2 => queue'[k] = queue[k]
         /\ DOMAIN queue' = Keys /\ queue' = [k \in Keys |-> queue'[k]]
    BY <1>2, <1>5
  <2> HIDE DEF old, W, M, pa, moving, rest
  <2>22. ASSUME NEW k \in Keys, k # c.key, k = c.key2
         PROVE  /\ queue'[k] \in Seq(Entry) /\ Distinct(queue'[k])
                /\ Elements(queue'[k]) = Elements(queue[k]) \cup Elements(moved)
    <3>1. queue[k] \in Seq(Entry) /\ Distinct(queue[k])
      BY QueueEntries DEF Inv, Single
    <3>2. \A e \in Elements(queue[k]), f \in Elements(moved) : e.gen # f.gen
      BY <1>2, <2>14, <2>22 DEF Inv, Single, q
    <3> QED
      <4>1. queue'[k] = queue[k] \o moved
        BY <2>21, <2>22
      <4>2. /\ queue[k] \o moved \in Seq(Entry) /\ Distinct(queue[k] \o moved)
            /\ Elements(queue[k] \o moved) = Elements(queue[k]) \cup Elements(moved)
        BY <2>12, <3>1, <3>2, JoinedEntries
      <4> QED
        BY <4>1, <4>2
  <2>23. ASSUME NEW k \in Keys, k # c.key, k # c.key2
         PROVE  /\ queue'[k] \in Seq(Entry) /\ Distinct(queue'[k])
                /\ Elements(queue'[k]) = Elements(queue[k])
    BY <2>21, <2>23, QueueEntries DEF Inv, Single
  <2>24. \A k \in Keys : queue'[k] \in Seq(Entry) /\ Distinct(queue'[k])
    BY <2>20, <2>21, <2>22, <2>23
  \* An entry that was moved is under the second key, any other one where it was.
  <2>25. ASSUME NEW k \in Keys, NEW e \in Elements(queue'[k])
         PROVE  \E l \in Keys :
                    /\ e \in Elements(queue[l]) /\ e \notin W
                    /\ e \in Elements(moved) => k = c.key2
                    /\ e \notin Elements(moved) => k = l
    <3>1. CASE e \in Elements(moved) /\ k = c.key2
      BY <1>2, <2>14, <3>1 DEF q
    <3>2. CASE e \in Elements(kept) /\ k = c.key
      <4>1. e \notin Elements(moved)
        BY <2>15, <3>2
      <4> QED
        BY <1>2, <2>13, <3>2, <4>1 DEF q
    <3>3. CASE e \in Elements(queue[k]) /\ k # c.key
      <4>1. e \notin Elements(queue[c.key])
        BY <1>2, <3>3 DEF Inv, Single
      <4> QED
        BY <2>14, <2>17, <3>3, <4>1 DEF q
    <3>4. CASE k = c.key
      BY <2>20, <2>21, <2>25, <3>1, <3>2, <3>4
    <3>5. CASE k # c.key
      BY <2>22, <2>23, <2>25, <3>1, <3>3, <3>5
    <3> QED
      BY <3>4, <3>5
  <2>26. Single'
    <3>1. ASSUME NEW k \in Keys, NEW l \in Keys, NEW e \in Elements(queue'[k]),
                 NEW f \in Elements(queue'[l]), e.gen = f.gen
          PROVE  k = l
      <4>1. PICK i \in Keys :
                /\ e \in Elements(queue[i])
                /\ e \in Elements(moved) => k = c.key2
                /\ e \notin Elements(moved) => k = i
        BY <2>25
      <4>2. PICK j \in Keys :
                /\ f \in Elements(queue[j])
                /\ f \in Elements(moved) => l = c.key2
                /\ f \notin Elements(moved) => l = j
        BY <2>25
      <4>3. i = j /\ e = f
        BY <3>1, <4>1, <4>2, SameEntry DEF Inv
      <4> QED
        BY <4>1, <4>2, <4>3
    <3> QED
      BY <2>24, <3>1 DEF Single
  <2>27. TypeOK'
    <3>1. queue' \in [Keys -> Seq(Entry)]
      BY <2>21, <2>24
    <3>2. present' \subseteq Keys
      BY <1>2, <1>5 DEF KeyFor, Inv, TypeOK
    <3>3. ASSUME NEW k \in Keys, queue'[k] # <<>> PROVE k \in present'
      <4>1. CASE k = c.key
        BY <1>5, <2>21, <3>3, <4>1 DEF KeyFor
      <4>2. CASE k # c.key /\ k = c.key2 /\ moved # <<>>
        BY <1>5, <4>2 DEF KeyFor
      <4>3. CASE k # c.key /\ (k # c.key2 \/ moved = <<>>)
        <5>1. Elements(queue'[k]) = Elements(queue[k])
          BY <2>12, <2>22, <2>23, <4>3, NoEntries
        <5>2. k \in present
          BY <2>24, <3>3, <5>1, PresentKept DEF Inv
        <5> QED
          BY <1>5, <4>3, <5>2
      <4> QED
        BY <4>1, <4>2, <4>3
    <3>4. /\ status' \in [Tasks -> {"Running", "Blocked", "Ready"}]
          /\ futex_key' \in [Tasks -> 0 .. MaxWaits]
          /\ futex_pa' \in [Tasks -> Keys \cup {NoKey}]
          /\ outcome' \in [Gens -> {"open", "woken", "timeout"}]
      BY <1>5, <2>19, CompleteTypes DEF Inv
    <3> QED
      BY <1>1, <1>5, <3>1, <3>2, <3>3, <3>4 DEF Inv, TypeOK
  <2>28. ASSUME NEW u \in Tasks, NEW k, NEW e, Waits(u, k, e), e \notin W
         PROVE  e \in Elements(queue'[pa[u]])
    <3>1. k \in Keys /\ k = futex_pa[u] /\ e \in Elements(queue[k]) /\ Live(e) /\ e.task = u
      BY <2>28, WaitsLive DEF Waits
    <3>2. ASSUME NEW f \in Elements(moved), f.task = u PROVE f = e /\ k = c.key
      <4>1. f \in Elements(queue[c.key]) /\ Live(f)
        BY <2>14, <3>2 DEF q
      <4>2. Single /\ k \in Keys
        BY <3>1 DEF Inv
      <4>3. f = e /\ c.key = k
        BY <1>2, <2>28, <3>2, <4>1, <4>2, LiveOwner
      <4> QED
        BY <4>3
    <3>3. CASE e \in Elements(moved)
      <4>1. pa[u] = c.key2
        BY <2>18, <2>19, <3>1, <3>3
      <4>2. CASE c.key2 = c.key
        BY <2>20, <2>21, <3>3, <4>1, <4>2
      <4>3. CASE c.key2 # c.key
        BY <1>2, <2>22, <3>3, <4>1, <4>3
      <4> QED
        BY <4>2, <4>3
    <3>4. CASE e \notin Elements(moved)
      <4>1. pa[u] = k
        BY <2>18, <2>19, <3>1, <3>2, <3>4
      <4>2. CASE k = c.key
        <5>1. e \in Elements(kept)
          BY <2>16, <2>28, <3>1, <3>4, <4>2 DEF q
        <5> QED
          BY <2>20, <2>21, <4>1, <4>2, <5>1
      <4>3. CASE k # c.key
        BY <2>22, <2>23, <3>1, <4>1, <4>3
      <4> QED
        BY <4>2, <4>3
    <3> QED
      BY <3>3, <3>4
  <2>29. Owned' /\ Open' /\ Queued' /\ Timely'
    <3>1. UNCHANGED <<next_key, result>> /\ "woken" \in {"woken", "timeout"}
      BY <1>1
    <3>2. \A u \in Tasks : pc[u] \in Waiting /\ futex_timedout'[u] =>
              futex_timedout[u] \/ outcome'[call[u].gen] = "timeout"
      BY <1>5
    <3>3. \A u \in Tasks : futex_key[u] # 0 => pa[u] \in Keys
      BY <1>2, <2>19 DEF Inv, Queued
    <3>4. \A e \in W : Live(e) /\ \E k \in Keys : e \in Elements(queue[k])
      BY <1>2, <2>17 DEF q
    <3>5. \A k \in Keys : \A e \in Elements(queue'[k]) :
              e \notin W /\ \E l \in Keys : e \in Elements(queue[l])
      BY <2>25
    <3>6. \A u \in Tasks : \A k, e : Waits(u, k, e) /\ e \notin W => e \in Elements(queue'[pa[u]])
      BY <2>28
    <3>7. Complete(W, pa, "woken")
      BY <1>5
    <3> QED
      BY <1>3, <3>1, <3>2, <3>3, <3>4, <3>5, <3>6, <3>7, Completes
  <2> QED
    BY <1>3, <2>26, <2>27, <2>29 DEF Inv
<1> QED
  BY <1>4, <1>5 DEF DoRequeue

-----------------------------------------------------------------------------
\* The theorems.

LEMMA StutterInv ==
    ASSUME Inv, UNCHANGED vars
    PROVE  Inv'
<1>1. /\ Steady /\ pc' = pc /\ call' = call /\ status' = status /\ futex_timedout' = futex_timedout
      /\ result' = result /\ word' = word /\ timers' = timers
  BY DEF vars, tcbVars, queueVars, history, Steady
<1>2. Moves(Timer) /\ pc'[Timer] \in {"user", "bump", "expire"}
      /\ (pc'[Timer] # "user" => call'[Timer] \in ExpireCall)
  BY <1>1 DEF Inv, Called, Moves
<1>3. Local'
  BY <1>1, LocalKept
<1> QED
  BY <1>1, <1>2, <1>3, TimerQuiet

LEMMA RequestInv ==
    ASSUME Inv, mix' = mix, NEW t \in mix.waiters \cup mix.callers, Request(t)
    PROVE  Inv'
<1>1. t \in Tasks /\ mix.keys \subseteq Keys /\ mix.timed \in BOOLEAN
  <2>1. mix \in Mix
    BY FutexAssumption DEF Inv, TypeOK
  <2> QED
    BY <2>1 DEF Mix
<1>2. Cardinality(Tasks) \in Nat \ {0}
  <2>1. Cardinality(Tasks) \in Nat
    BY FutexAssumption, FS_CardinalityType
  <2>2. Cardinality(Tasks) # 0
    BY <1>1, FutexAssumption, FS_EmptySet
  <2> QED
    BY <2>1, <2>2
<1>3. ASSUME NEW k \in mix.keys, NEW v \in Values, Store(t, k, v) PROVE Inv'
  BY <1>1, <1>3, StoreInv
<1>4. ASSUME NEW k \in mix.keys, NEW v \in Values, NEW b \in Bitsets, Wait(t, k, v, b, mix.timed)
      PROVE  Inv'
  BY <1>1, <1>4, WaitInv
<1>5. ASSUME NEW k \in mix.keys, NEW n \in {1, Cardinality(Tasks)}, NEW b \in Bitsets, Wake(t, k, n, b)
      PROVE  Inv'
  <2>1. n \in Nat \ {0} /\ k \in Keys
    BY <1>1, <1>2, SMT
  <2> QED
    BY <1>1, <1>5, <2>1, WakeInv
<1>6. ASSUME NEW k \in mix.keys, NEW n \in {0, 1}, NEW n2 \in {0, 1}, NEW k2 \in mix.keys,
             Requeue(t, k, n, k2, n2)
      PROVE  Inv'
  <2>1. n \in Nat /\ n2 \in Nat
    BY SMT
  <2>2. k \in Keys /\ k2 \in Keys
    BY <1>1
  <2> QED
    BY <1>1, <1>6, <2>1, <2>2, RequeueInv
<1>7. CASE Sleep(t)
  BY <1>1, <1>7, SleepInv
<1>8. CASE \E kind \in mix.signals : Signal(t, kind)
  BY <1>1, <1>8, SignalInv
<1> QED
  BY <1>3, <1>4, <1>5, <1>6, <1>7, <1>8 DEF Request

LEMMA TaskStepInv ==
    ASSUME Inv, mix' = mix, NEW t \in Tasks, TaskStep(t)
    PROVE  Inv'
<1>1. CASE EndSleep(t)
  BY <1>1, SleepInv
<1>2. CASE ReadWord(t)
  BY <1>2, ReadWordInv
<1>3. CASE LoadVersion(t)
  BY <1>3, LoadVersionInv
<1>4. CASE Publish(t)
  BY <1>4, PublishInv
<1>5. CASE AddTimer(t)
  BY <1>5, AddTimerInv
<1>6. CASE Resume(t)
  BY <1>6, ResumeInv
<1>7. CASE Bump(t)
  BY <1>7, BumpInv
<1>8. CASE Clean(t)
  BY <1>8, CleanInv
<1>9. CASE DoWake(t)
  BY <1>9, DoWakeInv
<1>10. CASE DoRequeue(t)
  BY <1>10, DoRequeueInv
<1>11. CASE SignalWake(t) \/ HandleSignal(t)
  BY <1>11, SignalInv
<1> QED
  BY <1>1, <1>2, <1>3, <1>4, <1>5, <1>6, <1>7, <1>8, <1>9, <1>10, <1>11 DEF TaskStep

LEMMA NextInv ==
    ASSUME Inv, [Next]_vars
    PROVE  Inv'
<1>1. CASE \E t \in mix.waiters \cup mix.callers : Proceed(Request(t))
  BY <1>1, RequestInv DEF Proceed
<1>2. CASE \E t \in Tasks : Proceed(TaskStep(t))
  BY <1>2, TaskStepInv DEF Proceed
<1>3. CASE Proceed(TimerStep)
  BY <1>3, ExpireInv, BumpTimerInv, HandleTimerInv DEF Proceed, TimerStep
<1>4. CASE UNCHANGED vars
  BY <1>4, StutterInv
<1> QED
  BY <1>1, <1>2, <1>3, <1>4 DEF Next

\* Every state of the futexes satisfies the inductive invariant: generations belong to
\* one thread, queues hold each at most once, and blocked threads are queued.
THEOREM FutexInvariance == Spec => []Inv
<1>1. Init => Inv
  BY InitInv
<1>2. Inv /\ [Next]_vars => Inv'
  BY NextInv
<1> QED
  BY <1>1, <1>2, PTL DEF Spec

\* Every variable keeps its type, and a queue with waiters has its map entry.
THEOREM FutexTypes == Spec => []TypeOK
<1>1. Inv => TypeOK
  BY DEF Inv
<1> QED
  BY <1>1, FutexInvariance, PTL

\* No waiter is lost: whatever is woken, moved, timed out or interrupted, a thread that
\* futex_wait_bitset has blocked is in the queue that its TCB names.
THEOREM WaitersQueued == Spec => []WaiterIsQueued
<1>1. Inv => WaiterIsQueued
  <2> SUFFICES ASSUME Inv, NEW t \in Tasks, InWait(t), status[t] = "Blocked"
               PROVE  /\ futex_pa[t] \in present
                      /\ \E e \in Entries(futex_pa[t]) : e.task = t /\ e.gen = futex_key[t]
    BY DEF WaiterIsQueued
  <2>1. PICK k, e : Waits(t, k, e)
    BY BlockedWaits DEF InWait, Waiting
  <2>2. k \in Keys /\ k = futex_pa[t] /\ e \in Elements(queue[k]) /\ e.task = t /\ e.gen = futex_key[t]
    BY <2>1 DEF Waits
  <2>3. k \in present
    <3>1. queue[k] # <<>>
      BY <2>2, NoEntries, QueueEntries DEF Inv
    <3> QED
      BY <2>2, <3>1 DEF Inv, TypeOK
  <2> QED
    BY <2>2, <2>3 DEF Entries, Elements
<1> QED
  BY <1>1, FutexInvariance, PTL

\* A wait has one entry in all queues together, also while futex_requeue moves it, so
\* one wakeup completes one wait.
THEOREM EntriesUnique == Spec => []OneEntryPerWait
<1>1. Inv => OneEntryPerWait
  <2> SUFFICES ASSUME Inv, NEW k \in Keys, NEW l \in Keys, NEW i \in DOMAIN queue[k],
                      NEW j \in DOMAIN queue[l], queue[k][i].gen = queue[l][j].gen
               PROVE  k = l /\ i = j
    BY DEF OneEntryPerWait
  <2>0. queue[k][i] \in Elements(queue[k]) /\ queue[l][j] \in Elements(queue[l])
    BY DEF Elements
  <2>1. k = l
    BY <2>0 DEF Inv, Single
  <2> QED
    BY <2>1 DEF Inv, Single, Distinct
<1> QED
  BY <1>1, FutexInvariance, PTL

\* futex_wait_bitset reports ETIMEDOUT only for a wait that the timer completed.
THEOREM TimeoutsReal == Spec => []TimeoutIsReal
<1>1. Inv => TimeoutIsReal
  BY DEF Inv, Timely, Reported, TimeoutIsReal
<1> QED
  BY <1>1, FutexInvariance, PTL
=============================================================================
