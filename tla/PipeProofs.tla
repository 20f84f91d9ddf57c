----------------------------- MODULE PipeProofs -----------------------------
(***************************************************************************)
(* The first part is about the segments of a pipe.  The bytes of a         *)
(* concatenation are the bytes of its parts one after the other, and what  *)
(* a request takes and what it leaves, the segment it cuts included, are   *)
(* the first len bytes and the others.  Induction over the number of       *)
(* segments rests on the well-foundedness of < in the library.             *)
(*                                                                         *)
(* The second part is, for any threads, pipes and scripts of Pipe: a       *)
(* buffer stays within its capacity, nobody sleeps through a hangup, and a *)
(* thread that has its end of the pipe to itself never sleeps beside data  *)
(* or space.                                                               *)
(*                                                                         *)
(* The third part shows that Pipe implements ByteChannel.  Each pipe's     *)
(* segments are one sequence of bytes, the count kept beside them is its   *)
(* length, and every step puts bytes at its end, takes them from its       *)
(* front, passes them to another pipe, or leaves it alone.                 *)
(***************************************************************************)
EXTENDS PipeChannel, WellFoundedInduction, TLAPS

\* A leaf that does not name its prover is for Zenon.
USE Zenon

-----------------------------------------------------------------------------
\* A nonempty set of naturals has a least element.

LessThan == {ss \in Nat \X Nat : ss[1] < ss[2]}

\* The library's well-foundedness of <, for the relation as a set.
LEMMA LessThanWellFounded == IsWellFoundedOn(LessThan, Nat)
<1>1. IsWellFoundedOn(OpToRel(<, Nat), Nat)
  BY NatLessThanWellFounded
<1> QED
  BY <1>1 DEF OpToRel, LessThan

\* The least-number principle.
LEMMA Least ==
    ASSUME NEW S \in SUBSET Nat, S # {}
    PROVE  \E n \in S : \A m \in S : n <= m
<1>1. \E x \in S : \A y \in S : ~(<<y, x>> \in LessThan)
  BY LessThanWellFounded, WFMin
<1>2. \A x, y \in Nat : <<y, x>> \notin LessThan => x <= y
  <2> SUFFICES ASSUME NEW x \in Nat, NEW y \in Nat, y < x
               PROVE  <<y, x>> \in LessThan
    BY SMT
  <2> QED
    BY DEF LessThan
<1> QED
  BY <1>1, <1>2

-----------------------------------------------------------------------------

\* A segment holds at least one byte.
Segs == Seq(Seq(Nat) \ {<<>>})

\* f counts the bytes of the first 0, 1, ..., i segments of q.
Counts(f, q, i) ==
    f = [j \in 0 .. i |-> IF j = 0 THEN 0 ELSE f[j - 1] + Len(q[j])]

\* Induction: what holds of 0 and goes from j to j + 1 below n holds up to n.
LEMMA UpTo ==
    ASSUME NEW n \in Nat, NEW S, 0 \in S,
           \A j \in 0 .. n - 1 : j \in S => j + 1 \in S
    PROVE  \A j \in 0 .. n : j \in S
<1> DEFINE B == {j \in 0 .. n : j \notin S}
<1> SUFFICES B = {}
  OBVIOUS
<1> SUFFICES ASSUME B # {} PROVE FALSE
  OBVIOUS
<1>1. B \in SUBSET Nat
  BY SMT
<1>2. PICK k \in B : \A m \in B : k <= m
  BY <1>1, Least
<1>3. k \in 1 .. n /\ k \notin S
  BY <1>2, SMT
<1>4. k - 1 \in 0 .. n - 1 /\ k - 1 \notin B /\ k - 1 + 1 = k
  BY <1>2, <1>3, SMT
<1>5. k - 1 \in S
  BY <1>4, SMT
<1> QED
  BY <1>3, <1>4, <1>5

\* The counting function exists.
LEMMA CountsExist ==
    ASSUME NEW q \in Segs, NEW i \in 0 .. Len(q)
    PROVE  \E f : Counts(f, q, i) /\ f \in [0 .. i -> Nat]
<1> DEFINE S == {j \in 0 .. Len(q) : \E f : Counts(f, q, j) /\ f \in [0 .. j -> Nat]}
<1>0. Len(q) \in Nat /\ \A j \in 1 .. Len(q) : Len(q[j]) \in Nat
  BY SMT DEF Segs
<1>1. 0 \in S
  <2> DEFINE f == [j \in 0 .. 0 |-> 0]
  <2>1. Counts(f, q, 0) /\ f \in [0 .. 0 -> Nat]
    BY SMT DEF Counts
  <2> QED
    BY <1>0, <2>1, SMT
<1>2. ASSUME NEW j \in 0 .. Len(q) - 1, j \in S PROVE j + 1 \in S
  <2>1. PICK f : Counts(f, q, j) /\ f \in [0 .. j -> Nat]
    BY <1>2
  <2> DEFINE g == [k \in 0 .. j + 1 |-> IF k = j + 1 THEN f[j] + Len(q[j + 1]) ELSE f[k]]
  <2>2. g \in [0 .. j + 1 -> Nat]
    BY <1>0, <2>1, SMT
  <2>3. ASSUME NEW k \in 0 .. j + 1
        PROVE  g[k] = IF k = 0 THEN 0 ELSE g[k - 1] + Len(q[k])
    <3>1. \A m \in 0 .. j : f[m] = IF m = 0 THEN 0 ELSE f[m - 1] + Len(q[m])
      BY <2>1, SMT DEF Counts
    <3>2. CASE k = j + 1
      BY <1>0, <2>1, <3>2, SMT
    <3>3. CASE k # j + 1
      <4>1. k \in 0 .. j /\ (k # 0 => k - 1 \in 0 .. j)
        BY <3>3, SMT
      <4>2. g[k] = f[k] /\ (k # 0 => g[k - 1] = f[k - 1])
        BY <4>1, SMT
      <4> QED
        BY <3>1, <4>1, <4>2
    <3> QED
      BY <3>2, <3>3
  <2>4. Counts(g, q, j + 1)
    BY <2>3, Zenon DEF Counts
  <2>5. j + 1 \in 0 .. Len(q)
    BY <1>0, SMT
  <2> QED
    BY <2>2, <2>4, <2>5
<1> HIDE DEF S
<1>3. \A j \in 0 .. Len(q) : j \in S
  BY <1>0, <1>1, <1>2, UpTo
<1> QED
  BY <1>3 DEF S

\* Two of them agree as far as both go.
LEMMA CountsAgree ==
    ASSUME NEW q \in Segs, NEW i \in Nat, NEW k \in Nat, i <= k,
           NEW f, Counts(f, q, i), NEW g, Counts(g, q, k)
    PROVE  \A j \in 0 .. i : f[j] = g[j]
<1> DEFINE S == {j \in 0 .. i : f[j] = g[j]}
<1>1. \A j \in 0 .. i : f[j] = IF j = 0 THEN 0 ELSE f[j - 1] + Len(q[j])
  BY DEF Counts
<1>2. \A j \in 0 .. i : g[j] = IF j = 0 THEN 0 ELSE g[j - 1] + Len(q[j])
  <2>1. \A j \in 0 .. i : j \in 0 .. k
    BY SMT
  <2> QED
    BY <2>1 DEF Counts
<1>3. 0 \in S
  BY <1>1, <1>2, SMT
<1>4. ASSUME NEW j \in 0 .. i - 1, j \in S PROVE j + 1 \in S
  <2>1. j + 1 \in 0 .. i /\ j + 1 # 0 /\ j + 1 - 1 = j
    BY SMT
  <2>2. f[j + 1] = f[j] + Len(q[j + 1]) /\ g[j + 1] = g[j] + Len(q[j + 1])
    BY <1>1, <1>2, <2>1, SMT
  <2> QED
    BY <1>4, <2>1, <2>2
<1> HIDE DEF S
<1>5. \A j \in 0 .. i : j \in S
  BY <1>3, <1>4, UpTo
<1> QED
  BY <1>5 DEF S

\* Start is that function.
LEMMA StartIsCount ==
    ASSUME NEW q \in Segs, NEW k \in 0 .. Len(q), NEW g, Counts(g, q, k),
           NEW i \in 0 .. k
    PROVE  Start(q, i) = g[i]
<1> DEFINE h == CHOOSE f : Counts(f, q, i)
<1>0. Len(q) \in Nat
  BY SMT DEF Segs
<1>1. i \in 0 .. Len(q) /\ i \in Nat /\ k \in Nat /\ i <= k /\ i \in 0 .. i
  BY <1>0, SMT
<1>2. Counts(h, q, i)
  BY <1>1, CountsExist
<1>3. Start(q, i) = h[i]
  BY DEF Start, Counts
<1> HIDE DEF h
<1> QED
  BY <1>1, <1>2, <1>3, CountsAgree, SMT

\* Start counts from 0, by the length of each segment.
LEMMA StartFacts ==
    ASSUME NEW q \in Segs
    PROVE  /\ Start(q, 0) = 0
           /\ \A i \in 0 .. Len(q) : Start(q, i) \in Nat
           /\ \A i \in 1 .. Len(q) : Start(q, i) = Start(q, i - 1) + Len(q[i])
<1>0. Len(q) \in 0 .. Len(q) /\ Len(q) \in Nat /\ 0 \in 0 .. Len(q)
  BY SMT DEF Segs
<1>1. PICK f : Counts(f, q, Len(q)) /\ f \in [0 .. Len(q) -> Nat]
  BY <1>0, CountsExist
<1>2. \A i \in 0 .. Len(q) : Start(q, i) = f[i]
  BY <1>0, <1>1, StartIsCount
<1>3. \A j \in 0 .. Len(q) : f[j] = IF j = 0 THEN 0 ELSE f[j - 1] + Len(q[j])
  BY <1>1 DEF Counts
<1>4. ASSUME NEW i \in 1 .. Len(q) PROVE Start(q, i) = Start(q, i - 1) + Len(q[i])
  <2>1. i \in 0 .. Len(q) /\ i - 1 \in 0 .. Len(q) /\ i # 0
    BY <1>0, SMT
  <2>2. f[i] = f[i - 1] + Len(q[i])
    BY <1>3, <2>1
  <2> QED
    BY <1>2, <2>1, <2>2
<1>5. Start(q, 0) = 0
  BY <1>0, <1>2, <1>3
<1>6. \A i \in 0 .. Len(q) : Start(q, i) \in Nat
  BY <1>1, <1>2
<1> QED
  BY <1>4, <1>5, <1>6

\* Sequences with the same elements are equal.
LEMMA SeqEqual ==
    ASSUME NEW S, NEW s \in Seq(S), NEW t \in Seq(S),
           Len(s) = Len(t), \A i \in 1 .. Len(s) : s[i] = t[i]
    PROVE  s = t
  BY SMT

\* The elements of a concatenation.
LEMMA ConcatNumbers ==
    ASSUME NEW s \in Seq(Nat), NEW t \in Seq(Nat)
    PROVE  /\ s \o t \in Seq(Nat) /\ Len(s \o t) = Len(s) + Len(t)
           /\ \A i \in 1 .. Len(s) : (s \o t)[i] = s[i]
           /\ \A i \in 1 .. Len(t) : (s \o t)[Len(s) + i] = t[i]
  BY SMT

\* The elements of a part of a sequence.
LEMMA PartFacts ==
    ASSUME NEW S, NEW s \in Seq(S), NEW m \in 1 .. Len(s) + 1, NEW n \in m - 1 .. Len(s)
    PROVE  /\ SubSeq(s, m, n) \in Seq(S) /\ Len(SubSeq(s, m, n)) = n - m + 1
           /\ \A i \in 1 .. n - m + 1 : SubSeq(s, m, n)[i] = s[m + i - 1]
  BY SMT

\* A sequence is any beginning of it followed by the rest.
LEMMA CutInTwo ==
    ASSUME NEW S, NEW s \in Seq(S), NEW x \in 0 .. Len(s)
    PROVE  SubSeq(s, 1, x) \o SubSeq(s, x + 1, Len(s)) = s
<1> DEFINE a == SubSeq(s, 1, x)
           b == SubSeq(s, x + 1, Len(s))
<1>0. /\ Len(s) \in Nat /\ x \in Nat /\ 1 \in 1 .. Len(s) + 1 /\ x \in 1 - 1 .. Len(s)
      /\ x + 1 \in 1 .. Len(s) + 1 /\ Len(s) \in x + 1 - 1 .. Len(s)
  BY SMT
<1>1. a \in Seq(S) /\ Len(a) = x - 1 + 1 /\ \A i \in 1 .. x - 1 + 1 : a[i] = s[1 + i - 1]
  BY <1>0, PartFacts
<1>2. /\ b \in Seq(S) /\ Len(b) = Len(s) - (x + 1) + 1
      /\ \A i \in 1 .. Len(s) - (x + 1) + 1 : b[i] = s[x + 1 + i - 1]
  BY <1>0, PartFacts, SMT
<1> HIDE DEF a, b
<1>3. /\ Len(a) = x /\ Len(b) = Len(s) - x
      /\ \A i \in 1 .. x : a[i] = s[i]
      /\ \A i \in 1 .. Len(s) - x : b[i] = s[x + i]
  BY <1>0, <1>1, <1>2, SMT
<1> DEFINE c == a \o b
<1>4. /\ c \in Seq(S) /\ Len(c) = Len(a) + Len(b)
      /\ \A i \in 1 .. Len(a) : c[i] = a[i]
      /\ \A i \in 1 .. Len(b) : c[Len(a) + i] = b[i]
  <2>1. a \in Seq(S) /\ b \in Seq(S)
    BY <1>1, <1>2
  <2>2. a \o b \in Seq(S) /\ Len(a \o b) = Len(a) + Len(b)
    BY <2>1, SMT
  <2>3. \A i \in 1 .. Len(a) : (a \o b)[i] = a[i]
    BY <2>1, SMT
  <2>4. \A i \in 1 .. Len(b) : (a \o b)[Len(a) + i] = b[i]
    BY <2>1, SMT
  <2> QED
    BY <2>2, <2>3, <2>4
<1> HIDE DEF c
<1>5. Len(c) = Len(s)
  BY <1>0, <1>3, <1>4, SMT
<1>6. ASSUME NEW i \in 1 .. Len(c) PROVE c[i] = s[i]
  <2>1. CASE i \in 1 .. x
    BY <1>3, <1>4, <2>1
  <2>2. CASE i \notin 1 .. x
    <3>1. i - x \in 1 .. Len(s) - x /\ x + (i - x) = i
      BY <1>0, <1>5, <2>2, SMT
    <3>2. c[x + (i - x)] = b[i - x] /\ b[i - x] = s[x + (i - x)]
      BY <1>3, <1>4, <3>1
    <3> QED
      BY <3>1, <3>2
  <2> QED
    BY <2>1, <2>2
<1>7. c = s
  BY <1>4, <1>5, <1>6, SeqEqual
<1> QED
  BY <1>7 DEF a, b, c

LEMMA WholePart ==
    ASSUME NEW S, NEW s \in Seq(S)
    PROVE  SubSeq(s, 1, Len(s)) = s
<1>1. Len(s) \in Nat /\ 1 \in 1 .. Len(s) + 1 /\ Len(s) \in 1 - 1 .. Len(s)
  BY SMT
<1>2. /\ SubSeq(s, 1, Len(s)) \in Seq(S) /\ Len(SubSeq(s, 1, Len(s))) = Len(s) - 1 + 1
      /\ \A i \in 1 .. Len(s) - 1 + 1 : SubSeq(s, 1, Len(s))[i] = s[1 + i - 1]
  BY <1>1, PartFacts
<1>3. Len(s) - 1 + 1 = Len(s) /\ \A i \in 1 .. Len(s) : 1 + i - 1 = i
  BY <1>1, SMT
<1> QED
  BY <1>2, <1>3, SeqEqual

\* A part of a sequence is its first element and the rest.
LEMMA FirstAndRest ==
    ASSUME NEW S, NEW s \in Seq(S), NEW m \in 1 .. Len(s)
    PROVE  SubSeq(s, m, Len(s)) = <<s[m]>> \o SubSeq(s, m + 1, Len(s))
<1> DEFINE a == SubSeq(s, m, Len(s))
           b == SubSeq(s, m + 1, Len(s))
           c == <<s[m]>> \o b
<1>0. /\ Len(s) \in Nat /\ m \in Nat /\ m <= Len(s) /\ s[m] \in S
      /\ m \in 1 .. Len(s) + 1 /\ Len(s) \in m - 1 .. Len(s)
      /\ m + 1 \in 1 .. Len(s) + 1 /\ Len(s) \in m + 1 - 1 .. Len(s)
  BY SMT
<1>1. /\ a \in Seq(S) /\ Len(a) = Len(s) - m + 1
      /\ \A i \in 1 .. Len(s) - m + 1 : a[i] = s[m + i - 1]
  BY <1>0, PartFacts
<1>2. /\ b \in Seq(S) /\ Len(b) = Len(s) - (m + 1) + 1
      /\ \A i \in 1 .. Len(s) - (m + 1) + 1 : b[i] = s[m + 1 + i - 1]
  BY <1>0, PartFacts, SMT
<1> HIDE DEF a, b
<1> DEFINE h == <<s[m]>>
<1>3. h \in Seq(S) /\ Len(h) = 1 /\ h[1] = s[m] /\ c = h \o b
  BY <1>0, SMT
<1> HIDE DEF h, c
<1>4. /\ c \in Seq(S) /\ Len(c) = Len(h) + Len(b)
      /\ \A i \in 1 .. Len(h) : c[i] = h[i]
      /\ \A i \in 1 .. Len(b) : c[Len(h) + i] = b[i]
  <2>1. h \in Seq(S) /\ b \in Seq(S)
    BY <1>2, <1>3
  <2>2. h \o b \in Seq(S) /\ Len(h \o b) = Len(h) + Len(b)
    BY <2>1, SMT
  <2>3. \A i \in 1 .. Len(h) : (h \o b)[i] = h[i]
    BY <2>1, SMT
  <2>4. \A i \in 1 .. Len(b) : (h \o b)[Len(h) + i] = b[i]
    BY <2>1, SMT
  <2> QED
    BY <1>3, <2>2, <2>3, <2>4
<1>5. Len(a) = Len(c)
  BY <1>0, <1>1, <1>2, <1>3, <1>4, SMT
<1>6. ASSUME NEW i \in 1 .. Len(a) PROVE a[i] = c[i]
  <2>1. CASE i = 1
    <3>1. 1 \in 1 .. Len(h) /\ m + 1 - 1 = m /\ 1 \in 1 .. Len(s) - m + 1
      BY <1>0, <1>3, SMT
    <3> QED
      BY <1>1, <1>3, <1>4, <2>1, <3>1
  <2>2. CASE i # 1
    <3>1. /\ i - 1 \in 1 .. Len(b) /\ i - 1 \in 1 .. Len(s) - (m + 1) + 1
          /\ Len(h) + (i - 1) = i /\ m + 1 + (i - 1) - 1 = m + i - 1
      BY <1>0, <1>1, <1>2, <1>3, <2>2, SMT
    <3>2. a[i] = s[m + i - 1]
      BY <1>1
    <3>3. c[Len(h) + (i - 1)] = b[i - 1] /\ b[i - 1] = s[m + 1 + (i - 1) - 1]
      BY <1>2, <1>4, <3>1
    <3> QED
      BY <3>1, <3>2, <3>3
  <2> QED
    BY <2>1, <2>2
<1> QED
  BY <1>1, <1>4, <1>5, <1>6, SeqEqual DEF a, b, c

\* The elements of a concatenation of segments.
LEMMA ConcatSegs ==
    ASSUME NEW q \in Segs, NEW r \in Segs
    PROVE  /\ q \o r \in Segs /\ Len(q \o r) = Len(q) + Len(r)
           /\ \A i \in 1 .. Len(q) : (q \o r)[i] = q[i]
           /\ \A j \in 1 .. Len(r) : (q \o r)[Len(q) + j] = r[j]
<1> DEFINE G == Seq(Nat) \ {<<>>}
<1>1. q \in Seq(G) /\ r \in Seq(G) /\ Segs = Seq(G)
  BY DEF Segs
<1> HIDE DEF G
<1>2. q \o r \in Seq(G)
  BY <1>1, SMT
<1>3. /\ Len(q \o r) = Len(q) + Len(r)
      /\ \A i \in 1 .. Len(q) : (q \o r)[i] = q[i]
      /\ \A j \in 1 .. Len(r) : (q \o r)[Len(q) + j] = r[j]
  BY <1>1, SMT
<1> QED
  BY <1>1, <1>2, <1>3

\* The count of the first segments grows with their number.
LEMMA StartGrows ==
    ASSUME NEW q \in Segs, NEW i \in 0 .. Len(q), NEW j \in i .. Len(q)
    PROVE  Start(q, i) <= Start(q, j)
<1> DEFINE S == {d \in 0 .. Len(q) - i : Start(q, i) <= Start(q, i + d)}
<1>0. /\ Len(q) \in Nat /\ i \in Nat /\ Len(q) - i \in Nat
      /\ j - i \in 0 .. Len(q) - i /\ i + (j - i) = j
      /\ \A k \in 1 .. Len(q) : Len(q[k]) \in Nat
  BY SMT DEF Segs
<1>1. 0 \in S
  <2>1. i + 0 = i /\ 0 \in 0 .. Len(q) - i
    BY <1>0, SMT
  <2>2. Start(q, i) <= Start(q, i)
    BY StartFacts, SMT
  <2> QED
    BY <2>1, <2>2
<1>2. ASSUME NEW d \in 0 .. Len(q) - i - 1, d \in S PROVE d + 1 \in S
  <2>1. /\ i + (d + 1) \in 1 .. Len(q) /\ i + (d + 1) - 1 = i + d
        /\ d + 1 \in 0 .. Len(q) - i /\ i + d \in 0 .. Len(q)
    BY <1>0, SMT
  <2>2. Start(q, i + (d + 1)) = Start(q, i + d) + Len(q[i + (d + 1)])
    BY <2>1, StartFacts, SMT
  <2>3. Start(q, i + d) \in Nat /\ Start(q, i) \in Nat /\ Len(q[i + (d + 1)]) \in Nat
    BY <1>0, <2>1, StartFacts
  <2>4. Start(q, i) <= Start(q, i + (d + 1))
    BY <1>2, <2>2, <2>3, SMT
  <2> QED
    BY <2>1, <2>4
<1> HIDE DEF S
<1>3. \A d \in 0 .. Len(q) - i : d \in S
  BY <1>0, <1>1, <1>2, UpTo
<1> QED
  BY <1>0, <1>3 DEF S

\* Each byte is in one segment.
LEMMA HolderFacts ==
    ASSUME NEW q \in Segs
    PROVE  /\ \A k \in 1 .. Total(q) : \E i \in DOMAIN q : \E x \in 1 .. Len(q[i]) :
                  k = Start(q, i - 1) + x
           /\ \A i \in DOMAIN q : \A x \in 1 .. Len(q[i]) :
                  /\ Start(q, i - 1) + x \in 1 .. Total(q)
                  /\ Holder(q, Start(q, i - 1) + x) = i
<1>0. /\ Len(q) \in Nat /\ DOMAIN q = 1 .. Len(q)
      /\ \A k \in 1 .. Len(q) : Len(q[k]) \in Nat
  BY SMT DEF Segs
<1>1. ASSUME NEW k \in 1 .. Total(q)
      PROVE  \E i \in DOMAIN q : \E x \in 1 .. Len(q[i]) : k = Start(q, i - 1) + x
  <2> DEFINE B == {i \in 0 .. Len(q) : k <= Start(q, i)}
  <2>1. Len(q) \in B /\ B \in SUBSET Nat
    BY <1>0, StartFacts, SMT DEF Total
  <2>2. PICK i \in B : \A m \in B : i <= m
    BY <2>1, Least
  <2>3. i \in 1 .. Len(q)
    BY <1>0, <2>2, StartFacts, SMT
  <2>4. i - 1 \in 0 .. Len(q) /\ i - 1 \notin B
    BY <1>0, <2>2, <2>3, SMT
  <2>5. /\ Start(q, i - 1) < k /\ k <= Start(q, i) /\ Start(q, i - 1) \in Nat
        /\ Start(q, i) = Start(q, i - 1) + Len(q[i])
    BY <2>2, <2>3, <2>4, StartFacts, SMT
  <2>6. k - Start(q, i - 1) \in 1 .. Len(q[i]) /\ k = Start(q, i - 1) + (k - Start(q, i - 1))
    BY <1>0, <2>3, <2>5, SMT
  <2> QED
    BY <1>0, <2>3, <2>6
<1>2. ASSUME NEW i \in DOMAIN q, NEW x \in 1 .. Len(q[i])
      PROVE  /\ Start(q, i - 1) + x \in 1 .. Total(q)
             /\ Holder(q, Start(q, i - 1) + x) = i
  <2> DEFINE k == Start(q, i - 1) + x
  <2>1. i \in 1 .. Len(q) /\ i \in 0 .. Len(q) /\ i - 1 \in 0 .. Len(q) /\ Len(q) \in i .. Len(q)
    BY <1>0, SMT
  <2>2. /\ Start(q, i) = Start(q, i - 1) + Len(q[i])
        /\ Start(q, i) \in Nat /\ Start(q, i - 1) \in Nat /\ Total(q) \in Nat
        /\ Start(q, i) <= Total(q)
    <3>1. /\ Start(q, i) = Start(q, i - 1) + Len(q[i])
          /\ Start(q, i) \in Nat /\ Start(q, i - 1) \in Nat
      BY <2>1, StartFacts
    <3>2. Len(q) \in 0 .. Len(q)
      BY <1>0, SMT
    <3>3. Total(q) \in Nat /\ Start(q, i) <= Total(q)
      BY <2>1, <3>2, StartFacts, StartGrows DEF Total
    <3> QED
      BY <3>1, <3>3
  <2>3. k \in 1 .. Total(q) /\ Start(q, i - 1) < k /\ k <= Start(q, i)
    BY <1>0, <2>1, <2>2, SMT
  <2>4. ASSUME NEW j \in DOMAIN q, Start(q, j - 1) < k, k <= Start(q, j) PROVE j = i
    <3>1. j \in 1 .. Len(q) /\ j \in 0 .. Len(q) /\ j - 1 \in 0 .. Len(q)
      BY <1>0, SMT
    <3>2. Start(q, j) \in Nat /\ Start(q, j - 1) \in Nat
      BY <3>1, StartFacts
    <3>3. CASE j < i
      <4>1. i - 1 \in j .. Len(q)
        BY <2>1, <3>1, <3>3, SMT
      <4>2. Start(q, j) <= Start(q, i - 1)
        BY <3>1, <4>1, StartGrows
      <4> QED
        BY <2>2, <2>3, <2>4, <3>2, <4>2, SMT
    <3>4. CASE i < j
      <4>1. j - 1 \in i .. Len(q)
        BY <2>1, <3>1, <3>4, SMT
      <4>2. Start(q, i) <= Start(q, j - 1)
        BY <2>1, <4>1, StartGrows
      <4> QED
        BY <2>2, <2>3, <2>4, <3>2, <4>2, SMT
    <3> QED
      BY <2>1, <3>1, <3>3, <3>4, SMT
  <2> HIDE DEF k
  <2>5. Holder(q, k) = i
    BY <2>3, <2>4 DEF Holder
  <2> QED
    BY <2>3, <2>5 DEF k
<1> QED
  BY <1>1, <1>2

\* Bytes(q) is a sequence of the bytes of q; it is the only one that has the x-th
\* byte of segment i at the place Start gives it.
LEMMA BytesFacts ==
    ASSUME NEW q \in Segs
    PROVE  /\ Bytes(q) \in Seq(Nat) /\ Len(Bytes(q)) = Total(q) /\ Total(q) \in Nat
           /\ \A i \in DOMAIN q : \A x \in 1 .. Len(q[i]) :
                  /\ Start(q, i - 1) + x \in 1 .. Total(q)
                  /\ Bytes(q)[Start(q, i - 1) + x] = q[i][x]
<1>0. /\ Len(q) \in Nat /\ DOMAIN q = 1 .. Len(q) /\ Len(q) \in 0 .. Len(q)
      /\ \A k \in 1 .. Len(q) : Len(q[k]) \in Nat /\ q[k] \in Seq(Nat)
  BY SMT DEF Segs
<1>1. Total(q) \in Nat
  BY <1>0, StartFacts DEF Total
<1>2. ASSUME NEW i \in DOMAIN q, NEW x \in 1 .. Len(q[i])
      PROVE  /\ Start(q, i - 1) + x \in 1 .. Total(q)
             /\ Bytes(q)[Start(q, i - 1) + x] = q[i][x]
  <2>1. Start(q, i - 1) + x \in 1 .. Total(q) /\ Holder(q, Start(q, i - 1) + x) = i
    BY HolderFacts
  <2>2. Start(q, i - 1) \in Nat
    BY <1>0, StartFacts, SMT
  <2> DEFINE k == Start(q, i - 1) + x
  <2>3. k - Start(q, i - 1) = x
    BY <2>2, SMT
  <2>4. k \in 1 .. Total(q) /\ Holder(q, k) = i
    BY <2>1
  <2> HIDE DEF k
  <2>5. Bytes(q)[k] = q[Holder(q, k)][k - Start(q, Holder(q, k) - 1)]
    BY <2>4 DEF Bytes
  <2>6. Bytes(q)[k] = q[i][x]
    BY <2>3, <2>4, <2>5
  <2> QED
    BY <2>4, <2>6 DEF k
<1>3. ASSUME NEW k \in 1 .. Total(q) PROVE Bytes(q)[k] \in Nat
  <2>1. PICK i \in DOMAIN q : \E x \in 1 .. Len(q[i]) : k = Start(q, i - 1) + x
    BY HolderFacts
  <2>2. PICK x \in 1 .. Len(q[i]) : k = Start(q, i - 1) + x
    BY <2>1
  <2>3. q[i][x] \in Nat
    BY <1>0, SMT
  <2> QED
    BY <1>2, <2>2, <2>3
<1>4. Bytes(q) \in [1 .. Total(q) -> Nat]
  BY <1>3 DEF Bytes
<1>5. Bytes(q) \in Seq(Nat) /\ Len(Bytes(q)) = Total(q)
  BY <1>1, <1>4, SMT
<1> QED
  BY <1>1, <1>2, <1>5

LEMMA BytesUnique ==
    ASSUME NEW q \in Segs, NEW s \in Seq(Nat), Len(s) = Total(q),
           \A i \in DOMAIN q : \A x \in 1 .. Len(q[i]) : s[Start(q, i - 1) + x] = q[i][x]
    PROVE  Bytes(q) = s
<1>1. ASSUME NEW k \in 1 .. Total(q) PROVE Bytes(q)[k] = s[k]
  <2>1. PICK i \in DOMAIN q : \E x \in 1 .. Len(q[i]) : k = Start(q, i - 1) + x
    BY HolderFacts
  <2>2. PICK x \in 1 .. Len(q[i]) : k = Start(q, i - 1) + x
    BY <2>1
  <2> QED
    BY <2>2, BytesFacts
<1> QED
  BY <1>1, BytesFacts, SMT

\* The counts and the bytes of two lists of segments, one after the other.
LEMMA StartOfConcat ==
    ASSUME NEW q \in Segs, NEW r \in Segs
    PROVE  /\ q \o r \in Segs
           /\ \A i \in 0 .. Len(q) : Start(q \o r, i) = Start(q, i)
           /\ \A j \in 0 .. Len(r) : Start(q \o r, Len(q) + j) = Total(q) + Start(r, j)
           /\ Total(q \o r) = Total(q) + Total(r)
<1> DEFINE qr == q \o r
           n == Len(q) + Len(r)
           g == [i \in 0 .. n |-> IF i <= Len(q) THEN Start(q, i)
                                  ELSE Total(q) + Start(r, i - Len(q))]
<1>0. /\ Len(q) \in Nat /\ Len(r) \in Nat /\ n \in Nat
      /\ \A k \in 1 .. Len(q) : Len(q[k]) \in Nat
      /\ \A k \in 1 .. Len(r) : Len(r[k]) \in Nat
      /\ Len(q) \in 0 .. Len(q) /\ Len(r) \in 0 .. Len(r) /\ 0 \in 0 .. Len(r)
  BY SMTT(30) DEF Segs
<1>1. /\ qr \in Segs /\ Len(qr) = n
      /\ \A i \in 1 .. Len(q) : qr[i] = q[i]
      /\ \A j \in 1 .. Len(r) : qr[Len(q) + j] = r[j]
  BY ConcatSegs
<1>2. Total(q) \in Nat /\ Start(r, 0) = 0
  BY <1>0, StartFacts DEF Total
<1> HIDE DEF qr
<1>3. \A i \in 0 .. Len(q) : g[i] = Start(q, i)
  BY <1>0, SMT
<1>4. ASSUME NEW j \in 0 .. Len(r) PROVE g[Len(q) + j] = Total(q) + Start(r, j)
  <2>1. CASE j = 0
    BY <1>0, <1>2, <2>1, SMT DEF Total
  <2>2. CASE j # 0
    <3>1. /\ Len(q) + j \in 0 .. n /\ ~(Len(q) + j <= Len(q)) /\ Len(q) + j - Len(q) = j
      BY <1>0, <2>2, SMT
    <3> QED
      BY <3>1, SMT
  <2> QED
    BY <2>1, <2>2
<1> HIDE DEF g
<1>5. ASSUME NEW i \in 0 .. n PROVE g[i] = IF i = 0 THEN 0 ELSE g[i - 1] + Len(qr[i])
  <2>1. CASE i = 0
    <3>1. 0 \in 0 .. Len(q)
      BY <1>0, SMT
    <3> QED
      BY <1>3, <2>1, <3>1, StartFacts
  <2>2. CASE i \in 1 .. Len(q)
    <3>1. i \in 0 .. Len(q) /\ i - 1 \in 0 .. Len(q) /\ i # 0
      BY <1>0, <2>2, SMT
    <3> QED
      BY <1>1, <1>3, <2>2, <3>1, StartFacts
  <2>3. CASE i \in Len(q) + 1 .. n
    <3> DEFINE j == i - Len(q)
    <3>1. /\ j \in 1 .. Len(r) /\ j \in 0 .. Len(r) /\ j - 1 \in 0 .. Len(r)
          /\ i = Len(q) + j /\ i - 1 = Len(q) + (j - 1) /\ i # 0
      BY <1>0, <2>3, SMT
    <3> HIDE DEF j
    <3>2. /\ g[i] = Total(q) + Start(r, j) /\ g[i - 1] = Total(q) + Start(r, j - 1)
          /\ qr[i] = r[j]
      BY <1>1, <1>4, <3>1
    <3>3. /\ Start(r, j) = Start(r, j - 1) + Len(r[j]) /\ Start(r, j - 1) \in Nat
          /\ Len(r[j]) \in Nat
      BY <1>0, <3>1, StartFacts
    <3>4. Total(q) + Start(r, j) = Total(q) + Start(r, j - 1) + Len(r[j])
      BY <1>2, <3>3, SMT
    <3> QED
      BY <3>1, <3>2, <3>4
  <2> QED
    BY <1>0, <2>1, <2>2, <2>3, SMT
<1>6. Counts(g, qr, n)
  <2>1. g = [i \in 0 .. n |-> g[i]]
    BY DEF g
  <2> QED
    BY <1>5, <2>1 DEF Counts
<1>7. \A i \in 0 .. n : Start(qr, i) = g[i]
  <2>1. n \in 0 .. Len(qr)
    BY <1>0, <1>1, SMT
  <2> QED
    BY <1>1, <1>6, <2>1, StartIsCount
<1>8. \A i \in 0 .. Len(q) : i \in 0 .. n
  BY <1>0, SMT
<1>9. \A j \in 0 .. Len(r) : Len(q) + j \in 0 .. n
  BY <1>0, SMT
<1>10. \A j \in 0 .. Len(r) : Start(qr, Len(q) + j) = Total(q) + Start(r, j)
  BY <1>4, <1>7, <1>9
<1>11. Total(qr) = Total(q) + Total(r)
  BY <1>0, <1>1, <1>10 DEF Total
<1> QED
  BY <1>1, <1>3, <1>7, <1>8, <1>10, <1>11 DEF qr

LEMMA BytesOfConcat ==
    ASSUME NEW q \in Segs, NEW r \in Segs
    PROVE  Bytes(q \o r) = Bytes(q) \o Bytes(r)
<1> DEFINE qr == q \o r
           s == Bytes(q) \o Bytes(r)
<1>0. /\ Len(q) \in Nat /\ Len(r) \in Nat
      /\ DOMAIN q = 1 .. Len(q) /\ DOMAIN r = 1 .. Len(r)
      /\ DOMAIN qr = 1 .. Len(q) + Len(r)
      /\ \A i \in 1 .. Len(q) : qr[i] = q[i]
      /\ \A j \in 1 .. Len(r) : qr[Len(q) + j] = r[j]
  BY SMT DEF Segs
<1>1. /\ qr \in Segs /\ Total(qr) = Total(q) + Total(r)
      /\ Total(q) \in Nat /\ Total(r) \in Nat
  BY StartOfConcat, BytesFacts
<1>2. /\ Bytes(q) \in Seq(Nat) /\ Len(Bytes(q)) = Total(q)
      /\ Bytes(r) \in Seq(Nat) /\ Len(Bytes(r)) = Total(r)
  BY BytesFacts
<1> HIDE DEF qr
<1>3. /\ s \in Seq(Nat) /\ Len(s) = Total(qr)
      /\ \A k \in 1 .. Total(q) : s[k] = Bytes(q)[k]
      /\ \A k \in 1 .. Total(r) : s[Total(q) + k] = Bytes(r)[k]
  <2> DEFINE u == Bytes(q)
             v == Bytes(r)
  <2>1. u \in Seq(Nat) /\ v \in Seq(Nat)
    BY <1>2
  <2>2. Len(u) = Total(q) /\ Len(v) = Total(r) /\ Len(u) + Len(v) = Total(qr)
    BY <1>1, <1>2
  <2> HIDE DEF u, v
  <2>3. /\ u \o v \in Seq(Nat) /\ Len(u \o v) = Len(u) + Len(v)
        /\ \A k \in 1 .. Len(u) : (u \o v)[k] = u[k]
        /\ \A k \in 1 .. Len(v) : (u \o v)[Len(u) + k] = v[k]
    BY <2>1, ConcatNumbers
  <2>4. s = u \o v
    BY DEF u, v
  <2> QED
    BY <2>2, <2>3, <2>4 DEF u, v
<1> HIDE DEF s
<1>4. ASSUME NEW i \in DOMAIN qr, NEW x \in 1 .. Len(qr[i])
      PROVE  s[Start(qr, i - 1) + x] = qr[i][x]
  <2>1. CASE i \in 1 .. Len(q)
    <3>1. i - 1 \in 0 .. Len(q) /\ i \in DOMAIN q
      BY <1>0, <2>1, SMT
    <3>2. qr[i] = q[i] /\ Start(qr, i - 1) = Start(q, i - 1)
      BY <1>0, <2>1, <3>1, StartOfConcat DEF qr
    <3>3. /\ Start(q, i - 1) + x \in 1 .. Total(q)
          /\ Bytes(q)[Start(q, i - 1) + x] = q[i][x]
      BY <3>1, <3>2, BytesFacts
    <3> QED
      BY <1>3, <3>2, <3>3
  <2>2. CASE i \in Len(q) + 1 .. Len(q) + Len(r)
    <3> DEFINE j == i - Len(q)
    <3>1. /\ j \in 1 .. Len(r) /\ j - 1 \in 0 .. Len(r) /\ j \in DOMAIN r
          /\ i = Len(q) + j /\ i - 1 = Len(q) + (j - 1)
      BY <1>0, <2>2, SMTT(30)
    <3> HIDE DEF j
    <3>2. qr[i] = r[j] /\ Start(qr, i - 1) = Total(q) + Start(r, j - 1)
      <4>1. Start(qr, Len(q) + (j - 1)) = Total(q) + Start(r, j - 1)
        BY <3>1, StartOfConcat DEF qr
      <4>2. qr[Len(q) + j] = r[j]
        BY <1>0, <3>1
      <4> QED
        BY <3>1, <4>1, <4>2
    <3>3. /\ Start(r, j - 1) + x \in 1 .. Total(r)
          /\ Bytes(r)[Start(r, j - 1) + x] = r[j][x]
      BY <3>1, <3>2, BytesFacts
    <3>4. Start(r, j - 1) \in Nat
      BY <3>1, StartFacts
    <3>5. Total(q) + Start(r, j - 1) + x = Total(q) + (Start(r, j - 1) + x)
      BY <1>1, <3>4, SMT
    <3> QED
      BY <1>3, <3>2, <3>3, <3>5
  <2> QED
    BY <1>0, <2>1, <2>2, SMT
<1> QED
  BY <1>1, <1>3, <1>4, BytesUnique DEF qr, s

\* The bytes of no segment and of one.
LEMMA BytesOfOne ==
    /\ <<>> \in Segs /\ Total(<<>>) = 0 /\ Bytes(<<>>) = <<>>
    /\ \A s \in Seq(Nat) \ {<<>>} :
          <<s>> \in Segs /\ Total(<<s>>) = Len(s) /\ Bytes(<<s>>) = s
<1>1. <<>> \in Segs /\ Len(<<>>) = 0 /\ DOMAIN <<>> = {}
  BY SMT DEF Segs
<1>2. Total(<<>>) = 0
  BY <1>1, StartFacts DEF Total
<1>3. Bytes(<<>>) = <<>>
  <2>1. <<>> \in Seq(Nat)
    BY SMT
  <2> QED
    BY <1>1, <1>2, <2>1, BytesUnique
<1>4. ASSUME NEW s \in Seq(Nat) \ {<<>>}
      PROVE  <<s>> \in Segs /\ Total(<<s>>) = Len(s) /\ Bytes(<<s>>) = s
  <2> DEFINE q == <<s>>
  <2>1. /\ q \in Segs /\ Len(q) = 1 /\ DOMAIN q = {1} /\ q[1] = s /\ Len(s) \in Nat
        /\ 1 \in 1 .. Len(q) /\ 1 - 1 = 0
    BY SMT DEF Segs
  <2> HIDE DEF q
  <2>2. Start(q, 0) = 0 /\ Start(q, 1) = Start(q, 0) + Len(s)
    BY <2>1, StartFacts
  <2>3. Total(q) = Len(s)
    BY <2>1, <2>2, SMT DEF Total
  <2>4. ASSUME NEW i \in DOMAIN q, NEW x \in 1 .. Len(q[i])
        PROVE  s[Start(q, i - 1) + x] = q[i][x]
    <3>1. i = 1 /\ x \in Nat /\ 0 + x = x
      BY <2>1, SMT
    <3> QED
      BY <2>1, <2>2, <3>1
  <2>5. Bytes(q) = s
    BY <2>1, <2>3, <2>4, BytesUnique
  <2> QED
    BY <2>1, <2>3, <2>5 DEF q
<1> QED
  BY <1>1, <1>2, <1>3, <1>4

-----------------------------------------------------------------------------
\* What pop_bufs and clone_bufs take and leave.

\* A request for len bytes that are there ends in the segment that holds the last.
LEMMA TouchedFacts ==
    ASSUME NEW q \in Segs, NEW len \in 1 .. Total(q)
    PROVE  /\ Touched(q, len) \in DOMAIN q
           /\ len - Start(q, Touched(q, len) - 1) \in 1 .. Len(q[Touched(q, len)])
<1>0. /\ Len(q) \in Nat /\ DOMAIN q = 1 .. Len(q)
      /\ \A k \in 1 .. Len(q) : Len(q[k]) \in Nat
  BY SMT DEF Segs
<1>1. PICK i \in DOMAIN q : \E x \in 1 .. Len(q[i]) : len = Start(q, i - 1) + x
  BY HolderFacts
<1>2. PICK x \in 1 .. Len(q[i]) : len = Start(q, i - 1) + x
  BY <1>1
<1>3. /\ i \in 1 .. Len(q) /\ i \in 0 .. Len(q) /\ i - 1 \in 0 .. Len(q) /\ i \in Nat /\ i >= 1
      /\ Len(q[i]) \in Nat
  BY <1>0, SMT
<1>4. /\ Start(q, i) = Start(q, i - 1) + Len(q[i])
      /\ Start(q, i) \in Nat /\ Start(q, i - 1) \in Nat
  BY <1>3, StartFacts
<1>5. Start(q, i - 1) < len /\ len <= Start(q, i) /\ len - Start(q, i - 1) = x
  BY <1>2, <1>3, <1>4, SMT
<1>6. ASSUME NEW j \in DOMAIN q PROVE Start(q, j - 1) < len <=> j \in 1 .. i
  <2>1. j \in 1 .. Len(q) /\ j - 1 \in 0 .. Len(q)
    BY <1>0, SMT
  <2>2. Start(q, j - 1) \in Nat
    BY <2>1, StartFacts
  <2>3. CASE j \in 1 .. i
    <3>1. i - 1 \in j - 1 .. Len(q)
      BY <1>3, <2>1, <2>3, SMT
    <3>2. Start(q, j - 1) <= Start(q, i - 1)
      BY <2>1, <3>1, StartGrows
    <3> QED
      BY <1>4, <1>5, <2>2, <2>3, <3>2, SMT
  <2>4. CASE j \notin 1 .. i
    <3>1. j - 1 \in i .. Len(q)
      BY <1>3, <2>1, <2>4, SMT
    <3>2. Start(q, i) <= Start(q, j - 1)
      BY <1>3, <3>1, StartGrows
    <3> QED
      BY <1>4, <1>5, <2>2, <2>4, <3>2, SMT
  <2> QED
    BY <2>3, <2>4
<1> DEFINE Good(m) == \A j \in DOMAIN q : Start(q, j - 1) < len <=> j <= m
<1>7. Good(i)
  <2>1. \A j \in DOMAIN q : j \in 1 .. i <=> j <= i
    BY <1>0, <1>3, SMT
  <2> QED
    BY <1>6, <2>1
<1>8. ASSUME NEW m \in 0 .. Len(q), Good(m) PROVE m = i
  <2>1. \A j \in 1 .. Len(q) : j <= i <=> j <= m
    BY <1>0, <1>7, <1>8
  <2> QED
    BY <1>0, <1>3, <2>1, SMT
<1>9. Touched(q, len) = i
  <2> HIDE DEF Good
  <2>1. Touched(q, len) = CHOOSE m \in 0 .. Len(q) : Good(m)
    BY DEF Touched, Good
  <2> QED
    BY <1>3, <1>7, <1>8, <2>1
<1> QED
  BY <1>5, <1>9

\* Concatenation is associative.
LEMMA Associative ==
    \A a, b, c \in Seq(Nat) : b \o c \in Seq(Nat) /\ (a \o b) \o c = a \o (b \o c)
<1> SUFFICES ASSUME NEW a \in Seq(Nat), NEW b \in Seq(Nat), NEW c \in Seq(Nat)
             PROVE  b \o c \in Seq(Nat) /\ (a \o b) \o c = a \o (b \o c)
  OBVIOUS
<1> DEFINE x == a \o b
           y == b \o c
           u == x \o c
           v == a \o y
<1>0. Len(a) \in Nat /\ Len(b) \in Nat /\ Len(c) \in Nat
  BY SMT
<1>1. /\ x \in Seq(Nat) /\ Len(x) = Len(a) + Len(b)
      /\ \A i \in 1 .. Len(a) : x[i] = a[i]
      /\ \A i \in 1 .. Len(b) : x[Len(a) + i] = b[i]
  BY ConcatNumbers
<1>2. /\ y \in Seq(Nat) /\ Len(y) = Len(b) + Len(c)
      /\ \A i \in 1 .. Len(b) : y[i] = b[i]
      /\ \A i \in 1 .. Len(c) : y[Len(b) + i] = c[i]
  BY ConcatNumbers
<1> HIDE DEF x, y
<1>3. /\ u \in Seq(Nat) /\ Len(u) = Len(x) + Len(c)
      /\ \A i \in 1 .. Len(x) : u[i] = x[i]
      /\ \A i \in 1 .. Len(c) : u[Len(x) + i] = c[i]
  BY <1>1, ConcatNumbers
<1>4. /\ v \in Seq(Nat) /\ Len(v) = Len(a) + Len(y)
      /\ \A i \in 1 .. Len(a) : v[i] = a[i]
      /\ \A i \in 1 .. Len(y) : v[Len(a) + i] = y[i]
  BY <1>2, ConcatNumbers
<1> HIDE DEF u, v
<1>5. Len(u) = Len(v)
  BY <1>0, <1>1, <1>2, <1>3, <1>4, SMT
<1>6. ASSUME NEW i \in 1 .. Len(u) PROVE u[i] = v[i]
  <2>1. CASE i \in 1 .. Len(a)
    <3>1. i \in 1 .. Len(x)
      BY <1>0, <1>1, <2>1, SMT
    <3> QED
      BY <1>1, <1>3, <1>4, <2>1, <3>1
  <2>2. CASE \E j \in 1 .. Len(b) : i = Len(a) + j
    <3>1. PICK j \in 1 .. Len(b) : i = Len(a) + j
      BY <2>2
    <3>2. i \in 1 .. Len(x) /\ j \in 1 .. Len(y)
      BY <1>0, <1>1, <1>2, <3>1, SMT
    <3>3. u[i] = x[i] /\ x[i] = b[j]
      BY <1>1, <1>3, <3>1, <3>2
    <3>4. v[i] = y[j] /\ y[j] = b[j]
      BY <1>2, <1>4, <3>1, <3>2
    <3> QED
      BY <3>3, <3>4
  <2>3. CASE \E j \in 1 .. Len(c) : i = Len(a) + (Len(b) + j)
    <3>1. PICK j \in 1 .. Len(c) : i = Len(a) + (Len(b) + j)
      BY <2>3
    <3>2. Len(b) + j \in 1 .. Len(y) /\ i = Len(x) + j
      BY <1>0, <1>1, <1>2, <3>1, SMT
    <3>3. u[i] = c[j]
      BY <1>3, <3>2
    <3>4. v[i] = y[Len(b) + j]
      BY <1>4, <3>1, <3>2
    <3>5. y[Len(b) + j] = c[j]
      BY <1>2
    <3> QED
      BY <3>3, <3>4, <3>5
  <2>4. i \in 1 .. Len(a) + Len(b) + Len(c)
    BY <1>1, <1>3
  <2>5. \/ i \in 1 .. Len(a)
        \/ i - Len(a) \in 1 .. Len(b) /\ i = Len(a) + (i - Len(a))
        \/ /\ i - Len(a) - Len(b) \in 1 .. Len(c)
           /\ i = Len(a) + (Len(b) + (i - Len(a) - Len(b)))
    <3> DEFINE k == Len(a)
               l == Len(b)
               n == Len(c)
    <3>1. k \in Nat /\ l \in Nat /\ n \in Nat /\ i \in 1 .. k + l + n
      BY <1>0, <2>4
    <3> HIDE DEF k, l, n
    <3>2. \/ i \in 1 .. k
          \/ i - k \in 1 .. l /\ i = k + (i - k)
          \/ i - k - l \in 1 .. n /\ i = k + (l + (i - k - l))
      BY <3>1, SMT
    <3> QED
      BY <3>2 DEF k, l, n
  <2> QED
    BY <2>1, <2>2, <2>3, <2>5
<1>7. u = v
  BY <1>3, <1>4, <1>5, <1>6, SeqEqual
<1> QED
  BY <1>2, <1>7 DEF u, v, x, y

LEMMA Regroup ==
    \A a, b, c, d \in Seq(Nat) : a \o ((b \o c) \o d) = (a \o b) \o (c \o d)
<1> SUFFICES ASSUME NEW a \in Seq(Nat), NEW b \in Seq(Nat), NEW c \in Seq(Nat),
                    NEW d \in Seq(Nat)
             PROVE  a \o ((b \o c) \o d) = (a \o b) \o (c \o d)
  OBVIOUS
<1> DEFINE e == c \o d
<1>1. e \in Seq(Nat) /\ (b \o c) \o d = b \o e
  <2>1. \A y, z \in Seq(Nat) : y \o z \in Seq(Nat) /\ (b \o y) \o z = b \o (y \o z)
    BY Associative
  <2>2. \A z \in Seq(Nat) : c \o z \in Seq(Nat) /\ (b \o c) \o z = b \o (c \o z)
    BY <2>1
  <2> QED
    BY <2>2
<1> HIDE DEF e
<1>2. (a \o b) \o e = a \o (b \o e)
  <2>1. \A y, z \in Seq(Nat) : y \o z \in Seq(Nat) /\ (a \o y) \o z = a \o (y \o z)
    BY Associative
  <2>2. \A z \in Seq(Nat) : b \o z \in Seq(Nat) /\ (a \o b) \o z = a \o (b \o z)
    BY <2>1
  <2> QED
    BY <1>1, <2>2
<1> QED
  BY <1>1, <1>2 DEF e

\* The taken bytes are the first len ones, the others are left; no segment is lost,
\* empty or out of order.
LEMMA CutFacts ==
    ASSUME NEW q \in Segs, NEW len \in 1 .. Total(q)
    PROVE  /\ TakenBufs(q, len) \in Segs /\ LeftBufs(q, len) \in Segs
           /\ Total(TakenBufs(q, len)) = len
           /\ Bytes(q) = Bytes(TakenBufs(q, len)) \o Bytes(LeftBufs(q, len))
<1> DEFINE m == Touched(q, len)
           x == len - Start(q, m - 1)
           seg == q[m]
           a == SubSeq(seg, 1, x)
           b == SubSeq(seg, x + 1, Len(seg))
           pre == SubSeq(q, 1, m - 1)
           post == SubSeq(q, m + 1, Len(q))
           rem == Remainder(q, len)
<1>0. /\ Len(q) \in Nat /\ DOMAIN q = 1 .. Len(q)
      /\ \A k \in 1 .. Len(q) : Len(q[k]) \in Nat /\ q[k] \in Seq(Nat) \ {<<>>}
  BY SMT DEF Segs
<1>1. m \in 1 .. Len(q) /\ x \in 1 .. Len(seg)
  BY <1>0, TouchedFacts
<1>2. len \in Nat /\ Start(q, m - 1) \in Nat
  <2>1. m - 1 \in 0 .. Len(q)
    BY <1>0, <1>1, SMT
  <2> QED
    BY <2>1, StartFacts, BytesFacts, SMT
<1> HIDE DEF m
<1>3. seg \in Seq(Nat) \ {<<>>} /\ Len(seg) \in Nat
  BY <1>0, <1>1
<1>4. /\ a \in Seq(Nat) \ {<<>>} /\ Len(a) = x
      /\ b \in Seq(Nat) /\ a \o b = seg
  <2>1. x \in Nat /\ x >= 1 /\ x <= Len(seg) /\ x \in 0 .. Len(seg)
    BY <1>1, <1>3, SMT
  <2>2. a \in Seq(Nat) /\ Len(a) = x /\ b \in Seq(Nat)
    <3> HIDE DEF x, seg
    <3> QED
      BY <1>3, <2>1, SMT
  <2>3. a # <<>>
    BY <2>1, <2>2, SMT
  <2>4. a \o b = seg
    <3> HIDE DEF x, seg
    <3> QED
      BY <1>3, <2>1, CutInTwo
  <2> QED
    BY <2>2, <2>3, <2>4
<1>5. /\ pre \in Segs /\ post \in Segs /\ Len(pre) = m - 1
      /\ \A i \in 1 .. m - 1 : pre[i] = q[i]
      /\ q = pre \o (<<seg>> \o post)
  <2> DEFINE G == Seq(Nat) \ {<<>>}
  <2>1. m \in Nat /\ m >= 1 /\ m <= Len(q) /\ m - 1 \in 0 .. Len(q) /\ m - 1 + 1 = m
    BY <1>0, <1>1, SMT
  <2>2. q \in Seq(G)
    BY DEF Segs
  <2> HIDE DEF G
  <2>3. pre \in Seq(G) /\ post \in Seq(G) /\ Len(pre) = m - 1
    <3>1. pre \in Seq(G) /\ Len(pre) = m - 1
      BY <1>0, <2>1, <2>2, SMT
    <3>2. post \in Seq(G)
      BY <1>0, <2>1, <2>2, SMT
    <3> QED
      BY <3>1, <3>2
  <2>4. \A i \in 1 .. m - 1 : pre[i] = q[i]
    BY <1>0, <2>1, <2>2, SMT
  <2>5. SubSeq(q, 1, m - 1) \o SubSeq(q, m - 1 + 1, Len(q)) = q
    BY <2>1, <2>2, CutInTwo
  <2>6. SubSeq(q, m, Len(q)) = <<q[m]>> \o SubSeq(q, m + 1, Len(q))
    BY <1>1, <2>2, FirstAndRest
  <2> QED
    BY <2>1, <2>3, <2>4, <2>5, <2>6 DEF Segs, G
<1> HIDE DEF x, seg, a, b, pre, post, rem
<1>6. <<seg>> \in Segs /\ <<a>> \in Segs
  BY <1>3, <1>4, BytesOfOne
<1> DEFINE tail == <<seg>> \o post
<1>7. /\ tail \in Segs /\ Bytes(tail) = seg \o Bytes(post)
      /\ Start(q, m - 1) = Total(pre) /\ Bytes(q) = Bytes(pre) \o Bytes(tail)
  <2>1. Bytes(<<seg>>) = seg
    BY <1>3, BytesOfOne
  <2>2. tail \in Segs
    BY <1>5, <1>6, StartOfConcat
  <2>3. Bytes(tail) = Bytes(<<seg>>) \o Bytes(post)
    BY <1>5, <1>6, BytesOfConcat
  <2>4. m - 1 \in 0 .. Len(pre) /\ m - 1 = Len(pre)
    BY <1>0, <1>1, <1>5, SMT
  <2>5. q = pre \o tail /\ pre \in Segs
    BY <1>5
  <2> HIDE DEF tail
  <2>6. Start(pre \o tail, m - 1) = Start(pre, m - 1)
    BY <2>2, <2>4, <2>5, StartOfConcat
  <2>7. Bytes(pre \o tail) = Bytes(pre) \o Bytes(tail)
    BY <2>2, <2>5, BytesOfConcat
  <2> QED
    BY <2>1, <2>2, <2>3, <2>4, <2>5, <2>6, <2>7 DEF Total
<1> HIDE DEF tail
<1>8. TakenBufs(q, len) = pre \o <<a>>
  <2> DEFINE cut(i) == SubSeq(q[i], 1, Minimum(Len(q[i]), len - Start(q, i - 1)))
  <2>1. ASSUME NEW i \in 1 .. m - 1 PROVE cut(i) = q[i]
    <3>1. /\ i \in 1 .. Len(q) /\ i - 1 \in 0 .. Len(q) /\ i \in 0 .. Len(q)
          /\ m - 1 \in i .. Len(q)
      BY <1>0, <1>1, SMT
    <3>2. /\ Start(q, i) = Start(q, i - 1) + Len(q[i]) /\ Start(q, i - 1) \in Nat
          /\ Start(q, i) <= Start(q, m - 1)
      BY <3>1, StartFacts, StartGrows
    <3>3. Len(q[i]) \in Nat /\ q[i] \in Seq(Nat)
      BY <1>0, <3>1
    <3>4. Start(q, m - 1) < len
      BY <1>0, <1>1, <1>2, SMT DEF x
    <3>5. Minimum(Len(q[i]), len - Start(q, i - 1)) = Len(q[i])
      BY <1>2, <3>2, <3>3, <3>4, SMT DEF Minimum
    <3> QED
      BY <3>3, <3>5, WholePart
  <2>2. cut(m) = a
    <3>1. Minimum(Len(seg), x) = x
      BY <1>1, <1>3, SMT DEF Minimum
    <3> QED
      BY <3>1 DEF a, seg, x
  <2>3. TakenBufs(q, len) = [i \in 1 .. m |-> cut(i)]
    BY DEF TakenBufs, m
  <2>4. /\ Len(pre \o <<a>>) = m /\ pre \o <<a>> \in Segs
        /\ \A i \in 1 .. m - 1 : (pre \o <<a>>)[i] = q[i]
        /\ (pre \o <<a>>)[m] = a
    <3>1. pre \o <<a>> \in Segs
      BY <1>5, <1>6, StartOfConcat
    <3>2. m \in Nat /\ m >= 1
      BY <1>1, SMT
    <3> DEFINE G == Seq(Nat) \ {<<>>}
    <3>3. pre \in Seq(G) /\ <<a>> \in Seq(G) /\ Len(<<a>>) = 1 /\ <<a>>[1] = a
      BY <1>4, <1>5, <1>6 DEF Segs
    <3> HIDE DEF G
    <3>4. Len(pre \o <<a>>) = m
      BY <1>5, <3>2, <3>3, SMT
    <3>5. \A i \in 1 .. m - 1 : (pre \o <<a>>)[i] = q[i]
      BY <1>5, <3>2, <3>3, SMT
    <3>6. (pre \o <<a>>)[m] = a
      BY <1>5, <3>2, <3>3, SMT
    <3> QED
      BY <3>1, <3>4, <3>5, <3>6
  <2> HIDE DEF cut
  <2>5. \A i \in 1 .. m : cut(i) = (pre \o <<a>>)[i]
    <3>1. \A i \in 1 .. m : i \in 1 .. m - 1 \/ i = m
      BY <1>1, SMT
    <3> QED
      BY <2>1, <2>2, <2>4, <3>1
  <2>6. pre \o <<a>> = [i \in 1 .. m |-> (pre \o <<a>>)[i]]
    <3>1. m \in Nat
      BY <1>1, SMT
    <3> QED
      BY <2>4, <3>1, SMT DEF Segs
  <2> QED
    BY <2>3, <2>5, <2>6
<1>9. rem \in Segs /\ Bytes(rem) = b
  <2>1. m # 0
    BY <1>1, SMT
  <2>2. rem = IF b = <<>> THEN <<>> ELSE <<b>>
    BY <2>1 DEF rem, Remainder, b, seg, x, m
  <2> QED
    BY <1>4, <2>2, BytesOfOne
<1>10. LeftBufs(q, len) = rem \o post
  BY DEF LeftBufs, rem, post, m
<1>11. /\ TakenBufs(q, len) \in Segs /\ LeftBufs(q, len) \in Segs
       /\ Total(TakenBufs(q, len)) = Total(pre) + Len(a)
       /\ Bytes(TakenBufs(q, len)) = Bytes(pre) \o a
       /\ Bytes(LeftBufs(q, len)) = b \o Bytes(post)
  <2>1. Total(<<a>>) = Len(a) /\ Bytes(<<a>>) = a
    BY <1>4, BytesOfOne
  <2>2. /\ pre \o <<a>> \in Segs /\ Total(pre \o <<a>>) = Total(pre) + Total(<<a>>)
        /\ Bytes(pre \o <<a>>) = Bytes(pre) \o Bytes(<<a>>)
    BY <1>5, <1>6, StartOfConcat, BytesOfConcat
  <2>3. rem \o post \in Segs /\ Bytes(rem \o post) = Bytes(rem) \o Bytes(post)
    BY <1>5, <1>9, StartOfConcat, BytesOfConcat
  <2> QED
    BY <1>8, <1>9, <1>10, <2>1, <2>2, <2>3
<1>12. Total(pre) + Len(a) = len
  BY <1>2, <1>4, <1>7, SMT DEF x
<1>13. Bytes(q) = Bytes(pre) \o (seg \o Bytes(post))
  BY <1>7
<1>14. Bytes(pre) \o ((a \o b) \o Bytes(post)) = (Bytes(pre) \o a) \o (b \o Bytes(post))
  <2>1. /\ Bytes(pre) \in Seq(Nat) /\ Bytes(post) \in Seq(Nat)
        /\ a \in Seq(Nat) /\ b \in Seq(Nat)
    BY <1>4, <1>5, BytesFacts
  <2> DEFINE u == Bytes(pre)
             v == Bytes(post)
  <2>2. u \in Seq(Nat) /\ v \in Seq(Nat)
    BY <2>1
  <2> HIDE DEF u, v
  <2>3. u \o ((a \o b) \o v) = (u \o a) \o (b \o v)
    <3>1. a \in Seq(Nat) /\ b \in Seq(Nat)
      BY <2>1
    <3>2. \A c, d \in Seq(Nat) : u \o ((a \o c) \o d) = (u \o a) \o (c \o d)
      BY <2>2, <3>1, Regroup
    <3> QED
      BY <2>2, <3>1, <3>2
  <2> QED
    BY <2>3 DEF u, v
<1> QED
  BY <1>4, <1>11, <1>12, <1>13, <1>14

\* What write() and write_kernel_bytes add are the next len new bytes.
LEMMA SegmentsFacts ==
    ASSUME NEW from \in Nat, NEW len \in Nat \ {0}, NEW small \in BOOLEAN
    PROVE  /\ Segments(from, len, small) \in Segs
           /\ Total(Segments(from, len, small)) = len
           /\ Bytes(Segments(from, len, small)) = [i \in 1 .. len |-> from + i]
<1> DEFINE new == [i \in 1 .. len |-> from + i]
<1>1. new \in Seq(Nat) \ {<<>>} /\ Len(new) = len
  BY SMT
<1>2. CASE small
  <2> DEFINE q == [i \in 1 .. len |-> <<from + i>>]
  <2>1. /\ q \in Segs /\ Len(q) = len /\ DOMAIN q = 1 .. len
        /\ \A i \in 1 .. len : q[i] = <<from + i>> /\ Len(q[i]) = 1
    BY SMT DEF Segs
  <2> DEFINE g == [i \in 0 .. len |-> i]
  <2> HIDE DEF q
  <2>2. Counts(g, q, len)
    <3>1. ASSUME NEW i \in 0 .. len
          PROVE  i = IF i = 0 THEN 0 ELSE g[i - 1] + Len(q[i])
      <4>1. i # 0 => i \in 1 .. len /\ g[i - 1] = i - 1
        BY SMT
      <4>2. i # 0 => Len(q[i]) = 1
        BY <2>1, <4>1
      <4> QED
        <5>1. CASE i = 0
          BY <5>1
        <5>2. CASE i # 0
          <6>1. g[i - 1] + Len(q[i]) = i - 1 + 1
            BY <4>1, <4>2, <5>2
          <6>2. i - 1 + 1 = i
            BY SMT
          <6> QED
            BY <5>2, <6>1, <6>2
        <5> QED
          BY <5>1, <5>2
    <3> QED
      BY <3>1 DEF Counts
  <2>3. len \in 0 .. Len(q) /\ len \in 0 .. len
    BY <2>1, SMT
  <2>4. \A i \in 0 .. len : Start(q, i) = i
    <3>1. ASSUME NEW i \in 0 .. len
          PROVE  Start(q, i) = i
      <4>1. g[i] = i
        OBVIOUS
      <4>2. q \in Segs
        BY <2>1
      <4> HIDE DEF g
      <4>3. Start(q, i) = g[i]
        BY <2>2, <2>3, <4>2, StartIsCount
      <4> QED
        BY <4>1, <4>3
    <3> QED
      BY <3>1
  <2>5. Total(q) = len
    BY <2>1, <2>3, <2>4 DEF Total
  <2>6. ASSUME NEW i \in DOMAIN q, NEW y \in 1 .. Len(q[i])
        PROVE  new[Start(q, i - 1) + y] = q[i][y]
    <3>1. i \in 1 .. len /\ Len(q[i]) = 1
      BY <2>1
    <3>2. i - 1 \in 0 .. len /\ y = 1 /\ i - 1 + 1 = i
      BY <3>1, SMT
    <3>3. new[i] = from + i /\ q[i][1] = from + i
      BY <2>1, <3>1, SMT
    <3> QED
      BY <2>4, <3>1, <3>2, <3>3
  <2>7. Bytes(q) = new
    <3> HIDE DEF new
    <3>1. q \in Segs /\ new \in Seq(Nat) /\ Len(new) = Total(q)
      BY <1>1, <2>1, <2>5
    <3>2. \A i \in DOMAIN q : \A y \in 1 .. Len(q[i]) : new[Start(q, i - 1) + y] = q[i][y]
      BY <2>6
    <3> QED
      BY <3>1, <3>2, BytesUnique
  <2> QED
    BY <1>2, <2>1, <2>5, <2>7 DEF Segments, q
<1>3. CASE ~small
  BY <1>1, <1>3, BytesOfOne DEF Segments
<1> QED
  BY <1>2, <1>3

LEMMA SplitAt ==
    ASSUME NEW s \in Seq(Nat), NEW t \in Seq(Nat)
    PROVE  /\ Len(s \o t) = Len(s) + Len(t)
           /\ SubSeq(s \o t, 1, Len(s)) = s
           /\ SubSeq(s \o t, Len(s) + 1, Len(s \o t)) = t
<1> DEFINE c == s \o t
           u == SubSeq(c, 1, Len(s))
           v == SubSeq(c, Len(s) + 1, Len(c))
<1>0. Len(s) \in Nat /\ Len(t) \in Nat
  BY SMT
<1>1. /\ c \in Seq(Nat) /\ Len(c) = Len(s) + Len(t)
      /\ \A i \in 1 .. Len(s) : c[i] = s[i]
      /\ \A i \in 1 .. Len(t) : c[Len(s) + i] = t[i]
  BY SMT
<1> HIDE DEF c
<1>2. u \in Seq(Nat) /\ Len(u) = Len(s) /\ \A i \in 1 .. Len(s) : u[i] = c[i]
  BY <1>0, <1>1, SMT
<1>3. v \in Seq(Nat) /\ Len(v) = Len(t) /\ \A i \in 1 .. Len(t) : v[i] = c[Len(s) + i]
  <2>1. Len(s) + 1 \in 1 .. Len(c) + 1 /\ Len(c) \in Len(s) + 1 - 1 .. Len(c)
    BY <1>0, <1>1, SMT
  <2>2. /\ v \in Seq(Nat) /\ Len(v) = Len(c) - (Len(s) + 1) + 1
        /\ \A i \in 1 .. Len(c) - (Len(s) + 1) + 1 : v[i] = c[Len(s) + 1 + i - 1]
    BY <1>1, <2>1, PartFacts, SMTT(30)
  <2>3. /\ Len(c) - (Len(s) + 1) + 1 = Len(t)
        /\ \A i \in 1 .. Len(t) : Len(s) + 1 + i - 1 = Len(s) + i
    BY <1>0, <1>1, SMT
  <2> HIDE DEF v
  <2> QED
    BY <2>2, <2>3
<1> HIDE DEF u, v
<1>4. u = s
  BY <1>1, <1>2, SeqEqual
<1>5. v = t
  BY <1>1, <1>3, SeqEqual
<1> QED
  BY <1>1, <1>4, <1>5 DEF u, v, c

\* What a request takes and leaves are the two parts of the bytes.
LEMMA CutBytes ==
    ASSUME NEW q \in Segs, NEW len \in 1 .. Total(q)
    PROVE  /\ TakenBufs(q, len) \in Segs /\ Total(TakenBufs(q, len)) = len
           /\ LeftBufs(q, len) \in Segs /\ Total(LeftBufs(q, len)) = Total(q) - len
           /\ Bytes(TakenBufs(q, len)) = SubSeq(Bytes(q), 1, len)
           /\ Bytes(LeftBufs(q, len)) = SubSeq(Bytes(q), len + 1, Len(Bytes(q)))
<1> DEFINE s == Bytes(TakenBufs(q, len))
           t == Bytes(LeftBufs(q, len))
<1>1. /\ TakenBufs(q, len) \in Segs /\ LeftBufs(q, len) \in Segs
      /\ Total(TakenBufs(q, len)) = len /\ Bytes(q) = s \o t
  BY CutFacts
<1>2. /\ s \in Seq(Nat) /\ Len(s) = len /\ t \in Seq(Nat) /\ Len(t) = Total(LeftBufs(q, len))
      /\ Len(Bytes(q)) = Total(q)
  BY <1>1, BytesFacts
<1> HIDE DEF s, t
<1>3. /\ Len(s \o t) = Len(s) + Len(t)
      /\ SubSeq(s \o t, 1, Len(s)) = s /\ SubSeq(s \o t, Len(s) + 1, Len(s \o t)) = t
  BY <1>2, SplitAt
<1>4. Len(t) = Total(q) - len
  BY <1>1, <1>2, <1>3, SMT
<1> QED
  BY <1>1, <1>2, <1>3, <1>4 DEF s, t

-----------------------------------------------------------------------------
Waiting == {"check", "ignorable", "signals", "publish", "recheck", "asleep"}

\* A thread inside a call is at a call of its script that uses the end it is at.
CallingAt(t) ==
    /\ pc[t] # "user" => at[t] \in DOMAIN Script(t)
    /\ pc[t] \in Waiting /\ side[t] = "in" => Call(t).op \in Takers
    /\ pc[t] \in Waiting /\ side[t] = "out" => Call(t).op \in Givers
    /\ pc[t] = "peek" => Call(t).op \in {"splice", "tee"}
    /\ pc[t] = "transfer" => Call(t).op \in {"splice", "tee", "page"}
    /\ pc[t] = "raise" => victim[t] \in Tasks
Calling == \A t \in Tasks : CallingAt(t)

\* Only those who use an end are listed at it.
Enlisted ==
    \A p \in Pipes, u \in Tasks :
        /\ Listed(read_waiters[p], u) => Takes(u, p)
        /\ Listed(write_waiters[p], u) => Gives(u, p)

\* The inductive invariant.
Inv == TypeOK /\ WithinCapacity /\ Calling /\ Enlisted /\ NoMissedHangup /\ NoLostWakeup

\* What a step owes those who sleep at the two ends of p: one it leaves Blocked
\* stays listed, its other end stays open and it gets nothing it alone waits for.
KeptIn(p) ==
    \A u \in Tasks :
        Listed(read_waiters[p], u) /\ status'[u] = "Blocked" =>
            /\ Listed(read_waiters'[p], u)
            /\ write_end_count'[p] = write_end_count[p]
            /\ SoleTaker(u, p) => bytes'[p] <= bytes[p]
KeptOut(p) ==
    \A u \in Tasks :
        Listed(write_waiters[p], u) /\ status'[u] = "Blocked" =>
            /\ Listed(write_waiters'[p], u)
            /\ read_end_count'[p] = read_end_count[p]
            /\ SoleGiver(u, p) => available_write(p)' <= available_write(p)

\* No thread falls asleep, and a sleeper is where it was.
NoNewSleeper ==
    \A u \in Tasks : Asleep(u)' => Asleep(u) /\ at'[u] = at[u] /\ side'[u] = side[u]

-----------------------------------------------------------------------------
\* wake_waiters.

Statuses == {"Running", "Blocked", "Ready"}

\* Of the listed threads that are Blocked one is the first.
LEMMA FirstExists ==
    ASSUME NEW q \in Seq(Tasks), NEW st \in [Tasks -> Statuses],
           NEW k \in DOMAIN q, st[q[k]] = "Blocked"
    PROVE  FirstBlocked(q, st) # {}
<1> DEFINE B == {i \in DOMAIN q : st[q[i]] = "Blocked"}
<1>1. B \in SUBSET Nat /\ B # {}
  BY SMT
<1>2. PICK n \in B : \A m \in B : n <= m
  BY <1>1, Least
<1>3. n \in FirstBlocked(q, st)
  BY <1>2, SMT DEF FirstBlocked
<1> QED
  BY <1>3

\* wake_waiters(one) wakes the first Blocked thread, forgets those before it and
\* keeps the others, so one that is still Blocked is still listed.
LEMMA WakeOneFacts ==
    ASSUME NEW q \in Seq(Tasks), NEW st \in [Tasks -> Statuses]
    PROVE  /\ WakeOne(q, st) \in [Tasks -> Statuses]
           /\ AfterFirst(q, st) \in Seq(Tasks)
           /\ \A u \in Tasks : WakeOne(q, st)[u] = "Blocked" => st[u] = "Blocked"
           /\ \A u \in Tasks : Listed(AfterFirst(q, st), u) => Listed(q, u)
           /\ \A u \in Tasks : Listed(q, u) /\ WakeOne(q, st)[u] = "Blocked"
                                  => Listed(AfterFirst(q, st), u)
           /\ \A u \in Tasks : (\A i \in DOMAIN q : q[i] = u) /\ Listed(q, u)
                                  => WakeOne(q, st)[u] # "Blocked"
<1>1. WakeOne(q, st) \in [Tasks -> Statuses]
  BY DEF WakeOne, Awake, Statuses
<1>2. \A u \in Tasks : WakeOne(q, st)[u] = "Blocked" => st[u] = "Blocked"
  BY DEF WakeOne, Awake
<1>3. CASE FirstBlocked(q, st) = {}
  <2>1. AfterFirst(q, st) = <<>>
    BY <1>3 DEF AfterFirst
  <2>2. \A i \in DOMAIN q : st[q[i]] # "Blocked"
    BY <1>3, FirstExists
  <2>3. \A u \in Tasks : Listed(q, u) => WakeOne(q, st)[u] # "Blocked"
    BY <1>2, <2>2 DEF Listed
  <2>4. \A u : ~Listed(<<>>, u)
    BY SMT DEF Listed
  <2> QED
    BY <1>1, <1>2, <2>1, <2>3, <2>4, SMT
<1>4. CASE FirstBlocked(q, st) # {}
  <2> DEFINE k == CHOOSE i \in FirstBlocked(q, st) : TRUE
  <2>1. k \in FirstBlocked(q, st)
    BY <1>4
  <2> HIDE DEF k
  <2>2. /\ k \in DOMAIN q /\ k \in Nat /\ k >= 1 /\ k <= Len(q)
        /\ st[q[k]] = "Blocked"
        /\ \A j \in 1 .. k - 1 : st[q[j]] # "Blocked"
    BY <2>1, SMT DEF FirstBlocked
  <2>3. AfterFirst(q, st) = SubSeq(q, k + 1, Len(q))
    BY <1>4 DEF AfterFirst, k
  <2> DEFINE r == SubSeq(q, k + 1, Len(q))
  <2>4. r \in Seq(Tasks) /\ Len(r) = Len(q) - k
        /\ \A i \in 1 .. Len(r) : r[i] = q[k + i]
    BY <2>2, SMTT(30)
  <2>5. WakeOne(q, st)[q[k]] = "Ready"
    BY <2>1, <2>2, SMT DEF WakeOne, Awake
  <2>6. ASSUME NEW u \in Tasks, Listed(r, u) PROVE Listed(q, u)
    <3>1. PICK i \in 1 .. Len(r) : r[i] = u
      BY <2>4, <2>6, SMT DEF Listed
    <3>2. k + i \in DOMAIN q
      BY <2>2, <2>4, <3>1, SMT
    <3> QED
      BY <2>4, <3>1, <3>2 DEF Listed
  <2>7. ASSUME NEW u \in Tasks, Listed(q, u), WakeOne(q, st)[u] = "Blocked"
        PROVE  Listed(r, u)
    <3>1. PICK i \in DOMAIN q : q[i] = u
      BY <2>7 DEF Listed
    <3>2. st[q[i]] = "Blocked" /\ i # k
      BY <1>2, <2>5, <2>7, <3>1
    <3>3. i > k /\ i \in Nat
      BY <2>2, <3>2, SMT
    <3>4. i - k \in 1 .. Len(r) /\ r[i - k] = u
      BY <2>2, <2>4, <3>1, <3>3, SMTT(30)
    <3> QED
      BY <2>4, <3>4, SMT DEF Listed
  <2>8. ASSUME NEW u \in Tasks, \A i \in DOMAIN q : q[i] = u
        PROVE  WakeOne(q, st)[u] # "Blocked"
    BY <2>2, <2>5, <2>8
  <2> HIDE DEF r
  <2> QED
    BY <1>1, <1>2, <2>3, <2>4, <2>6, <2>7, <2>8 DEF r
<1> QED
  BY <1>3, <1>4

\* wake_waiters(all) leaves no listed thread Blocked.
LEMMA WakeAllFacts ==
    ASSUME NEW q \in Seq(Tasks), NEW st \in [Tasks -> Statuses]
    PROVE  /\ WakeAll(q, st) \in [Tasks -> Statuses]
           /\ \A u \in Tasks : WakeAll(q, st)[u] = "Blocked" => st[u] = "Blocked"
           /\ \A u \in Tasks : Listed(q, u) => WakeAll(q, st)[u] # "Blocked"
  BY DEF WakeAll, Awake, Statuses, Listed

\* push_reader and push_writer list the thread and keep the others.
LEMMA PushFacts ==
    ASSUME NEW q \in Seq(Tasks), NEW t \in Tasks
    PROVE  /\ PushWaiter(q, t) \in Seq(Tasks)
           /\ \A u \in Tasks : Listed(PushWaiter(q, t), u) <=> Listed(q, u) \/ u = t
<1>1. CASE Listed(q, t)
  BY <1>1 DEF PushWaiter
<1>2. CASE ~Listed(q, t)
  <2>1. /\ PushWaiter(q, t) = Append(q, t) /\ Len(Append(q, t)) = Len(q) + 1
        /\ \A i \in 1 .. Len(q) : Append(q, t)[i] = q[i]
        /\ Append(q, t)[Len(q) + 1] = t /\ Append(q, t) \in Seq(Tasks)
    BY <1>2, SMT DEF PushWaiter
  <2>2. DOMAIN q = 1 .. Len(q) /\ DOMAIN Append(q, t) = 1 .. Len(q) + 1 /\ Len(q) \in Nat
    BY <2>1, SMT
  <2>3. \A i : i \in 1 .. Len(q) + 1 <=> i \in 1 .. Len(q) \/ i = Len(q) + 1
    BY <2>2, SMT
  <2> QED
    BY <2>1, <2>2, <2>3 DEF Listed
<1> QED
  BY <1>1, <1>2

-----------------------------------------------------------------------------
\* Facts every action uses.

\* The call a thread is at is one of its script.
LEMMA CallFacts ==
    ASSUME TypeOK, NEW t \in Tasks, at[t] \in DOMAIN Script(t)
    PROVE  /\ In(t) \in Pipes /\ Out(t) \in Pipes /\ Call(t).n \in Nat \ {0}
           /\ Call(t).op \in {"splice", "tee"} => In(t) # Out(t)
           /\ Call(t).op \in Takers => Takes(t, In(t))
           /\ Call(t).op \in Givers => Gives(t, Out(t))
<1>1. Script(t) \in Seq(Calls) /\ Call(t) \in Calls
  BY PipeAssumption, SMT DEF TypeOK, Script, Call
<1>2. In(t) \in Pipes /\ Out(t) \in Pipes /\ Call(t).n \in Nat \ {0}
  BY <1>1 DEF Calls, In, Out
<1>3. Call(t).op \in {"splice", "tee"} => In(t) # Out(t)
  BY PipeAssumption, SMT DEF TypeOK, Script, Call, In, Out
<1> QED
  BY <1>2, <1>3 DEF Takes, Gives, Call, In, Out

\* The two promises for one thread.
SleepsWell(t) ==
    Asleep(t) =>
        /\ side[t] = "in" => /\ write_end_count[In(t)] > 0 /\ Listed(read_waiters[In(t)], t)
                             /\ SoleTaker(t, In(t)) => bytes[In(t)] = 0
        /\ side[t] = "out" => /\ read_end_count[Out(t)] > 0 /\ Listed(write_waiters[Out(t)], t)
                              /\ SoleGiver(t, Out(t)) => available_write(Out(t)) = 0

\* A step that pays its debts to the sleepers keeps the promises to one that
\* slept before.
LEMMA SleeperKept ==
    ASSUME Inv, scene' = scene, \A p \in Pipes : KeptIn(p) /\ KeptOut(p),
           TypeOK', WithinCapacity', NEW t \in Tasks,
           Asleep(t)' => Asleep(t) /\ at'[t] = at[t] /\ side'[t] = side[t]
    PROVE  SleepsWell(t)'
<1> SUFFICES ASSUME Asleep(t)'
             PROVE  SleepsWell(t)'
  BY DEF SleepsWell
<1>1. Asleep(t) /\ at'[t] = at[t] /\ side'[t] = side[t] /\ status'[t] = "Blocked"
  BY DEF Asleep
<1>2. In(t)' = In(t) /\ Out(t)' = Out(t)
  BY <1>1 DEF In, Out, Call, Script
<1>3. In(t) \in Pipes /\ Out(t) \in Pipes
  BY <1>1, CallFacts DEF Inv, Calling, CallingAt, Asleep
<1>4. \A p : SoleTaker(t, p)' = SoleTaker(t, p) /\ SoleGiver(t, p)' = SoleGiver(t, p)
  BY DEF SoleTaker, SoleGiver, Takes, Gives, Script
<1>5. ASSUME side[t] = "in"
      PROVE  /\ write_end_count'[In(t)] > 0 /\ Listed(read_waiters'[In(t)], t)
             /\ SoleTaker(t, In(t)) => bytes'[In(t)] = 0
  <2>1. write_end_count[In(t)] > 0 /\ Listed(read_waiters[In(t)], t)
    BY <1>1, <1>5 DEF Inv, NoMissedHangup
  <2>2. SoleTaker(t, In(t)) => bytes[In(t)] = 0
    BY <1>1, <1>5 DEF Inv, NoLostWakeup
  <2>3. /\ Listed(read_waiters'[In(t)], t) /\ write_end_count'[In(t)] = write_end_count[In(t)]
        /\ SoleTaker(t, In(t)) => bytes'[In(t)] <= bytes[In(t)]
    BY <1>1, <1>3, <2>1 DEF KeptIn
  <2>4. bytes'[In(t)] \in Nat
    BY <1>3 DEF TypeOK
  <2> QED
    BY <2>1, <2>2, <2>3, <2>4, SMT
<1>6. ASSUME side[t] = "out"
      PROVE  /\ read_end_count'[Out(t)] > 0 /\ Listed(write_waiters'[Out(t)], t)
             /\ SoleGiver(t, Out(t)) => available_write(Out(t))' = 0
  <2>1. read_end_count[Out(t)] > 0 /\ Listed(write_waiters[Out(t)], t)
    BY <1>1, <1>6 DEF Inv, NoMissedHangup
  <2>2. SoleGiver(t, Out(t)) => available_write(Out(t)) = 0
    BY <1>1, <1>6 DEF Inv, NoLostWakeup
  <2>3. /\ Listed(write_waiters'[Out(t)], t) /\ read_end_count'[Out(t)] = read_end_count[Out(t)]
        /\ SoleGiver(t, Out(t)) => available_write(Out(t))' <= available_write(Out(t))
    BY <1>1, <1>2, <1>3, <2>1 DEF KeptOut, available_write
  <2>4. available_write(Out(t))' \in Int /\ available_write(Out(t))' >= 0
    BY <1>2, <1>3, SMTT(30) DEF TypeOK, WithinCapacity, available_write
  <2> QED
    BY <2>1, <2>2, <2>3, <2>4, SMT
<1> QED
  BY <1>1, <1>2, <1>4, <1>5, <1>6 DEF SleepsWell, available_write, Listed

\* The promises are those to each thread.
LEMMA AllSleepWell ==
    ASSUME \A t \in Tasks : SleepsWell(t)'
    PROVE  NoMissedHangup' /\ NoLostWakeup'
  BY DEF NoMissedHangup, NoLostWakeup, SleepsWell, Listed

\* Such a step keeps both, when nobody falls asleep.
LEMMA SleepKept ==
    ASSUME Inv, scene' = scene, NoNewSleeper, \A p \in Pipes : KeptIn(p) /\ KeptOut(p),
           TypeOK', WithinCapacity'
    PROVE  NoMissedHangup' /\ NoLostWakeup'
  BY SleeperKept, AllSleepWell DEF NoNewSleeper

\* A step that leaves the pipes alone.
LEMMA PipesUntouched ==
    ASSUME Inv, UNCHANGED <<scene, ring>>, NoNewSleeper, TypeOK', Calling'
    PROVE  Inv'
<1>1. WithinCapacity' /\ Enlisted'
  BY DEF Inv, ring, WithinCapacity, Enlisted, Takes, Gives, Script
<1>2. \A p \in Pipes : KeptIn(p) /\ KeptOut(p)
  <2>1. \A p \in Pipes : bytes[p] <= bytes[p] /\ available_write(p) <= available_write(p)
    BY SMT DEF Inv, TypeOK, available_write
  <2> QED
    BY <2>1 DEF KeptIn, KeptOut, ring, available_write
<1> QED
  BY <1>1, <1>2, SleepKept DEF Inv

\* Only t moves.
OnlyMoves(t) ==
    \A u \in Tasks \ {t} : /\ pc'[u] = pc[u] /\ at'[u] = at[u]
                           /\ side'[u] = side[u] /\ victim'[u] = victim[u]

\* The others are where they were.
LEMMA CallingKept ==
    ASSUME Inv, scene' = scene, NEW t \in Tasks, OnlyMoves(t), CallingAt(t)'
    PROVE  Calling'
<1> SUFFICES ASSUME NEW u \in Tasks, u # t
             PROVE  CallingAt(u)'
  BY DEF Calling
<1> QED
  BY DEF Inv, Calling, CallingAt, OnlyMoves, Call, Script

\* Return leaves the call.
LEMMA ReturnFacts ==
    ASSUME TypeOK, NEW t \in Tasks, Return(t)
    PROVE  /\ pc' \in [Tasks -> Labels] /\ pc'[t] = "user"
           /\ at' \in [Tasks -> Nat \ {0}]
           /\ \A u \in Tasks \ {t} : pc'[u] = pc[u] /\ at'[u] = at[u]
  BY SMT DEF TypeOK, Return, Goto, Labels

-----------------------------------------------------------------------------
\* The actions that leave the pipes alone.

\* Begin enters a call of the script at the end it uses.
LEMMA BeginInv ==
    ASSUME Inv, NEW t \in Tasks, Begin(t)
    PROVE  Inv'
<1>1. TypeOK'
  BY DEF Inv, TypeOK, Begin, Goto, Labels, ring, signals
<1>2. OnlyMoves(t) /\ UNCHANGED <<scene, ring>>
  BY DEF Inv, TypeOK, Begin, Goto, OnlyMoves
<1>3. CallingAt(t)'
  <2>1. at[t] \in DOMAIN Script(t)
    <3>1. Script(t) \in Seq(Calls)
      BY PipeAssumption DEF Inv, TypeOK, Script
    <3> QED
      BY <3>1, SMT DEF Inv, TypeOK, Begin
  <2> QED
    BY <2>1 DEF Inv, TypeOK, Begin, Goto, CallingAt, Call, Script, Takers, Givers
<1>4. NoNewSleeper
  BY DEF Inv, TypeOK, Begin, Goto, NoNewSleeper, Asleep
<1> QED
  BY <1>1, <1>2, <1>3, <1>4, CallingKept, PipesUntouched

\* Peek turns a splice or tee to its output end.
LEMMA PeekInv ==
    ASSUME Inv, NEW t \in Tasks, Peek(t)
    PROVE  Inv'
<1>1. TypeOK'
  <2>1. /\ pc' \in [Tasks -> Labels] /\ at' \in [Tasks -> Nat \ {0}]
        /\ side' \in [Tasks -> {"in", "out"}]
    BY ReturnFacts DEF Inv, TypeOK, Peek, Goto, Labels
  <2> QED
    BY <2>1 DEF Inv, TypeOK, Peek, ring, signals
<1>2. OnlyMoves(t) /\ UNCHANGED <<scene, ring>>
  BY SMT DEF Inv, TypeOK, Peek, Return, Goto, OnlyMoves
<1>3. CallingAt(t)'
  <2>1. \/ pc'[t] = "user"
        \/ pc'[t] = "check" /\ side'[t] = "out" /\ at' = at
    BY DEF Inv, TypeOK, Peek, Return, Goto
  <2> QED
    BY <2>1 DEF Inv, Calling, Peek, CallingAt, Call, Script, Waiting, Givers
<1>4. NoNewSleeper
  BY SMT DEF Inv, TypeOK, Peek, Return, Goto, NoNewSleeper, Asleep
<1> QED
  BY <1>1, <1>2, <1>3, <1>4, CallingKept, PipesUntouched

\* The two looks at the pending signals.
LEMMA SignalCheckInv ==
    ASSUME Inv, NEW t \in Tasks, ConsumeIgnorable(t) \/ CheckSignals(t)
    PROVE  Inv'
<1>1. TypeOK'
  <2>1. CASE ConsumeIgnorable(t)
    BY <2>1 DEF Inv, TypeOK, ConsumeIgnorable, Goto, Labels, ring
  <2>2. CASE CheckSignals(t)
    <3>1. pc' \in [Tasks -> Labels] /\ at' \in [Tasks -> Nat \ {0}]
      BY <2>2, ReturnFacts DEF Inv, TypeOK, CheckSignals, Goto, Labels
    <3> QED
      BY <2>2, <3>1 DEF Inv, TypeOK, CheckSignals, ring, signals
  <2> QED
    BY <2>1, <2>2
<1>2. OnlyMoves(t) /\ UNCHANGED <<scene, ring>>
  BY DEF Inv, TypeOK, ConsumeIgnorable, CheckSignals, Return, Goto, OnlyMoves
<1>3. CallingAt(t)'
  <2>1. CASE ConsumeIgnorable(t)
    BY <2>1 DEF Inv, TypeOK, Calling, ConsumeIgnorable, Goto, CallingAt, Call, Script, Waiting
  <2>2. CASE CheckSignals(t)
    <3>1. \/ pc'[t] = "user"
          \/ pc'[t] = "publish" /\ at' = at
      BY <2>2 DEF Inv, TypeOK, CheckSignals, Return, Goto
    <3> QED
      BY <2>2, <3>1 DEF Inv, Calling, CheckSignals, CallingAt, Call, Script, Waiting
  <2> QED
    BY <2>1, <2>2
<1>4. NoNewSleeper
  BY SMT DEF Inv, TypeOK, ConsumeIgnorable, CheckSignals, Return, Goto, NoNewSleeper, Asleep
<1> QED
  BY <1>1, <1>2, <1>3, <1>4, CallingKept, PipesUntouched

\* A thread that publishes Blocked is not asleep yet; one that resumes is awake.
LEMMA PublishResumeInv ==
    ASSUME Inv, NEW t \in Tasks, Publish(t) \/ Resume(t)
    PROVE  Inv'
<1>1. TypeOK'
  <2>1. CASE Publish(t)
    BY <2>1 DEF Inv, TypeOK, Publish, Goto, Labels, ring, signals
  <2>2. CASE Resume(t)
    BY <2>2 DEF Inv, TypeOK, Resume, Goto, Labels, ring, signals
  <2> QED
    BY <2>1, <2>2
<1>2. OnlyMoves(t) /\ UNCHANGED <<scene, ring>>
  BY DEF Inv, TypeOK, Publish, Resume, Goto, OnlyMoves
<1>3. CallingAt(t)'
  BY DEF Inv, TypeOK, Calling, Publish, Resume, Goto, CallingAt, Call, Script, Waiting
<1>4. NoNewSleeper
  BY SMT DEF Inv, TypeOK, Publish, Resume, Goto, NoNewSleeper, Asleep
<1> QED
  BY <1>1, <1>2, <1>3, <1>4, CallingKept, PipesUntouched

\* Sending, waking for and handling a signal.
LEMMA SignalInv ==
    ASSUME Inv, NEW t \in Tasks,
           \/ SendRaised(t) \/ SignalWake(t) \/ HandleSignal(t)
           \/ \E kind \in {"ignored", "visible"} : Alarm(t, kind)
    PROVE  Inv'
<1>0. pc[t] = "raise" => victim[t] \in Tasks
  BY DEF Inv, Calling, CallingAt
<1>1. TypeOK'
  <2>1. CASE SendRaised(t)
    <3>1. /\ sig' \in [Tasks -> {"none", "ignored", "visible"}]
          /\ sig_wake' \in [Tasks -> BOOLEAN]
      BY <1>0, <2>1 DEF Inv, TypeOK, SendRaised, Post
    <3>2. /\ pc' \in [Tasks -> Labels] /\ at' \in [Tasks -> Nat \ {0}]
          /\ victim' \in [Tasks -> Tasks \cup {None}]
      BY <2>1, ReturnFacts DEF Inv, TypeOK, SendRaised
    <3> QED
      BY <2>1, <3>1, <3>2 DEF Inv, TypeOK, SendRaised, ring
  <2>2. CASE SignalWake(t)
    <3>1. /\ status' \in [Tasks -> {"Running", "Blocked", "Ready"}]
          /\ sig_wake' \in [Tasks -> BOOLEAN]
      BY <2>2 DEF Inv, TypeOK, SignalWake
    <3> QED
      BY <2>2, <3>1 DEF Inv, TypeOK, SignalWake, ring
  <2>4. CASE HandleSignal(t)
    BY <2>4 DEF Inv, TypeOK, HandleSignal, ring
  <2>3. ASSUME NEW kind \in {"ignored", "visible"}, Alarm(t, kind)
        PROVE  TypeOK'
    <3>1. /\ sig' \in [Tasks -> {"none", "ignored", "visible"}]
          /\ sig_wake' \in [Tasks -> BOOLEAN]
      BY <2>3 DEF Inv, TypeOK, Alarm, Post
    <3> QED
      BY <2>3, <3>1 DEF Inv, TypeOK, Alarm, ring
  <2> QED
    BY <2>1, <2>2, <2>3, <2>4
<1>2. OnlyMoves(t) /\ UNCHANGED <<scene, ring>>
  BY SMT DEF Inv, TypeOK, SendRaised, SignalWake, HandleSignal, Alarm, Return, Goto, OnlyMoves
<1>3. CallingAt(t)'
  <2>1. CASE SendRaised(t)
    BY <2>1 DEF Inv, TypeOK, SendRaised, Return, Goto, CallingAt, Waiting
  <2>2. CASE ~SendRaised(t)
    <3>1. UNCHANGED <<scene, pc, at, side, victim>>
      BY <2>2 DEF SignalWake, HandleSignal, Alarm
    <3> QED
      BY <3>1 DEF Inv, Calling, CallingAt, Call, Script
  <2> QED
    BY <2>1, <2>2
<1>4. NoNewSleeper
  BY SMT DEF Inv, TypeOK, SendRaised, SignalWake, HandleSignal, Alarm, Return, Goto, NoNewSleeper,
         Asleep
<1> QED
  BY <1>1, <1>2, <1>3, <1>4, CallingKept, PipesUntouched

-----------------------------------------------------------------------------
\* The actions on the pipes.

\* No waiter is added to a list.
NoNewWaiter ==
    \A p \in Pipes, u \in Tasks :
        /\ Listed(read_waiters'[p], u) => Listed(read_waiters[p], u)
        /\ Listed(write_waiters'[p], u) => Listed(write_waiters[p], u)

\* What remains to be shown of an action that blocks nobody.
LEMMA RingStep ==
    ASSUME Inv, NEW t \in Tasks, scene' = scene, OnlyMoves(t), CallingAt(t)',
           pc'[t] # "asleep", \A u \in Tasks : status'[u] = "Blocked" => status[u] = "Blocked",
           TypeOK', WithinCapacity', NoNewWaiter,
           \A p \in Pipes : KeptIn(p) /\ KeptOut(p)
    PROVE  Inv'
<1>1. Calling'
  BY CallingKept
<1>2. NoNewSleeper
  BY DEF NoNewSleeper, OnlyMoves, Asleep
<1>3. Enlisted'
  <2>1. \A p, u : (Takes(u, p)' <=> Takes(u, p)) /\ (Gives(u, p)' <=> Gives(u, p))
    BY DEF Takes, Gives, Script
  <2> QED
    BY <2>1, SMT DEF Inv, Enlisted, NoNewWaiter, Listed
<1> QED
  BY <1>1, <1>2, <1>3, SleepKept DEF Inv

\* One woken of those who wait for input: one it leaves Blocked stays listed and
\* has company.
LEMMA ReaderWoken ==
    ASSUME Inv, NEW p \in Pipes, NEW st \in [Tasks -> Statuses], NEW u \in Tasks,
           Listed(read_waiters[p], u), WakeOne(read_waiters[p], st)[u] = "Blocked"
    PROVE  Listed(AfterFirst(read_waiters[p], st), u) /\ ~SoleTaker(u, p)
<1> DEFINE q == read_waiters[p]
<1>1. q \in Seq(Tasks)
  BY DEF Inv, TypeOK
<1>2. Listed(AfterFirst(q, st), u)
  BY <1>1, WakeOneFacts
<1>3. PICK i \in DOMAIN q : q[i] # u
  BY <1>1, WakeOneFacts, SMT
<1>4. q[i] \in Tasks \ {u} /\ Listed(q, q[i])
  BY <1>1, <1>3, SMT DEF Listed
<1>5. Takes(q[i], p)
  BY <1>4 DEF Inv, Enlisted
<1> QED
  BY <1>2, <1>4, <1>5 DEF SoleTaker

\* The same of those who wait for space.
LEMMA WriterWoken ==
    ASSUME Inv, NEW p \in Pipes, NEW st \in [Tasks -> Statuses], NEW u \in Tasks,
           Listed(write_waiters[p], u), WakeOne(write_waiters[p], st)[u] = "Blocked"
    PROVE  Listed(AfterFirst(write_waiters[p], st), u) /\ ~SoleGiver(u, p)
<1> DEFINE q == write_waiters[p]
<1>1. q \in Seq(Tasks)
  BY DEF Inv, TypeOK
<1>2. Listed(AfterFirst(q, st), u)
  BY <1>1, WakeOneFacts
<1>3. PICK i \in DOMAIN q : q[i] # u
  BY <1>1, WakeOneFacts, SMT
<1>4. q[i] \in Tasks \ {u} /\ Listed(q, q[i])
  BY <1>1, <1>3, SMT DEF Listed
<1>5. Gives(q[i], p)
  BY <1>4 DEF Inv, Enlisted
<1> QED
  BY <1>2, <1>4, <1>5 DEF SoleGiver

\* A thread in user mode that has a call left is at a call of its script.
LEMMA NextCall ==
    ASSUME Inv, NEW t \in Tasks, at[t] <= Len(Script(t))
    PROVE  at[t] \in DOMAIN Script(t) /\ In(t) \in Pipes /\ Out(t) \in Pipes
<1>1. Script(t) \in Seq(Calls)
  BY PipeAssumption DEF Inv, TypeOK, Script
<1>2. at[t] \in DOMAIN Script(t)
  BY <1>1, SMT DEF Inv, TypeOK
<1> QED
  BY <1>2, CallFacts DEF Inv

\* The last close of the reading end finds every writer that sleeps.
LEMMA CloseReadInv ==
    ASSUME Inv, NEW t \in Tasks, CloseRead(t)
    PROVE  Inv'
<1> DEFINE p == In(t)
<1>1. p \in Pipes
  BY NextCall DEF CloseRead
<1>2. status \in [Tasks -> Statuses] /\ write_waiters[p] \in Seq(Tasks)
  BY <1>1 DEF Inv, TypeOK, Statuses
<1>3. /\ status' \in [Tasks -> Statuses]
      /\ \A u \in Tasks : status'[u] = "Blocked" => status[u] = "Blocked"
      /\ \A u \in Tasks : Listed(write_waiters[p], u) => status'[u] # "Blocked"
  BY <1>2, WakeAllFacts, SMT DEF CloseRead
<1>4. /\ read_end_count' = [read_end_count EXCEPT ![p] = IF @ > 0 THEN @ - 1 ELSE 0]
      /\ write_waiters' = [write_waiters EXCEPT ![p] = <<>>]
      /\ UNCHANGED <<scene, bufs, bytes, capacity, write_end_count, read_waiters, side, victim>>
  BY DEF CloseRead
<1>5. /\ pc' \in [Tasks -> Labels] /\ pc'[t] = "user" /\ at' \in [Tasks -> Nat \ {0}]
      /\ OnlyMoves(t) /\ CallingAt(t)'
  <2>1. Return(t)
    BY DEF CloseRead
  <2> QED
    BY <1>4, <2>1, ReturnFacts DEF Inv, OnlyMoves, CallingAt, Waiting
<1>6. TypeOK'
  <2>1. read_end_count' \in [Pipes -> Nat] /\ write_waiters' \in [Pipes -> Seq(Tasks)]
    BY <1>1, <1>4, SMT DEF Inv, TypeOK
  <2> QED
    BY <1>3, <1>4, <1>5, <2>1, SMTT(30) DEF Inv, TypeOK, CloseRead, signals, Statuses
<1>7. WithinCapacity'
  BY <1>4 DEF Inv, WithinCapacity
<1>8. NoNewWaiter
  <2>1. \A u : ~Listed(<<>>, u)
    BY SMT DEF Listed
  <2> QED
    BY <1>1, <1>4, <2>1 DEF Inv, TypeOK, NoNewWaiter
<1>9. ASSUME NEW r \in Pipes
      PROVE  KeptIn(r) /\ KeptOut(r)
  <2>1. bytes[r] \in Nat /\ capacity[r] \in Nat
    BY DEF Inv, TypeOK
  <2>2. KeptIn(r)
    BY <1>4, <2>1, SMT DEF KeptIn
  <2>3. KeptOut(r)
    BY <1>1, <1>3, <1>4, <2>1, SMTT(30) DEF Inv, TypeOK, KeptOut, available_write
  <2> QED
    BY <2>2, <2>3
<1> QED
  BY <1>3, <1>4, <1>5, <1>6, <1>7, <1>8, <1>9, RingStep

\* The last close of the writing end finds every reader that sleeps.
LEMMA CloseWriteInv ==
    ASSUME Inv, NEW t \in Tasks, CloseWrite(t)
    PROVE  Inv'
<1> DEFINE p == Out(t)
<1>1. p \in Pipes
  BY NextCall DEF CloseWrite
<1>2. status \in [Tasks -> Statuses] /\ read_waiters[p] \in Seq(Tasks)
  BY <1>1 DEF Inv, TypeOK, Statuses
<1>3. /\ status' \in [Tasks -> Statuses]
      /\ \A u \in Tasks : status'[u] = "Blocked" => status[u] = "Blocked"
      /\ \A u \in Tasks : Listed(read_waiters[p], u) => status'[u] # "Blocked"
  BY <1>2, WakeAllFacts, SMT DEF CloseWrite
<1>4. /\ write_end_count' = [write_end_count EXCEPT ![p] = IF @ > 0 THEN @ - 1 ELSE 0]
      /\ read_waiters' = [read_waiters EXCEPT ![p] = <<>>]
      /\ UNCHANGED <<scene, bufs, bytes, capacity, read_end_count, write_waiters, side, victim>>
  BY DEF CloseWrite
<1>5. /\ pc' \in [Tasks -> Labels] /\ pc'[t] = "user" /\ at' \in [Tasks -> Nat \ {0}]
      /\ OnlyMoves(t) /\ CallingAt(t)'
  <2>1. Return(t)
    BY DEF CloseWrite
  <2> QED
    BY <1>4, <2>1, ReturnFacts DEF Inv, OnlyMoves, CallingAt, Waiting
<1>6. TypeOK'
  <2>1. write_end_count' \in [Pipes -> Nat] /\ read_waiters' \in [Pipes -> Seq(Tasks)]
    BY <1>1, <1>4, SMT DEF Inv, TypeOK
  <2> QED
    BY <1>3, <1>4, <1>5, <2>1, SMTT(30) DEF Inv, TypeOK, CloseWrite, signals, Statuses
<1>7. WithinCapacity'
  BY <1>4 DEF Inv, WithinCapacity
<1>8. NoNewWaiter
  <2>1. \A u : ~Listed(<<>>, u)
    BY SMT DEF Listed
  <2> QED
    BY <1>1, <1>4, <2>1 DEF Inv, TypeOK, NoNewWaiter
<1>9. ASSUME NEW r \in Pipes
      PROVE  KeptIn(r) /\ KeptOut(r)
  <2>1. bytes[r] \in Nat /\ capacity[r] \in Nat
    BY DEF Inv, TypeOK
  <2>2. KeptIn(r)
    BY <1>1, <1>3, <1>4, <2>1, SMTT(30) DEF Inv, TypeOK, KeptIn
  <2>3. KeptOut(r)
    <3>1. /\ write_waiters' = write_waiters /\ read_end_count' = read_end_count
          /\ bytes' = bytes /\ capacity' = capacity
      BY <1>4
    <3>2. available_write(r) <= available_write(r)
      BY <2>1, SMT DEF available_write
    <3> QED
      BY <3>1, <3>2 DEF KeptOut, available_write
  <2> QED
    BY <2>2, <2>3
<1> QED
  BY <1>3, <1>4, <1>5, <1>6, <1>7, <1>8, <1>9, RingStep

\* A new capacity holds what is buffered, and every sleeping writer looks again.
LEMMA SetCapacityInv ==
    ASSUME Inv, NEW t \in Tasks, SetCapacity(t)
    PROVE  Inv'
<1> DEFINE p == Out(t)
           n == Call(t).n
<1>1. p \in Pipes /\ n \in Nat
  BY NextCall, CallFacts DEF SetCapacity, Inv
<1>2. /\ pc' \in [Tasks -> Labels] /\ pc'[t] = "user" /\ at' \in [Tasks -> Nat \ {0}]
      /\ OnlyMoves(t) /\ CallingAt(t)'
  <2>1. Return(t) /\ UNCHANGED <<scene, side, victim>>
    BY DEF SetCapacity
  <2> QED
    BY <2>1, ReturnFacts DEF Inv, OnlyMoves, CallingAt, Waiting
<1>3. CASE UNCHANGED <<capacity, status, write_waiters>>
  <2>1. UNCHANGED <<scene, ring>>
    BY <1>3 DEF SetCapacity, ring
  <2>2. TypeOK'
    BY <1>2, <1>3 DEF Inv, TypeOK, SetCapacity, signals
  <2>3. NoNewSleeper
    BY <1>2, <1>3 DEF NoNewSleeper, OnlyMoves, Asleep
  <2> QED
    BY <1>2, <2>1, <2>2, <2>3, CallingKept, PipesUntouched
<1>4. CASE /\ n >= bytes[p]
           /\ capacity' = [capacity EXCEPT ![p] = n]
           /\ status' = WakeAll(write_waiters[p], status)
           /\ write_waiters' = [write_waiters EXCEPT ![p] = <<>>]
  <2>1. status \in [Tasks -> Statuses] /\ write_waiters[p] \in Seq(Tasks)
    BY <1>1 DEF Inv, TypeOK, Statuses
  <2>2. /\ status' \in [Tasks -> Statuses]
        /\ \A u \in Tasks : status'[u] = "Blocked" => status[u] = "Blocked"
        /\ \A u \in Tasks : Listed(write_waiters[p], u) => status'[u] # "Blocked"
    BY <1>4, <2>1, WakeAllFacts
  <2>3. UNCHANGED <<scene, bufs, bytes, read_end_count, write_end_count, read_waiters, side,
                    victim>>
    BY DEF SetCapacity
  <2>4. TypeOK'
    <3>1. capacity' \in [Pipes -> Nat] /\ write_waiters' \in [Pipes -> Seq(Tasks)]
      BY <1>1, <1>4, SMT DEF Inv, TypeOK
    <3> QED
      BY <1>2, <2>2, <2>3, <3>1, ZenonT(30) DEF Inv, TypeOK, SetCapacity, signals, Statuses
  <2>5. WithinCapacity'
    BY <1>1, <1>4, <2>3 DEF Inv, TypeOK, WithinCapacity
  <2>6. NoNewWaiter
    <3>1. \A u : ~Listed(<<>>, u)
      BY SMT DEF Listed
    <3> QED
      BY <1>1, <1>4, <2>3, <3>1, ZenonT(30) DEF Inv, TypeOK, NoNewWaiter
  <2>7. ASSUME NEW r \in Pipes
        PROVE  KeptIn(r) /\ KeptOut(r)
    <3>1. bytes[r] \in Nat /\ capacity[r] \in Nat
      BY DEF Inv, TypeOK
    <3>2. KeptIn(r)
      BY <2>3, <3>1, SMT DEF KeptIn
    <3>3. KeptOut(r)
      BY <1>1, <1>4, <2>2, <2>3, <3>1, SMTT(30) DEF Inv, TypeOK, KeptOut, available_write
    <3> QED
      BY <3>2, <3>3
  <2> QED
    BY <1>2, <2>2, <2>3, <2>4, <2>5, <2>6, <2>7, RingStep
<1> QED
  BY <1>3, <1>4 DEF SetCapacity

\* Where Raise leads.
LEMMA RaiseFacts ==
    ASSUME Inv, NEW t \in Tasks, NEW u \in Tasks \cup {None}, Raise(t, u),
           at[t] \in DOMAIN Script(t), scene' = scene, side' = side
    PROVE  /\ pc' \in [Tasks -> Labels] /\ pc'[t] # "asleep" /\ at' \in [Tasks -> Nat \ {0}]
           /\ victim' \in [Tasks -> Tasks \cup {None}]
           /\ OnlyMoves(t) /\ CallingAt(t)'
<1>1. CASE u = None
  <2>1. Return(t) /\ UNCHANGED victim
    BY <1>1 DEF Raise
  <2> QED
    BY <2>1, ReturnFacts DEF Inv, TypeOK, OnlyMoves, CallingAt, Waiting
<1>2. CASE u # None
  <2>1. /\ victim' = [victim EXCEPT ![t] = u] /\ pc' = [pc EXCEPT ![t] = "raise"]
        /\ at' = at
    BY <1>2 DEF Raise, Goto
  <2> QED
    BY <1>2, <2>1 DEF Inv, TypeOK, OnlyMoves, CallingAt, Waiting, Labels, Script
<1> QED
  BY <1>1, <1>2

\* Bytes that fit are added and a reader is woken, by a thread that then leaves.
LEMMA AddedInv ==
    ASSUME Inv, NEW t \in Tasks, NEW p \in Pipes, NEW len \in Nat,
           len <= available_write(p), bytes' = [bytes EXCEPT ![p] = @ + len],
           WakeReader(p), OnlyMoves(t), CallingAt(t)', pc'[t] # "asleep",
           pc' \in [Tasks -> Labels], at' \in [Tasks -> Nat \ {0}],
           victim' \in [Tasks -> Tasks \cup {None}],
           UNCHANGED <<scene, capacity, read_end_count, write_end_count, write_waiters,
                       signals, side>>
    PROVE  Inv'
<1>1. status \in [Tasks -> Statuses] /\ read_waiters[p] \in Seq(Tasks)
  BY DEF Inv, TypeOK, Statuses
<1>2. /\ status' = WakeOne(read_waiters[p], status)
      /\ read_waiters' = [read_waiters EXCEPT ![p] = AfterFirst(read_waiters[p], status)]
  BY DEF WakeReader
<1>3. /\ status' \in [Tasks -> Statuses]
      /\ AfterFirst(read_waiters[p], status) \in Seq(Tasks)
      /\ \A u \in Tasks : status'[u] = "Blocked" => status[u] = "Blocked"
      /\ \A u \in Tasks : Listed(AfterFirst(read_waiters[p], status), u)
                             => Listed(read_waiters[p], u)
  BY <1>1, <1>2, WakeOneFacts
<1>4. TypeOK'
  <2>1. bytes' \in [Pipes -> Nat] /\ read_waiters' \in [Pipes -> Seq(Tasks)]
    BY <1>2, <1>3, SMT DEF Inv, TypeOK
  <2> QED
    BY <1>3, <2>1 DEF Inv, TypeOK, signals, Statuses
<1>5. WithinCapacity'
  BY SMTT(30) DEF Inv, TypeOK, WithinCapacity, available_write
<1>6. NoNewWaiter
  BY <1>2, <1>3 DEF Inv, TypeOK, NoNewWaiter
<1>7. ASSUME NEW r \in Pipes
      PROVE  KeptIn(r) /\ KeptOut(r)
  <2>1. bytes[r] \in Nat /\ capacity[r] \in Nat /\ bytes'[r] >= bytes[r] /\ bytes'[r] \in Nat
    BY SMTT(30) DEF Inv, TypeOK
  <2>2. CASE r = p
    <3>1. \A u \in Tasks : Listed(read_waiters[p], u) /\ status'[u] = "Blocked"
              => Listed(read_waiters'[p], u) /\ ~SoleTaker(u, p)
      BY <1>1, <1>2, ReaderWoken, ZenonT(30) DEF Inv, TypeOK
    <3> QED
      BY <2>1, <2>2, <3>1, SMT DEF KeptIn, KeptOut, available_write
  <2>3. CASE r # p
    <3>1. bytes'[r] = bytes[r] /\ read_waiters'[r] = read_waiters[r]
      BY <1>2, <2>3 DEF Inv, TypeOK
    <3> QED
      BY <2>1, <3>1, SMT DEF KeptIn, KeptOut, available_write
  <2> QED
    BY <2>2, <2>3
<1> QED
  BY <1>3, <1>4, <1>5, <1>6, <1>7, RingStep

\* Only the place of t changes.
LEMMA MoveInv ==
    ASSUME Inv, NEW t \in Tasks, OnlyMoves(t), CallingAt(t)', pc'[t] # "asleep",
           pc' \in [Tasks -> Labels], at' \in [Tasks -> Nat \ {0}],
           victim' \in [Tasks -> Tasks \cup {None}],
           UNCHANGED <<scene, ring, status, signals, side>>
    PROVE  Inv'
<1>1. TypeOK'
  BY DEF Inv, TypeOK, ring, signals
<1>2. NoNewSleeper
  BY DEF NoNewSleeper, OnlyMoves, Asleep
<1> QED
  BY <1>1, <1>2, CallingKept, PipesUntouched

\* Bytes are removed and a writer is woken, by a thread that then leaves.
LEMMA RemovedInv ==
    ASSUME Inv, NEW t \in Tasks, NEW p \in Pipes, NEW len \in Nat,
           len <= bytes[p], bytes' = [bytes EXCEPT ![p] = @ - len],
           WakeWriter(p), OnlyMoves(t), CallingAt(t)', pc'[t] # "asleep",
           pc' \in [Tasks -> Labels], at' \in [Tasks -> Nat \ {0}],
           UNCHANGED <<scene, capacity, read_end_count, write_end_count, read_waiters,
                       signals, side, victim>>
    PROVE  Inv'
<1>1. status \in [Tasks -> Statuses] /\ write_waiters[p] \in Seq(Tasks)
  BY DEF Inv, TypeOK, Statuses
<1>2. /\ status' = WakeOne(write_waiters[p], status)
      /\ write_waiters' = [write_waiters EXCEPT ![p] = AfterFirst(write_waiters[p], status)]
  BY DEF WakeWriter
<1>3. /\ status' \in [Tasks -> Statuses]
      /\ AfterFirst(write_waiters[p], status) \in Seq(Tasks)
      /\ \A u \in Tasks : status'[u] = "Blocked" => status[u] = "Blocked"
      /\ \A u \in Tasks : Listed(AfterFirst(write_waiters[p], status), u)
                             => Listed(write_waiters[p], u)
  BY <1>1, <1>2, WakeOneFacts
<1>4. TypeOK'
  <2>1. bytes' \in [Pipes -> Nat] /\ write_waiters' \in [Pipes -> Seq(Tasks)]
    BY <1>2, <1>3, SMT DEF Inv, TypeOK
  <2> QED
    BY <1>3, <2>1 DEF Inv, TypeOK, signals, Statuses
<1>5. WithinCapacity'
  BY SMT DEF Inv, TypeOK, WithinCapacity
<1>6. NoNewWaiter
  BY <1>2, <1>3 DEF Inv, TypeOK, NoNewWaiter
<1>7. ASSUME NEW r \in Pipes
      PROVE  KeptIn(r) /\ KeptOut(r)
  <2>1. bytes[r] \in Nat /\ capacity[r] \in Nat /\ bytes'[r] <= bytes[r] /\ bytes'[r] \in Nat
    BY <1>4, SMTT(30) DEF Inv, TypeOK
  <2>2. CASE r = p
    <3>1. \A u \in Tasks : Listed(write_waiters[p], u) /\ status'[u] = "Blocked"
              => Listed(write_waiters'[p], u) /\ ~SoleGiver(u, p)
      BY <1>1, <1>2, WriterWoken DEF Inv, TypeOK
    <3> QED
      BY <2>1, <2>2, <3>1 DEF KeptIn, KeptOut
  <2>3. CASE r # p
    <3>1. bytes'[r] = bytes[r] /\ write_waiters'[r] = write_waiters[r]
      BY <1>2, <2>3 DEF Inv, TypeOK
    <3> QED
      BY <2>1, <3>1, SMT DEF KeptIn, KeptOut, available_write
  <2> QED
    BY <2>2, <2>3
<1> QED
  BY <1>3, <1>4, <1>5, <1>6, <1>7, RingStep

\* Fits and Readable are bounded by the space and the contents.
LEMMA LengthFacts ==
    ASSUME Inv, NEW p \in Pipes, NEW n \in Nat
    PROVE  /\ Fits(p, n) \in Nat /\ Fits(p, n) <= available_write(p)
           /\ Readable(p, n) \in Nat /\ Readable(p, n) <= bytes[p]
  BY SMT DEF Inv, TypeOK, WithinCapacity, Fits, Readable, Minimum, available_write

\* The owner of a pipe is a thread or nobody.
LEMMA OwnerFacts ==
    ASSUME Inv, NEW p \in Pipes
    PROVE  scene.owner[p] \in Tasks \cup {None}
  BY PipeAssumption DEF Inv, TypeOK

\* write_kernel_bytes adds a record that fits, or nothing.
LEMMA WriteKernelBytesInv ==
    ASSUME Inv, NEW t \in Tasks, WriteKernelBytes(t)
    PROVE  Inv'
<1> DEFINE p == Out(t)
           len == Call(t).n
<1>1. p \in Pipes /\ len \in Nat /\ at[t] \in DOMAIN Script(t)
  BY NextCall, CallFacts DEF WriteKernelBytes, Inv
<1>2. UNCHANGED <<scene, capacity, read_end_count, write_end_count, write_waiters, signals,
                  side>>
  BY DEF WriteKernelBytes
<1>3. CASE UNCHANGED <<bufs, bytes, status, read_waiters>> /\ Raise(t, t)
  <2>1. UNCHANGED <<scene, ring, status, signals, side>>
    BY <1>2, <1>3 DEF ring
  <2> QED
    BY <1>1, <1>2, <1>3, <2>1, RaiseFacts, MoveInv
<1>4. CASE UNCHANGED <<bufs, bytes, status, read_waiters, victim>> /\ Return(t)
  <2>1. UNCHANGED <<scene, ring, status, signals, side>>
    BY <1>2, <1>4 DEF ring
  <2>2. /\ pc' \in [Tasks -> Labels] /\ pc'[t] = "user" /\ at' \in [Tasks -> Nat \ {0}]
        /\ OnlyMoves(t) /\ CallingAt(t)'
    BY <1>2, <1>4, ReturnFacts DEF Inv, OnlyMoves, CallingAt, Waiting
  <2>3. victim' \in [Tasks -> Tasks \cup {None}]
    BY <1>4 DEF Inv, TypeOK
  <2> QED
    BY <2>1, <2>2, <2>3, MoveInv
<1>5. CASE /\ available_write(p) >= len
           /\ bytes' = [bytes EXCEPT ![p] = @ + len]
           /\ WakeReader(p)
           /\ Raise(t, scene.owner[p])
  <2>1. /\ pc' \in [Tasks -> Labels] /\ pc'[t] # "asleep" /\ at' \in [Tasks -> Nat \ {0}]
        /\ victim' \in [Tasks -> Tasks \cup {None}]
        /\ OnlyMoves(t) /\ CallingAt(t)'
    BY <1>1, <1>2, <1>5, OwnerFacts, RaiseFacts
  <2>2. len <= available_write(p)
    BY <1>1, <1>5 DEF available_write, Inv, TypeOK
  <2> QED
    BY <1>1, <1>2, <1>5, <2>1, <2>2, AddedInv
<1> QED
  BY <1>3, <1>4, <1>5 DEF WriteKernelBytes, Added

\* The loop goes on to the signals, or a nonblocking call returns.
LEMMA WouldBlockFacts ==
    ASSUME Inv, NEW t \in Tasks, pc[t] = "check", WouldBlock(t),
           UNCHANGED <<scene, side, victim>>
    PROVE  /\ pc' \in [Tasks -> Labels] /\ pc'[t] # "asleep" /\ at' \in [Tasks -> Nat \ {0}]
           /\ OnlyMoves(t) /\ CallingAt(t)'
<1>1. CASE Return(t)
  BY <1>1, ReturnFacts DEF Inv, OnlyMoves, CallingAt, Waiting
<1>2. CASE pc' = [pc EXCEPT ![t] = "ignorable"] /\ at' = at
  BY <1>2 DEF Inv, TypeOK, Calling, CallingAt, OnlyMoves, Waiting, Labels, Call, Script
<1> QED
  BY <1>1, <1>2 DEF WouldBlock, Goto

\* The input end: bytes are taken and a writer woken, or nothing happens.
LEMMA CheckInInv ==
    ASSUME Inv, NEW t \in Tasks, CheckIn(t)
    PROVE  Inv'
<1> DEFINE p == In(t)
           len == Readable(p, Call(t).n)
<1>1. /\ pc[t] = "check" /\ side[t] = "in" /\ at[t] \in DOMAIN Script(t)
      /\ Call(t).op \in Takers
  BY DEF Inv, Calling, CallingAt, CheckIn, Waiting
<1>2. p \in Pipes /\ Call(t).n \in Nat
  BY <1>1, CallFacts DEF Inv
<1>3. UNCHANGED <<scene, capacity, read_end_count, write_end_count, read_waiters, signals,
                  side, victim>>
  BY DEF CheckIn
<1>4. victim' \in [Tasks -> Tasks \cup {None}]
  BY <1>3 DEF Inv, TypeOK
<1>5. CASE UNCHANGED <<bufs, bytes, status, write_waiters>> /\ WouldBlock(t)
  <2>1. UNCHANGED <<scene, ring, status, signals, side>>
    BY <1>3, <1>5 DEF ring
  <2> QED
    BY <1>1, <1>3, <1>4, <1>5, <2>1, WouldBlockFacts, MoveInv
<1>6. CASE UNCHANGED <<bufs, bytes, status, write_waiters, at>> /\ Goto(t, "peek")
           /\ Call(t).op # "read"
  <2>1. UNCHANGED <<scene, ring, status, signals, side>>
    BY <1>3, <1>6 DEF ring
  <2>2. pc' = [pc EXCEPT ![t] = "peek"] /\ pc' \in [Tasks -> Labels]
    BY <1>6 DEF Goto, Inv, TypeOK, Labels
  <2>3. OnlyMoves(t) /\ pc'[t] = "peek"
    BY <1>3, <1>6, <2>2 DEF OnlyMoves, Inv, TypeOK
  <2>4. CallingAt(t)'
    BY <1>1, <1>3, <1>6, <2>3 DEF CallingAt, Waiting, Call, Script, Takers
  <2>5. at' \in [Tasks -> Nat \ {0}]
    BY <1>6 DEF Inv, TypeOK
  <2> QED
    BY <1>4, <2>1, <2>2, <2>3, <2>4, <2>5, MoveInv
<1>7. CASE Return(t)
  <2>1. /\ pc' \in [Tasks -> Labels] /\ pc'[t] = "user" /\ at' \in [Tasks -> Nat \ {0}]
        /\ OnlyMoves(t) /\ CallingAt(t)'
    BY <1>3, <1>7, ReturnFacts DEF Inv, OnlyMoves, CallingAt, Waiting
  <2>2. CASE UNCHANGED <<bufs, bytes, status, write_waiters>>
    <3>1. UNCHANGED <<scene, ring, status, signals, side>>
      BY <1>3, <2>2 DEF ring
    <3> QED
      BY <1>4, <2>1, <3>1, MoveInv
  <2>3. CASE bytes' = [bytes EXCEPT ![p] = @ - len] /\ WakeWriter(p)
    <3>1. len \in Nat /\ len <= bytes[p]
      BY <1>2, LengthFacts
    <3> HIDE DEF len
    <3> QED
      BY <1>2, <1>3, <2>1, <2>3, <3>1, RemovedInv
  <2> QED
    BY <1>7, <2>2, <2>3, <1>5, <1>6 DEF CheckIn, Removed
<1> QED
  BY <1>5, <1>6, <1>7 DEF CheckIn

\* The output end: bytes that fit are added and a reader woken, or nothing happens.
LEMMA CheckOutInv ==
    ASSUME Inv, NEW t \in Tasks, CheckOut(t)
    PROVE  Inv'
<1> DEFINE p == Out(t)
           len == Fits(p, Call(t).n)
<1>1. /\ pc[t] = "check" /\ side[t] = "out" /\ at[t] \in DOMAIN Script(t)
      /\ Call(t).op \in Givers
  BY DEF Inv, Calling, CallingAt, CheckOut, Waiting
<1>2. p \in Pipes /\ Call(t).n \in Nat
  BY <1>1, CallFacts DEF Inv
<1>3. UNCHANGED <<scene, capacity, read_end_count, write_end_count, write_waiters, signals,
                  side>>
  BY DEF CheckOut
<1>4. CASE UNCHANGED <<bufs, bytes, status, read_waiters, victim>> /\ WouldBlock(t)
  <2>1. UNCHANGED <<scene, ring, status, signals, side>>
    BY <1>3, <1>4 DEF ring
  <2>2. victim' \in [Tasks -> Tasks \cup {None}]
    BY <1>4 DEF Inv, TypeOK
  <2> QED
    BY <1>1, <1>3, <1>4, <2>1, <2>2, WouldBlockFacts, MoveInv
<1>5. CASE UNCHANGED <<bufs, bytes, status, read_waiters>>
           /\ Raise(t, IF Call(t).op = "write" THEN t ELSE None)
  <2>1. UNCHANGED <<scene, ring, status, signals, side>>
    BY <1>3, <1>5 DEF ring
  <2>2. PICK u \in Tasks \cup {None} : Raise(t, u)
    BY <1>5
  <2> QED
    BY <1>1, <1>3, <2>1, <2>2, RaiseFacts, MoveInv
<1>6. CASE UNCHANGED <<bufs, bytes, status, read_waiters, victim, at>> /\ Goto(t, "transfer")
           /\ Call(t).op # "write"
  <2>1. UNCHANGED <<scene, ring, status, signals, side>>
    BY <1>3, <1>6 DEF ring
  <2>2. pc' = [pc EXCEPT ![t] = "transfer"] /\ pc' \in [Tasks -> Labels]
    BY <1>6 DEF Goto, Inv, TypeOK, Labels
  <2>3. OnlyMoves(t) /\ pc'[t] = "transfer"
    BY <1>3, <1>6, <2>2 DEF OnlyMoves, Inv, TypeOK
  <2>4. CallingAt(t)'
    BY <1>1, <1>3, <1>6, <2>3 DEF CallingAt, Waiting, Call, Script, Givers
  <2>5. at' \in [Tasks -> Nat \ {0}] /\ victim' \in [Tasks -> Tasks \cup {None}]
    BY <1>6 DEF Inv, TypeOK
  <2> QED
    BY <2>1, <2>2, <2>3, <2>4, <2>5, MoveInv
<1>7. CASE /\ bytes' = [bytes EXCEPT ![p] = @ + len]
           /\ WakeReader(p)
           /\ Raise(t, scene.owner[p])
  <2>1. /\ pc' \in [Tasks -> Labels] /\ pc'[t] # "asleep" /\ at' \in [Tasks -> Nat \ {0}]
        /\ victim' \in [Tasks -> Tasks \cup {None}]
        /\ OnlyMoves(t) /\ CallingAt(t)'
    BY <1>1, <1>2, <1>3, <1>7, OwnerFacts, RaiseFacts
  <2>2. len \in Nat /\ len <= available_write(p)
    BY <1>2, LengthFacts
  <2> HIDE DEF len
  <2> QED
    BY <1>2, <1>3, <1>7, <2>1, <2>2, AddedInv
<1> QED
  BY <1>4, <1>5, <1>6, <1>7 DEF CheckOut, Added

\* The registration and the second look are one critical section of the buffer's
\* lock: whoever goes to sleep saw neither data nor space nor a hangup, and is
\* listed.
LEMMA RecheckInv ==
    ASSUME Inv, NEW t \in Tasks, Recheck(t)
    PROVE  Inv'
<1>1. pc[t] = "recheck" /\ at[t] \in DOMAIN Script(t) /\ side[t] \in {"in", "out"}
  BY DEF Inv, TypeOK, Calling, CallingAt, Recheck
<1>2. /\ In(t) \in Pipes /\ Out(t) \in Pipes
      /\ side[t] = "in" => Takes(t, In(t))
      /\ side[t] = "out" => Gives(t, Out(t))
  BY <1>1, CallFacts DEF Inv, Calling, CallingAt, Waiting
<1>3. UNCHANGED <<scene, bufs, bytes, capacity, read_end_count, write_end_count, signals,
                  side>>
  BY DEF Recheck
<1>4. CASE Recovered(t)
  <2>1. /\ status' = [status EXCEPT ![t] = "Running"]
        /\ UNCHANGED <<read_waiters, write_waiters>>
    BY <1>4 DEF Recheck
  <2>2. \/ \E u \in Tasks \cup {None} : Raise(t, u)
        \/ Goto(t, "check") /\ UNCHANGED <<at, victim>>
    BY <1>4 DEF Recheck
  <2>3. /\ pc' \in [Tasks -> Labels] /\ pc'[t] # "asleep" /\ at' \in [Tasks -> Nat \ {0}]
        /\ victim' \in [Tasks -> Tasks \cup {None}]
        /\ OnlyMoves(t) /\ CallingAt(t)'
    <3>1. CASE Goto(t, "check") /\ UNCHANGED <<at, victim>>
      <4>1. pc' = [pc EXCEPT ![t] = "check"]
        BY <3>1 DEF Goto
      <4>2. pc' \in [Tasks -> Labels] /\ pc'[t] = "check" /\ OnlyMoves(t)
        BY <1>3, <3>1, <4>1 DEF Inv, TypeOK, Labels, OnlyMoves
      <4>3. CallingAt(t)'
        BY <1>1, <1>3, <3>1, <4>2 DEF Inv, Calling, CallingAt, Waiting, Call, Script
      <4> QED
        BY <3>1, <4>2, <4>3 DEF Inv, TypeOK
    <3>2. CASE \E u \in Tasks \cup {None} : Raise(t, u)
      BY <1>1, <1>3, <3>2, RaiseFacts
    <3> QED
      BY <2>2, <3>1, <3>2
  <2>4. TypeOK'
    <3>1. status' \in [Tasks -> {"Running", "Blocked", "Ready"}]
      BY <2>1 DEF Inv, TypeOK
    <3> QED
      BY <1>3, <2>1, <2>3, <3>1 DEF Inv, TypeOK, signals
  <2>5. NoNewSleeper
    BY <1>3, <2>1, <2>3 DEF Inv, TypeOK, NoNewSleeper, OnlyMoves, Asleep
  <2>6. UNCHANGED <<scene, ring>>
    BY <1>3, <2>1 DEF ring
  <2>7. Calling'
    BY <1>3, <2>3, CallingKept
  <2> QED
    BY <2>4, <2>5, <2>6, <2>7, PipesUntouched
<1>5. CASE ~Recovered(t)
  <2>1. /\ pc' = [pc EXCEPT ![t] = "asleep"] /\ UNCHANGED <<status, at, victim>>
        /\ \/ /\ side[t] = "in"
              /\ read_waiters' = [read_waiters EXCEPT ![In(t)] = PushWaiter(@, t)]
              /\ UNCHANGED write_waiters
           \/ /\ side[t] = "out"
              /\ write_waiters' = [write_waiters EXCEPT ![Out(t)] = PushWaiter(@, t)]
              /\ UNCHANGED read_waiters
    BY <1>5 DEF Recheck, Goto
  <2>2. pc' \in [Tasks -> Labels] /\ pc'[t] = "asleep" /\ OnlyMoves(t)
    BY <1>3, <2>1 DEF Inv, TypeOK, Labels, OnlyMoves
  <2>3. CallingAt(t)'
    BY <1>1, <1>3, <2>1, <2>2 DEF Inv, Calling, CallingAt, Waiting, Call, Script
  <2>4. Calling'
    BY <1>3, <2>2, <2>3, CallingKept
  <2>5. \A p \in Pipes : read_waiters[p] \in Seq(Tasks) /\ write_waiters[p] \in Seq(Tasks)
    BY DEF Inv, TypeOK
  <2>0. /\ PushWaiter(read_waiters[In(t)], t) \in Seq(Tasks)
        /\ PushWaiter(write_waiters[Out(t)], t) \in Seq(Tasks)
        /\ Listed(PushWaiter(read_waiters[In(t)], t), t)
        /\ Listed(PushWaiter(write_waiters[Out(t)], t), t)
    BY <1>2, <2>5, PushFacts
  <2>6. read_waiters' \in [Pipes -> Seq(Tasks)] /\ write_waiters' \in [Pipes -> Seq(Tasks)]
    BY <2>0, <2>1 DEF Inv, TypeOK
  <2>7. TypeOK'
    BY <1>3, <2>1, <2>2, <2>6 DEF Inv, TypeOK, signals
  <2>8. WithinCapacity'
    BY <1>3 DEF Inv, WithinCapacity
  <2>9. \A p \in Pipes, u \in Tasks :
            /\ Listed(read_waiters[p], u) => Listed(read_waiters'[p], u)
            /\ Listed(write_waiters[p], u) => Listed(write_waiters'[p], u)
            /\ Listed(read_waiters'[p], u)
                  => \/ Listed(read_waiters[p], u)
                     \/ u = t /\ p = In(t) /\ side[t] = "in"
            /\ Listed(write_waiters'[p], u)
                  => \/ Listed(write_waiters[p], u)
                     \/ u = t /\ p = Out(t) /\ side[t] = "out"
    <3>1. CASE side[t] = "in"
      <4>1. ASSUME NEW p \in Pipes
            PROVE  write_waiters'[p] = write_waiters[p] /\
                   (read_waiters'[p] = IF p = In(t) THEN PushWaiter(read_waiters[p], t)
                                       ELSE read_waiters[p])
        BY <2>1, <3>1 DEF Inv, TypeOK
      <4> QED
        BY <2>5, <3>1, <4>1, PushFacts, SMTT(30)
    <3>2. CASE side[t] = "out"
      <4>1. ASSUME NEW p \in Pipes
            PROVE  read_waiters'[p] = read_waiters[p] /\
                   (write_waiters'[p] = IF p = Out(t) THEN PushWaiter(write_waiters[p], t)
                                        ELSE write_waiters[p])
        BY <2>1, <3>2, SMTT(30) DEF Inv, TypeOK
      <4> QED
        BY <2>5, <3>2, <4>1, PushFacts, SMTT(30)
    <3> QED
      BY <1>1, <3>1, <3>2
  <2>10. Enlisted'
    <3>1. \A p, u : (Takes(u, p)' <=> Takes(u, p)) /\ (Gives(u, p)' <=> Gives(u, p))
      BY <1>3 DEF Takes, Gives, Script
    <3> QED
      BY <1>2, <2>9, <3>1, SMT DEF Inv, Enlisted, Listed
  <2>11. \A p \in Pipes : KeptIn(p) /\ KeptOut(p)
    <3>1. \A p \in Pipes : bytes[p] <= bytes[p] /\ available_write(p) <= available_write(p)
      BY SMT DEF Inv, TypeOK, available_write
    <3> QED
      BY <1>3, <2>9, <3>1 DEF KeptIn, KeptOut, available_write
  <2>12. ASSUME NEW u \in Tasks
         PROVE  SleepsWell(u)'
    <3>1. CASE u # t
      <4>1. Asleep(u)' => Asleep(u) /\ at'[u] = at[u] /\ side'[u] = side[u]
        BY <2>1, <2>2, <3>1 DEF OnlyMoves, Asleep
      <4> QED
        BY <1>3, <2>7, <2>8, <2>11, <4>1, SleeperKept
    <3>2. CASE u = t
      <4>1. In(t)' = In(t) /\ Out(t)' = Out(t) /\ side'[t] = side[t]
        BY <1>3, <2>1 DEF In, Out, Call, Script
      <4>2. side[t] = "in" => /\ write_end_count'[In(t)] > 0 /\ bytes'[In(t)] = 0
                              /\ Listed(read_waiters'[In(t)], t)
        <5>1. side[t] = "in" => ~(bytes[In(t)] > 0) /\ write_end_count[In(t)] # 0
          BY <1>5 DEF Recovered, CanRead
        <5>2. side[t] = "in" => read_waiters'[In(t)] = PushWaiter(read_waiters[In(t)], t)
          BY <1>2, <2>1 DEF Inv, TypeOK
        <5> QED
          BY <1>2, <1>3, <2>0, <5>1, <5>2, SMTT(30) DEF Inv, TypeOK
      <4>3. side[t] = "out" => /\ read_end_count'[Out(t)] > 0 /\ available_write(Out(t)) = 0
                               /\ Listed(write_waiters'[Out(t)], t)
        <5>1. side[t] = "out" => ~(available_write(Out(t)) > 0) /\ read_end_count[Out(t)] # 0
          BY <1>5 DEF Recovered, CanWrite
        <5>2. side[t] = "out" => write_waiters'[Out(t)] = PushWaiter(write_waiters[Out(t)], t)
          BY <1>2, <2>1 DEF Inv, TypeOK
        <5>3. available_write(Out(t)) \in Nat
          BY <1>2, SMTT(30) DEF Inv, TypeOK, WithinCapacity, available_write
        <5> QED
          BY <1>2, <1>3, <2>0, <5>1, <5>2, <5>3, SMTT(30) DEF Inv, TypeOK
      <4> QED
        BY <1>3, <3>2, <4>1, <4>2, <4>3 DEF SleepsWell, available_write, Listed
    <3> QED
      BY <3>1, <3>2
  <2> QED
    BY <2>4, <2>7, <2>8, <2>10, <2>12, AllSleepWell DEF Inv
<1> QED
  BY <1>4, <1>5

\* splice, tee and a file page move what both ends allow, and wake one thread at
\* each end that gained.
LEMMA TransferInv ==
    ASSUME Inv, NEW t \in Tasks, Transfer(t)
    PROVE  Inv'
<1> DEFINE p == In(t)
           q == Out(t)
           moved == Call(t).op = "splice"
           len == Fits(q, IF Call(t).op = "page" THEN Call(t).n ELSE Readable(p, Call(t).n))
           st == IF FreesInput(t) THEN WakeOne(write_waiters[p], status) ELSE status
<1>1. /\ at[t] \in DOMAIN Script(t) /\ Call(t).op \in {"splice", "tee", "page"}
  BY DEF Inv, Calling, CallingAt, Transfer
<1>2. p \in Pipes /\ q \in Pipes /\ Call(t).n \in Nat /\ (moved => p # q)
  BY <1>1, CallFacts DEF Inv
<1>3. UNCHANGED <<scene, capacity, read_end_count, write_end_count, signals, side, victim>>
      /\ Return(t)
  BY DEF Transfer
<1>4. /\ pc' \in [Tasks -> Labels] /\ pc'[t] = "user" /\ at' \in [Tasks -> Nat \ {0}]
      /\ OnlyMoves(t) /\ CallingAt(t)' /\ victim' \in [Tasks -> Tasks \cup {None}]
  BY <1>3, ReturnFacts DEF Inv, TypeOK, OnlyMoves, CallingAt, Waiting
<1>5. CASE UNCHANGED <<bufs, bytes, status, read_waiters, write_waiters>>
  <2>1. UNCHANGED <<scene, ring, status, signals, side>>
    BY <1>3, <1>5 DEF ring
  <2> QED
    BY <1>4, <2>1, MoveInv
<1>6. CASE /\ bytes' = [bytes EXCEPT ![p] = IF moved THEN @ - len ELSE @, ![q] = @ + len]
           /\ write_waiters' = [write_waiters EXCEPT ![p] =
                                   IF FreesInput(t) THEN AfterFirst(@, status) ELSE @]
           /\ status' = WakeOne(read_waiters[q], st)
           /\ read_waiters' = [read_waiters EXCEPT ![q] = AfterFirst(@, st)]
  <2>1. Readable(p, Call(t).n) \in Nat /\ Readable(p, Call(t).n) <= bytes[p]
    BY <1>2, LengthFacts
  <2>2. /\ len \in Nat /\ len <= available_write(q)
        /\ moved => len <= bytes[p]
    <3>1. len \in Nat /\ len <= available_write(q)
      BY <1>2, <2>1, LengthFacts
    <3>2. moved => len <= Readable(p, Call(t).n)
      <4>1. available_write(q) \in Int
        BY <1>2, SMTT(30) DEF Inv, TypeOK, available_write
      <4> QED
        BY <2>1, <4>1, SMT DEF Fits, Minimum
    <3>3. bytes[p] \in Nat
      BY <1>2 DEF Inv, TypeOK
    <3> HIDE DEF len, p
    <3> QED
      BY <2>1, <3>1, <3>2, <3>3, SMT
  <2> HIDE DEF len
  <2>3. status \in [Tasks -> Statuses]
    BY DEF Inv, TypeOK, Statuses
  <2>4. \A r \in Pipes : read_waiters[r] \in Seq(Tasks) /\ write_waiters[r] \in Seq(Tasks)
                         /\ bytes[r] \in Nat /\ capacity[r] \in Nat /\ bytes[r] <= capacity[r]
    BY ZenonT(30) DEF Inv, TypeOK, WithinCapacity
  <2>5. /\ st \in [Tasks -> Statuses]
        /\ \A u \in Tasks : st[u] = "Blocked" => status[u] = "Blocked"
    BY <1>2, <2>3, <2>4, WakeOneFacts, SMT
  <2>6. /\ AfterFirst(write_waiters[p], status) \in Seq(Tasks)
        /\ \A u \in Tasks : Listed(AfterFirst(write_waiters[p], status), u)
                               => Listed(write_waiters[p], u)
    BY <1>2, <2>3, <2>4, WakeOneFacts
  <2>7. /\ moved <=> FreesInput(t)
        /\ moved => st = WakeOne(write_waiters[p], status)
    BY DEF FreesInput
  <2> HIDE DEF st, moved
  <2>8. /\ status' \in [Tasks -> Statuses]
        /\ AfterFirst(read_waiters[q], st) \in Seq(Tasks)
        /\ \A u \in Tasks : status'[u] = "Blocked" => st[u] = "Blocked"
        /\ \A u \in Tasks : Listed(AfterFirst(read_waiters[q], st), u)
                               => Listed(read_waiters[q], u)
    BY <1>2, <1>6, <2>4, <2>5, WakeOneFacts
  <2>9. /\ \A r \in Pipes \ {p, q} : bytes'[r] = bytes[r]
        /\ moved => bytes'[p] = bytes[p] - len /\ bytes'[q] = bytes[q] + len
        /\ ~moved => bytes'[q] = bytes[q] + len /\ (p # q => bytes'[p] = bytes[p])
        /\ DOMAIN bytes' = Pipes
    BY <1>2, <1>6, <2>4 DEF Inv, TypeOK
  <2>10. bytes' \in [Pipes -> Nat]
    <3>1. \A r \in Pipes : bytes'[r] \in Nat
      BY <1>2, <2>2, <2>4, <2>9, SMTT(30)
    <3> QED
      BY <1>6, <2>9, <3>1, ZenonT(30) DEF Inv, TypeOK
  <2>11. WithinCapacity'
    BY <1>2, <1>3, <2>2, <2>4, <2>9, SMTT(30) DEF WithinCapacity, available_write
  <2>12. /\ \A r \in Pipes : r # q => read_waiters'[r] = read_waiters[r]
         /\ read_waiters'[q] = AfterFirst(read_waiters[q], st)
         /\ \A r \in Pipes : ~(r = p /\ moved) => write_waiters'[r] = write_waiters[r]
         /\ moved => write_waiters'[p] = AfterFirst(write_waiters[p], status)
         /\ read_waiters' \in [Pipes -> Seq(Tasks)] /\ write_waiters' \in [Pipes -> Seq(Tasks)]
    BY <1>2, <1>6, <2>6, <2>7, <2>8 DEF Inv, TypeOK
  <2>13. TypeOK'
    BY <1>3, <1>4, <2>8, <2>10, <2>12 DEF Inv, TypeOK, signals, Statuses
  <2>14. NoNewWaiter
    BY <1>2, <2>6, <2>8, <2>12 DEF NoNewWaiter
  <2>15. ASSUME NEW r \in Pipes
         PROVE  KeptIn(r)
    <3>1. CASE r = q
      <4>1. \A u \in Tasks : Listed(read_waiters[q], u) /\ status'[u] = "Blocked"
                => Listed(read_waiters'[q], u) /\ ~SoleTaker(u, q)
        BY <1>2, <1>6, <2>5, <2>12, ReaderWoken
      <4> QED
        BY <1>3, <3>1, <4>1 DEF KeptIn
    <3>2. CASE r # q
      <4>1. bytes'[r] <= bytes[r] /\ read_waiters'[r] = read_waiters[r]
        BY <1>2, <2>2, <2>4, <2>9, <2>12, <3>2, SMTT(30)
      <4> QED
        BY <1>3, <4>1, ZenonT(30) DEF KeptIn
    <3> QED
      BY <3>1, <3>2
  <2>16. ASSUME NEW r \in Pipes
         PROVE  KeptOut(r)
    <3>1. CASE r = p /\ moved
      <4>1. \A u \in Tasks : Listed(write_waiters[p], u) /\ status'[u] = "Blocked"
                => Listed(write_waiters'[p], u) /\ ~SoleGiver(u, p)
        BY <1>2, <2>3, <2>7, <2>8, <2>12, <3>1, WriterWoken
      <4> QED
        BY <1>3, <3>1, <4>1 DEF KeptOut
    <3>2. CASE ~(r = p /\ moved)
      <4>1. bytes'[r] >= bytes[r] /\ bytes'[r] \in Nat
        <5>1. bytes'[r] \in Nat /\ bytes[r] \in Nat
          BY <2>4, <2>10
        <5>2. bytes'[r] = bytes[r] \/ bytes'[r] = bytes[r] + len
          BY <2>9, <3>2, ZenonT(30)
        <5> QED
          BY <2>2, <5>1, <5>2, SMT
      <4>2. capacity'[r] - bytes'[r] <= capacity[r] - bytes[r]
        BY <1>3, <2>4, <4>1, SMT
      <4> QED
        BY <1>3, <2>12, <3>2, <4>2 DEF KeptOut, available_write
    <3> QED
      BY <3>1, <3>2
  <2> QED
    BY <1>3, <1>4, <2>5, <2>8, <2>11, <2>13, <2>14, <2>15, <2>16, RingStep
<1> QED
  BY <1>5, <1>6 DEF Transfer

-----------------------------------------------------------------------------
\* The theorems.

\* The invariant holds when the scenario begins: nobody sleeps.
LEMMA InitInv == Init => Inv
<1> SUFFICES ASSUME Init PROVE Inv
  OBVIOUS
<1>1. TypeOK
  BY PipeAssumption, SMT DEF Init, TypeOK, Labels
<1>2. WithinCapacity
  BY <1>1, SMT DEF Init, TypeOK, WithinCapacity
<1>3. Calling /\ Enlisted
  BY SMT DEF Init, Calling, CallingAt, Waiting, Enlisted, Listed
<1>4. NoMissedHangup /\ NoLostWakeup
  BY DEF Init, NoMissedHangup, NoLostWakeup, Asleep
<1> QED
  BY <1>1, <1>2, <1>3, <1>4 DEF Inv

\* Every step preserves it.
LEMMA StepInv == Inv /\ [Next]_vars => Inv'
<1> SUFFICES ASSUME Inv, [Next]_vars PROVE Inv'
  OBVIOUS
<1>1. CASE UNCHANGED vars
  <2>1. UNCHANGED <<scene, bufs, bytes, capacity, read_end_count, write_end_count,
                    read_waiters, write_waiters, status, sig, sig_wake, alarms, pc, at, side,
                    victim, made>>
    BY <1>1 DEF vars, ring, signals
  <2>2. TypeOK' /\ NoNewSleeper /\ Calling'
    BY <2>1 DEF Inv, TypeOK, NoNewSleeper, Asleep, Calling, CallingAt, Call, Script
  <2> QED
    BY <2>1, <2>2, PipesUntouched DEF ring
<1>2. ASSUME NEW t \in Tasks, Step(t)
      PROVE  Inv'
  BY <1>2, BeginInv, CloseReadInv, CloseWriteInv, SetCapacityInv, WriteKernelBytesInv,
     CheckInInv, PeekInv, CheckOutInv, SignalCheckInv, PublishResumeInv, RecheckInv,
     TransferInv, SignalInv DEF Step
<1>3. ASSUME NEW t \in Tasks, NEW kind \in {"ignored", "visible"}, Alarm(t, kind)
      PROVE  Inv'
  BY <1>3, SignalInv
<1> QED
  BY <1>1, <1>2, <1>3 DEF Next

\* The invariant of the pipes, for any threads, pipes and scripts.
THEOREM PipeInvariance == Spec => []Inv
<1> QED
  BY InitInv, StepInv, PTL DEF Spec

\* The counters, the states of the threads and their lists stay in their types; in
\* particular no count becomes negative.
THEOREM PipeTypes == Spec => []TypeOK
<1>1. Inv => TypeOK
  BY DEF Inv
<1> QED
  BY <1>1, PipeInvariance, PTL

\* "pipe buffer overflow" never happens and available_write never wraps.
THEOREM CapacityRespected == Spec => []WithinCapacity
<1>1. Inv => WithinCapacity
  BY DEF Inv
<1> QED
  BY <1>1, PipeInvariance, PTL

\* No reader or writer sleeps when the other end is gone, and the close that will
\* take it away finds the sleeper listed.
THEOREM HangupsSeen == Spec => []NoMissedHangup
<1>1. Inv => NoMissedHangup
  BY DEF Inv
<1> QED
  BY <1>1, PipeInvariance, PTL

\* Publishing Blocked before the second look loses no wakeup: a thread that has
\* its end of the pipe to itself never sleeps beside data or space.
THEOREM WakeupsKept == Spec => []NoLostWakeup
<1>1. Inv => NoLostWakeup
  BY DEF Inv
<1> QED
  BY <1>1, PipeInvariance, PTL

-----------------------------------------------------------------------------
\* The inductive invariant of the buffers: the count of each is the number of
\* bytes in its segments.
Counted ==
    /\ bufs \in [Pipes -> Segs] /\ made \in Nat
    /\ \A p \in Pipes : bytes[p] = Total(bufs[p])

\* The bytes of the pipes.
content == [p \in Pipes |-> Bytes(bufs[p])]

\* A step of the channels, with the invariant after it.
Implemented == Counted' /\ Channel!Next

\* The space of a channel is what available_write computes.
LEMMA SpaceFacts ==
    ASSUME Inv, Counted, NEW p \in Pipes
    PROVE  /\ Len(content[p]) = bytes[p] /\ Channel!Space(p) = available_write(p)
           /\ bytes[p] \in Nat /\ capacity[p] \in Nat /\ read_end_count[p] \in Nat
           /\ bufs[p] \in Segs
<1>1. content[p] = Bytes(bufs[p]) /\ bufs[p] \in Segs
  BY DEF content, Counted
<1>2. Len(content[p]) = bytes[p]
  BY <1>1, BytesFacts DEF Counted
<1>3. Channel!Space(p) = capacity[p] - Len(content[p])
  BY DEF Channel!Space, content
<1>4. bytes[p] \in Nat /\ capacity[p] \in Nat /\ read_end_count[p] \in Nat
  BY DEF Inv, TypeOK
<1> QED
  BY <1>1, <1>2, <1>3, <1>4 DEF available_write

\* A write puts new bytes behind the others.
LEMMA PutStep ==
    ASSUME Inv, Counted, NEW p \in Pipes, NEW len \in Nat \ {0}, NEW small \in BOOLEAN,
           len <= available_write(p), read_end_count[p] # 0,
           bufs' = [bufs EXCEPT ![p] = @ \o Segments(made, len, small)],
           bytes' = [bytes EXCEPT ![p] = @ + len],
           made' = made + len,
           UNCHANGED <<capacity, read_end_count>>
    PROVE  Implemented
<1> DEFINE new == Segments(made, len, small)
<1>1. made \in Nat /\ bufs \in [Pipes -> Segs] /\ bytes \in [Pipes -> Nat]
  BY DEF Counted, Inv, TypeOK
<1>2. new \in Segs /\ Total(new) = len /\ Bytes(new) = [i \in 1 .. len |-> made + i]
  BY <1>1, SegmentsFacts
<1> HIDE DEF new
<1>3. bufs[p] \in Segs
  BY <1>1
<1>4. /\ bufs[p] \o new \in Segs /\ Total(bufs[p] \o new) = Total(bufs[p]) + Total(new)
      /\ Bytes(bufs[p] \o new) = Bytes(bufs[p]) \o Bytes(new)
  BY <1>2, <1>3, StartOfConcat, BytesOfConcat
<1>5. bufs' = [bufs EXCEPT ![p] = bufs[p] \o new]
  BY DEF new
<1>6. /\ bufs' \in [Pipes -> Segs] /\ bufs'[p] = bufs[p] \o new
      /\ \A r \in Pipes \ {p} : bufs'[r] = bufs[r]
  BY <1>1, <1>4, <1>5
<1>7. Counted'
  <2>1. made' \in Nat
    BY <1>1, SMT
  <2>2. bytes'[p] = bytes[p] + len /\ \A r \in Pipes \ {p} : bytes'[r] = bytes[r]
    BY <1>1
  <2> QED
    BY <1>2, <1>4, <1>6, <2>1, <2>2 DEF Counted
<1>8. content' = [content EXCEPT ![p] = @ \o [i \in 1 .. len |-> made + i]]
  BY <1>2, <1>4, <1>6 DEF content
<1>9. Channel!Put(p, len)
  <2>1. read_end_count[p] > 0
    BY SpaceFacts, SMT
  <2> QED
    BY <1>8, <2>1 DEF Channel!Put, content
<1>10. len \in 1 .. Channel!Space(p)
  <2>1. available_write(p) \in Int
    BY SpaceFacts, SMT DEF available_write
  <2>2. len \in 1 .. available_write(p)
    BY <2>1, SMT
  <2> QED
    BY <2>2, SpaceFacts
<1> QED
  BY <1>7, <1>9, <1>10 DEF Implemented, Channel!Next

\* Putting back what is there changes nothing.
LEMMA SamePlace ==
    ASSUME NEW A, NEW B, NEW f \in [A -> B], NEW p \in A, NEW q \in A, NEW y
    PROVE  [f EXCEPT ![p] = f[p], ![q] = y] = [f EXCEPT ![q] = y]
<1>1. [f EXCEPT ![p] = f[p]] = f
  OBVIOUS
<1> QED
  BY <1>1

\* A read takes the oldest bytes away.
LEMMA GetStep ==
    ASSUME Inv, Counted, NEW p \in Pipes, NEW len \in Nat \ {0}, len <= bytes[p],
           bufs' = [bufs EXCEPT ![p] = LeftBufs(@, len)],
           bytes' = [bytes EXCEPT ![p] = @ - len],
           UNCHANGED <<made, capacity, read_end_count>>
    PROVE  Implemented
<1> DEFINE left == LeftBufs(bufs[p], len)
<1>1. made \in Nat /\ bufs \in [Pipes -> Segs] /\ bytes \in [Pipes -> Nat]
  BY DEF Counted, Inv, TypeOK
<1>2. bufs[p] \in Segs /\ len \in 1 .. Total(bufs[p]) /\ len \in 1 .. Len(content[p])
  <2>1. len \in 1 .. bytes[p]
    BY SpaceFacts, SMT
  <2> QED
    BY <1>1, <2>1, SpaceFacts DEF Counted
<1>3. /\ left \in Segs /\ Total(left) = Total(bufs[p]) - len
      /\ Bytes(left) = SubSeq(Bytes(bufs[p]), len + 1, Len(Bytes(bufs[p])))
  BY <1>2, CutBytes
<1> HIDE DEF left
<1>4. bufs' = [bufs EXCEPT ![p] = left]
  BY DEF left
<1>5. /\ bufs' \in [Pipes -> Segs] /\ bufs'[p] = left
      /\ \A r \in Pipes \ {p} : bufs'[r] = bufs[r]
  BY <1>1, <1>3, <1>4
<1>6. Counted'
  <2>1. bytes'[p] = bytes[p] - len /\ \A r \in Pipes \ {p} : bytes'[r] = bytes[r]
    BY <1>1
  <2> QED
    BY <1>1, <1>3, <1>5, <2>1 DEF Counted
<1>7. content' = [content EXCEPT ![p] = SubSeq(@, len + 1, Len(@))]
  BY <1>3, <1>5 DEF content
<1>8. Channel!Get(p, len)
  BY <1>7 DEF Channel!Get, content
<1>9. len \in 1 .. Len([r \in Pipes |-> Bytes(bufs[r])][p])
  BY <1>2 DEF content
<1> QED
  BY <1>6, <1>8, <1>9 DEF Implemented, Channel!Next

\* splice moves, tee copies the oldest bytes to another pipe.
LEMMA PassStep ==
    ASSUME Inv, Counted, NEW p \in Pipes, NEW q \in Pipes \ {p}, NEW len \in Nat \ {0},
           len <= bytes[p], len <= available_write(q), read_end_count[q] # 0,
           NEW stay \in BOOLEAN,
           bufs' = [bufs EXCEPT ![p] = IF stay THEN @ ELSE LeftBufs(@, len),
                                ![q] = @ \o TakenBufs(bufs[p], len)],
           bytes' = [bytes EXCEPT ![p] = IF stay THEN @ ELSE @ - len,
                                  ![q] = @ + len],
           UNCHANGED <<made, capacity, read_end_count>>
    PROVE  Implemented
<1> DEFINE left == LeftBufs(bufs[p], len)
           taken == TakenBufs(bufs[p], len)
<1>1. made \in Nat /\ bufs \in [Pipes -> Segs] /\ bytes \in [Pipes -> Nat]
  BY DEF Counted, Inv, TypeOK
<1>2. /\ bufs[p] \in Segs /\ bufs[q] \in Segs /\ len \in 1 .. Total(bufs[p])
      /\ len \in 1 .. Len(content[p])
  <2>1. len \in 1 .. bytes[p]
    BY SpaceFacts, SMT
  <2> QED
    BY <1>1, <2>1, SpaceFacts DEF Counted
<1>3. /\ left \in Segs /\ Total(left) = Total(bufs[p]) - len
      /\ Bytes(left) = SubSeq(Bytes(bufs[p]), len + 1, Len(Bytes(bufs[p])))
      /\ taken \in Segs /\ Total(taken) = len
      /\ Bytes(taken) = SubSeq(Bytes(bufs[p]), 1, len)
  BY <1>2, CutBytes
<1>4. bufs' = [bufs EXCEPT ![p] = IF stay THEN bufs[p] ELSE left, ![q] = bufs[q] \o taken]
  BY <1>1, SMT
<1> HIDE DEF left, taken
<1>5. /\ bufs[q] \o taken \in Segs
      /\ Total(bufs[q] \o taken) = Total(bufs[q]) + Total(taken)
      /\ Bytes(bufs[q] \o taken) = Bytes(bufs[q]) \o Bytes(taken)
  BY <1>2, <1>3, StartOfConcat, BytesOfConcat
<1>6. /\ bufs' \in [Pipes -> Segs] /\ bufs'[q] = bufs[q] \o taken
      /\ bufs'[p] = (IF stay THEN bufs[p] ELSE left)
      /\ \A r \in Pipes \ {p, q} : bufs'[r] = bufs[r]
  <2> DEFINE z == IF stay THEN bufs[p] ELSE left
             y == bufs[q] \o taken
  <2>1. z \in Segs /\ y \in Segs
    BY <1>2, <1>3, <1>5
  <2>2. bufs' = [bufs EXCEPT ![p] = z, ![q] = y]
    BY <1>4
  <2> HIDE DEF z, y
  <2>3. /\ bufs' \in [Pipes -> Segs] /\ bufs'[q] = y /\ bufs'[p] = z
        /\ \A r \in Pipes \ {p, q} : bufs'[r] = bufs[r]
    <3> DEFINE g == [bufs EXCEPT ![p] = z, ![q] = y]
    <3>1. /\ g \in [Pipes -> Segs] /\ g[q] = y /\ g[p] = z
          /\ \A r \in Pipes \ {p, q} : g[r] = bufs[r]
      BY <1>1, <2>1, SMTT(30)
    <3> QED
      BY <2>2, <3>1
  <2> QED
    BY <2>3 DEF z, y
<1>7. Counted'
  <2>1. /\ bytes'[p] = (IF stay THEN bytes[p] ELSE bytes[p] - len)
        /\ bytes'[q] = bytes[q] + len
        /\ \A r \in Pipes \ {p, q} : bytes'[r] = bytes[r]
    BY <1>1, SMT
  <2>2. bytes'[p] = Total(bufs'[p])
    BY <1>3, <1>6, <2>1 DEF Counted
  <2>3. bytes'[q] = Total(bufs'[q])
    BY <1>3, <1>5, <1>6, <2>1 DEF Counted
  <2>4. \A r \in Pipes \ {p, q} : bytes'[r] = Total(bufs'[r])
    BY <1>6, <2>1 DEF Counted
  <2> QED
    BY <1>1, <1>6, <2>2, <2>3, <2>4 DEF Counted
<1>8. content' = [content EXCEPT ![p] = IF stay THEN @ ELSE SubSeq(@, len + 1, Len(@)),
                                 ![q] = @ \o SubSeq(content[p], 1, len)]
  <2> DEFINE c == [content EXCEPT ![p] = IF stay THEN @ ELSE SubSeq(@, len + 1, Len(@)),
                                  ![q] = @ \o SubSeq(content[p], 1, len)]
  <2>1. content \in [Pipes -> Seq(Nat)] /\ \A r \in Pipes : content[r] = Bytes(bufs[r])
    BY <1>1, BytesFacts DEF content
  <2>2. /\ c[p] = (IF stay THEN content[p] ELSE SubSeq(content[p], len + 1, Len(content[p])))
        /\ c[q] = content[q] \o SubSeq(content[p], 1, len)
        /\ \A r \in Pipes \ {p, q} : c[r] = content[r]
        /\ c = [r \in Pipes |-> c[r]]
    <3> DEFINE z == IF stay THEN content[p] ELSE SubSeq(content[p], len + 1, Len(content[p]))
               y == content[q] \o SubSeq(content[p], 1, len)
    <3>1. z \in Seq(Nat) /\ y \in Seq(Nat)
      <4>1. SubSeq(content[p], len + 1, Len(content[p])) \in Seq(Nat)
        <5>1. Bytes(left) \in Seq(Nat)
          BY <1>3, BytesFacts
        <5> QED
          BY <1>3, <2>1, <5>1
      <4>2. content[q] \in Seq(Nat) /\ content[p] \in Seq(Nat)
        BY <2>1
      <4>3. SubSeq(content[p], 1, len) \in Seq(Nat)
        <5>1. Bytes(taken) \in Seq(Nat)
          BY <1>3, BytesFacts
        <5> QED
          BY <1>3, <2>1, <5>1
      <4>4. y \in Seq(Nat)
        BY <4>2, <4>3, ConcatNumbers
      <4> QED
        BY <4>1, <4>2, <4>4
    <3>2. c = [content EXCEPT ![p] = z, ![q] = y]
      OBVIOUS
    <3> HIDE DEF z, y, c
    <3>3. /\ c \in [Pipes -> Seq(Nat)] /\ c[q] = y /\ c[p] = z
          /\ \A r \in Pipes \ {p, q} : c[r] = content[r]
      <4> DEFINE B == Seq(Nat)
      <4>1. content \in [Pipes -> B] /\ z \in B /\ y \in B
        BY <2>1, <3>1
      <4> HIDE DEF B
      <4>2. /\ c \in [Pipes -> B] /\ c[q] = y /\ c[p] = z
            /\ \A r \in Pipes \ {p, q} : c[r] = content[r]
        BY <3>2, <4>1, SMT
      <4> QED
        BY <4>2 DEF B
    <3> QED
      BY <3>3 DEF z, y
  <2> HIDE DEF c
  <2>3. c[p] = Bytes(bufs'[p])
    BY <1>3, <1>6, <2>1, <2>2
  <2>4. c[q] = Bytes(bufs'[q])
    BY <1>3, <1>5, <1>6, <2>1, <2>2
  <2>5. \A r \in Pipes : c[r] = Bytes(bufs'[r])
    BY <1>6, <2>1, <2>2, <2>3, <2>4
  <2>6. content' = [r \in Pipes |-> Bytes(bufs'[r])]
    BY DEF content
  <2> QED
    BY <2>2, <2>5, <2>6 DEF c
<1>9. read_end_count[q] > 0
  BY SpaceFacts, SMT
<1>10. Channel!Pass(p, q, len, stay)
  BY <1>8, <1>9 DEF Channel!Pass, content
<1>11. len \in 1 .. Len([r \in Pipes |-> Bytes(bufs[r])][p]) /\ len <= Channel!Space(q)
  BY <1>2, SpaceFacts DEF content
<1> QED
  BY <1>7, <1>10, <1>11 DEF Implemented, Channel!Next

-----------------------------------------------------------------------------
\* Every step of a pipe is a step of the channels or leaves them alone.
Refined == Counted' /\ [Channel!Next]_(Channel!vars)

LEMMA PutGetPass == Implemented => Refined
  BY DEF Implemented, Refined

LEMMA StutterStep ==
    ASSUME Counted, UNCHANGED <<bufs, bytes, made, capacity, read_end_count>>
    PROVE  Refined
<1>1. Counted'
  BY DEF Counted
<1>2. UNCHANGED Channel!vars
  BY DEF Channel!vars
<1> QED
  BY <1>1, <1>2 DEF Refined

\* The last close of a reader, and one that finds no reader.
LEMMA CloseReadStep ==
    ASSUME Inv, Counted, NEW t \in Tasks, CloseRead(t)
    PROVE  Refined
<1> DEFINE p == In(t)
<1>1. p \in Pipes
  BY NextCall, CallFacts DEF CloseRead, Inv
<1>2. UNCHANGED <<bufs, bytes, made, capacity>>
  BY DEF CloseRead
<1>3. read_end_count' = [read_end_count EXCEPT ![p] = IF @ > 0 THEN @ - 1 ELSE 0]
  BY DEF CloseRead
<1>4. read_end_count \in [Pipes -> Nat]
  BY DEF Inv, TypeOK
<1> HIDE DEF p
<1>5. CASE read_end_count[p] > 0
  <2>1. read_end_count' = [read_end_count EXCEPT ![p] = @ - 1]
    BY <1>3, <1>5
  <2>2. Channel!Leave(p)
    BY <1>2, <1>5, <2>1 DEF Channel!Leave
  <2>3. Counted'
    BY <1>2 DEF Counted
  <2> QED
    BY <1>1, <2>2, <2>3 DEF Refined, Channel!Next
<1>6. CASE ~(read_end_count[p] > 0)
  <2>1. read_end_count' = read_end_count
    BY <1>1, <1>3, <1>4, <1>6, SMT
  <2> QED
    BY <1>2, <2>1, StutterStep
<1> QED
  BY <1>5, <1>6

\* set_capacity never goes below what is buffered.
LEMMA SetCapacityStep ==
    ASSUME Inv, Counted, NEW t \in Tasks, SetCapacity(t)
    PROVE  Refined
<1> DEFINE p == Out(t)
           n == Call(t).n
<1>1. p \in Pipes /\ n \in Nat
  BY NextCall, CallFacts DEF SetCapacity, Inv
<1>2. UNCHANGED <<bufs, bytes, made, read_end_count>>
  BY DEF SetCapacity
<1>3. CASE UNCHANGED capacity
  BY <1>2, <1>3, StutterStep
<1>4. CASE n >= bytes[p] /\ capacity' = [capacity EXCEPT ![p] = n]
  <2> HIDE DEF p, n
  <2>1. capacity'[p] = n
    BY <1>1, <1>4 DEF Inv, TypeOK
  <2>2. Len(content[p]) <= capacity'[p]
    BY <1>1, <1>4, <2>1, SpaceFacts, SMT
  <2>3. Channel!Resize(p)
    BY <1>2, <1>4, <2>1, <2>2 DEF Channel!Resize, content
  <2>4. Counted'
    BY <1>2 DEF Counted
  <2> QED
    BY <1>1, <2>3, <2>4 DEF Refined, Channel!Next
<1> QED
  BY <1>3, <1>4 DEF SetCapacity

LEMMA WriteKernelBytesStep ==
    ASSUME Inv, Counted, NEW t \in Tasks, WriteKernelBytes(t)
    PROVE  Refined
<1> DEFINE p == Out(t)
           len == Call(t).n
<1>1. p \in Pipes /\ len \in Nat \ {0}
  BY NextCall, CallFacts DEF WriteKernelBytes, Inv
<1>2. UNCHANGED <<capacity, read_end_count>>
  BY DEF WriteKernelBytes
<1>3. CASE UNCHANGED <<bufs, bytes, made>>
  BY <1>2, <1>3, StutterStep
<1>4. CASE /\ read_end_count[p] # 0 /\ available_write(p) >= len
           /\ Added(p, len, Segments(made, len, FALSE))
  <2> HIDE DEF p, len
  <2>1. len <= available_write(p)
    BY <1>1, <1>4, SpaceFacts, SMT DEF available_write
  <2> QED
    BY <1>1, <1>2, <1>4, <2>1, PutStep, PutGetPass DEF Added
<1> QED
  BY <1>3, <1>4 DEF WriteKernelBytes

LEMMA CheckInStep ==
    ASSUME Inv, Counted, NEW t \in Tasks, CheckIn(t)
    PROVE  Refined
<1> DEFINE p == In(t)
           n == Call(t).n
           len == Readable(p, n)
<1>1. p \in Pipes /\ n \in Nat \ {0}
  BY CallFacts DEF CheckIn, Inv, Calling, CallingAt
<1>2. UNCHANGED <<capacity, read_end_count>>
  BY DEF CheckIn
<1>3. CASE UNCHANGED <<bufs, bytes, made>>
  BY <1>2, <1>3, StutterStep
<1>4. CASE bytes[p] > 0 /\ Removed(p, len)
  <2> HIDE DEF p, n
  <2>1. len \in Nat \ {0} /\ len <= bytes[p]
    BY <1>1, <1>4, SpaceFacts, SMT DEF Readable, Minimum
  <2> HIDE DEF len
  <2> QED
    BY <1>1, <1>2, <1>4, <2>1, GetStep, PutGetPass DEF Removed
<1> QED
  BY <1>3, <1>4 DEF CheckIn

LEMMA CheckOutStep ==
    ASSUME Inv, Counted, NEW t \in Tasks, CheckOut(t)
    PROVE  Refined
<1> DEFINE p == Out(t)
           n == Call(t).n
           len == Fits(p, n)
           small == n <= SmallLength
<1>1. p \in Pipes /\ n \in Nat \ {0}
  BY CallFacts DEF CheckOut, Inv, Calling, CallingAt
<1>2. UNCHANGED <<capacity, read_end_count>>
  BY DEF CheckOut
<1>3. CASE UNCHANGED <<bufs, bytes, made>>
  BY <1>2, <1>3, StutterStep
<1>4. CASE /\ CanWrite(p) /\ read_end_count[p] # 0
           /\ Added(p, len, Segments(made, len, small))
  <2> HIDE DEF p, n
  <2>1. len \in Nat \ {0} /\ len <= available_write(p)
    BY <1>1, <1>4, SpaceFacts, SMTT(30) DEF Fits, Minimum, available_write, CanWrite
  <2>2. small \in BOOLEAN
    BY <1>1, PipeAssumption, SMT
  <2> HIDE DEF len, small
  <2> QED
    BY <1>1, <1>2, <1>4, <2>1, <2>2, PutStep, PutGetPass DEF Added
<1> QED
  BY <1>3, <1>4 DEF CheckOut

LEMMA TransferStep ==
    ASSUME Inv, Counted, NEW t \in Tasks, Transfer(t)
    PROVE  Refined
<1> DEFINE p == In(t)
           q == Out(t)
           n == Call(t).n
           page == Call(t).op = "page"
           len == Fits(q, IF page THEN n ELSE Readable(p, n))
           new == IF page THEN Segments(made, len, FALSE) ELSE TakenBufs(bufs[p], len)
           moved == Call(t).op = "splice"
<1>1. /\ p \in Pipes /\ q \in Pipes /\ n \in Nat \ {0} /\ Call(t).op \in {"splice", "tee", "page"}
      /\ Call(t).op \in {"splice", "tee"} => p # q
  BY CallFacts DEF Transfer, Inv, Calling, CallingAt
<1>2. UNCHANGED <<capacity, read_end_count>>
  BY DEF Transfer
<1>3. CASE UNCHANGED <<bufs, bytes, made>>
  BY <1>2, <1>3, StutterStep
<1>4. CASE /\ read_end_count[q] # 0 /\ len > 0
           /\ bufs' = [bufs EXCEPT ![p] = IF moved THEN LeftBufs(@, len) ELSE @,
                                   ![q] = @ \o new]
           /\ bytes' = [bytes EXCEPT ![p] = IF moved THEN @ - len ELSE @,
                                     ![q] = @ + len]
           /\ made' = IF page THEN made + len ELSE made
  <2> HIDE DEF p, q, n
  <2>1. len \in Nat \ {0} /\ len <= available_write(q)
    BY <1>1, <1>4, SpaceFacts, SMT DEF Fits, Readable, Minimum, available_write
  <2>2. CASE page
    <3>1. ~moved /\ new = Segments(made, len, FALSE) /\ made' = made + len
      BY <1>4, <2>2
    <3> HIDE DEF len, moved, new
    <3>2. bufs' = [bufs EXCEPT ![q] = @ \o Segments(made, len, FALSE)]
      <4>1. bufs' = [bufs EXCEPT ![p] = bufs[p], ![q] = bufs[q] \o new]
        BY <1>4, <3>1
      <4>2. bufs \in [Pipes -> Segs]
        BY DEF Counted
      <4> QED
        BY <1>1, <3>1, <4>1, <4>2, SamePlace
    <3>3. bytes' = [bytes EXCEPT ![q] = @ + len]
      <4>1. bytes' = [bytes EXCEPT ![p] = bytes[p], ![q] = bytes[q] + len]
        BY <1>4, <3>1
      <4>2. bytes \in [Pipes -> Nat]
        BY DEF Inv, TypeOK
      <4> QED
        BY <1>1, <4>1, <4>2, SamePlace
    <3> QED
      BY <1>1, <1>2, <1>4, <2>1, <3>1, <3>2, <3>3, PutStep, PutGetPass
  <2>3. CASE ~page
    <3>1. /\ new = TakenBufs(bufs[p], len) /\ made' = made
          /\ q \in Pipes \ {p}
      BY <1>1, <1>4, <2>3
    <3>2. len <= bytes[p]
      BY <1>1, <2>3, SpaceFacts, SMT DEF Fits, Readable, Minimum, available_write
    <3> HIDE DEF len
    <3>3. PICK stay \in BOOLEAN :
            /\ bufs' = [bufs EXCEPT ![p] = IF stay THEN @ ELSE LeftBufs(@, len),
                                    ![q] = @ \o TakenBufs(bufs[p], len)]
            /\ bytes' = [bytes EXCEPT ![p] = IF stay THEN @ ELSE @ - len, ![q] = @ + len]
      <4>1. CASE moved
        BY <1>4, <3>1, <4>1
      <4>2. CASE ~moved
        BY <1>4, <3>1, <4>2
      <4> QED
        BY <4>1, <4>2
    <3> QED
      <4>1. /\ p \in Pipes /\ q \in Pipes \ {p} /\ read_end_count[q] # 0
            /\ UNCHANGED <<made, capacity, read_end_count>>
        BY <1>1, <1>2, <1>4, <3>1
      <4>2. Implemented
        BY <2>1, <3>2, <3>3, <4>1, PassStep
      <4> QED
        BY <4>2, PutGetPass
  <2> QED
    BY <2>2, <2>3, ZenonT(30)
<1> QED
  BY <1>3, <1>4 DEF Transfer

LEMMA NextRefined == Inv /\ Counted /\ [Next]_vars => Refined
<1> SUFFICES ASSUME Inv, Counted, [Next]_vars PROVE Refined
  OBVIOUS
<1>1. CASE UNCHANGED vars
  BY <1>1, StutterStep DEF vars, ring
<1>2. ASSUME NEW t \in Tasks, Step(t) PROVE Refined
  <2>1. CASE UNCHANGED <<bufs, bytes, made, capacity, read_end_count>>
    BY <2>1, StutterStep
  <2>2. CASE ~UNCHANGED <<bufs, bytes, made, capacity, read_end_count>>
    <3>1. \/ CloseRead(t) \/ SetCapacity(t) \/ WriteKernelBytes(t) \/ CheckIn(t)
          \/ CheckOut(t) \/ Transfer(t)
      BY <1>2, <2>2 DEF Step, Begin, CloseWrite, Peek, ConsumeIgnorable, CheckSignals, Publish,
                       Recheck, Resume, SendRaised, SignalWake, HandleSignal, ring
    <3> QED
      BY <3>1, CloseReadStep, SetCapacityStep, WriteKernelBytesStep, CheckInStep, CheckOutStep,
         TransferStep
  <2> QED
    BY <2>1, <2>2
<1>3. ASSUME NEW t \in Tasks, NEW kind, Alarm(t, kind) PROVE Refined
  BY <1>3, StutterStep DEF Alarm, ring
<1> QED
  BY <1>1, <1>2, <1>3 DEF Next

LEMMA InitRefined == Init => Counted /\ Channel!Init
<1> SUFFICES ASSUME Init PROVE Counted /\ Channel!Init
  OBVIOUS
<1>1. bufs = [p \in Pipes |-> <<>>] /\ bytes = [p \in Pipes |-> 0] /\ made = 0
  BY DEF Init
<1>2. Counted
  BY <1>1, BytesOfOne, SMT DEF Counted
<1>3. Channel!Init
  BY <1>1, BytesOfOne DEF Channel!Init
<1> QED
  BY <1>2, <1>3

\* Whatever is written, read, spliced, resized and closed, by however many threads,
\* the segments of every pipe hold as many bytes as it counts and none is empty.
THEOREM CountIsRight == Spec => []BytesCounted
<1>1. Counted => BytesCounted
  BY SMT DEF Counted, BytesCounted, Total, Segs
<1>2. Inv /\ Counted /\ [Next]_vars => Counted'
  BY NextRefined DEF Refined
<1> QED
  BY <1>1, <1>2, InitRefined, PipeInvariance, PTL DEF Spec

\* Pipes are first-in first-out channels of bytes: Pipe implements ByteChannel.
THEOREM PipesAreChannels == Spec => PipeIsChannel
<1>1. Inv /\ Counted /\ [Next]_vars => Counted' /\ [Channel!Next]_(Channel!vars)
  BY NextRefined DEF Refined
<1> QED
  BY <1>1, InitRefined, PipeInvariance, PTL DEF Spec, PipeIsChannel, Channel!Spec
=============================================================================
