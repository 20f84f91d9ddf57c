----------------------------- MODULE PipeBuffer -----------------------------
(***************************************************************************)
(* The data of a pipe: PipeRingBuffer keeps its bytes in a VecDeque of     *)
(* segments (os/src/fs/files/pipe/ring_buffer.rs).  A segment is a         *)
(* sequence of bytes.                                                      *)
(***************************************************************************)
EXTENDS Integers, Sequences

Minimum(a, b) == IF a <= b THEN a ELSE b

\* The number of bytes in the first i segments.
Start(q, i) ==
    LET f[j \in 0 .. i] == IF j = 0 THEN 0 ELSE f[j - 1] + Len(q[j]) IN f[i]

\* The number of segments that a request for len bytes touches.
Touched(q, len) ==
    CHOOSE m \in 0 .. Len(q) : \A i \in DOMAIN q : Start(q, i - 1) < len <=> i <= m

\* The first len bytes, the last segment cut if need be (pop_bufs, clone_bufs).
TakenBufs(q, len) ==
    [i \in 1 .. Touched(q, len) |->
        SubSeq(q[i], 1, Minimum(Len(q[i]), len - Start(q, i - 1)))]

\* The rest of the segment that a request cuts, if it cuts one.
Remainder(q, len) ==
    LET m == Touched(q, len)
        rest == IF m = 0 THEN <<>> ELSE SubSeq(q[m], len - Start(q, m - 1) + 1, Len(q[m]))
    IN IF rest = <<>> THEN <<>> ELSE <<rest>>

\* Mutants: a segment that is cut is not put back, or is put back at the end.
DropRemainder(q, len) == SubSeq(q, Touched(q, len) + 1, Len(q))
RemainderLast(q, len) == SubSeq(q, Touched(q, len) + 1, Len(q)) \o Remainder(q, len)

\* What pop_bufs leaves: the rest of the cut segment goes back to the front.
LeftBufs(q, len) == Remainder(q, len) \o SubSeq(q, Touched(q, len) + 1, Len(q))

\* The bytes after number from, as one segment each or as one segment.
Segments(from, len, small) ==
    IF small THEN [i \in 1 .. len |-> <<from + i>>]
    ELSE <<[i \in 1 .. len |-> from + i]>>

\* The number of bytes in the segments q, and the segment of the k-th byte.
Total(q) == Start(q, Len(q))
Holder(q, k) == CHOOSE i \in DOMAIN q : Start(q, i - 1) < k /\ k <= Start(q, i)

\* The bytes in the segments q, one after the other.
Bytes(q) ==
    [k \in 1 .. Total(q) |-> q[Holder(q, k)][k - Start(q, Holder(q, k) - 1)]]
=============================================================================
