------------------------------- MODULE MCPipe -------------------------------
(* Scenarios of Pipe for TLC: threads 1, 2 and 3, pipes 1 and 2. *)
EXTENDS PipeChannel, SequencesExt

\* Bytes is the concatenation of the segments.
ASSUME BytesAreFlat ==
    \A q \in BoundedSeq(BoundedSeq({1, 2}, 2), 3) :
        (\A i \in DOMAIN q : q[i] # <<>>) => Bytes(q) = FlattenSeq(q)

\* Calls: the operation, the input and output pipe, a length, O_NONBLOCK.
Do(op, p, q, n) == [op |-> op, in |-> p, out |-> q, n |-> n, nonblock |-> FALSE]
Try(op, p, q, n) == [op |-> op, in |-> p, out |-> q, n |-> n, nonblock |-> TRUE]
Close(op, p) == Do(op, p, p, 1)

Quiet == [p \in Pipes |-> None]

\* One writer and one reader, lengths that split segments, two signals.
OneToOne ==
    [script |-> << <<Do("write", 1, 1, 2), Do("write", 1, 1, 3), Close("close_write", 1)>>,
                   <<Do("read", 1, 1, 1), Do("read", 1, 1, 3), Do("read", 1, 1, 2),
                     Close("close_read", 1)>>,
                   <<>> >>,
     readers |-> <<1, 0>>, writers |-> <<1, 0>>, capacity |-> <<3, 1>>, owner |-> Quiet,
     signals |-> 2]

\* Two readers of one pipe, who sleep before the writer comes.
TwoReaders ==
    [script |-> << <<Do("write", 1, 1, 2), Do("write", 1, 1, 1), Close("close_write", 1)>>,
                   <<Do("read", 1, 1, 1), Do("read", 1, 1, 1), Close("close_read", 1)>>,
                   <<Do("read", 1, 1, 2), Do("read", 1, 1, 1), Close("close_read", 1)>> >>,
     readers |-> <<2, 0>>, writers |-> <<1, 0>>, capacity |-> <<2, 1>>, owner |-> Quiet,
     signals |-> 0]

\* Two writers, a reader that leaves, and a pipe that grows and shrinks.
TwoWriters ==
    [script |-> << <<Do("write", 1, 1, 2), Do("write", 1, 1, 2), Close("close_write", 1)>>,
                   <<Do("write", 1, 1, 1), Do("write", 1, 1, 2), Close("close_write", 1)>>,
                   <<Do("read", 1, 1, 1), Do("set_capacity", 1, 1, 1),
                     Do("set_capacity", 1, 1, 3), Close("close_read", 1)>> >>,
     readers |-> <<1, 0>>, writers |-> <<2, 0>>, capacity |-> <<2, 1>>, owner |-> Quiet,
     signals |-> 0]

\* Thread 2 copies and moves what thread 1 writes to the pipe thread 3 reads.
Splicing ==
    [script |-> << <<Do("write", 1, 1, 2), Do("page", 1, 1, 2), Close("close_write", 1)>>,
                   <<Do("tee", 1, 2, 1), Do("splice", 1, 2, 2), Do("splice", 1, 2, 2),
                     Close("close_read", 1), Close("close_write", 2)>>,
                   <<Do("read", 2, 2, 2), Do("read", 2, 2, 2), Close("close_read", 2)>> >>,
     readers |-> <<1, 1>>, writers |-> <<1, 1>>, capacity |-> <<2, 2>>, owner |-> Quiet,
     signals |-> 1]

\* Nonblocking calls, kernel records, SIGIO to the reader, SIGPIPE.
Polite ==
    [script |-> << <<Do("kernel", 1, 1, 1), Do("write", 1, 1, 1), Do("kernel", 1, 1, 2),
                     Try("write", 1, 1, 2), Close("close_write", 1)>>,
                   <<Try("read", 1, 1, 1), Do("read", 1, 1, 1), Close("close_read", 1)>>,
                   <<Do("kernel", 1, 1, 1), Try("splice", 1, 2, 1)>> >>,
     readers |-> <<1, 0>>, writers |-> <<1, 1>>, capacity |-> <<2, 1>>,
     owner |-> <<2, None>>, signals |-> 1]

All == {OneToOne, TwoReaders, TwoWriters, Splicing, Polite}
=============================================================================
