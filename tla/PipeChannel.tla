----------------------------- MODULE PipeChannel -----------------------------
(* Pipe implements ByteChannel: the segments of a pipe's VecDeque, however   *)
(* they were cut, moved and shared, are one sequence of bytes.               *)
EXTENDS Pipe

Channel ==
    INSTANCE ByteChannel
        WITH Channels <- Pipes,
             content <- [p \in Pipes |-> Bytes(bufs[p])],
             room <- capacity,
             readers <- read_end_count,
             sent <- made

\* Every byte that a pipe accepts leaves it once and in order, whatever the
\* lengths of writes and reads and with splice and tee between pipes; nothing is
\* accepted beyond the capacity or after the last reader left.
PipeIsChannel == Channel!Spec
==============================================================================
