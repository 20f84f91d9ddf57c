----------------------------- MODULE ByteChannel -----------------------------
(***************************************************************************)
(* What a set of pipes promises the programs that use them: each is a      *)
(* bounded first-in first-out channel of bytes that takes bytes only while *)
(* somebody can read them, and bytes pass from one channel to another      *)
(* without being seen in both or in neither.  Pipe implements it.          *)
(***************************************************************************)
EXTENDS Integers, Sequences

CONSTANT Channels

VARIABLES content,  \* the bytes in each channel, oldest first
          room,     \* how many it may hold
          readers,  \* its open reading ends
          sent      \* number of bytes written so far: the next byte is sent + 1

vars == <<content, room, readers, sent>>

Init ==
    /\ content = [c \in Channels |-> <<>>]
    /\ sent = 0

Space(c) == room[c] - Len(content[c])

\* A program writes k new bytes.
Put(c, k) ==
    /\ readers[c] > 0
    /\ content' = [content EXCEPT ![c] = @ \o [i \in 1 .. k |-> sent + i]]
    /\ sent' = sent + k
    /\ UNCHANGED <<room, readers>>

\* A program reads the k oldest bytes.
Get(c, k) ==
    /\ content' = [content EXCEPT ![c] = SubSeq(@, k + 1, Len(@))]
    /\ UNCHANGED <<room, readers, sent>>

\* The k oldest bytes of c go to d, and stay in c or not.
Pass(c, d, k, stay) ==
    /\ readers[d] > 0
    /\ content' = [content EXCEPT ![c] = IF stay THEN @ ELSE SubSeq(@, k + 1, Len(@)),
                                  ![d] = @ \o SubSeq(content[c], 1, k)]
    /\ UNCHANGED <<room, readers, sent>>

\* The room changes, but never below what the channel holds.
Resize(c) ==
    /\ Len(content[c]) <= room'[c]
    /\ room' = [room EXCEPT ![c] = room'[c]]
    /\ UNCHANGED <<content, readers, sent>>

\* A reading end is closed; none is opened.
Leave(c) ==
    /\ readers[c] > 0
    /\ readers' = [readers EXCEPT ![c] = @ - 1]
    /\ UNCHANGED <<content, room, sent>>

Next ==
    \E c \in Channels :
        \/ \E k \in 1 .. Space(c) : Put(c, k)
        \/ \E k \in 1 .. Len(content[c]) : Get(c, k)
        \/ \E d \in Channels \ {c}, stay \in BOOLEAN :
              \E k \in 1 .. Len(content[c]) : k <= Space(d) /\ Pass(c, d, k, stay)
        \/ Resize(c)
        \/ Leave(c)

Spec == Init /\ [][Next]_vars
==============================================================================
