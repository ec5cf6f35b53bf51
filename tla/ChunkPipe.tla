------------------------------ MODULE ChunkPipe ------------------------------
(***************************************************************************)
(* What a connection promises of the messages written to it: every chunk   *)
(* stream is a pipe.  Write puts a message in, and the peer takes the      *)
(* messages of that chunk stream out whole, once, and in the order in      *)
(* which they went in.  Nothing is promised between chunk streams.         *)
(***************************************************************************)
EXTENDS Naturals, Sequences

CONSTANTS ChunkStreams, Message, Nothing

VARIABLES pipe,   \* chunk stream -> messages accepted and not yet read
          last    \* chunk stream -> the message the peer read last

Init ==
    /\ pipe = [c \in ChunkStreams |-> <<>>]
    /\ last = [c \in ChunkStreams |-> Nothing]

Accept(c) ==
    /\ \E m \in Message : pipe' = [pipe EXCEPT ![c] = Append(@, m)]
    /\ UNCHANGED last

Deliver(c) ==
    /\ pipe[c] # <<>>
    /\ last' = [last EXCEPT ![c] = Head(pipe[c])]
    /\ pipe' = [pipe EXCEPT ![c] = Tail(@)]

Next == \E c \in ChunkStreams : Accept(c) \/ Deliver(c)

Spec == Init /\ [][Next]_<<pipe, last>>
=============================================================================
