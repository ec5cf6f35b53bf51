---------------------------- MODULE ChunkDelivery ----------------------------
(***************************************************************************)
(* What the peer makes of the chunks ChunkWriters puts on the wire.  The   *)
(* transport keeps the order of bytes, and the peer reads a chunk stream   *)
(* with the state of that stream alone, so what it will have read once it  *)
(* has read all chunks flushed so far does not depend on when it reads     *)
(* them.  The peer's readers are added to ChunkWriters as a variable that  *)
(* goes with the wire, chunk by chunk, and that no action of it reads.     *)
(***************************************************************************)
EXTENDS ChunkWriters, SequencesExt

VARIABLE peer   \* history: chunk stream -> the peer's reader of it

\* A ChunkStreamReader: the pieces of the message it is reading, the messages
\* it has completed, and whether it has lost the boundaries of chunks.
Reader == [got |-> <<>>, read |-> <<>>, broken |-> FALSE]

\* readChunk, after the headers.  It panics when the announced length is
\* already reached; when the body is not as long as the length promises it
\* takes the bytes of the next header for payload.
ReadChunk(r, chunk) ==
    LET expectLen == chunk.len - Len(r.got)
        got == r.got \o chunk.body
    IN  IF r.broken \/ expectLen <= 0 \/ chunk.body = <<>>
        THEN [r EXCEPT !.broken = TRUE]
        ELSE IF Len(got) = chunk.len
             THEN [r EXCEPT !.got = <<>>, !.read = Append(@, got)]
             ELSE [r EXCEPT !.got = got]

\* The message a completed buffer is, or None if it is no message as sent.
MessageOf(pieces) ==
    IF pieces = Pieces(pieces[1].msg) THEN pieces[1].msg ELSE None

\* The reader of a chunk stream reads what this step puts on its wire.
PeerReads ==
    peer' = [c \in ChunkStreams |->
               IF wire'[c] = wire[c] THEN peer[c]
                                     ELSE ReadChunk(peer[c], Last(wire'[c]))]

DeliverySpec ==
    /\ Init /\ peer = [c \in ChunkStreams |-> Reader]
    /\ [][Next /\ PeerReads]_<<vars, peer>>

DeliveryLive == DeliverySpec /\ Fairness /\ WritesEnd

\* What the peer has read of chunk stream c.
Received(c) ==
    [i \in DOMAIN peer[c].read |-> MessageOf(peer[c].read[i])]
      \o (IF peer[c].broken THEN <<None>> ELSE <<>>)

\* What is left of the accepted messages once the peer has read n of them.
Unread(c, n) == SubSeq(accepted[c], n + 1, Len(accepted[c]))

\* The refinement mapping: what is in the pipes, and what came out last.
InPipe == [c \in ChunkStreams |-> Unread(c, Len(Received(c)))]

LastRead ==
    [c \in ChunkStreams |-> IF Received(c) = <<>> THEN None ELSE Last(Received(c))]

Pipe == INSTANCE ChunkPipe WITH Nothing <- None, pipe <- InPipe, last <- LastRead

-----------------------------------------------------------------------------
\* The scheduler, the shared encoder and the headers together implement the
\* pipes, through failures and Close: what the peer reads of a chunk stream is
\* what was accepted for it, whole, once and in order.
ImplementsPipe == Pipe!Spec

\* When waitWriters is through without running out of its three seconds and
\* the transport is sound, everything accepted has been flushed: stopping the
\* scheduler loses nothing.
CleanClose ==
    [][CloseWaited /\ ~ctxExpired /\ ~err =>
         \A c \in writers : Received(c) = accepted[c]]_<<vars, peer>>

\* An accepted message reaches the peer unless Close or a failure comes first.
AcceptedArrives ==
    \A c \in ChunkStreams, n \in 1..MaxWrites :
        Len(accepted[c]) >= n ~> Len(Received(c)) >= n \/ stopped \/ err
=============================================================================
