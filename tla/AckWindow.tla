------------------------------ MODULE AckWindow ------------------------------
(***************************************************************************)
(* Acknowledgements: what the two ends of a connection do to each other    *)
(* when both of them count the bytes they read.                            *)
(*                                                                         *)
(* ChunkStreamerReader counts.  When half a window has been read,          *)
(* NewChunkReader stops reading and writes an Ack on the control chunk     *)
(* stream, through the same writers, scheduler and transport as all other  *)
(* messages: it waits until the writer of that chunk stream is free, and   *)
(* the peer may not be reading because it waits for the same.  An Ack is   *)
(* made of bytes too, and the peer counts them.                            *)
(*                                                                         *)
(* Module ChunkWriters has the goroutines within one end; here a Write is  *)
(* one step, and the scheduler's channel has a place for every writer.     *)
(* An end whose message loop has ended reads no more.                      *)
(***************************************************************************)
EXTENDS Integers, Sequences, FiniteSets

CONSTANTS
    Ends,              \* the two ends of the connection
    MediaStreams,      \* chunk streams users write media on
    MediaBytes,        \* bytes of a media chunk
    ControlBytes,      \* bytes of a control message, always one chunk
    DefaultWindow,     \* DefaultAckWindowSize
    Window,            \* the size an end may announce with WinAckSize
    Capacity,          \* bytes the transport holds in one direction
    CounterMod,        \* 2^32, where the counters wrap around
    MaxChunks,         \* bound: chunks of a message
    MaxMessages        \* bound: messages written by one end

Control == 2           \* ctrlMsgChunkStreamID

ASSUME EndsAssumption == IsFiniteSet(Ends) /\ Cardinality(Ends) = 2
ASSUME MediaAssumption ==
    MediaStreams # {} /\ Control \notin MediaStreams /\ IsFiniteSet(MediaStreams)
ASSUME BytesAssumption ==
    {MediaBytes, ControlBytes, MaxChunks, MaxMessages} \subseteq Nat \ {0}
\* Half a window has room for one chunk of every chunk stream.
ASSUME WindowAssumption ==
    /\ {DefaultWindow, Window, CounterMod} \subseteq Nat
    /\ Window \div 2 >= Cardinality(MediaStreams) * MediaBytes + ControlBytes
    /\ Window <= DefaultWindow /\ DefaultWindow < CounterMod
ASSUME CapacityAssumption ==
    Capacity \in Nat /\ Capacity >= MediaBytes /\ Capacity >= ControlBytes

VARIABLES
    queue,             \* end -> messages whose writers are in its channel
    wire,              \* end -> chunks on their way from it
    pc,                \* end -> its message loop: "read", "ack", "handle", "ended"
    chunk,             \* end -> the chunk it has read last
    totalReadBytes, fragmentReadBytes,
    ackWindowSize,     \* end -> peerState.ackWindowSize
    announced,         \* the ends that have sent WinAckSize
    written,           \* end -> messages its users have written
    acked              \* end -> the sequence number of the last Ack it got

vars == <<queue, wire, pc, chunk, totalReadBytes, fragmentReadBytes,
          ackWindowSize, announced, written, acked>>

-----------------------------------------------------------------------------
Peer(e) == CHOOSE p \in Ends : p # e

\* A message: left counts the chunks not yet written.
Media(cs, n) == [cs |-> cs, kind |-> "media", left |-> n, seq |-> 0]
WinAckSize == [cs |-> Control, kind |-> "window", left |-> 1, seq |-> 0]
Ack(seq) == [cs |-> Control, kind |-> "ack", left |-> 1, seq |-> seq]

Size(m) == IF m.cs = Control THEN ControlBytes ELSE MediaBytes
ControlPlaces(w) == {i \in DOMAIN w : w[i].cs = Control}
Bytes(w) == LET control == Cardinality(ControlPlaces(w)) IN
            control * ControlBytes + (Len(w) - control) * MediaBytes

\* The writer of the chunk stream has something left to write.
Busy(e, cs) == \E i \in DOMAIN queue[e] : queue[e][i].cs = cs

Enqueue(e, m) ==
    /\ ~Busy(e, m.cs)
    /\ queue' = [queue EXCEPT ![e] = Append(@, m)]

Init ==
    /\ queue = [e \in Ends |-> <<>>] /\ wire = [e \in Ends |-> <<>>]
    /\ pc = [e \in Ends |-> "read"] /\ chunk = [e \in Ends |-> WinAckSize]
    /\ totalReadBytes = [e \in Ends |-> 0]
    /\ fragmentReadBytes = [e \in Ends |-> 0]
    /\ ackWindowSize = [e \in Ends |-> DefaultWindow]
    /\ announced = {}
    /\ written = [e \in Ends |-> 0]
    /\ acked = [e \in Ends |-> 0]

-----------------------------------------------------------------------------
(* Users and the scheduler *)

\* The server answers connect with WinAckSize, before there are media.
Announce(e) ==
    /\ e \notin announced /\ \A x \in Ends : written[x] = 0
    /\ Enqueue(e, WinAckSize)
    /\ announced' = announced \cup {e}
    /\ UNCHANGED <<wire, pc, chunk, totalReadBytes, fragmentReadBytes,
                   ackWindowSize, written, acked>>

Write(e, cs) ==
    /\ written[e] < MaxMessages
    /\ \E n \in 1..MaxChunks : Enqueue(e, Media(cs, n))
    /\ written' = [written EXCEPT ![e] = @ + 1]
    /\ UNCHANGED <<wire, pc, chunk, totalReadBytes, fragmentReadBytes,
                   ackWindowSize, announced, acked>>

\* The scheduler writes a chunk of the next writer, which blocks while the
\* transport is full, and puts the writer back if something is left.
WriteChunk(e) ==
    /\ queue[e] # <<>>
    /\ LET m == Head(queue[e]) IN
       /\ Bytes(wire[e]) + Size(m) <= Capacity
       /\ wire' = [wire EXCEPT ![e] = Append(@, m)]
       /\ queue' = [queue EXCEPT ![e] =
                      IF m.left = 1 THEN Tail(@)
                      ELSE Append(Tail(@), [m EXCEPT !.left = @ - 1])]
    /\ UNCHANGED <<pc, chunk, totalReadBytes, fragmentReadBytes, ackWindowSize,
                   announced, written, acked>>

-----------------------------------------------------------------------------
(* The message loop *)

\* Mutant: the counter does not wrap around.
Count_Wide(e, n) ==
    /\ totalReadBytes' = [totalReadBytes EXCEPT ![e] = @ + n]
    /\ fragmentReadBytes' = [fragmentReadBytes EXCEPT ![e] = (@ + n) % CounterMod]

\* ChunkStreamerReader.Read
Count(e, n) ==
    /\ totalReadBytes' = [totalReadBytes EXCEPT ![e] = (@ + n) % CounterMod]
    /\ fragmentReadBytes' = [fragmentReadBytes EXCEPT ![e] = (@ + n) % CounterMod]

\* readChunk reads a chunk, counting its bytes.
Take(e) ==
    /\ pc[e] = "read" /\ wire[Peer(e)] # <<>>
    /\ chunk' = [chunk EXCEPT ![e] = Head(wire[Peer(e)])]
    /\ wire' = [wire EXCEPT ![Peer(e)] = Tail(@)]
    /\ Count(e, Size(Head(wire[Peer(e)])))
    /\ UNCHANGED <<queue, ackWindowSize, announced, written, acked>>

\* Mutant: the window is looked at only when a message is complete.
ReadChunk_ChecksLate(e) ==
    /\ Take(e)
    /\ pc' = [pc EXCEPT ![e] =
                IF /\ fragmentReadBytes'[e] >= ackWindowSize[e] \div 2
                   /\ chunk'[e].left = 1
                THEN "ack" ELSE "handle"]

\* Mutant: acknowledgements are sent much earlier than need be.
ReadChunk_Quarter(e) ==
    /\ Take(e)
    /\ pc' = [pc EXCEPT ![e] =
                IF fragmentReadBytes'[e] >= ackWindowSize[e] \div 4
                THEN "ack" ELSE "handle"]

\* NewChunkReader after readChunk: half a window is to be acknowledged.
ReadChunk(e) ==
    /\ Take(e)
    /\ pc' = [pc EXCEPT ![e] =
                IF fragmentReadBytes'[e] >= ackWindowSize[e] \div 2
                THEN "ack" ELSE "handle"]

\* Mutant: the bytes acknowledged are counted again.
SendAck_NoReset(e) ==
    /\ pc[e] = "ack"
    /\ Enqueue(e, Ack(totalReadBytes[e]))
    /\ pc' = [pc EXCEPT ![e] = "handle"]
    /\ UNCHANGED <<wire, chunk, totalReadBytes, fragmentReadBytes,
                   ackWindowSize, announced, written, acked>>

\* sendAck waits for the writer of the control chunk stream.
SendAck(e) ==
    /\ pc[e] = "ack"
    /\ Enqueue(e, Ack(totalReadBytes[e]))
    /\ fragmentReadBytes' = [fragmentReadBytes EXCEPT ![e] = 0]
    /\ pc' = [pc EXCEPT ![e] = "handle"]
    /\ UNCHANGED <<wire, chunk, totalReadBytes, ackWindowSize, announced,
                   written, acked>>

\* The five seconds of Stream.Write are over: the message loop ends.
AckFails(e) ==
    /\ pc[e] = "ack" /\ Busy(e, Control)
    /\ pc' = [pc EXCEPT ![e] = "ended"]
    /\ UNCHANGED <<queue, wire, chunk, totalReadBytes, fragmentReadBytes,
                   ackWindowSize, announced, written, acked>>

\* streamHandler.Handle: a new window counts from the next chunk on, an Ack is
\* the user's.
Handle(e) ==
    /\ pc[e] = "handle"
    /\ pc' = [pc EXCEPT ![e] = "read"]
    /\ ackWindowSize' = IF chunk[e].kind = "window"
                        THEN [ackWindowSize EXCEPT ![e] = Window] ELSE ackWindowSize
    /\ acked' = IF chunk[e].kind = "ack"
                THEN [acked EXCEPT ![e] = chunk[e].seq] ELSE acked
    /\ UNCHANGED <<queue, wire, chunk, totalReadBytes, fragmentReadBytes,
                   announced, written>>

Next == \E e \in Ends :
    \/ Announce(e) \/ (\E cs \in MediaStreams : Write(e, cs))
    \/ WriteChunk(e) \/ ReadChunk(e) \/ SendAck(e) \/ AckFails(e) \/ Handle(e)

Spec == Init /\ [][Next]_vars

\* The goroutines run; a transport with room takes a write.  Users need not
\* write, and the deadline of an Ack need not pass.
Fairness == \A e \in Ends :
    /\ WF_vars(WriteChunk(e)) /\ WF_vars(ReadChunk(e))
    /\ WF_vars(SendAck(e)) /\ WF_vars(Handle(e))

LiveSpec == Spec /\ Fairness

-----------------------------------------------------------------------------
Messages == {Media(cs, n) : cs \in MediaStreams, n \in 1..MaxChunks}
              \cup {WinAckSize} \cup {Ack(n) : n \in 0..CounterMod - 1}

\* Every variable keeps its type, counters are 32-bit numbers, a chunk stream
\* is in the channel once and the transport holds what it can.
TypeOK ==
    \A e \in Ends :
       /\ \A i \in DOMAIN queue[e] : queue[e][i] \in Messages
       /\ \A i, j \in DOMAIN queue[e] : queue[e][i].cs = queue[e][j].cs => i = j
       /\ \A i \in DOMAIN wire[e] : wire[e][i] \in Messages
       /\ Bytes(wire[e]) <= Capacity
       /\ pc[e] \in {"read", "ack", "handle", "ended"} /\ chunk[e] \in Messages
       /\ {totalReadBytes[e], fragmentReadBytes[e], acked[e]} \subseteq 0..CounterMod - 1
       /\ ackWindowSize[e] \in {DefaultWindow, Window}
       /\ written[e] \in 0..MaxMessages

IsAck(m) == m.kind = "ack"

\* What is on its way from e, the oldest first, and what has become of the
\* acknowledgements before it.
Sent(e) == wire[e] \o queue[e]
Told(e) ==
    LET p == Peer(e) IN
    (IF pc[p] = "read" THEN <<Ack(acked[p])>> ELSE <<Ack(acked[p]), chunk[p]>>) \o Sent(e)

\* No acknowledgement comes after the i-th message.
Newest(told, i) ==
    IsAck(told[i]) /\ \A j \in DOMAIN told : i < j => ~IsAck(told[j])

\* No end reads a whole window without telling its peer, in time for a peer
\* that stops when a window is unacknowledged, and through the wrap of the
\* counter.
AckInTime ==
    \A e \in Ends : \A i \in DOMAIN Told(e) :
       Newest(Told(e), i) =>
          (totalReadBytes[e] - Told(e)[i].seq) % CounterMod < ackWindowSize[e]

\* Acknowledgements reach the peer in order and none is repeated: each is at
\* least half a window ahead of the last one.
AcksAdvance ==
    [][\A e \in Ends : acked'[e] # acked[e] =>
          (acked'[e] - acked[e]) % CounterMod >= Window \div 2]_vars

\* When the users stop, all they have written is read and the exchange of
\* acknowledgements ends: the two readers neither block each other for good nor
\* keep acknowledging acknowledgements.
Quiesces ==
    <>[](\/ \E e \in Ends : pc[e] = "ended"
         \/ \A e \in Ends : queue[e] = <<>> /\ wire[e] = <<>> /\ pc[e] = "read")
=============================================================================
