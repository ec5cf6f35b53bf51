----------------------------- MODULE ChunkCodec -----------------------------
(***************************************************************************)
(* How messages become chunks and messages again: the compressed headers   *)
(* of chunk_header.go, the writer that chooses among them                  *)
(* (updateWriterHeader), the reader that undoes them (readChunk), and the  *)
(* chunk size both sides must agree on while it changes.                   *)
(*                                                                         *)
(* One side writes, the other reads, and a FIFO transport lies between.    *)
(* Both keep a state per chunk stream; a header says only what has changed *)
(* against it, so that one disagreement spoils all that follows.  Widths   *)
(* are parameters: TimeMod stands for 2^32, TimeExt for 0xffffff and       *)
(* LengthMod for 2^24.  Payloads are counted in units no chunk divides.    *)
(* Basic headers are bytes, because the reader may take more than one.     *)
(***************************************************************************)
EXTENDS Integers, Sequences

CONSTANTS
    Media,            \* chunk stream IDs of audio, video and data
    TimeMod, TimeExt, LengthMod,
    Timestamps, Lengths, TypeIDs, StreamIDs,  \* what users write
    ChunkSizes,       \* the chunk sizes CreateStream is called with
    DefaultChunkSize, \* both sides start with it
    QuietSizeChange,  \* is nothing else written while CreateStream runs?
    WireSize,         \* bound: chunks in transit
    None

Control == 2          \* ctrlMsgChunkStreamID
SetChunkSizeType == 1 \* TypeIDSetChunkSize

\* What encodeChunkBasicHeader accepts.
ChunkStreamID == 2..65599

ChunkStreams == Media \cup {Control}

ASSUME MediaAssumption == Media \subseteq ChunkStreamID \ {Control}
ASSUME WidthsAssumption ==
    /\ TimeMod \in Nat /\ TimeExt \in 1..TimeMod - 1 /\ LengthMod \in Nat \ {0}
    /\ Timestamps \subseteq 0..TimeMod - 1 /\ Lengths \subseteq Nat
ASSUME SizesAssumption ==
    ChunkSizes \subseteq Nat \ {0} /\ DefaultChunkSize \in Nat \ {0}
ASSUME TypesAssumption ==
    TypeIDs \subseteq Nat \ {SetChunkSizeType} /\ StreamIDs \subseteq Nat

VARIABLES
    selfSize,   \* the writing side's selfState.chunkSize
    peerSize,   \* the reading side's peerState.chunkSize
    sizeReq,    \* the size CreateStream has set but not yet announced, or 0
    writer,     \* chunk stream -> ChunkStreamWriter
    queue,      \* the writers in the scheduler's channel
    wire,       \* chunks in transit
    reader,     \* chunk stream -> ChunkStreamReader
    broken,     \* the reader has panicked or lost the boundaries of chunks
    pipe,       \* history: chunk stream -> messages written and not yet read
    last        \* history: chunk stream -> the message read last

vars == <<selfSize, peerSize, sizeReq, writer, queue, wire, reader, broken,
          pipe, last>>

-----------------------------------------------------------------------------
(* Basic headers: one to three bytes *)

\* The bytes after the two bits of fmt, most significant six bits first.
EncodeBasicHeader(id) ==
    IF id <= 63 THEN <<id>>
    ELSE IF id <= 319 THEN <<0, id - 64>>
    ELSE <<1, (id - 64) % 256, (id - 64) \div 256>>

DecodeBasicHeader(b) ==
    IF b[1] = 0 THEN b[2] + 64
    ELSE IF b[1] = 1 THEN b[3] * 256 + b[2] + 64
    ELSE b[1]

\* How many of the bytes b that have arrived decodeChunkBasicHeader takes.  Its
\* second read for the form of three bytes asks for at least two and offers the
\* whole of cacheBuffer.
CacheSize == 64 * 1024
BasicHeaderTakes(b) ==
    CASE b[1] = 0 -> 2
      [] b[1] = 1 -> IF Len(b) < CacheSize THEN Len(b) ELSE CacheSize
      [] OTHER -> 1

\* If anything behind the basic header has arrived, some of it is taken.
OverRead(basic) == BasicHeaderTakes(Append(basic, 0)) > Len(basic)

-----------------------------------------------------------------------------
(* The writer *)

MediaMessage == [timestamp : Timestamps, length : Lengths, typeID : TypeIDs,
                 streamID : StreamIDs, size : {0}]

\* Four bytes of payload, counted as one unit, on the control chunk stream.
SetChunkSize(s) == [timestamp |-> 0, length |-> 1, typeID |-> SetChunkSizeType,
                    streamID |-> 0, size |-> s]

Message == MediaMessage \cup {SetChunkSize(s) : s \in ChunkSizes}

\* A writer's header state starts with an impossible timestamp, so that the
\* first message counts as reversed and gets a full header.
NewWriter ==
    [timestamp |-> 0, delta |-> 0, length |-> 0, typeID |-> 0, streamID |-> 0,
     newChunk |-> TRUE, left |-> 0, size |-> 0,
     header |-> [timestamp |-> TimeMod - 1, delta |-> 0, length |-> 0,
                 typeID |-> 0, streamID |-> 0]]

\* What Write leaves in the writer for the scheduler.
Loaded(w, m) ==
    [w EXCEPT !.timestamp = m.timestamp, !.length = m.length,
              !.typeID = m.typeID, !.streamID = m.streamID,
              !.newChunk = TRUE, !.left = m.length, !.size = m.size]

IsFresh(w) == w.newChunk \/ w.timestamp # w.header.timestamp

IsReversed(w) == IsFresh(w) /\ w.timestamp < w.header.timestamp

\* Mutants: the delta of a reversed timestamp is left as it was; the delta is
\* computed without asking whether time went back.
NextDelta_KeepsReversed(w) ==
    IF ~IsFresh(w) \/ IsReversed(w) THEN w.delta
    ELSE w.timestamp - w.header.timestamp
NextDelta_NoReversal(w) ==
    IF ~IsFresh(w) THEN w.delta ELSE w.timestamp - w.header.timestamp

\* A message's delta is computed at its first chunk and kept for the others.
NextDelta(w) ==
    IF ~IsFresh(w) THEN w.delta
    ELSE IF IsReversed(w) THEN 0 ELSE w.timestamp - w.header.timestamp

\* Mutant: a message of another type but of the same length gets fmt 2 or 3.
NextFmt_IgnoresType(w) ==
    IF IsReversed(w) \/ w.header.streamID # w.streamID THEN 0
    ELSE IF w.header.length # w.length THEN 1
    ELSE IF NextDelta(w) # w.header.delta THEN 2
    ELSE 3

\* The shortest header that says what the peer does not know yet.
NextFmt(w) ==
    IF IsReversed(w) \/ w.header.streamID # w.streamID THEN 0
    ELSE IF w.header.length # w.length \/ w.header.typeID # w.typeID THEN 1
    ELSE IF NextDelta(w) # w.header.delta THEN 2
    ELSE 3

\* updateWriterHeader
Updated(w) ==
    [w EXCEPT !.newChunk = FALSE, !.delta = NextDelta(w),
              !.header = [timestamp |-> w.timestamp, delta |-> NextDelta(w),
                          length |-> w.length, typeID |-> w.typeID,
                          streamID |-> w.streamID]]

\* encodeChunkMessageHeader: fmt 3 writes nothing at all.
EncodeHeader(fmt, h) ==
    LET time == CASE fmt = 0 -> h.timestamp
                  [] fmt \in {1, 2} -> h.delta
                  [] fmt = 3 -> 0
    IN  [fmt |-> fmt,
         time |-> IF time >= TimeExt THEN TimeExt ELSE time,
         ext |-> IF time >= TimeExt THEN <<time>> ELSE <<>>,
         length |-> IF fmt <= 1 THEN h.length % LengthMod ELSE 0,
         typeID |-> IF fmt <= 1 THEN h.typeID ELSE 0,
         streamID |-> IF fmt = 0 THEN h.streamID ELSE 0]

-----------------------------------------------------------------------------
(* The reader *)

NewReader ==
    [timestamp |-> 0, delta |-> 0, length |-> 0, typeID |-> 0, streamID |-> 0,
     extMode |-> "unused", got |-> 0, completed |-> FALSE]

\* The decoder reads four more bytes in these cases.  When the encoder has
\* written none, they are the first of the payload.
WantsExt(r, h) ==
    IF h.fmt = 3 THEN r.extMode # "unused" ELSE h.time = TimeExt

HeaderTime(h) == IF h.ext = <<>> THEN h.time ELSE h.ext[1]

\* Mutant: the buffer still holds the previous message.
Reopened_KeepsBuffer(r) == [r EXCEPT !.completed = FALSE]

\* readChunk empties the buffer of a message that was complete.
Reopened(r) == [r EXCEPT !.got = IF r.completed THEN 0 ELSE r.got,
                         !.completed = FALSE]

\* decodeChunkMessageHeader and the first half of readChunk: the reader's
\* state after a header.
Applied(r, h) ==
    LET s == Reopened(r)
    IN  CASE h.fmt = 0 ->
               [s EXCEPT !.timestamp = HeaderTime(h), !.delta = 0,
                         !.length = h.length, !.typeID = h.typeID,
                         !.streamID = h.streamID,
                         !.extMode = IF h.ext = <<>> THEN "unused" ELSE "time"]
          [] h.fmt = 1 ->
               [s EXCEPT !.delta = HeaderTime(h), !.length = h.length,
                         !.typeID = h.typeID,
                         !.extMode = IF h.ext = <<>> THEN "unused" ELSE "delta"]
          [] h.fmt = 2 ->
               [s EXCEPT !.delta = HeaderTime(h),
                         !.extMode = IF h.ext = <<>> THEN "unused" ELSE "delta"]
          [] h.fmt = 3 -> s

\* How much payload readChunk takes.  Nothing left to take is its panic.
Expected(r) == LET rest == r.length - r.got
               IN  IF rest > peerSize THEN peerSize ELSE rest

\* The second half of readChunk: the payload, and the timestamp of a message
\* that is complete.
Filled(r) ==
    LET got == r.got + Expected(r) IN
    IF got = r.length
    THEN [r EXCEPT !.got = got, !.completed = TRUE,
                   !.timestamp = (r.timestamp + r.delta) % TimeMod]
    ELSE [r EXCEPT !.got = got]

-----------------------------------------------------------------------------
Init ==
    /\ selfSize = DefaultChunkSize /\ peerSize = DefaultChunkSize /\ sizeReq = 0
    /\ writer = [c \in ChunkStreams |-> NewWriter]
    /\ queue = <<>> /\ wire = <<>>
    /\ reader = [c \in ChunkStreams |-> NewReader]
    /\ broken = FALSE
    /\ pipe = [c \in ChunkStreams |-> <<>>]
    /\ last = [c \in ChunkStreams |-> None]

\* The writer of c is nobody's: Wait would give it to a caller.
Idle(c) == \A i \in DOMAIN queue : queue[i] # c

\* ChunkStreamer.Write for a chunk stream that is not being written.
Load(c, m) ==
    /\ Idle(c)
    /\ writer' = [writer EXCEPT ![c] = Loaded(@, m)]
    /\ queue' = Append(queue, c)
    /\ pipe' = [pipe EXCEPT ![c] = Append(@, m)]

Write(c) ==
    /\ QuietSizeChange => sizeReq = 0
    /\ \E m \in MediaMessage : Load(c, m)
    /\ UNCHANGED <<selfSize, peerSize, sizeReq, wire, reader, broken, last>>

\* Stream.CreateStream with a chunk size: the writing side uses it at once.
ChangeSize ==
    /\ sizeReq = 0
    /\ QuietSizeChange => queue = <<>>
    /\ \E s \in ChunkSizes \ {selfSize} : selfSize' = s /\ sizeReq' = s
    /\ UNCHANGED <<peerSize, writer, queue, wire, reader, broken, pipe, last>>

\* Mutant: the peer is not told.
AnnounceSize_Silent ==
    /\ sizeReq # 0
    /\ sizeReq' = 0
    /\ UNCHANGED <<selfSize, peerSize, writer, queue, wire, reader, broken,
                   pipe, last>>

\* WriteSetChunkSize tells the peer.
AnnounceSize ==
    /\ sizeReq # 0
    /\ Load(Control, SetChunkSize(sizeReq))
    /\ sizeReq' = 0
    /\ UNCHANGED <<selfSize, peerSize, wire, reader, broken, last>>

\* The scheduler takes the next writer, writes a chunk, and puts the writer
\* back if something is left.
WriteChunk ==
    /\ queue # <<>>
    /\ Len(wire) < WireSize
    /\ LET c == Head(queue)
           w == Updated(writer[c])
           n == IF w.left > selfSize THEN selfSize ELSE w.left
       IN  /\ wire' = Append(wire,
                        [basic |-> EncodeBasicHeader(c),
                         header |-> EncodeHeader(NextFmt(writer[c]), w.header),
                         body |-> n, size |-> w.size])
           /\ writer' = [writer EXCEPT ![c] = [w EXCEPT !.left = @ - n]]
           /\ queue' = IF w.left = n THEN Tail(queue) ELSE Append(Tail(queue), c)
    /\ UNCHANGED <<selfSize, peerSize, sizeReq, reader, broken, pipe, last>>

\* The message a reader has completed; size is what its payload says.
Completed(r, size) ==
    [timestamp |-> r.timestamp, length |-> r.length, typeID |-> r.typeID,
     streamID |-> r.streamID, size |-> size]

\* readChunk, and the handling of the message if the chunk completes one:
\* SetChunkSize changes peerSize before the next chunk is read.  The rest of a
\* chunk may or may not have arrived when its basic header is read; after an
\* OverRead the reader takes some later bytes for the message header.
ReadChunk ==
    /\ wire # <<>> /\ ~broken
    /\ LET chunk == Head(wire)
           c == DecodeBasicHeader(chunk.basic)
           r == Applied(reader[c], chunk.header)
           done == Filled(r)
       IN  \/ /\ \/ OverRead(chunk.basic)
                 \/ WantsExt(reader[c], chunk.header) # (chunk.header.ext # <<>>)
                 \/ r.length <= r.got
                 \/ Expected(r) # chunk.body
              /\ broken' = TRUE
              /\ UNCHANGED <<peerSize, reader, pipe, last>>
           \/ /\ WantsExt(reader[c], chunk.header) = (chunk.header.ext # <<>>)
              /\ r.length > r.got /\ Expected(r) = chunk.body
              /\ reader' = [reader EXCEPT ![c] = done]
              /\ IF done.completed
                 THEN LET m == Completed(done, chunk.size) IN
                      /\ last' = [last EXCEPT ![c] = m]
                      /\ pipe' = [pipe EXCEPT ![c] = Tail(@)]
                      /\ peerSize' = IF m.typeID = SetChunkSizeType
                                     THEN m.size ELSE peerSize
                 ELSE UNCHANGED <<peerSize, pipe, last>>
              /\ UNCHANGED broken
    /\ wire' = Tail(wire)
    /\ UNCHANGED <<selfSize, sizeReq, writer, queue>>

Next ==
    \/ \E c \in Media : Write(c)
    \/ ChangeSize \/ AnnounceSize \/ WriteChunk \/ ReadChunk

Spec == Init /\ [][Next]_vars

-----------------------------------------------------------------------------
HeaderState == [timestamp : 0..TimeMod - 1, delta : 0..TimeMod - 1,
                length : Nat, typeID : Nat, streamID : Nat]

\* Timestamps and deltas are 32-bit unsigned numbers, the fmt of a header has
\* two bits, and both chunk sizes are always usable ones.
TypeOK ==
    /\ {selfSize, peerSize} \subseteq ChunkSizes \cup {DefaultChunkSize}
    /\ sizeReq \in ChunkSizes \cup {0}
    /\ \A c \in ChunkStreams :
         /\ writer[c].header \in HeaderState
         /\ writer[c].delta \in 0..TimeMod - 1 /\ writer[c].left \in 0..writer[c].length
         /\ reader[c].timestamp \in 0..TimeMod - 1
         /\ reader[c].delta \in 0..TimeMod - 1
         /\ reader[c].extMode \in {"unused", "time", "delta"}
         /\ reader[c].got \in 0..reader[c].length
    /\ \A i \in DOMAIN queue : queue[i] \in ChunkStreams
    /\ \A i \in DOMAIN wire : wire[i].header.fmt \in 0..3 /\ wire[i].body \in Nat
    /\ broken \in BOOLEAN

\* readChunk never meets its panic "invalid state" and never takes header bytes
\* for payload or payload for header: however the chunks of several streams
\* alternate and the chunk size changes, it always knows where a chunk ends.
Readable == ~broken

\* No part of a message of chunk stream c is under way.
Settled(c) ==
    Idle(c) /\ \A i \in DOMAIN wire : DecodeBasicHeader(wire[i].basic) # c

\* updateWriterHeader leaves out what it believes the peer to know; once all
\* of a message has arrived the reader does know exactly that, the delta of
\* the timestamps included, so that the next header may be a compressed one.
HeadersAgree ==
    \A c \in ChunkStreams :
       Settled(c) /\ reader[c].completed =>
          LET w == writer[c].header
              r == reader[c]
          IN  /\ w.timestamp = r.timestamp /\ w.delta = r.delta
              /\ w.length = r.length /\ w.typeID = r.typeID
              /\ w.streamID = r.streamID

\* CreateStream changes selfState.chunkSize and SetChunkSize changes the
\* peer's copy: the two differ only while the announcement is under way.
SizesAgree ==
    peerSize # selfSize => sizeReq # 0 \/ ~Settled(Control)

Pipe == INSTANCE ChunkPipe WITH Nothing <- None

\* Every message of a chunk stream is read as it was written, with its
\* timestamp, length, type and message stream, once and in order.
CodecImplementsPipe == Pipe!Spec
=============================================================================
