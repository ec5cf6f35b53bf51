-------------------------- MODULE ChunkCodec_proof --------------------------
(***************************************************************************)
(* What is proved of ChunkCodec: the basic header of every chunk stream ID *)
(* comes back, and for which of them nothing more is taken; the message    *)
(* header of every message whose timestamp does without the extended field *)
(* comes back; the types; and, for the use of a connection that PlainUse   *)
(* describes, that the reader always finds the boundaries of chunks, that  *)
(* headers and chunk sizes agree whenever no message is under way, and     *)
(* that every chunk stream is a pipe.                                      *)
(*                                                                         *)
(* The chunks in transit were written for a reader that does not exist     *)
(* yet: the one who has read all that lies before them.  The inductive     *)
(* invariant names that reader.  It says that there is a sequence g of     *)
(* sides, from the present one on, each of which reads the next chunk      *)
(* without losing its boundaries and is the one before the next, and that  *)
(* the last of them is in step with the writers.                           *)
(***************************************************************************)
EXTENDS ChunkCodec, TLAPS

-----------------------------------------------------------------------------
(* The three forms of a basic header are told apart by their first byte,   *)
(* because the IDs 0 and 1 are never written.  The decoder is given the    *)
(* header and whatever has arrived behind it.                              *)

Bytes == Seq(Nat)

\* What lies behind a header does not move its bytes.
LEMMA Behind ==
    ASSUME NEW s \in Bytes, NEW rest \in Bytes
    PROVE  /\ Len(s \o rest) = Len(s) + Len(rest)
           /\ \A i \in 1..Len(s) : (s \o rest)[i] = s[i]
BY DEF Bytes

\* Chunk stream IDs 2 to 63 are one byte, and one is taken.
LEMMA OneByte ==
    ASSUME NEW id \in Nat, 2 <= id, id <= 63, NEW rest \in Bytes
    PROVE  /\ EncodeBasicHeader(id) = <<id>>
           /\ DecodeBasicHeader(<<id>> \o rest) = id
           /\ BasicHeaderTakes(<<id>> \o rest) = 1
<1>1. EncodeBasicHeader(id) = <<id>>
    BY DEF EncodeBasicHeader
<1>2. <<id>> \in Bytes /\ Len(<<id>>) = 1 /\ <<id>>[1] = id
    BY DEF Bytes
<1>3. (<<id>> \o rest)[1] = id
    BY <1>2, Behind
<1> QED
    BY <1>1, <1>3 DEF DecodeBasicHeader, BasicHeaderTakes

\* Chunk stream IDs 64 to 319 are two bytes, from the second form's offset on,
\* and two are taken.
LEMMA TwoBytes ==
    ASSUME NEW id \in Nat, 64 <= id, id <= 319, NEW rest \in Bytes
    PROVE  /\ EncodeBasicHeader(id) = <<0, id - 64>>
           /\ DecodeBasicHeader(<<0, id - 64>> \o rest) = id
           /\ BasicHeaderTakes(<<0, id - 64>> \o rest) = 2
<1>1. EncodeBasicHeader(id) = <<0, id - 64>>
    BY DEF EncodeBasicHeader
<1> DEFINE s == <<0, id - 64>>
<1>2. s \in Bytes /\ Len(s) = 2 /\ s[1] = 0 /\ s[2] = id - 64
    BY DEF Bytes
<1> HIDE DEF s
<1>3. (s \o rest)[1] = 0 /\ (s \o rest)[2] = id - 64
  <2>1. \A i \in 1..Len(s) : (s \o rest)[i] = s[i]
    BY <1>2, Behind, Zenon
  <2>2. 1 \in 1..Len(s) /\ 2 \in 1..Len(s)
    BY <1>2
  <2> QED
    BY <1>2, <2>1, <2>2, Zenon
<1>4. DecodeBasicHeader(s \o rest) = id /\ BasicHeaderTakes(s \o rest) = 2
    BY <1>3 DEF DecodeBasicHeader, BasicHeaderTakes
<1> QED
    BY <1>1, <1>4 DEF s

\* The two bytes of an ID are its remainder and its quotient.
LEMMA DivMod ==
    ASSUME NEW n \in Nat
    PROVE  /\ 256 * (n \div 256) + (n % 256) = n
           /\ n \div 256 \in Nat /\ n % 256 \in Nat
OBVIOUS

\* Chunk stream IDs from 320 on are three bytes, the low one first, and as much is
\* taken as has arrived and cacheBuffer holds.
LEMMA ThreeBytes ==
    ASSUME NEW id \in Nat, 320 <= id, NEW rest \in Bytes
    PROVE  LET s == EncodeBasicHeader(id) IN
           /\ s \in Bytes /\ Len(s) = 3
           /\ DecodeBasicHeader(s \o rest) = id
           /\ BasicHeaderTakes(s \o rest) =
                IF 3 + Len(rest) < CacheSize THEN 3 + Len(rest) ELSE CacheSize
<1> DEFINE s == EncodeBasicHeader(id)
           n == id - 64
<1>1. n \in Nat
    OBVIOUS
<1>2. 256 * (n \div 256) + (n % 256) = n /\ n \div 256 \in Nat /\ n % 256 \in Nat
    BY <1>1, DivMod
<1>3. s = <<1, n % 256, n \div 256>>
    BY DEF EncodeBasicHeader
<1>4. /\ s \in Bytes /\ Len(s) = 3
      /\ s[1] = 1 /\ s[2] = n % 256 /\ s[3] = n \div 256
    BY <1>2, <1>3 DEF Bytes
<1> HIDE DEF s
<1>5. /\ Len(s \o rest) = 3 + Len(rest) /\ (s \o rest)[1] = 1
      /\ (s \o rest)[2] = n % 256 /\ (s \o rest)[3] = n \div 256
  <2>1. /\ Len(s \o rest) = Len(s) + Len(rest)
        /\ \A i \in 1..Len(s) : (s \o rest)[i] = s[i]
    BY <1>4, Behind, Zenon
  <2>2. 1 \in 1..Len(s) /\ 2 \in 1..Len(s) /\ 3 \in 1..Len(s)
    BY <1>4
  <2> QED
    BY <1>4, <2>1, <2>2, Zenon
<1>6. DecodeBasicHeader(s \o rest) = (n \div 256) * 256 + (n % 256) + 64
    BY <1>5 DEF DecodeBasicHeader
<1>7. DecodeBasicHeader(s \o rest) = id
    BY <1>1, <1>2, <1>6
<1>8. BasicHeaderTakes(s \o rest) =
        IF 3 + Len(rest) < CacheSize THEN 3 + Len(rest) ELSE CacheSize
    BY <1>5 DEF BasicHeaderTakes
<1> QED
    BY <1>4, <1>7, <1>8 DEF s

\* Whatever has arrived behind a basic header, decodeChunkBasicHeader finds the
\* chunk stream ID that encodeChunkBasicHeader was given; but it takes exactly
\* the header only for IDs below 320 or if nothing else has arrived, and else
\* all there is, up to the size of cacheBuffer.
THEOREM BasicHeaderRoundTrip ==
    ASSUME NEW id \in ChunkStreamID, NEW rest \in Bytes
    PROVE  LET basic == EncodeBasicHeader(id)
               taken == BasicHeaderTakes(basic \o rest)
           IN  /\ DecodeBasicHeader(basic \o rest) = id
               /\ taken = Len(basic) <=> id < 320 \/ rest = <<>>
               /\ 320 <= id => taken = IF Len(basic \o rest) < CacheSize
                                       THEN Len(basic \o rest) ELSE CacheSize
<1> DEFINE basic == EncodeBasicHeader(id)
           taken == BasicHeaderTakes(basic \o rest)
<1>1. id \in Nat /\ 2 <= id
    BY DEF ChunkStreamID
<1>2. CASE id <= 63
  <2>1. Len(<<id>>) = 1
    OBVIOUS
  <2>2. basic = <<id>> /\ DecodeBasicHeader(basic \o rest) = id /\ taken = 1
    BY <1>1, <1>2, OneByte
  <2> QED
    BY <1>1, <1>2, <2>1, <2>2
<1>3. CASE 64 <= id /\ id <= 319
  <2>1. Len(<<0, id - 64>>) = 2
    OBVIOUS
  <2>2. basic = <<0, id - 64>> /\ DecodeBasicHeader(basic \o rest) = id /\ taken = 2
    BY <1>1, <1>3, TwoBytes
  <2> QED
    BY <1>1, <1>3, <2>1, <2>2
<1>4. CASE 320 <= id
  <2>1. /\ basic \in Bytes /\ Len(basic) = 3 /\ DecodeBasicHeader(basic \o rest) = id
        /\ taken = IF 3 + Len(rest) < CacheSize THEN 3 + Len(rest) ELSE CacheSize
    BY <1>1, <1>4, ThreeBytes
  <2>2. Len(basic \o rest) = 3 + Len(rest)
    BY <2>1, Behind
  <2>3. Len(rest) \in Nat /\ (Len(rest) = 0 <=> rest = <<>>)
    BY DEF Bytes
  <2>4. CacheSize \in Nat /\ CacheSize > 3
    BY DEF CacheSize
  <2>5. taken = 3 <=> rest = <<>>
    BY <2>1, <2>3, <2>4
  <2> HIDE DEF basic, taken
  <2> QED
    BY <1>1, <1>4, <2>1, <2>2, <2>5 DEF basic, taken
<1> QED BY <1>1, <1>2, <1>3, <1>4

\* A header that has arrived alone, as the chunks of the model carry it.
LEMMA HeaderAlone ==
    ASSUME NEW id \in ChunkStreamID
    PROVE  /\ DecodeBasicHeader(EncodeBasicHeader(id)) = id
           /\ id < 320 => ~OverRead(EncodeBasicHeader(id))
<1> DEFINE basic == EncodeBasicHeader(id)
<1>1. <<>> \in Bytes /\ <<0>> \in Bytes
    BY DEF Bytes
<1>2. basic \in Bytes
  <2>1. id \in Nat /\ 2 <= id
    BY DEF ChunkStreamID
  <2>2. CASE id <= 63
    BY <2>1, <2>2 DEF EncodeBasicHeader, Bytes
  <2>3. CASE 64 <= id /\ id <= 319
    BY <2>1, <2>3 DEF EncodeBasicHeader, Bytes
  <2>4. CASE 320 <= id
    BY <1>1, <2>1, <2>4, ThreeBytes
  <2> QED
    BY <2>1, <2>2, <2>3, <2>4
<1>3. DecodeBasicHeader(basic \o <<>>) = id
    BY <1>1, BasicHeaderRoundTrip
<1>4. id < 320 => BasicHeaderTakes(basic \o <<0>>) = Len(basic)
    BY <1>1, BasicHeaderRoundTrip
<1> HIDE DEF basic
<1>5. basic \o <<>> = basic /\ basic \o <<0>> = Append(basic, 0) /\ Len(basic) \in Nat
    BY <1>2 DEF Bytes
<1>6. id < 320 => ~OverRead(basic)
  <2>1. id < 320 => BasicHeaderTakes(Append(basic, 0)) = Len(basic)
    BY <1>4, <1>5
  <2>2. ~(Len(basic) > Len(basic))
    BY <1>5
  <2> QED
    BY <2>1, <2>2, Zenon DEF OverRead
<1> QED
    BY <1>3, <1>5, <1>6 DEF basic

-----------------------------------------------------------------------------
(* Compressed headers *)

WriterState ==
    [timestamp : 0..TimeMod - 1, delta : 0..TimeMod - 1, length : Nat,
     typeID : Nat, streamID : Nat, newChunk : BOOLEAN, left : Nat, size : Nat,
     header : HeaderState]

ReaderState ==
    [timestamp : 0..TimeMod - 1, delta : 0..TimeMod - 1, length : Nat,
     typeID : Nat, streamID : Nat, extMode : {"unused", "time", "delta"},
     got : Nat, completed : BOOLEAN]

\* What HeadersAgree says of one chunk stream.
Agree(w, r) ==
    /\ w.header.timestamp = r.timestamp /\ w.header.delta = r.delta
    /\ w.header.length = r.length /\ w.header.typeID = r.typeID
    /\ w.header.streamID = r.streamID

\* A message ready for its first chunk, that no header field cuts off.
Sendable(w) ==
    /\ w.newChunk /\ w.length < LengthMod /\ w.timestamp < TimeExt

\* The header of that first chunk.
FirstHeader(w) == EncodeHeader(NextFmt(w), Updated(w).header)

\* The delta a message is sent with stays in the range of a timestamp.
LEMMA DeltaInRange ==
    ASSUME NEW w \in WriterState, w.newChunk
    PROVE  /\ NextDelta(w) \in 0..TimeMod - 1
           /\ NextDelta(w) <= w.timestamp
           /\ ~IsReversed(w) => w.header.timestamp + NextDelta(w) = w.timestamp
           /\ IsReversed(w) => NextDelta(w) = 0
BY WidthsAssumption DEF WriterState, HeaderState, NextDelta, IsReversed, IsFresh

\* The four forms of the header, one by one.
LEMMA HeaderForms ==
    ASSUME NEW w \in WriterState, Sendable(w)
    PROVE  /\ NextFmt(w) = 0 => FirstHeader(w) =
                [fmt |-> 0, time |-> w.timestamp, ext |-> <<>>,
                 length |-> w.length, typeID |-> w.typeID, streamID |-> w.streamID]
           /\ NextFmt(w) = 1 => FirstHeader(w) =
                [fmt |-> 1, time |-> NextDelta(w), ext |-> <<>>,
                 length |-> w.length, typeID |-> w.typeID, streamID |-> 0]
           /\ NextFmt(w) = 2 => FirstHeader(w) =
                [fmt |-> 2, time |-> NextDelta(w), ext |-> <<>>,
                 length |-> 0, typeID |-> 0, streamID |-> 0]
           /\ NextFmt(w) = 3 => FirstHeader(w) =
                [fmt |-> 3, time |-> 0, ext |-> <<>>,
                 length |-> 0, typeID |-> 0, streamID |-> 0]
<1>1. NextDelta(w) \in Nat /\ NextDelta(w) < TimeExt
    BY DeltaInRange, WidthsAssumption DEF Sendable, WriterState
<1>2. w.timestamp \in Nat /\ w.length \in Nat /\ w.length % LengthMod = w.length
    BY WidthsAssumption DEF WriterState, Sendable
<1>3. Updated(w).header =
        [timestamp |-> w.timestamp, delta |-> NextDelta(w), length |-> w.length,
         typeID |-> w.typeID, streamID |-> w.streamID]
    BY DEF Updated, WriterState
<1>4. ~(w.timestamp >= TimeExt) /\ ~(NextDelta(w) >= TimeExt) /\ ~(0 >= TimeExt)
    BY <1>1, <1>2, WidthsAssumption DEF Sendable
<1>5. CASE NextFmt(w) = 0
    BY <1>2, <1>3, <1>4, <1>5 DEF FirstHeader, EncodeHeader
<1>6. CASE NextFmt(w) = 1
    BY <1>2, <1>3, <1>4, <1>6 DEF FirstHeader, EncodeHeader
<1>7. CASE NextFmt(w) = 2
    BY <1>3, <1>4, <1>7 DEF FirstHeader, EncodeHeader
<1>8. CASE NextFmt(w) = 3
    BY <1>3, <1>4, <1>8 DEF FirstHeader, EncodeHeader
<1>9. NextFmt(w) \in 0..3
    BY DEF NextFmt
<1> QED BY <1>5, <1>6, <1>7, <1>8, <1>9

\* What the reader makes of each form.
LEMMA AppliedForms ==
    ASSUME NEW w \in WriterState, NEW r \in ReaderState, Sendable(w)
    PROVE  LET a == Applied(r, FirstHeader(w)) IN
           /\ NextFmt(w) = 0 =>
                /\ a.timestamp = w.timestamp /\ a.delta = 0
                /\ a.length = w.length /\ a.typeID = w.typeID
                /\ a.streamID = w.streamID
           /\ NextFmt(w) = 1 =>
                /\ a.timestamp = r.timestamp /\ a.delta = NextDelta(w)
                /\ a.length = w.length /\ a.typeID = w.typeID
                /\ a.streamID = r.streamID
           /\ NextFmt(w) = 2 =>
                /\ a.timestamp = r.timestamp /\ a.delta = NextDelta(w)
                /\ a.length = r.length /\ a.typeID = r.typeID
                /\ a.streamID = r.streamID
           /\ NextFmt(w) = 3 =>
                /\ a.timestamp = r.timestamp /\ a.delta = r.delta
                /\ a.length = r.length /\ a.typeID = r.typeID
                /\ a.streamID = r.streamID
<1>1. CASE NextFmt(w) = 0
    BY <1>1, HeaderForms DEF Applied, Reopened, HeaderTime, ReaderState
<1>2. CASE NextFmt(w) = 1
    BY <1>2, HeaderForms DEF Applied, Reopened, HeaderTime, ReaderState
<1>3. CASE NextFmt(w) = 2
    BY <1>3, HeaderForms DEF Applied, Reopened, HeaderTime, ReaderState
<1>4. CASE NextFmt(w) = 3
    BY <1>4, HeaderForms DEF Applied, Reopened, HeaderTime, ReaderState
<1> QED BY <1>1, <1>2, <1>3, <1>4 DEF NextFmt

\* What updateWriterHeader leaves out and encodeChunkMessageHeader writes is
\* what decodeChunkMessageHeader and readChunk put together again: if reader
\* and writer agree on a chunk stream, or the writer takes them not to, the
\* first chunk of the next message gives the reader the message's length, type,
\* message stream and, with the delta it adds at the end, its timestamp.  They
\* agree on the delta too as long as the message stream does not change.
THEOREM HeaderRoundTrip ==
    ASSUME NEW w \in WriterState, NEW r \in ReaderState, Sendable(w),
           NextFmt(w) = 0 \/ Agree(w, r)
    PROVE  LET a == Applied(r, FirstHeader(w)) IN
           /\ a.length = w.length /\ a.typeID = w.typeID
           /\ a.streamID = w.streamID
           /\ a.timestamp + a.delta = w.timestamp
           /\ w.header.streamID = w.streamID => a.delta = NextDelta(w)
<1>1. w.timestamp \in Nat
    BY WidthsAssumption DEF WriterState
<1>2. CASE NextFmt(w) = 0
    <2>1. w.header.streamID = w.streamID => IsReversed(w)
        BY <1>2 DEF NextFmt
    <2> QED BY <1>1, <1>2, <2>1, AppliedForms, DeltaInRange DEF Sendable
<1>3. CASE NextFmt(w) # 0
    <2>1. /\ ~IsReversed(w) /\ w.header.streamID = w.streamID
          /\ NextFmt(w) # 1 => w.header.length = w.length /\ w.header.typeID = w.typeID
          /\ NextFmt(w) = 3 => NextDelta(w) = w.header.delta
        BY <1>3 DEF NextFmt
    <2>2. w.header.timestamp + NextDelta(w) = w.timestamp
        BY <2>1, DeltaInRange DEF Sendable
    <2>3. Agree(w, r)
        BY <1>3
    <2>4. NextFmt(w) \in {1, 2, 3}
        BY <1>3 DEF NextFmt
    <2> QED BY <2>1, <2>2, <2>3, <2>4, AppliedForms DEF Agree
<1> QED BY <1>2, <1>3

-----------------------------------------------------------------------------
(* Types *)

Time == 0..TimeMod - 1
Sizes == ChunkSizes \cup {DefaultChunkSize}

Header == [fmt : 0..3, time : Time, ext : {<<>>} \cup {<<t>> : t \in Time},
           length : Nat, typeID : Nat, streamID : Nat]

Chunk == [basic : {EncodeBasicHeader(c) : c \in ChunkStreams}, header : Header,
          body : Nat, size : Nat]

\* The chunk stream of a chunk.
StreamOf(chunk) == DecodeBasicHeader(chunk.basic)

\* No chunk stream but the control one can announce a chunk size, and what that
\* one announces is a size that users ask for.
Announces ==
    /\ \A c \in Media : /\ writer[c].typeID # SetChunkSizeType
                        /\ writer[c].header.typeID # SetChunkSizeType
                        /\ reader[c].typeID # SetChunkSizeType
    /\ \A i \in DOMAIN queue : queue[i] = Control => writer[Control].size \in ChunkSizes
    /\ \A i \in DOMAIN wire :
         IF StreamOf(wire[i]) = Control THEN wire[i].size \in ChunkSizes
         ELSE wire[i].header.typeID # SetChunkSizeType

Shape ==
    /\ selfSize \in Sizes /\ peerSize \in Sizes /\ sizeReq \in ChunkSizes \cup {0}
    /\ writer \in [ChunkStreams -> WriterState]
    /\ \A c \in ChunkStreams : writer[c].left <= writer[c].length
    /\ reader \in [ChunkStreams -> ReaderState]
    /\ \A c \in ChunkStreams : reader[c].got <= reader[c].length
    /\ queue \in Seq(ChunkStreams) /\ wire \in Seq(Chunk)
    /\ broken \in BOOLEAN

-----------------------------------------------------------------------------
(* The reading side, as it will be when more of the transport is read *)

\* The use of a connection that the protocol's compressed headers can express in
\* this code: chunk stream IDs do without the basic header of three bytes, nothing
\* is written while the chunk size changes, timestamps do without the extended
\* field, no message is empty or longer than a header can say, and a chunk stream
\* carries the messages of one message stream.
PlainUse ==
    /\ \A c \in Media : c < 320
    /\ QuietSizeChange
    /\ Timestamps \subseteq 0..TimeExt - 1
    /\ Lengths \subseteq 1..LengthMod - 1 /\ LengthMod > 1
    /\ \A s, t \in StreamIDs : s = t

Side == [peer : Sizes, reader : [ChunkStreams -> ReaderState],
         pipe : [ChunkStreams -> Seq(Message)]]

\* Expected and Filled for a side whose chunk size is p.
Takes(r, p) == IF r.length - r.got > p THEN p ELSE r.length - r.got

FilledWith(r, p) ==
    IF r.got + Takes(r, p) = r.length
    THEN [r EXCEPT !.got = r.length, !.completed = TRUE,
                   !.timestamp = (r.timestamp + r.delta) % TimeMod]
    ELSE [r EXCEPT !.got = r.got + Takes(r, p)]

\* Reading the chunk takes the side from v to u, finds the chunk's boundaries,
\* and if it completes a message, then the first one in the pipe.
Reads(v, chunk, u) ==
    LET c == StreamOf(chunk)
        a == Applied(v.reader[c], chunk.header)
        done == FilledWith(a, v.peer)
    IN  /\ WantsExt(v.reader[c], chunk.header) = (chunk.header.ext # <<>>)
        /\ a.length > a.got /\ Takes(a, v.peer) = chunk.body
        /\ u.reader = [v.reader EXCEPT ![c] = done]
        /\ IF done.completed
           THEN /\ v.pipe[c] # <<>> /\ Head(v.pipe[c]) = Completed(done, chunk.size)
                /\ u.pipe = [v.pipe EXCEPT ![c] = Tail(@)]
                /\ u.peer = IF done.typeID = SetChunkSizeType THEN chunk.size ELSE v.peer
           ELSE u.pipe = v.pipe /\ u.peer = v.peer

Now == [peer |-> peerSize, reader |-> reader, pipe |-> pipe]

\* Chunks of other streams leave the reader of c alone, and all but those of the
\* control stream leave the chunk size alone.
Untouched(g, c, i, j) ==
    (\A k \in i + 1..j : StreamOf(wire[k]) # c) =>
       /\ g[i].reader[c] = g[j].reader[c]
       /\ c = Control => g[i].peer = g[j].peer

\* g[i] is the reading side after the first i chunks in transit.
Ahead(g) ==
    /\ g \in [0..Len(wire) -> Side]
    /\ g[0] = Now
    /\ \A i \in 1..Len(wire) : Reads(g[i - 1], wire[i], g[i])
    /\ \A c \in ChunkStreams, i, j \in 0..Len(wire) : i <= j => Untouched(g, c, i, j)

-----------------------------------------------------------------------------
(* The two sides in step *)

StreamIDsOf(c) == IF c = Control THEN {0} ELSE StreamIDs

MessageOf(w) ==
    [timestamp |-> w.timestamp, length |-> w.length, typeID |-> w.typeID,
     streamID |-> w.streamID, size |-> w.size]

\* Reader and writer of c when neither is in the middle of a message: nothing
\* has been written yet, or the two agree.
Between(c, w, r) ==
    \/ w.header = NewWriter.header /\ r = NewReader
    \/ /\ Agree(w, r) /\ r.completed /\ r.extMode = "unused"
       /\ w.header.timestamp < TimeExt /\ w.header.streamID \in StreamIDsOf(c)

\* A chunk of the writer's message has been written, but not the last one.
Midway(w, r) ==
    /\ ~w.newChunk /\ ~r.completed /\ r.extMode = "unused"
    /\ r.got + w.left = w.length /\ 0 < w.left /\ 0 < r.got
    /\ w.header = [timestamp |-> w.timestamp, delta |-> w.delta, length |-> w.length,
                   typeID |-> w.typeID, streamID |-> w.streamID]
    /\ r.timestamp + r.delta = w.timestamp /\ r.delta = w.delta
    /\ r.length = w.length /\ r.typeID = w.typeID /\ r.streamID = w.streamID

\* The writer of a chunk stream and the reader who has read all that was sent.
InStep(c, w, r) ==
    \/ w.newChunk /\ w.left = w.length /\ Between(c, w, r)
    \/ Midway(w, r)

\* A message is written by its stream, whole.
MayWrite(c, m) == IF c = Control THEN m \in {SetChunkSize(s) : s \in ChunkSizes}
                  ELSE m \in MediaMessage

StreamInStep(c, v) ==
    IF Idle(c) THEN v.pipe[c] = <<>> /\ Between(c, writer[c], v.reader[c])
    ELSE /\ v.pipe[c] = <<MessageOf(writer[c])>> /\ MayWrite(c, MessageOf(writer[c]))
         /\ InStep(c, writer[c], v.reader[c])

\* While the reading side does not know the chunk size nothing is written but
\* the announcement.
SizeInStep(v) ==
    /\ sizeReq # 0 => queue = <<>> /\ sizeReq = selfSize
    /\ \A i \in DOMAIN queue : queue[i] = Control =>
         i = 1 /\ writer[Control].size = selfSize
    /\ v.peer # selfSize => sizeReq # 0 \/ (queue # <<>> /\ queue[1] = Control)

Once == \A i, j \in DOMAIN queue : queue[i] = queue[j] => i = j

SidesInStep(v) == SizeInStep(v) /\ \A c \in ChunkStreams : StreamInStep(c, v)


-----------------------------------------------------------------------------
(* The types of what the operators return *)

\* What WidthsAssumption says, as the inequalities the proofs need.
LEMMA Widths ==
    /\ TimeMod \in Nat /\ TimeExt \in Nat /\ 0 < TimeExt /\ TimeExt < TimeMod
    /\ LengthMod \in Nat /\ 0 < LengthMod
    /\ \A t : t \in Time <=> t \in Int /\ 0 <= t /\ t < TimeMod
BY WidthsAssumption DEF Time

\* The basic header of a chunk names its chunk stream.
LEMMA StreamKnown ==
    /\ \A c \in ChunkStreams : DecodeBasicHeader(EncodeBasicHeader(c)) = c
    /\ \A chunk \in Chunk : StreamOf(chunk) \in ChunkStreams
<1>1. \A c \in ChunkStreams : c \in ChunkStreamID
  <2>1. Control \in ChunkStreamID
    BY DEF Control, ChunkStreamID
  <2> QED
    BY <2>1, MediaAssumption, Zenon DEF ChunkStreams
<1>2. \A c \in ChunkStreams : DecodeBasicHeader(EncodeBasicHeader(c)) = c
  BY <1>1, HeaderAlone
<1>3. ASSUME NEW chunk \in Chunk PROVE StreamOf(chunk) \in ChunkStreams
  <2>1. PICK c \in ChunkStreams : chunk.basic = EncodeBasicHeader(c)
    BY DEF Chunk
  <2> QED
    BY <1>2, <2>1 DEF StreamOf
<1> QED
  BY <1>2, <1>3

\* What a message may say; only the one of WriteSetChunkSize announces a size.
LEMMA MessageTypes ==
    ASSUME NEW m \in Message
    PROVE  /\ m.timestamp \in Time /\ m.length \in Nat /\ m.typeID \in Nat
           /\ m.streamID \in Nat /\ m.size \in Nat
           /\ m \in MediaMessage => m.typeID # SetChunkSizeType
<1>1. CASE m \in MediaMessage
  <2>1. /\ m.timestamp \in Timestamps /\ m.length \in Lengths /\ m.typeID \in TypeIDs
        /\ m.streamID \in StreamIDs /\ m.size = 0
    BY <1>1 DEF MediaMessage
  <2>2. m.timestamp \in Time /\ m.length \in Nat
    BY <2>1, WidthsAssumption, Zenon DEF Time
  <2>3. m.typeID \in Nat /\ m.typeID # SetChunkSizeType /\ m.streamID \in Nat
    BY <2>1, TypesAssumption, Zenon
  <2> QED
    BY <2>1, <2>2, <2>3
<1>2. CASE m \in {SetChunkSize(s) : s \in ChunkSizes}
  <2>1. PICK s \in ChunkSizes : m = SetChunkSize(s)
    BY <1>2
  <2>2. m.typeID = SetChunkSizeType /\ SetChunkSizeType \in Nat /\ 0 \in Time /\ s \in Nat
    BY <2>1, Widths, SizesAssumption DEF SetChunkSize, SetChunkSizeType
  <2>3. m \notin MediaMessage
    BY <2>2, TypesAssumption DEF MediaMessage
  <2> QED
    BY <2>1, <2>2, <2>3 DEF SetChunkSize
<1> QED
  BY <1>1, <1>2 DEF Message

\* A writer takes on the message it is loaded with.
LEMMA LoadedType ==
    ASSUME NEW w \in WriterState, NEW m \in Message
    PROVE  /\ Loaded(w, m) \in WriterState
           /\ Loaded(w, m).left = m.length /\ Loaded(w, m).newChunk
           /\ Loaded(w, m).timestamp = m.timestamp /\ Loaded(w, m).length = m.length
           /\ Loaded(w, m).typeID = m.typeID /\ Loaded(w, m).streamID = m.streamID
           /\ Loaded(w, m).size = m.size /\ Loaded(w, m).header = w.header
BY MessageTypes DEF Loaded, WriterState, Time

\* updateWriterHeader records the message in the header and leaves the rest alone.
LEMMA UpdatedType ==
    ASSUME NEW w \in WriterState
    PROVE  /\ NextDelta(w) \in Time /\ NextFmt(w) \in 0..3
           /\ Updated(w) \in WriterState
           /\ Updated(w).timestamp = w.timestamp /\ Updated(w).length = w.length
           /\ Updated(w).typeID = w.typeID /\ Updated(w).streamID = w.streamID
           /\ Updated(w).left = w.left /\ Updated(w).size = w.size
           /\ ~Updated(w).newChunk /\ Updated(w).delta = NextDelta(w)
           /\ Updated(w).header =
                [timestamp |-> w.timestamp, delta |-> NextDelta(w),
                 length |-> w.length, typeID |-> w.typeID, streamID |-> w.streamID]
<1>1. NextDelta(w) \in Time
  <2>1. CASE IsFresh(w) /\ ~IsReversed(w)
    BY <2>1, Widths DEF NextDelta, IsReversed, WriterState, HeaderState, Time
  <2>2. CASE IsFresh(w) /\ IsReversed(w)
    BY <2>2, Widths DEF NextDelta
  <2>3. CASE ~IsFresh(w)
    BY <2>3 DEF NextDelta, WriterState, Time
  <2> QED
    BY <2>1, <2>2, <2>3
<1>2. NextFmt(w) \in 0..3
  BY DEF NextFmt
<1> QED
  BY <1>1, <1>2 DEF Updated, WriterState, HeaderState, Time

\* encodeChunkMessageHeader, whose type is the message's or left out.
LEMMA EncodedType ==
    ASSUME NEW fmt \in 0..3, NEW h \in HeaderState
    PROVE  /\ EncodeHeader(fmt, h) \in Header
           /\ EncodeHeader(fmt, h).typeID \in {0, h.typeID}
<1> DEFINE time == CASE fmt = 0 -> h.timestamp
                     [] fmt \in {1, 2} -> h.delta
                     [] fmt = 3 -> 0
<1>1. time \in Time
  BY Widths DEF HeaderState, Time
<1>2. h.length % LengthMod \in Nat
  BY Widths DEF HeaderState
<1>3. TimeExt \in Time /\ h.typeID \in Nat /\ h.streamID \in Nat
  BY Widths DEF HeaderState
<1>4. EncodeHeader(fmt, h) =
        [fmt |-> fmt,
         time |-> IF time >= TimeExt THEN TimeExt ELSE time,
         ext |-> IF time >= TimeExt THEN <<time>> ELSE <<>>,
         length |-> IF fmt <= 1 THEN h.length % LengthMod ELSE 0,
         typeID |-> IF fmt <= 1 THEN h.typeID ELSE 0,
         streamID |-> IF fmt = 0 THEN h.streamID ELSE 0]
  BY DEF EncodeHeader
<1> HIDE DEF time
<1> QED
  BY <1>1, <1>2, <1>3, <1>4 DEF Header

\* decodeChunkMessageHeader opens the message and invents no type.
LEMMA AppliedType ==
    ASSUME NEW r \in ReaderState, NEW h \in Header
    PROVE  /\ Applied(r, h) \in ReaderState
           /\ Applied(r, h).typeID \in {r.typeID, h.typeID}
           /\ ~Applied(r, h).completed
<1>1. HeaderTime(h) \in Time
  <2>1. h.time \in Time /\ (h.ext = <<>> \/ \E t \in Time : h.ext = <<t>>)
    BY DEF Header
  <2>2. ASSUME NEW t \in Time, h.ext = <<t>> PROVE HeaderTime(h) \in Time
    BY <2>2 DEF HeaderTime
  <2> QED
    BY <2>1, <2>2 DEF HeaderTime
<1>2. /\ Reopened(r) \in ReaderState /\ ~Reopened(r).completed
      /\ Reopened(r).typeID = r.typeID
  BY DEF Reopened, ReaderState
<1>3. h.fmt \in 0..3 /\ h.length \in Nat /\ h.typeID \in Nat /\ h.streamID \in Nat
      /\ 0 \in Time
  BY Widths DEF Header
<1> DEFINE s == Reopened(r)
<1> HIDE DEF s
<1>4. s \in ReaderState /\ ~s.completed /\ s.typeID = r.typeID
  BY <1>2 DEF s
<1>5. CASE h.fmt = 0
  <2>1. Applied(r, h) =
          [s EXCEPT !.timestamp = HeaderTime(h), !.delta = 0, !.length = h.length,
                    !.typeID = h.typeID, !.streamID = h.streamID,
                    !.extMode = IF h.ext = <<>> THEN "unused" ELSE "time"]
    BY <1>5 DEF Applied, s
  <2>2. Applied(r, h) =
          [timestamp |-> HeaderTime(h), delta |-> 0, length |-> h.length,
           typeID |-> h.typeID, streamID |-> h.streamID,
           extMode |-> IF h.ext = <<>> THEN "unused" ELSE "time",
           got |-> s.got, completed |-> s.completed]
    BY <1>4, <2>1 DEF ReaderState
  <2> QED
    BY <1>1, <1>3, <1>4, <2>2 DEF ReaderState, Time
<1>6. CASE h.fmt = 1
  <2>1. Applied(r, h) =
          [s EXCEPT !.delta = HeaderTime(h), !.length = h.length, !.typeID = h.typeID,
                    !.extMode = IF h.ext = <<>> THEN "unused" ELSE "delta"]
    BY <1>6 DEF Applied, s
  <2> QED
    BY <1>1, <1>3, <1>4, <2>1 DEF ReaderState, Time
<1>7. CASE h.fmt = 2
  <2>1. Applied(r, h) =
          [s EXCEPT !.delta = HeaderTime(h),
                    !.extMode = IF h.ext = <<>> THEN "unused" ELSE "delta"]
    BY <1>7 DEF Applied, s
  <2> QED
    BY <1>1, <1>3, <1>4, <2>1 DEF ReaderState, Time
<1>8. CASE h.fmt = 3
  BY <1>4, <1>8 DEF Applied, s
<1> QED
  BY <1>3, <1>5, <1>6, <1>7, <1>8

\* What is taken of a payload fits into the message, and only a whole message
\* is complete.
LEMMA FilledType ==
    ASSUME NEW r \in ReaderState, ~r.completed, r.got < r.length,
           NEW p \in Nat \ {0}
    PROVE  /\ FilledWith(r, p) \in ReaderState
           /\ FilledWith(r, p).got <= FilledWith(r, p).length
           /\ 0 < Takes(r, p) /\ Takes(r, p) \in Nat
           /\ r.got + Takes(r, p) = r.length =>
                FilledWith(r, p) =
                  [r EXCEPT !.got = r.length, !.completed = TRUE,
                            !.timestamp = (r.timestamp + r.delta) % TimeMod]
           /\ r.got + Takes(r, p) # r.length =>
                FilledWith(r, p) = [r EXCEPT !.got = r.got + Takes(r, p)]
           /\ FilledWith(r, p).completed <=> r.got + Takes(r, p) = r.length
           /\ FilledWith(r, p).typeID = r.typeID
<1>1. /\ r.got \in Nat /\ r.length \in Nat /\ Takes(r, p) \in Nat /\ 0 < Takes(r, p)
      /\ r.got + Takes(r, p) <= r.length
  BY DEF Takes, ReaderState
<1>2. (r.timestamp + r.delta) % TimeMod \in Time
  BY Widths DEF ReaderState, Time
<1>3. CASE r.got + Takes(r, p) = r.length
  <2>1. FilledWith(r, p) =
          [r EXCEPT !.got = r.length, !.completed = TRUE,
                    !.timestamp = (r.timestamp + r.delta) % TimeMod]
    BY <1>3 DEF FilledWith
  <2>2. FilledWith(r, p) =
          [timestamp |-> (r.timestamp + r.delta) % TimeMod, delta |-> r.delta,
           length |-> r.length, typeID |-> r.typeID, streamID |-> r.streamID,
           extMode |-> r.extMode, got |-> r.length, completed |-> TRUE]
    BY <2>1 DEF ReaderState
  <2>3. FilledWith(r, p) \in ReaderState
    BY <1>1, <1>2, <2>2 DEF ReaderState, Time
  <2> QED
    BY <1>1, <1>3, <2>1, <2>2, <2>3
<1>4. CASE r.got + Takes(r, p) # r.length
  <2>1. FilledWith(r, p) = [r EXCEPT !.got = r.got + Takes(r, p)]
    BY <1>4 DEF FilledWith
  <2> QED
    BY <1>1, <1>4, <2>1 DEF ReaderState
<1> QED
  BY <1>3, <1>4

\* Expected and Filled are those of a side with the chunk size peerSize.
LEMMA SameFilling ==
    ASSUME NEW r
    PROVE  Expected(r) = Takes(r, peerSize) /\ Filled(r) = FilledWith(r, peerSize)
<1>1. Expected(r) = Takes(r, peerSize)
  BY DEF Expected, Takes
<1> QED
  BY <1>1 DEF Filled, FilledWith

-----------------------------------------------------------------------------
(* Type correctness: every variable keeps its type, however the connection is *)
(* used.  Only a SetChunkSize message changes peerSize, so that Announces is   *)
(* needed to know that it stays a size somebody asked for.                     *)

TInv == Shape /\ Announces

\* A chunk size is never 0: readChunk takes something from every chunk.
LEMMA SizesPositive ==
    /\ \A s \in Sizes : s \in Nat \ {0}
    /\ ChunkSizes \subseteq Sizes
    /\ 0 \notin ChunkSizes
BY SizesAssumption DEF Sizes

\* The control chunk stream is none that users write audio, video or data to.
LEMMA ControlApart == Control \in ChunkStreams /\ Control \notin Media
<1>1. Control \notin Media
  BY MediaAssumption, Zenon
<1> QED
  BY <1>1, Zenon DEF ChunkStreams

\* Both sides start with states of their types.
LEMMA InitTypes == Init => TInv
<1> SUFFICES ASSUME Init PROVE TInv
  OBVIOUS
<1>1. NewWriter \in WriterState /\ NewWriter.left <= NewWriter.length
  BY Widths DEF NewWriter, WriterState, HeaderState
<1>2. NewReader \in ReaderState /\ NewReader.got <= NewReader.length
  BY Widths DEF NewReader, ReaderState
<1>3. /\ NewWriter.typeID # SetChunkSizeType /\ NewReader.typeID # SetChunkSizeType
      /\ NewWriter.header.typeID # SetChunkSizeType
  BY DEF NewWriter, NewReader, SetChunkSizeType
<1>4. writer = [c \in ChunkStreams |-> NewWriter] /\ reader = [c \in ChunkStreams |-> NewReader]
  BY DEF Init
<1>5. queue = <<>> /\ wire = <<>>
  BY DEF Init
<1>6. /\ selfSize \in Sizes /\ peerSize \in Sizes /\ sizeReq \in ChunkSizes \cup {0}
      /\ broken \in BOOLEAN
  BY DEF Init, Sizes
<1> HIDE DEF NewWriter, NewReader
<1>7. Shape
  <2>1. queue \in Seq(ChunkStreams) /\ wire \in Seq(Chunk)
    BY <1>5
  <2>2. /\ writer \in [ChunkStreams -> WriterState] /\ reader \in [ChunkStreams -> ReaderState]
        /\ \A c \in ChunkStreams : writer[c].left <= writer[c].length
        /\ \A c \in ChunkStreams : reader[c].got <= reader[c].length
    BY <1>1, <1>2, <1>4
  <2> QED
    BY <1>6, <2>1, <2>2 DEF Shape
<1>8. Announces
  <2>1. DOMAIN queue = {} /\ DOMAIN wire = {}
    BY <1>5
  <2>2. \A c \in Media : c \in ChunkStreams
    BY DEF ChunkStreams
  <2> QED
    BY <1>3, <1>4, <2>1, <2>2 DEF Announces
<1> QED
  BY <1>7, <1>8 DEF TInv

\* A sequence that a chunk stream is appended to.
LEMMA AppendPlaces ==
    ASSUME NEW S, NEW q \in Seq(S), NEW x \in S
    PROVE  /\ Append(q, x) \in Seq(S) /\ Len(Append(q, x)) = Len(q) + 1
           /\ Len(q) \in Nat /\ DOMAIN q = 1..Len(q)
           /\ DOMAIN Append(q, x) = 1..Len(q) + 1
           /\ \A i \in 1..Len(q) : Append(q, x)[i] = q[i]
           /\ Append(q, x)[Len(q) + 1] = x
           /\ q # <<>> <=> Len(q) > 0
OBVIOUS

\* Where the elements of a sequence go when its head is taken.
LEMMA TailPlaces ==
    ASSUME NEW S, NEW q \in Seq(S), q # <<>>
    PROVE  /\ Tail(q) \in Seq(S) /\ Len(Tail(q)) = Len(q) - 1
           /\ Len(q) \in Nat \ {0} /\ DOMAIN q = 1..Len(q)
           /\ DOMAIN Tail(q) = 1..Len(q) - 1
           /\ \A i \in 1..Len(q) - 1 : Tail(q)[i] = q[i + 1]
           /\ Head(q) = q[1] /\ Head(q) \in S
OBVIOUS

\* A message goes into a writer that is nobody's.
LEMMA LoadTypes ==
    ASSUME TInv, NEW c \in ChunkStreams, NEW m \in Message, MayWrite(c, m),
           Load(c, m), UNCHANGED <<peerSize, wire, reader, broken>>,
           selfSize' \in Sizes, sizeReq' \in ChunkSizes \cup {0}
    PROVE  TInv'
<1>1. /\ writer' = [writer EXCEPT ![c] = Loaded(@, m)]
      /\ queue' = Append(queue, c)
  BY DEF Load
<1>2. /\ writer \in [ChunkStreams -> WriterState] /\ queue \in Seq(ChunkStreams)
      /\ \A d \in ChunkStreams : writer[d].left <= writer[d].length
  BY DEF TInv, Shape
<1> DEFINE w == Loaded(writer[c], m)
<1>3. /\ w \in WriterState /\ w.left <= w.length /\ w.typeID = m.typeID /\ w.size = m.size
      /\ w.header = writer[c].header
  <2>1. writer[c] \in WriterState
    BY <1>2
  <2>2. w \in WriterState /\ w.left = w.length
    BY <2>1, LoadedType
  <2>3. w.left <= w.length
    BY <2>2 DEF WriterState
  <2>4. w.typeID = m.typeID /\ w.size = m.size /\ w.header = writer[c].header
    BY <2>1, LoadedType
  <2> QED
    BY <2>2, <2>3, <2>4
<1>4. /\ writer' \in [ChunkStreams -> WriterState] /\ writer'[c] = w
      /\ \A d \in ChunkStreams \ {c} : writer'[d] = writer[d]
  BY <1>1, <1>2, <1>3
<1> HIDE DEF w
<1>5. /\ queue' \in Seq(ChunkStreams)
      /\ \A i \in DOMAIN queue' : queue'[i] = c \/ \E j \in DOMAIN queue : queue'[i] = queue[j]
  <2>1. /\ queue' \in Seq(ChunkStreams) /\ DOMAIN queue' = 1..Len(queue) + 1
        /\ DOMAIN queue = 1..Len(queue) /\ Len(queue) \in Nat
        /\ \A i \in 1..Len(queue) : queue'[i] = queue[i]
        /\ queue'[Len(queue) + 1] = c
    BY <1>1, <1>2, AppendPlaces
  <2>2. ASSUME NEW i \in 1..Len(queue) + 1 PROVE i = Len(queue) + 1 \/ i \in 1..Len(queue)
    BY <2>1
  <2> QED
    BY <2>1, <2>2
<1>6. Shape'
  <2>1. \A d \in ChunkStreams : writer'[d].left <= writer'[d].length
    BY <1>2, <1>3, <1>4
  <2> QED
    BY <1>4, <1>5, <2>1 DEF TInv, Shape
<1>7. Announces'
  <2>1. ASSUME NEW d \in Media
        PROVE  /\ writer'[d].typeID # SetChunkSizeType
               /\ writer'[d].header.typeID # SetChunkSizeType
    <3>1. CASE d = c
      <4>1. m \in MediaMessage
        BY <3>1, ControlApart DEF MayWrite
      <4>2. m.typeID # SetChunkSizeType
        BY <4>1, MessageTypes
      <4> QED
        BY <1>3, <1>4, <3>1, <4>2 DEF TInv, Announces
    <3>2. CASE d # c
      <4>1. writer'[d] = writer[d]
        BY <1>4, <3>2, Zenon DEF ChunkStreams
      <4> QED
        BY <4>1 DEF TInv, Announces
    <3> QED
      BY <3>1, <3>2
  <2>2. ASSUME NEW i \in DOMAIN queue', queue'[i] = Control
        PROVE  writer'[Control].size \in ChunkSizes
    <3>1. CASE c = Control
      <4>1. PICK s \in ChunkSizes : m = SetChunkSize(s)
        BY <3>1 DEF MayWrite
      <4> QED
        BY <1>3, <1>4, <3>1, <4>1 DEF SetChunkSize
    <3>2. CASE c # Control
      <4>1. PICK j \in DOMAIN queue : queue[j] = Control
        BY <1>5, <2>2, <3>2
      <4>2. writer'[Control] = writer[Control]
        BY <1>4, <3>2, ControlApart, Zenon
      <4> QED
        BY <4>1, <4>2 DEF TInv, Announces
    <3> QED
      BY <3>1, <3>2
  <2> QED
    BY <2>1, <2>2 DEF TInv, Announces
<1> QED
  BY <1>6, <1>7 DEF TInv

\* What WriteChunk makes of the writer at the head of the queue.
Taken(w) == IF w.left > selfSize THEN selfSize ELSE w.left

ChunkOf(c, w) ==
    [basic |-> EncodeBasicHeader(c),
     header |-> EncodeHeader(NextFmt(w), Updated(w).header),
     body |-> Taken(w), size |-> w.size]

Written(w) == [Updated(w) EXCEPT !.left = w.left - Taken(w)]

\* WriteChunk in these terms.
LEMMA WriteChunkStep ==
    ASSUME Shape, WriteChunk
    PROVE  /\ queue # <<>> /\ Head(queue) \in ChunkStreams
           /\ writer[Head(queue)] \in WriterState
           /\ wire' = Append(wire, ChunkOf(Head(queue), writer[Head(queue)]))
           /\ writer' = [writer EXCEPT ![Head(queue)] = Written(writer[Head(queue)])]
           /\ queue' = IF writer[Head(queue)].left = Taken(writer[Head(queue)])
                       THEN Tail(queue) ELSE Append(Tail(queue), Head(queue))
           /\ UNCHANGED <<selfSize, peerSize, sizeReq, reader, broken, pipe, last>>
<1>1. queue # <<>> /\ queue \in Seq(ChunkStreams) /\ writer \in [ChunkStreams -> WriterState]
  BY DEF WriteChunk, Shape
<1> DEFINE c == Head(queue)
           w == writer[c]
<1>2. c \in ChunkStreams
  BY <1>1
<1>3. w \in WriterState
  BY <1>1, <1>2
<1>4. Updated(w).left = w.left /\ Updated(w).size = w.size
  BY <1>3, UpdatedType
<1>5. /\ wire' = Append(wire, [basic |-> EncodeBasicHeader(c),
                               header |-> EncodeHeader(NextFmt(w), Updated(w).header),
                               body |-> Taken(w), size |-> w.size])
      /\ writer' = [writer EXCEPT ![c] = [Updated(w) EXCEPT !.left = w.left - Taken(w)]]
      /\ queue' = IF w.left = Taken(w) THEN Tail(queue) ELSE Append(Tail(queue), c)
      /\ UNCHANGED <<selfSize, peerSize, sizeReq, reader, broken, pipe, last>>
  BY <1>4, Zenon DEF WriteChunk, Taken
<1> QED
  BY <1>1, <1>2, <1>3, <1>5 DEF ChunkOf, Written

\* The writer after a chunk: the message is the same, less of it is left.
LEMMA WrittenType ==
    ASSUME NEW w \in WriterState, w.left <= w.length, selfSize \in Nat \ {0}
    PROVE  /\ Taken(w) \in Nat /\ Taken(w) <= w.left
           /\ Taken(w) = w.left \/ Taken(w) = selfSize
           /\ Written(w) \in WriterState
           /\ Written(w).left = w.left - Taken(w)
           /\ Written(w).timestamp = w.timestamp /\ Written(w).length = w.length
           /\ Written(w).typeID = w.typeID /\ Written(w).streamID = w.streamID
           /\ Written(w).size = w.size /\ ~Written(w).newChunk
           /\ Written(w).delta = NextDelta(w)
           /\ Written(w).header = Updated(w).header
           /\ Written(w).header =
                [timestamp |-> w.timestamp, delta |-> NextDelta(w),
                 length |-> w.length, typeID |-> w.typeID, streamID |-> w.streamID]
<1>1. Taken(w) \in Nat /\ Taken(w) <= w.left /\ w.left - Taken(w) \in Nat
      /\ (Taken(w) = w.left \/ Taken(w) = selfSize)
  BY DEF Taken, WriterState
<1> DEFINE u == Updated(w)
<1>2. /\ u \in WriterState /\ u.timestamp = w.timestamp /\ u.length = w.length
      /\ u.typeID = w.typeID /\ u.streamID = w.streamID /\ u.size = w.size
      /\ ~u.newChunk /\ u.delta = NextDelta(w)
      /\ u.header = [timestamp |-> w.timestamp, delta |-> NextDelta(w),
                     length |-> w.length, typeID |-> w.typeID, streamID |-> w.streamID]
  BY UpdatedType
<1> HIDE DEF u
<1>3. Written(w) = [u EXCEPT !.left = w.left - Taken(w)]
  BY DEF Written, u
<1>4. /\ Written(w) \in WriterState /\ Written(w).left = w.left - Taken(w)
      /\ Written(w).timestamp = u.timestamp /\ Written(w).length = u.length
      /\ Written(w).typeID = u.typeID /\ Written(w).streamID = u.streamID
      /\ Written(w).size = u.size /\ Written(w).newChunk = u.newChunk
      /\ Written(w).delta = u.delta /\ Written(w).header = u.header
  BY <1>1, <1>2, <1>3 DEF WriterState
<1> QED
  BY <1>1, <1>2, <1>4 DEF u

\* The chunk that is written names its stream and says the type of the message
\* or nothing.
LEMMA ChunkType ==
    ASSUME NEW c \in ChunkStreams, NEW w \in WriterState, w.left <= w.length,
           selfSize \in Nat \ {0}
    PROVE  /\ ChunkOf(c, w) \in Chunk /\ StreamOf(ChunkOf(c, w)) = c
           /\ ChunkOf(c, w).header.typeID \in {0, w.typeID}
           /\ ChunkOf(c, w).size = w.size
<1>1. NextFmt(w) \in 0..3 /\ Updated(w).header \in HeaderState
  BY UpdatedType DEF WriterState
<1>2. Updated(w).header.typeID = w.typeID
  <2>1. Updated(w).header =
          [timestamp |-> w.timestamp, delta |-> NextDelta(w),
           length |-> w.length, typeID |-> w.typeID, streamID |-> w.streamID]
    BY UpdatedType
  <2> QED
    BY <2>1
<1> DEFINE h == EncodeHeader(NextFmt(w), Updated(w).header)
<1>3. h \in Header /\ h.typeID \in {0, w.typeID}
  BY <1>1, <1>2, EncodedType
<1> HIDE DEF h
<1>4. ChunkOf(c, w) = [basic |-> EncodeBasicHeader(c), header |-> h,
                       body |-> Taken(w), size |-> w.size]
  BY DEF ChunkOf, h
<1>5. Taken(w) \in Nat /\ w.size \in Nat
  BY WrittenType DEF WriterState
<1>6. ChunkOf(c, w) \in Chunk
  BY <1>3, <1>4, <1>5 DEF Chunk
<1>7. DecodeBasicHeader(EncodeBasicHeader(c)) = c
  BY StreamKnown
<1> QED
  BY <1>3, <1>4, <1>6, <1>7 DEF StreamOf

\* A turn of the scheduler keeps the types.
LEMMA WriteChunkTypes ==
    ASSUME TInv, WriteChunk
    PROVE  TInv'
<1> DEFINE c == Head(queue)
           w == writer[c]
           chunk == ChunkOf(c, w)
<1>1. /\ queue # <<>> /\ c \in ChunkStreams /\ w \in WriterState
      /\ wire' = Append(wire, chunk)
      /\ writer' = [writer EXCEPT ![c] = Written(w)]
      /\ queue' = IF w.left = Taken(w) THEN Tail(queue) ELSE Append(Tail(queue), c)
      /\ UNCHANGED <<selfSize, peerSize, sizeReq, reader, broken, pipe, last>>
  BY WriteChunkStep DEF TInv
<1>2. /\ writer \in [ChunkStreams -> WriterState] /\ queue \in Seq(ChunkStreams)
      /\ wire \in Seq(Chunk) /\ w.left <= w.length /\ selfSize \in Nat \ {0}
      /\ \A d \in ChunkStreams : writer[d].left <= writer[d].length
  BY <1>1, SizesPositive DEF TInv, Shape
<1>3. /\ Written(w) \in WriterState /\ Written(w).left <= Written(w).length
      /\ Written(w).typeID = w.typeID /\ Written(w).size = w.size
      /\ Written(w).header.typeID = w.typeID
  <2>1. /\ Written(w) \in WriterState /\ Written(w).left = w.left - Taken(w)
        /\ Written(w).length = w.length /\ Taken(w) \in Nat
        /\ Written(w).typeID = w.typeID /\ Written(w).size = w.size
        /\ Written(w).header =
                [timestamp |-> w.timestamp, delta |-> NextDelta(w),
                 length |-> w.length, typeID |-> w.typeID, streamID |-> w.streamID]
    BY <1>1, <1>2, WrittenType
  <2>2. w.left \in Nat /\ w.length \in Nat
    BY <1>1 DEF WriterState
  <2> QED
    BY <1>2, <2>1, <2>2
<1>4. /\ chunk \in Chunk /\ StreamOf(chunk) = c /\ chunk.header.typeID \in {0, w.typeID}
      /\ chunk.size = w.size
  BY <1>1, <1>2, ChunkType
<1> HIDE DEF chunk
<1>5. /\ Head(queue) \in ChunkStreams /\ DOMAIN queue = 1..Len(queue)
      /\ Len(queue) \in Nat \ {0} /\ Head(queue) = queue[1]
      /\ Tail(queue) \in Seq(ChunkStreams) /\ DOMAIN Tail(queue) = 1..Len(queue) - 1
      /\ \A i \in 1..Len(queue) - 1 : Tail(queue)[i] = queue[i + 1]
      /\ Len(Tail(queue)) = Len(queue) - 1
  BY <1>1, <1>2, TailPlaces
<1> HIDE DEF w, c
<1>6. /\ queue' \in Seq(ChunkStreams)
      /\ \A i \in DOMAIN queue' : \E j \in DOMAIN queue : queue'[i] = queue[j]
  <2>1. \A i \in DOMAIN Tail(queue) : i + 1 \in DOMAIN queue /\ Tail(queue)[i] = queue[i + 1]
    BY <1>5
  <2>2. CASE queue' = Tail(queue)
    BY <1>5, <2>1, <2>2
  <2>3. CASE queue' = Append(Tail(queue), c)
    <3>1. /\ queue' \in Seq(ChunkStreams) /\ DOMAIN queue' = 1..Len(Tail(queue)) + 1
          /\ \A i \in 1..Len(Tail(queue)) : queue'[i] = Tail(queue)[i]
          /\ queue'[Len(Tail(queue)) + 1] = c
      <4> DEFINE t == Tail(queue)
      <4>1. t \in Seq(ChunkStreams) /\ queue' = Append(t, c)
        BY <1>5, <2>3
      <4> HIDE DEF t
      <4>2. c \in ChunkStreams
        BY <1>1
      <4>3. /\ queue' \in Seq(ChunkStreams) /\ DOMAIN queue' = 1..Len(t) + 1
            /\ (\A i \in 1..Len(t) : queue'[i] = t[i])
            /\ queue'[Len(t) + 1] = c
        BY <4>1, <4>2, AppendPlaces
      <4> QED
        BY <4>3 DEF t
    <3>2. ASSUME NEW i \in DOMAIN queue' PROVE \E j \in DOMAIN queue : queue'[i] = queue[j]
      <4>1. CASE i \in 1..Len(Tail(queue))
        BY <1>5, <2>1, <3>1, <4>1
      <4>2. CASE i = Len(Tail(queue)) + 1
        BY <1>5, <3>1, <4>2 DEF c
      <4>3. i \in 1..Len(Tail(queue)) \/ i = Len(Tail(queue)) + 1
        BY <1>5, <3>1
      <4> QED
        BY <4>1, <4>2, <4>3
    <3> QED
      BY <3>1, <3>2
  <2> QED
    BY <1>1, <2>2, <2>3
<1>7. /\ writer' \in [ChunkStreams -> WriterState] /\ writer'[c] = Written(w)
      /\ \A d \in ChunkStreams \ {c} : writer'[d] = writer[d]
      /\ \A d \in ChunkStreams : writer'[d].left <= writer'[d].length
  BY <1>1, <1>2, <1>3
<1>8. /\ wire' \in Seq(Chunk) /\ DOMAIN wire' = 1..Len(wire) + 1
      /\ DOMAIN wire = 1..Len(wire) /\ Len(wire) \in Nat
      /\ \A i \in 1..Len(wire) : wire'[i] = wire[i]
      /\ wire'[Len(wire) + 1] = chunk
  BY <1>1, <1>2, <1>4, AppendPlaces
<1>9. Shape'
  BY <1>1, <1>6, <1>7, <1>8 DEF TInv, Shape
<1>10. w = writer[c] /\ \E j \in DOMAIN queue : queue[j] = c
  BY <1>5 DEF w, c
<1>11. \A d \in ChunkStreams : writer'[d].size = writer[d].size /\ writer'[d].typeID = writer[d].typeID
  BY <1>3, <1>7, <1>10
<1>12. ASSUME NEW d \in Media
       PROVE  /\ writer'[d].typeID # SetChunkSizeType
              /\ writer'[d].header.typeID # SetChunkSizeType
              /\ reader'[d].typeID # SetChunkSizeType
  <2>1. d \in ChunkStreams
    BY DEF ChunkStreams
  <2> QED
    BY <1>1, <1>3, <1>7, <1>10, <2>1 DEF TInv, Announces
<1>13. ASSUME NEW i \in DOMAIN queue', queue'[i] = Control
       PROVE  writer'[Control].size \in ChunkSizes
  BY <1>6, <1>11, <1>13, ControlApart DEF TInv, Announces
<1>14. ASSUME NEW i \in DOMAIN wire'
       PROVE  IF StreamOf(wire'[i]) = Control THEN wire'[i].size \in ChunkSizes
              ELSE wire'[i].header.typeID # SetChunkSizeType
  <2>1. CASE i \in 1..Len(wire)
    BY <1>8, <2>1 DEF TInv, Announces
  <2>2. CASE i = Len(wire) + 1
    <3>1. wire'[i] = chunk
      BY <1>8, <2>2
    <3>2. CASE c = Control
      BY <1>4, <1>10, <3>1, <3>2 DEF TInv, Announces
    <3>3. CASE c # Control
      <4>1. c \in Media
        BY <1>1, <3>3 DEF ChunkStreams
      <4>2. w.typeID # SetChunkSizeType /\ 0 # SetChunkSizeType
        BY <1>10, <4>1 DEF TInv, Announces, SetChunkSizeType
      <4> QED
        BY <1>4, <3>1, <3>3, <4>2
    <3> QED
      BY <3>2, <3>3
  <2>3. i \in 1..Len(wire) \/ i = Len(wire) + 1
    BY <1>8
  <2> QED
    BY <2>1, <2>2, <2>3
<1>15. Announces'
  BY <1>12, <1>13, <1>14, Zenon DEF Announces
<1> QED
  BY <1>9, <1>15 DEF TInv

\* ReadChunk: the chunk's boundaries are lost, or the reader takes it up.
LEMMA ReadChunkStep ==
    ASSUME Shape, ReadChunk
    PROVE  LET chunk == Head(wire)
               c == StreamOf(chunk)
               a == Applied(reader[c], chunk.header)
               done == FilledWith(a, peerSize)
           IN  /\ wire # <<>> /\ ~broken /\ wire' = Tail(wire)
               /\ UNCHANGED <<selfSize, sizeReq, writer, queue>>
               /\ \/ /\ \/ OverRead(chunk.basic)
                        \/ WantsExt(reader[c], chunk.header) # (chunk.header.ext # <<>>)
                        \/ a.length <= a.got
                        \/ Takes(a, peerSize) # chunk.body
                     /\ broken' = TRUE
                     /\ UNCHANGED <<peerSize, reader, pipe, last>>
                  \/ /\ WantsExt(reader[c], chunk.header) = (chunk.header.ext # <<>>)
                     /\ a.length > a.got /\ Takes(a, peerSize) = chunk.body
                     /\ reader' = [reader EXCEPT ![c] = done]
                     /\ done.completed =>
                          /\ last' = [last EXCEPT ![c] = Completed(done, chunk.size)]
                          /\ pipe' = [pipe EXCEPT ![c] = Tail(@)]
                          /\ peerSize' = IF Completed(done, chunk.size).typeID = SetChunkSizeType
                                         THEN Completed(done, chunk.size).size ELSE peerSize
                     /\ ~done.completed => UNCHANGED <<peerSize, pipe, last>>
                     /\ UNCHANGED broken
<1> DEFINE chunk == Head(wire)
           c == StreamOf(chunk)
           a == Applied(reader[c], chunk.header)
           done == FilledWith(a, peerSize)
<1>1. c = DecodeBasicHeader(chunk.basic)
  BY DEF StreamOf
<1>2. Expected(a) = Takes(a, peerSize) /\ Filled(a) = done
  BY SameFilling
<1> QED
  BY <1>1, <1>2, Zenon DEF ReadChunk

\* Reading a chunk keeps the types, also when its boundaries are lost.
LEMMA ReadChunkTypes ==
    ASSUME TInv, ReadChunk
    PROVE  TInv'
<1> DEFINE chunk == Head(wire)
           c == StreamOf(chunk)
           r == reader[c]
           a == Applied(r, chunk.header)
           done == FilledWith(a, peerSize)
<1>1. /\ wire # <<>> /\ wire' = Tail(wire)
      /\ UNCHANGED <<selfSize, sizeReq, writer, queue>>
      /\ \/ /\ broken' = TRUE
            /\ UNCHANGED <<peerSize, reader, pipe, last>>
         \/ /\ a.length > a.got
            /\ reader' = [reader EXCEPT ![c] = done]
            /\ done.completed =>
                 peerSize' = IF Completed(done, chunk.size).typeID = SetChunkSizeType
                             THEN Completed(done, chunk.size).size ELSE peerSize
            /\ ~done.completed => UNCHANGED peerSize
            /\ UNCHANGED broken
  BY ReadChunkStep, Zenon DEF TInv
<1>2. /\ wire \in Seq(Chunk) /\ reader \in [ChunkStreams -> ReaderState] /\ peerSize \in Sizes
      /\ \A d \in ChunkStreams : reader[d].got <= reader[d].length
  BY DEF TInv, Shape
<1>3. /\ wire' \in Seq(Chunk) /\ chunk \in Chunk /\ chunk = wire[1] /\ 1 \in DOMAIN wire
      /\ \A i \in DOMAIN wire' : i + 1 \in DOMAIN wire /\ wire'[i] = wire[i + 1]
  <2>1. /\ Tail(wire) \in Seq(Chunk) /\ Head(wire) \in Chunk /\ Head(wire) = wire[1]
        /\ Len(wire) \in Nat \ {0} /\ DOMAIN wire = 1..Len(wire)
        /\ DOMAIN Tail(wire) = 1..Len(wire) - 1
        /\ \A i \in 1..Len(wire) - 1 : Tail(wire)[i] = wire[i + 1]
    BY <1>1, <1>2, TailPlaces
  <2>2. \A i \in 1..Len(wire) - 1 : i + 1 \in 1..Len(wire)
    BY <2>1
  <2> QED
    BY <1>1, <2>1, <2>2
<1>4. c \in ChunkStreams
  BY <1>3, StreamKnown
<1>5. chunk.header \in Header /\ r \in ReaderState
  BY <1>2, <1>3, <1>4 DEF Chunk
<1>6. /\ a \in ReaderState /\ a.typeID \in {r.typeID, chunk.header.typeID} /\ ~a.completed
  BY <1>5, AppliedType
<1>7. IF c = Control THEN chunk.size \in ChunkSizes
      ELSE chunk.header.typeID # SetChunkSizeType /\ r.typeID # SetChunkSizeType
  <2>1. IF c = Control THEN chunk.size \in ChunkSizes
        ELSE chunk.header.typeID # SetChunkSizeType
    BY <1>3 DEF TInv, Announces
  <2>2. c # Control => c \in Media
    BY <1>4 DEF ChunkStreams
  <2> QED
    BY <2>1, <2>2 DEF TInv, Announces
<1> HIDE DEF chunk, c, r, a
<1>8. CASE UNCHANGED <<peerSize, reader>> /\ broken' = TRUE
  <2>1. Shape'
    BY <1>1, <1>3, <1>8 DEF TInv, Shape
  <2>2. Announces'
    BY <1>1, <1>3, <1>8 DEF TInv, Announces
  <2> QED
    BY <2>1, <2>2 DEF TInv
<1>9. CASE /\ a.length > a.got
           /\ reader' = [reader EXCEPT ![c] = done]
           /\ done.completed =>
                peerSize' = IF Completed(done, chunk.size).typeID = SetChunkSizeType
                            THEN Completed(done, chunk.size).size ELSE peerSize
           /\ ~done.completed => UNCHANGED peerSize
           /\ UNCHANGED broken
  <2>1. a.got < a.length
    BY <1>6, <1>9 DEF ReaderState
  <2>2. /\ done \in ReaderState /\ done.got <= done.length /\ done.typeID = a.typeID
    BY <1>2, <1>6, <2>1, FilledType, SizesPositive
  <2> HIDE DEF done
  <2>3. /\ reader' \in [ChunkStreams -> ReaderState] /\ reader'[c] = done
        /\ \A d \in ChunkStreams \ {c} : reader'[d] = reader[d]
    BY <1>2, <1>4, <1>9, <2>2
  <2>4. /\ Completed(done, chunk.size).typeID = done.typeID
        /\ Completed(done, chunk.size).size = chunk.size
    BY DEF Completed
  <2>5. peerSize' \in Sizes
    <3>1. CASE c = Control
      BY <1>2, <1>7, <1>9, <2>4, <3>1, SizesPositive
    <3>2. CASE c # Control
      BY <1>2, <1>6, <1>7, <1>9, <2>2, <2>4, <3>2
    <3> QED
      BY <3>1, <3>2
  <2>6. Shape'
    <3>1. \A d \in ChunkStreams : reader'[d].got <= reader'[d].length
      BY <1>2, <2>2, <2>3
    <3> QED
      BY <1>1, <1>3, <1>9, <2>3, <2>5, <3>1 DEF TInv, Shape
  <2>7. \A d \in Media : reader'[d].typeID # SetChunkSizeType
    <3> SUFFICES ASSUME NEW d \in Media PROVE reader'[d].typeID # SetChunkSizeType
      OBVIOUS
    <3>1. d # Control /\ d \in ChunkStreams
      BY ControlApart DEF ChunkStreams
    <3>2. CASE d = c
      BY <1>6, <1>7, <2>2, <2>3, <3>1, <3>2
    <3>3. CASE d # c
      BY <2>3, <3>1, <3>3 DEF TInv, Announces
    <3> QED
      BY <3>2, <3>3
  <2>8. Announces'
    BY <1>1, <1>3, <2>7 DEF TInv, Announces
  <2> QED
    BY <2>6, <2>8 DEF TInv
<1> QED
  BY <1>1, <1>8, <1>9

\* The messages users write and the announcement of a chunk size.
LEMMA MayWriteMessages ==
    /\ \A c \in Media, m \in MediaMessage : MayWrite(c, m) /\ m \in Message
    /\ \A s \in ChunkSizes : MayWrite(Control, SetChunkSize(s)) /\ SetChunkSize(s) \in Message
BY ControlApart, Zenon DEF MayWrite, Message

\* Every step keeps the types.
LEMMA NextTypes == TInv /\ [Next]_vars => TInv'
<1> SUFFICES ASSUME TInv, [Next]_vars PROVE TInv'
  OBVIOUS
<1>1. ASSUME NEW c \in Media, Write(c) PROVE TInv'
  <2>1. PICK m \in MediaMessage : Load(c, m)
    BY <1>1 DEF Write
  <2>2. /\ UNCHANGED <<selfSize, peerSize, sizeReq, wire, reader, broken, last>>
        /\ c \in ChunkStreams /\ m \in Message /\ MayWrite(c, m)
    BY <1>1, MayWriteMessages, Zenon DEF Write, ChunkStreams
  <2>3. selfSize' \in Sizes /\ sizeReq' \in ChunkSizes \cup {0}
    BY <2>2 DEF TInv, Shape
  <2> QED
    BY <2>1, <2>2, <2>3, LoadTypes
<1>2. CASE ChangeSize
  <2>1. /\ selfSize' \in Sizes /\ sizeReq' \in ChunkSizes \cup {0}
        /\ UNCHANGED <<peerSize, writer, queue, wire, reader, broken, pipe, last>>
    BY <1>2, SizesPositive DEF ChangeSize
  <2> QED
    BY <2>1 DEF TInv, Shape, Announces
<1>3. CASE AnnounceSize
  <2>1. sizeReq \in ChunkSizes /\ selfSize \in Sizes
    BY <1>3 DEF AnnounceSize, TInv, Shape
  <2>2. /\ Load(Control, SetChunkSize(sizeReq)) /\ sizeReq' = 0
        /\ UNCHANGED <<selfSize, peerSize, wire, reader, broken, last>>
    BY <1>3 DEF AnnounceSize
  <2>3. /\ Control \in ChunkStreams /\ SetChunkSize(sizeReq) \in Message
        /\ MayWrite(Control, SetChunkSize(sizeReq))
        /\ selfSize' \in Sizes /\ sizeReq' \in ChunkSizes \cup {0}
    BY <2>1, <2>2, MayWriteMessages, ControlApart
  <2> QED
    BY <2>2, <2>3, LoadTypes
<1>4. CASE WriteChunk
  BY <1>4, WriteChunkTypes
<1>5. CASE ReadChunk
  BY <1>5, ReadChunkTypes
<1>6. CASE UNCHANGED vars
  BY <1>6 DEF vars, TInv, Shape, Announces
<1> QED
  BY <1>1, <1>2, <1>3, <1>4, <1>5, <1>6 DEF Next

\* The types of both sides, of the queue and of the chunks in transit, always.
LEMMA TypesKept == Spec => []TInv
<1>1. Init => TInv
  BY InitTypes
<1>2. TInv /\ [Next]_vars => TInv'
  BY NextTypes
<1> QED
  BY <1>1, <1>2, PTL DEF Spec

\* Every header that is sent has one of the four forms and a timestamp of 32 bits,
\* what a reader has never exceeds the length of the message it reads, and the
\* chunk size of either side is always one somebody has asked for: however
\* timestamps, lengths and chunk sizes follow each other, and when the reader has
\* lost its way, too.
THEOREM TypeCorrect == Spec => []TypeOK
<1>1. TInv => TypeOK
  <2> SUFFICES ASSUME TInv PROVE TypeOK
    OBVIOUS
  <2>1. ASSUME NEW c \in ChunkStreams
        PROVE  /\ writer[c].header \in HeaderState
               /\ writer[c].delta \in 0..TimeMod - 1
               /\ writer[c].left \in 0..writer[c].length
               /\ reader[c].timestamp \in 0..TimeMod - 1
               /\ reader[c].delta \in 0..TimeMod - 1
               /\ reader[c].extMode \in {"unused", "time", "delta"}
               /\ reader[c].got \in 0..reader[c].length
    <3>1. /\ writer[c] \in WriterState /\ writer[c].left <= writer[c].length
          /\ reader[c] \in ReaderState /\ reader[c].got <= reader[c].length
      BY DEF TInv, Shape
    <3>2. writer[c].left \in 0..writer[c].length /\ reader[c].got \in 0..reader[c].length
      BY <3>1 DEF WriterState, ReaderState
    <3> QED
      BY <3>1, <3>2 DEF WriterState, ReaderState
  <2>2. \A i \in DOMAIN wire : wire[i].header.fmt \in 0..3 /\ wire[i].body \in Nat
    <3>1. \A i \in DOMAIN wire : wire[i] \in Chunk
      BY DEF TInv, Shape
    <3>2. \A chunk \in Chunk : chunk.header.fmt \in 0..3 /\ chunk.body \in Nat
      BY DEF Chunk, Header
    <3> QED
      BY <3>1, <3>2
  <2>3. \A i \in DOMAIN queue : queue[i] \in ChunkStreams
    BY DEF TInv, Shape
  <2>4. /\ {selfSize, peerSize} \subseteq ChunkSizes \cup {DefaultChunkSize}
        /\ sizeReq \in ChunkSizes \cup {0} /\ broken \in BOOLEAN
    BY DEF TInv, Shape, Sizes
  <2> QED
    BY <2>1, <2>2, <2>3, <2>4, Zenon DEF TypeOK
<1> QED
  BY <1>1, TypesKept, PTL

-----------------------------------------------------------------------------
(* One chunk, written and read: in a connection of PlainUse the reader that was *)
(* in step with the writer is in step with it again.                            *)

\* What the reader r makes of the chunk that w writes, when p is the chunk size of
\* its side.
ReadsRight(c, w, r, p) ==
    LET chunk == ChunkOf(c, w)
        a == Applied(r, chunk.header)
        done == FilledWith(a, p)
    IN  /\ chunk.header.ext = <<>> /\ ~WantsExt(r, chunk.header)
        /\ a.length > a.got /\ Takes(a, p) = Taken(w)
        /\ done.completed <=> w.left = Taken(w)
        /\ w.left = Taken(w) => /\ Completed(done, w.size) = MessageOf(w)
                                /\ Between(c, Written(w), done)
        /\ w.left # Taken(w) => Midway(Written(w), done)

\* Messages that may be written fit their headers.
LEMMA MessagesFit ==
    ASSUME PlainUse, NEW c \in ChunkStreams, NEW m, MayWrite(c, m)
    PROVE  /\ m.timestamp \in Nat /\ m.timestamp < TimeExt
           /\ m.length \in Nat /\ 0 < m.length /\ m.length < LengthMod
           /\ m.streamID \in StreamIDsOf(c)
           /\ c = Control => m.length = 1
           /\ m \in Message
<1>1. CASE c = Control
  <2>1. PICK s \in ChunkSizes : m = SetChunkSize(s)
    BY <1>1 DEF MayWrite
  <2>2. m \in Message
    BY <2>1 DEF Message
  <2> QED
    BY <1>1, <2>1, <2>2, Widths DEF SetChunkSize, PlainUse, StreamIDsOf
<1>2. CASE c # Control
  <2>1. m \in MediaMessage
    BY <1>2 DEF MayWrite
  <2>2. m.timestamp \in Timestamps /\ m.length \in Lengths /\ m.streamID \in StreamIDs
    BY <2>1 DEF MediaMessage
  <2>3. m.timestamp \in 0..TimeExt - 1 /\ m.length \in 1..LengthMod - 1
    BY <2>2, Zenon DEF PlainUse
  <2> QED
    BY <1>2, <2>1, <2>2, <2>3, Widths DEF StreamIDsOf, Message
<1> QED
  BY <1>1, <1>2

\* A chunk stream has one message stream.
LEMMA OneStreamID ==
    ASSUME PlainUse, NEW c \in ChunkStreams,
           NEW s \in StreamIDsOf(c), NEW t \in StreamIDsOf(c)
    PROVE  s = t
BY DEF PlainUse, StreamIDsOf

\* Once the header has been understood the payload follows.
LEMMA PayloadFollows ==
    ASSUME NEW c, NEW w \in WriterState, NEW a \in ReaderState, NEW p \in Nat \ {0},
           selfSize \in Nat \ {0}, p = selfSize \/ w.left = 1,
           0 < w.left, w.left <= w.length, a.got + w.left = w.length,
           w.timestamp < TimeExt, w.streamID \in StreamIDsOf(c),
           ~a.completed, a.extMode = "unused",
           a.timestamp + a.delta = w.timestamp, a.delta = NextDelta(w),
           a.length = w.length, a.typeID = w.typeID, a.streamID = w.streamID
    PROVE  LET done == FilledWith(a, p) IN
           /\ a.length > a.got /\ Takes(a, p) = Taken(w)
           /\ done.completed <=> w.left = Taken(w)
           /\ w.left = Taken(w) => /\ Completed(done, w.size) = MessageOf(w)
                                   /\ Between(c, Written(w), done)
           /\ w.left # Taken(w) => Midway(Written(w), done)
<1> DEFINE done == FilledWith(a, p)
           u == Written(w)
<1>1. /\ w.left \in Nat /\ w.length \in Nat /\ a.got \in Nat /\ a.length \in Nat
      /\ w.timestamp \in Nat /\ w.timestamp < TimeMod
  BY Widths DEF WriterState, ReaderState
<1>2. a.length - a.got = w.left /\ a.got < a.length
  BY <1>1
<1>3. Takes(a, p) = Taken(w)
  BY <1>1, <1>2 DEF Takes, Taken
<1>4. /\ Taken(w) \in Nat /\ Taken(w) <= w.left
      /\ u.left = w.left - Taken(w)
      /\ u.timestamp = w.timestamp /\ u.length = w.length
      /\ u.typeID = w.typeID /\ u.streamID = w.streamID
      /\ u.size = w.size /\ ~u.newChunk /\ u.delta = NextDelta(w)
      /\ u.header = [timestamp |-> w.timestamp, delta |-> NextDelta(w),
                     length |-> w.length, typeID |-> w.typeID, streamID |-> w.streamID]
  BY WrittenType
<1>5. /\ 0 < Takes(a, p) /\ Takes(a, p) \in Nat
      /\ a.got + Takes(a, p) = a.length =>
           done = [a EXCEPT !.got = a.length, !.completed = TRUE,
                            !.timestamp = (a.timestamp + a.delta) % TimeMod]
      /\ a.got + Takes(a, p) # a.length =>
           done = [a EXCEPT !.got = a.got + Takes(a, p)]
      /\ done.completed <=> a.got + Takes(a, p) = a.length
  BY <1>2, FilledType
<1>6. a.got + Takes(a, p) = a.length <=> w.left = Taken(w)
  BY <1>1, <1>2, <1>3, <1>4
<1> HIDE DEF u, done
<1>7. ASSUME w.left = Taken(w)
      PROVE  Completed(done, w.size) = MessageOf(w) /\ Between(c, u, done)
  <2>1. done = [a EXCEPT !.got = a.length, !.completed = TRUE,
                         !.timestamp = (a.timestamp + a.delta) % TimeMod]
    BY <1>5, <1>6, <1>7
  <2>2. (a.timestamp + a.delta) % TimeMod = w.timestamp
    BY <1>1, Widths
  <2>3. /\ done.timestamp = w.timestamp /\ done.completed /\ done.delta = a.delta
        /\ done.length = a.length /\ done.typeID = a.typeID /\ done.streamID = a.streamID
        /\ done.extMode = a.extMode
    BY <2>1, <2>2 DEF ReaderState
  <2>4. Completed(done, w.size) = MessageOf(w)
    BY <2>3 DEF Completed, MessageOf
  <2>5. Agree(u, done)
    BY <1>4, <2>3 DEF Agree
  <2>6. u.header.timestamp < TimeExt /\ u.header.streamID \in StreamIDsOf(c)
    BY <1>4
  <2> QED
    BY <2>3, <2>4, <2>5, <2>6 DEF Between
<1>8. ASSUME w.left # Taken(w)
      PROVE  Midway(u, done)
  <2>1. done = [a EXCEPT !.got = a.got + Takes(a, p)]
    BY <1>5, <1>6, <1>8
  <2>2. /\ done.got = a.got + Takes(a, p) /\ done.timestamp = a.timestamp
        /\ ~done.completed /\ done.delta = a.delta
        /\ done.length = a.length /\ done.typeID = a.typeID /\ done.streamID = a.streamID
        /\ done.extMode = a.extMode
    BY <2>1 DEF ReaderState
  <2>3. done.got + u.left = w.length /\ 0 < u.left /\ 0 < done.got
    BY <1>1, <1>3, <1>4, <1>5, <1>8, <2>2
  <2> QED
    BY <1>4, <2>2, <2>3 DEF Midway
<1> QED
  BY <1>2, <1>3, <1>5, <1>6, <1>7, <1>8 DEF u, done

\* What a header without the extended timestamp leaves of a reader that has
\* met none.
LEMMA AppliedPlain ==
    ASSUME NEW r \in ReaderState, NEW h \in Header, h.ext = <<>>, r.extMode = "unused"
    PROVE  /\ Applied(r, h).extMode = "unused"
           /\ Applied(r, h).got = IF r.completed THEN 0 ELSE r.got
           /\ h.fmt = 3 => /\ Applied(r, h).timestamp = r.timestamp
                           /\ Applied(r, h).delta = r.delta
                           /\ Applied(r, h).length = r.length
                           /\ Applied(r, h).typeID = r.typeID
                           /\ Applied(r, h).streamID = r.streamID
<1> DEFINE s == Reopened(r)
<1>1. /\ s \in ReaderState /\ s.extMode = "unused" /\ s.timestamp = r.timestamp
      /\ s.delta = r.delta /\ s.length = r.length /\ s.typeID = r.typeID
      /\ s.streamID = r.streamID /\ s.got = IF r.completed THEN 0 ELSE r.got
  BY DEF Reopened, ReaderState
<1>2. h.fmt \in 0..3
  BY DEF Header
<1> HIDE DEF s
<1>3. CASE h.fmt = 0
  <2>1. Applied(r, h) =
          [s EXCEPT !.timestamp = HeaderTime(h), !.delta = 0, !.length = h.length,
                    !.typeID = h.typeID, !.streamID = h.streamID,
                    !.extMode = "unused"]
    BY <1>3 DEF Applied, s
  <2> QED
    BY <1>1, <1>3, <2>1 DEF ReaderState
<1>4. CASE h.fmt = 1
  <2>1. Applied(r, h) =
          [s EXCEPT !.delta = HeaderTime(h), !.length = h.length, !.typeID = h.typeID,
                    !.extMode = "unused"]
    BY <1>4 DEF Applied, s
  <2> QED
    BY <1>1, <1>4, <2>1 DEF ReaderState
<1>5. CASE h.fmt = 2
  <2>1. Applied(r, h) = [s EXCEPT !.delta = HeaderTime(h), !.extMode = "unused"]
    BY <1>5 DEF Applied, s
  <2> QED
    BY <1>1, <1>5, <2>1 DEF ReaderState
<1>6. CASE h.fmt = 3
  <2>1. Applied(r, h) = s
    BY <1>6 DEF Applied, s
  <2> QED
    BY <1>1, <2>1
<1> QED
  BY <1>2, <1>3, <1>4, <1>5, <1>6

\* The first chunk of a message.
LEMMA FirstChunk ==
    ASSUME PlainUse, NEW c \in ChunkStreams, NEW w \in WriterState, NEW r \in ReaderState,
           NEW p \in Nat \ {0}, selfSize \in Nat \ {0}, p = selfSize \/ w.length = 1,
           w.newChunk, w.left = w.length, MayWrite(c, MessageOf(w)), Between(c, w, r)
    PROVE  ReadsRight(c, w, r, p)
<1> DEFINE h == FirstHeader(w)
           a == Applied(r, h)
<1>1. /\ w.timestamp \in Nat /\ w.timestamp < TimeExt
      /\ w.length \in Nat /\ 0 < w.length /\ w.length < LengthMod
      /\ w.streamID \in StreamIDsOf(c)
  <2> DEFINE m == MessageOf(w)
  <2>1. m.timestamp = w.timestamp /\ m.length = w.length /\ m.streamID = w.streamID
    BY DEF MessageOf
  <2>2. MayWrite(c, m)
    OBVIOUS
  <2> HIDE DEF m
  <2>3. /\ m.timestamp \in Nat /\ m.timestamp < TimeExt
        /\ m.length \in Nat /\ 0 < m.length /\ m.length < LengthMod
        /\ m.streamID \in StreamIDsOf(c)
    BY <2>2, MessagesFit
  <2> QED
    BY <2>1, <2>3
<1>2. Sendable(w)
  BY <1>1 DEF Sendable
<1>3. /\ NextFmt(w) = 0 \/ Agree(w, r)
      /\ w.header.streamID = w.streamID \/ IsReversed(w)
      /\ r.extMode = "unused" /\ (IF r.completed THEN 0 ELSE r.got) = 0
  <2>1. CASE w.header = NewWriter.header /\ r = NewReader
    <3>1. w.header.timestamp = TimeMod - 1
      BY <2>1 DEF NewWriter
    <3>2. IsReversed(w)
      BY <1>1, <3>1, Widths DEF IsReversed, IsFresh
    <3>3. r.extMode = "unused" /\ r.got = 0
      BY <2>1 DEF NewReader
    <3> QED
      BY <3>2, <3>3 DEF NextFmt
  <2>2. CASE /\ Agree(w, r) /\ r.completed /\ r.extMode = "unused"
             /\ w.header.streamID \in StreamIDsOf(c)
    <3>1. w.header.streamID = w.streamID
      BY <1>1, <2>2, OneStreamID
    <3> QED
      BY <2>2, <3>1
  <2> QED
    BY <2>1, <2>2 DEF Between
<1>4. /\ a.length = w.length /\ a.typeID = w.typeID
      /\ a.streamID = w.streamID
      /\ a.timestamp + a.delta = w.timestamp
      /\ w.header.streamID = w.streamID => a.delta = NextDelta(w)
  BY <1>2, <1>3, HeaderRoundTrip
<1>5. a.delta = NextDelta(w)
  <2>1. CASE IsReversed(w)
    <3>1. NextFmt(w) = 0
      BY <2>1 DEF NextFmt
    <3>2. a.delta = 0
      BY <1>2, <3>1, AppliedForms
    <3>3. NextDelta(w) = 0
      BY <2>1, DeltaInRange
    <3> QED
      BY <3>2, <3>3
  <2>2. CASE w.header.streamID = w.streamID
    BY <1>4, <2>2
  <2> QED
    BY <1>3, <2>1, <2>2
<1>6. h \in Header
  <2>1. NextFmt(w) \in 0..3 /\ Updated(w).header \in HeaderState
    BY UpdatedType DEF WriterState
  <2> QED
    BY <2>1, EncodedType DEF FirstHeader
<1>7. h.ext = <<>> /\ (h.fmt # 3 => h.time < TimeExt)
  <2>1. NextDelta(w) < TimeExt
    <3>1. NextDelta(w) <= w.timestamp /\ NextDelta(w) \in 0..TimeMod - 1
      BY DeltaInRange
    <3> QED
      BY <1>1, <3>1, Widths
  <2>2. NextFmt(w) \in {0, 1, 2, 3}
    BY DEF NextFmt
  <2>3. CASE NextFmt(w) = 0
    BY <1>1, <1>2, <2>3, HeaderForms
  <2>4. CASE NextFmt(w) = 1
    BY <1>2, <2>1, <2>4, HeaderForms
  <2>5. CASE NextFmt(w) = 2
    BY <1>2, <2>1, <2>5, HeaderForms
  <2>6. CASE NextFmt(w) = 3
    BY <1>2, <2>6, HeaderForms
  <2> QED
    BY <2>2, <2>3, <2>4, <2>5, <2>6
<1>8. ~WantsExt(r, h)
  BY <1>3, <1>6, <1>7, Widths DEF WantsExt, Header, Time
<1>9. a.extMode = "unused" /\ a.got = 0
  BY <1>3, <1>6, <1>7, AppliedPlain
<1>10. a \in ReaderState /\ ~a.completed
  BY <1>6, AppliedType
<1>11. ChunkOf(c, w).header = h
  BY DEF ChunkOf, FirstHeader
<1> HIDE DEF h
<1>12. a.got + w.left = w.length /\ w.left <= w.length /\ 0 < w.left
       /\ (p = selfSize \/ w.left = 1)
  BY <1>1, <1>9
<1> HIDE DEF a
<1>13. LET done == FilledWith(a, p) IN
       /\ a.length > a.got /\ Takes(a, p) = Taken(w)
       /\ done.completed <=> w.left = Taken(w)
       /\ w.left = Taken(w) => /\ Completed(done, w.size) = MessageOf(w)
                               /\ Between(c, Written(w), done)
       /\ w.left # Taken(w) => Midway(Written(w), done)
  BY <1>1, <1>4, <1>5, <1>9, <1>10, <1>12, PayloadFollows
<1> QED
  BY <1>7, <1>8, <1>11, <1>13, Zenon DEF ReadsRight, a

\* A chunk that continues a message says nothing in its header.
LEMMA NextChunk ==
    ASSUME PlainUse, NEW c \in ChunkStreams, NEW w \in WriterState, NEW r \in ReaderState,
           NEW p \in Nat \ {0}, selfSize \in Nat \ {0}, p = selfSize,
           w.left <= w.length, MayWrite(c, MessageOf(w)), Midway(w, r)
    PROVE  ReadsRight(c, w, r, p)
<1> DEFINE h == EncodeHeader(NextFmt(w), Updated(w).header)
           a == Applied(r, h)
<1>1. w.timestamp < TimeExt /\ w.streamID \in StreamIDsOf(c)
  <2> DEFINE m == MessageOf(w)
  <2>1. m.timestamp = w.timestamp /\ m.streamID = w.streamID
    BY DEF MessageOf
  <2>2. MayWrite(c, m)
    OBVIOUS
  <2> HIDE DEF m
  <2>3. m.timestamp < TimeExt /\ m.streamID \in StreamIDsOf(c)
    BY <2>2, MessagesFit
  <2> QED
    BY <2>1, <2>3
<1>2. /\ ~w.newChunk /\ ~r.completed /\ r.extMode = "unused"
      /\ r.got + w.left = w.length /\ 0 < w.left
      /\ w.header = [timestamp |-> w.timestamp, delta |-> w.delta, length |-> w.length,
                     typeID |-> w.typeID, streamID |-> w.streamID]
      /\ r.timestamp + r.delta = w.timestamp /\ r.delta = w.delta
      /\ r.length = w.length /\ r.typeID = w.typeID /\ r.streamID = w.streamID
  BY DEF Midway
<1>3. /\ w.header.timestamp = w.timestamp /\ w.header.delta = w.delta
      /\ w.header.length = w.length /\ w.header.typeID = w.typeID
      /\ w.header.streamID = w.streamID
  BY <1>2
<1>4. ~IsFresh(w) /\ NextDelta(w) = w.delta /\ NextFmt(w) = 3
  BY <1>2, <1>3 DEF IsFresh, IsReversed, NextDelta, NextFmt
<1>5. h = [fmt |-> 3, time |-> 0, ext |-> <<>>, length |-> 0, typeID |-> 0, streamID |-> 0]
  BY <1>4, Widths DEF EncodeHeader
<1>6. h \in Header
  <2>1. NextFmt(w) \in 0..3 /\ Updated(w).header \in HeaderState
    BY UpdatedType DEF WriterState
  <2> QED
    BY <2>1, EncodedType
<1>7. ChunkOf(c, w).header = h
  BY DEF ChunkOf
<1>8. h.fmt = 3 /\ h.ext = <<>>
  BY <1>5
<1> HIDE DEF h
<1>9. ~WantsExt(r, h)
  BY <1>2, <1>8 DEF WantsExt
<1>10. /\ a.extMode = "unused" /\ a.got = r.got /\ a.timestamp = r.timestamp
       /\ a.delta = r.delta /\ a.length = r.length /\ a.typeID = r.typeID
       /\ a.streamID = r.streamID
  BY <1>2, <1>6, <1>8, AppliedPlain
<1>11. a \in ReaderState /\ ~a.completed
  BY <1>6, AppliedType
<1> HIDE DEF a
<1>12. LET done == FilledWith(a, p) IN
       /\ a.length > a.got /\ Takes(a, p) = Taken(w)
       /\ done.completed <=> w.left = Taken(w)
       /\ w.left = Taken(w) => /\ Completed(done, w.size) = MessageOf(w)
                               /\ Between(c, Written(w), done)
       /\ w.left # Taken(w) => Midway(Written(w), done)
  <2>1. /\ a.got + w.left = w.length /\ a.timestamp + a.delta = w.timestamp
        /\ a.delta = NextDelta(w) /\ a.length = w.length /\ a.typeID = w.typeID
        /\ a.streamID = w.streamID
    BY <1>2, <1>4, <1>10
  <2> QED
    BY <1>1, <1>2, <1>10, <1>11, <2>1, PayloadFollows
<1> QED
  BY <1>7, <1>8, <1>9, <1>12, Zenon DEF ReadsRight, a

-----------------------------------------------------------------------------
(* The reading side when nothing, or more, is written *)

\* A pipe whose first message is taken out while another goes in.
LEMMA PipeEnds ==
    ASSUME NEW S, NEW q \in Seq(S), NEW m \in S, q # <<>>
    PROVE  /\ Append(q, m) \in Seq(S) /\ Append(q, m) # <<>>
           /\ Head(Append(q, m)) = Head(q)
           /\ Tail(Append(q, m)) = Append(Tail(q), m)
<1>1. Len(q) \in Nat \ {0} /\ Head(q) = q[1] /\ Tail(q) \in Seq(S) /\ Len(Tail(q)) = Len(q) - 1
  OBVIOUS
<1> DEFINE s == Append(q, m)
<1>2. /\ s \in Seq(S) /\ Len(s) = Len(q) + 1 /\ s # <<>> /\ s[Len(q) + 1] = m
  BY <1>1
<1>3. \A i \in 1..Len(q) : s[i] = q[i]
  BY <1>1
<1> HIDE DEF s
<1>4. Head(s) = s[1] /\ 1 \in 1..Len(q)
  BY <1>1, <1>2
<1> DEFINE a == Tail(s)
           b == Append(Tail(q), m)
<1>5. /\ a \in Seq(S) /\ Len(a) = Len(q)
      /\ \A i \in 1..Len(q) : a[i] = s[i + 1]
  BY <1>1, <1>2
<1> DEFINE t == Tail(q)
<1>6. t \in Seq(S) /\ Len(t) = Len(q) - 1 /\ \A i \in 1..Len(q) - 1 : t[i] = q[i + 1]
  BY <1>1
<1>7. /\ b \in Seq(S) /\ Len(b) = Len(q) /\ b[Len(q)] = m
      /\ \A i \in 1..Len(q) - 1 : b[i] = q[i + 1]
  <2> HIDE DEF t
  <2>1. /\ Append(t, m) \in Seq(S) /\ Len(Append(t, m)) = Len(t) + 1
        /\ Append(t, m)[Len(t) + 1] = m
        /\ \A i \in 1..Len(t) : Append(t, m)[i] = t[i]
    BY <1>6, AppendPlaces
  <2>2. Len(t) + 1 = Len(q)
    BY <1>1, <1>6
  <2> QED
    BY <1>6, <2>1, <2>2 DEF t
<1> HIDE DEF a, b, t
<1>8. ASSUME NEW i \in 1..Len(q) PROVE a[i] = b[i]
  <2>1. CASE i = Len(q)
    BY <1>2, <1>5, <1>7, <2>1
  <2>2. CASE i # Len(q)
    <3>1. Len(q) \in Nat
      BY <1>1
    <3>2. i \in 1..Len(q) - 1 /\ i + 1 \in 1..Len(q)
      BY <2>2, <3>1
    <3> QED
      BY <1>3, <1>5, <1>7, <3>2
  <2> QED
    BY <2>1, <2>2
<1>9. a = b
  BY <1>1, <1>5, <1>7, <1>8
<1> QED
  BY <1>2, <1>3, <1>4, <1>1, <1>9 DEF a, b, s

\* The side after m has been put into the pipe of c.
Grown(v, c, m) ==
    [peer |-> v.peer, reader |-> v.reader,
     pipe |-> [v.pipe EXCEPT ![c] = Append(v.pipe[c], m)]]

\* Reading a chunk and putting a message into a pipe commute, because what is
\* read to its end is in the pipe.
LEMMA ReadsGrown ==
    ASSUME NEW v \in Side, NEW u \in Side, NEW chunk \in Chunk, Reads(v, chunk, u),
           NEW c \in ChunkStreams, NEW m \in Message
    PROVE  /\ Grown(v, c, m) \in Side
           /\ Reads(Grown(v, c, m), chunk, Grown(u, c, m))
<1> DEFINE d == StreamOf(chunk)
           a == Applied(v.reader[d], chunk.header)
           done == FilledWith(a, v.peer)
<1>1. d \in ChunkStreams
  BY StreamKnown
<1>2. /\ v.pipe \in [ChunkStreams -> Seq(Message)] /\ u.pipe \in [ChunkStreams -> Seq(Message)]
      /\ v.peer \in Sizes /\ v.reader \in [ChunkStreams -> ReaderState]
  BY DEF Side
<1>3. /\ WantsExt(v.reader[d], chunk.header) = (chunk.header.ext # <<>>)
      /\ a.length > a.got /\ Takes(a, v.peer) = chunk.body
      /\ u.reader = [v.reader EXCEPT ![d] = done]
      /\ done.completed =>
           /\ v.pipe[d] # <<>> /\ Head(v.pipe[d]) = Completed(done, chunk.size)
           /\ u.pipe = [v.pipe EXCEPT ![d] = Tail(v.pipe[d])]
           /\ u.peer = IF done.typeID = SetChunkSizeType THEN chunk.size ELSE v.peer
      /\ ~done.completed => u.pipe = v.pipe /\ u.peer = v.peer
  BY Zenon DEF Reads
<1> DEFINE vp == [v.pipe EXCEPT ![c] = Append(v.pipe[c], m)]
           up == [u.pipe EXCEPT ![c] = Append(u.pipe[c], m)]
<1>4. vp \in [ChunkStreams -> Seq(Message)]
  BY <1>2
<1>5. Grown(v, c, m) \in Side
  BY <1>2, <1>4 DEF Grown, Side
<1>6. /\ Grown(v, c, m).peer = v.peer /\ Grown(v, c, m).reader = v.reader
      /\ Grown(v, c, m).pipe = vp
      /\ Grown(u, c, m).peer = u.peer /\ Grown(u, c, m).reader = u.reader
      /\ Grown(u, c, m).pipe = up
  BY DEF Grown
<1>7. ASSUME v.pipe[d] # <<>>, u.pipe = [v.pipe EXCEPT ![d] = Tail(v.pipe[d])]
      PROVE  /\ vp[d] # <<>> /\ Head(vp[d]) = Head(v.pipe[d])
             /\ up = [vp EXCEPT ![d] = Tail(vp[d])]
  <2> DEFINE q == v.pipe[d]
  <2>1. q \in Seq(Message) /\ q # <<>>
    BY <1>1, <1>2, <1>7
  <2>2. CASE c = d
    <3>1. vp[d] = Append(q, m)
      BY <1>1, <1>2, <2>2
    <3> HIDE DEF q
    <3>2. vp[d] # <<>> /\ Head(vp[d]) = Head(q) /\ Tail(vp[d]) = Append(Tail(q), m)
      <4> HIDE DEF vp, up
      <4> QED
        BY <2>1, <3>1, PipeEnds
    <3>3. u.pipe[d] = Tail(q)
      BY <1>1, <1>2, <1>7 DEF q
    <3>4. up = [vp EXCEPT ![d] = Append(Tail(q), m)]
      BY <1>1, <1>2, <1>7, <2>2, <3>3
    <3> QED
      BY <3>2, <3>4 DEF q
  <2>3. CASE c # d
    BY <1>1, <1>2, <1>7, <2>1, <2>3
  <2> QED
    BY <2>2, <2>3
<1>8. u.pipe = v.pipe => up = vp
  OBVIOUS
<1> HIDE DEF vp, up
<1> QED
  BY <1>3, <1>5, <1>6, <1>7, <1>8, Zenon DEF Reads

-----------------------------------------------------------------------------
(* The inductive invariant *)

\* Nothing has been written, nothing read: the two sides start in step.
LEMMA InitInStep == Init => Once /\ ~broken /\ \E g : Ahead(g) /\ SidesInStep(g[Len(wire)])
<1> SUFFICES ASSUME Init
             PROVE  Once /\ ~broken /\ \E g : Ahead(g) /\ SidesInStep(g[Len(wire)])
  OBVIOUS
<1>1. /\ queue = <<>> /\ wire = <<>> /\ sizeReq = 0 /\ ~broken
      /\ selfSize = DefaultChunkSize /\ peerSize = DefaultChunkSize
      /\ writer = [c \in ChunkStreams |-> NewWriter]
      /\ reader = [c \in ChunkStreams |-> NewReader]
      /\ pipe = [c \in ChunkStreams |-> <<>>]
  BY DEF Init
<1>2. DOMAIN queue = {} /\ Len(wire) = 0
  BY <1>1
<1>3. Once /\ \A c : Idle(c)
  BY <1>2 DEF Once, Idle
<1>4. Now \in Side
  <2>1. NewReader \in ReaderState
    BY Widths DEF NewReader, ReaderState
  <2>2. reader \in [ChunkStreams -> ReaderState] /\ pipe \in [ChunkStreams -> Seq(Message)]
    BY <1>1, <2>1
  <2>3. peerSize \in Sizes
    BY <1>1 DEF Sizes
  <2> QED
    BY <2>2, <2>3 DEF Now, Side
<1>5. PICK g : g = [i \in 0..0 |-> Now]
  OBVIOUS
<1>6. g \in [0..0 -> Side] /\ g[0] = Now
  BY <1>4, <1>5
<1>7. Ahead(g)
  <2>1. \A i \in 1..Len(wire) : Reads(g[i - 1], wire[i], g[i])
    BY <1>2
  <2>2. ASSUME NEW c \in ChunkStreams, NEW i \in 0..Len(wire), NEW j \in 0..Len(wire)
        PROVE  Untouched(g, c, i, j)
    <3>1. i = j
      BY <1>2
    <3> QED
      BY <3>1 DEF Untouched
  <2> QED
    BY <1>2, <1>6, <2>1, <2>2 DEF Ahead
<1>8. SidesInStep(Now)
  <2>1. /\ Now.peer = peerSize /\ Now.reader = reader /\ Now.pipe = pipe
    BY DEF Now
  <2>2. SizeInStep(Now)
    BY <1>1, <1>2, <2>1 DEF SizeInStep
  <2>3. ASSUME NEW c \in ChunkStreams PROVE StreamInStep(c, Now)
    <3>1. writer[c] = NewWriter /\ reader[c] = NewReader /\ pipe[c] = <<>>
      BY <1>1
    <3>2. Between(c, writer[c], reader[c])
      BY <3>1 DEF Between
    <3> QED
      BY <1>3, <2>1, <3>1, <3>2 DEF StreamInStep
  <2> QED
    BY <2>2, <2>3 DEF SidesInStep
<1> QED
  BY <1>1, <1>2, <1>3, <1>6, <1>7, <1>8

\* A message that is loaded goes into the pipe, wherever the reading side is.
LEMMA AheadGrows ==
    ASSUME TInv, NEW g, Ahead(g), NEW c \in ChunkStreams, NEW m \in Message,
           pipe' = [pipe EXCEPT ![c] = Append(@, m)],
           UNCHANGED <<peerSize, wire, reader>>
    PROVE  \E f : Ahead(f)' /\ f[Len(wire)] = Grown(g[Len(wire)], c, m)
<1>1. /\ g \in [0..Len(wire) -> Side] /\ g[0] = Now
      /\ \A i \in 1..Len(wire) : Reads(g[i - 1], wire[i], g[i])
      /\ \A d \in ChunkStreams, i, j \in 0..Len(wire) : i <= j => Untouched(g, d, i, j)
  BY DEF Ahead
<1>2. wire \in Seq(Chunk) /\ Len(wire) \in Nat /\ \A i \in 1..Len(wire) : wire[i] \in Chunk
  BY DEF TInv, Shape
<1>3. PICK f : f = [i \in 0..Len(wire) |-> Grown(g[i], c, m)]
  OBVIOUS
<1>4. \A v \in Side : Grown(v, c, m) \in Side
  BY DEF Grown, Side
<1>5. f \in [0..Len(wire) -> Side] /\ \A i \in 0..Len(wire) : f[i] = Grown(g[i], c, m)
  BY <1>1, <1>3, <1>4
<1>6. f[0] = Now'
  <2>1. g[0].peer = peerSize /\ g[0].reader = reader /\ g[0].pipe = pipe
    BY <1>1 DEF Now
  <2>2. f[0] = [peer |-> peerSize, reader |-> reader,
                pipe |-> [pipe EXCEPT ![c] = Append(pipe[c], m)]]
    BY <1>2, <1>5, <2>1 DEF Grown
  <2> QED
    BY <2>2 DEF Now
<1>7. ASSUME NEW i \in 1..Len(wire) PROVE Reads(f[i - 1], wire[i], f[i])
  <2>1. i \in 0..Len(wire) /\ i - 1 \in 0..Len(wire)
    BY <1>2
  <2>2. g[i] \in Side /\ g[i - 1] \in Side
    BY <1>1, <2>1
  <2>3. Reads(Grown(g[i - 1], c, m), wire[i], Grown(g[i], c, m))
    BY <1>1, <1>2, <2>2, ReadsGrown
  <2> QED
    BY <1>5, <2>1, <2>3
<1>8. ASSUME NEW d \in ChunkStreams, NEW i \in 0..Len(wire), NEW j \in 0..Len(wire), i <= j
      PROVE  Untouched(f, d, i, j)'
  <2>1. Untouched(g, d, i, j)
    BY <1>1, <1>8
  <2>2. /\ f[i].reader = g[i].reader /\ f[i].peer = g[i].peer
        /\ f[j].reader = g[j].reader /\ f[j].peer = g[j].peer
    BY <1>5 DEF Grown
  <2>3. wire' = wire
    OBVIOUS
  <2> QED
    BY <2>1, <2>2, <2>3 DEF Untouched
<1>9. Ahead(f)'
  <2>1. wire' = wire
    OBVIOUS
  <2> QED
    BY <1>5, <1>6, <1>7, <1>8, <2>1 DEF Ahead
<1>10. Len(wire) \in 0..Len(wire)
  BY <1>2
<1> QED
  BY <1>5, <1>9, <1>10

\* The writing side after a message has been loaded.
LEMMA LoadInStep ==
    ASSUME TInv, Once, NEW v, \A d \in ChunkStreams : StreamInStep(d, v),
           v \in Side, NEW c \in ChunkStreams, NEW m, MayWrite(c, m), m \in Message,
           Load(c, m)
    PROVE  Once' /\ \A d \in ChunkStreams : StreamInStep(d, Grown(v, c, m))'
<1>1. /\ Idle(c) /\ writer' = [writer EXCEPT ![c] = Loaded(@, m)]
      /\ queue' = Append(queue, c)
  BY DEF Load
<1>2. /\ writer \in [ChunkStreams -> WriterState] /\ queue \in Seq(ChunkStreams)
  BY DEF TInv, Shape
<1>3. /\ DOMAIN queue' = 1..Len(queue) + 1 /\ DOMAIN queue = 1..Len(queue)
      /\ Len(queue) \in Nat /\ (\A i \in 1..Len(queue) : queue'[i] = queue[i])
      /\ queue'[Len(queue) + 1] = c
  BY <1>1, <1>2, AppendPlaces
<1>4. \A i \in 1..Len(queue) + 1 : i \in 1..Len(queue) \/ i = Len(queue) + 1
  BY <1>3
<1>5. \A i \in 1..Len(queue) : queue[i] # c
  BY <1>1, <1>3 DEF Idle
<1>6. Once'
  <2>1. \A i, j \in 1..Len(queue) : queue[i] = queue[j] => i = j
    BY <1>3 DEF Once
  <2> QED
    BY <1>3, <1>4, <1>5, <2>1 DEF Once
<1>7. ~Idle(c)' /\ \A d \in ChunkStreams \ {c} : Idle(d)' <=> Idle(d)
  <2>1. Len(queue) + 1 \in 1..Len(queue) + 1
    BY <1>3
  <2>2. \A i \in 1..Len(queue) : i \in 1..Len(queue) + 1
    BY <1>3
  <2> QED
    BY <1>3, <1>4, <2>1, <2>2 DEF Idle
<1>8. /\ Grown(v, c, m).peer = v.peer /\ Grown(v, c, m).reader = v.reader
      /\ Grown(v, c, m).pipe = [v.pipe EXCEPT ![c] = Append(v.pipe[c], m)]
      /\ v.pipe \in [ChunkStreams -> Seq(Message)]
  BY DEF Grown, Side
<1>9. ASSUME NEW d \in ChunkStreams, d # c PROVE StreamInStep(d, Grown(v, c, m))'
  <2>1. /\ writer'[d] = writer[d] /\ Grown(v, c, m).pipe[d] = v.pipe[d]
        /\ (Idle(d)' <=> Idle(d))
    BY <1>1, <1>2, <1>7, <1>8, <1>9
  <2>2. StreamInStep(d, v)
    OBVIOUS
  <2> QED
    BY <1>8, <2>1, <2>2 DEF StreamInStep
<1>10. StreamInStep(c, Grown(v, c, m))'
  <2> DEFINE w == Loaded(writer[c], m)
  <2>1. writer'[c] = w /\ writer[c] \in WriterState
    BY <1>1, <1>2
  <2>2. /\ w.left = m.length /\ w.newChunk
        /\ w.timestamp = m.timestamp /\ w.length = m.length
        /\ w.typeID = m.typeID /\ w.streamID = m.streamID
        /\ w.size = m.size /\ w.header = writer[c].header
    BY <2>1, LoadedType
  <2> HIDE DEF w
  <2>3. v.pipe[c] = <<>> /\ Between(c, writer[c], v.reader[c])
    BY <1>1 DEF StreamInStep
  <2>4. Grown(v, c, m).pipe[c] = <<m>>
    BY <1>8, <2>3
  <2>5. MessageOf(w) = m
    <3>1. m = [timestamp |-> m.timestamp, length |-> m.length, typeID |-> m.typeID,
               streamID |-> m.streamID, size |-> m.size]
      <4>1. CASE m \in MediaMessage
        BY <4>1 DEF MediaMessage
      <4>2. CASE \E s \in ChunkSizes : m = SetChunkSize(s)
        BY <4>2 DEF SetChunkSize
      <4> QED
        BY <4>1, <4>2 DEF Message
    <3> QED
      BY <2>2, <3>1 DEF MessageOf
  <2>6. Between(c, w, v.reader[c])
    BY <2>2, <2>3 DEF Between, Agree
  <2>7. InStep(c, w, v.reader[c])
    BY <2>2, <2>6 DEF InStep
  <2> QED
    BY <1>7, <1>8, <2>1, <2>4, <2>5, <2>7 DEF StreamInStep
<1> QED
  BY <1>6, <1>9, <1>10

\* In plain use the reader takes no more than a basic header for one.
LEMMA HeaderTaken ==
    ASSUME PlainUse, NEW chunk \in Chunk
    PROVE  ~OverRead(chunk.basic)
<1>1. PICK c \in ChunkStreams : chunk.basic = EncodeBasicHeader(c)
  BY DEF Chunk
<1>2. c \in ChunkStreamID
  <2>1. Control \in ChunkStreamID
    BY DEF Control, ChunkStreamID
  <2> QED
    BY <2>1, MediaAssumption, Zenon DEF ChunkStreams
<1>3. c < 320
  <2>1. CASE c \in Media
    BY <2>1, Zenon DEF PlainUse
  <2>2. CASE c = Control
    BY <2>2 DEF Control
  <2> QED
    BY <2>1, <2>2 DEF ChunkStreams
<1> QED
  BY <1>1, <1>2, <1>3, HeaderAlone

\* The chunk that is read is the next one the reading side had ahead of it.
LEMMA AheadShifts ==
    ASSUME PlainUse, TInv, NEW g, Ahead(g), ReadChunk
    PROVE  /\ ~broken'
           /\ \E f : Ahead(f)' /\ f[Len(wire')] = g[Len(wire)]
           /\ \/ UNCHANGED <<pipe, last>>
              \/ \E c \in ChunkStreams :
                   /\ pipe[c] # <<>>
                   /\ last' = [last EXCEPT ![c] = Head(pipe[c])]
                   /\ pipe' = [pipe EXCEPT ![c] = Tail(@)]
<1> DEFINE chunk == Head(wire)
           c == StreamOf(chunk)
           a == Applied(reader[c], chunk.header)
           done == FilledWith(a, peerSize)
<1>1. /\ wire # <<>> /\ ~broken /\ wire' = Tail(wire)
      /\ \/ /\ \/ OverRead(chunk.basic)
               \/ WantsExt(reader[c], chunk.header) # (chunk.header.ext # <<>>)
               \/ a.length <= a.got
               \/ Takes(a, peerSize) # chunk.body
         \/ /\ WantsExt(reader[c], chunk.header) = (chunk.header.ext # <<>>)
            /\ a.length > a.got /\ Takes(a, peerSize) = chunk.body
            /\ reader' = [reader EXCEPT ![c] = done]
            /\ done.completed =>
                 /\ last' = [last EXCEPT ![c] = Completed(done, chunk.size)]
                 /\ pipe' = [pipe EXCEPT ![c] = Tail(@)]
                 /\ peerSize' = IF Completed(done, chunk.size).typeID = SetChunkSizeType
                                THEN Completed(done, chunk.size).size ELSE peerSize
            /\ ~done.completed => UNCHANGED <<peerSize, pipe, last>>
            /\ UNCHANGED broken
  BY ReadChunkStep, Zenon DEF TInv
<1>2. /\ g \in [0..Len(wire) -> Side] /\ g[0] = Now
      /\ \A i \in 1..Len(wire) : Reads(g[i - 1], wire[i], g[i])
      /\ \A d \in ChunkStreams, i, j \in 0..Len(wire) : i <= j => Untouched(g, d, i, j)
  BY DEF Ahead
<1>3. /\ wire \in Seq(Chunk) /\ Len(wire) \in Nat \ {0} /\ chunk = wire[1]
      /\ wire' \in Seq(Chunk) /\ Len(wire') = Len(wire) - 1 /\ chunk \in Chunk
      /\ \A i \in 1..Len(wire) - 1 : wire'[i] = wire[i + 1]
  <2>1. wire \in Seq(Chunk)
    BY DEF TInv, Shape
  <2> QED
    BY <1>1, <2>1, TailPlaces
<1>4. Len(wire) \in Nat \ {0} /\ Len(wire') = Len(wire) - 1
  BY <1>3
<1>5. g[1] \in Side /\ 1 \in 1..Len(wire) /\ 1 - 1 = 0
  BY <1>2, <1>4
<1>6. Reads(Now, chunk, g[1])
  <2>1. Reads(g[1 - 1], wire[1], g[1])
    BY <1>2, <1>5
  <2> QED
    BY <1>2, <1>3, <1>5, <2>1
<1>7. Now.peer = peerSize /\ Now.reader = reader /\ Now.pipe = pipe
  BY DEF Now
<1>8. /\ WantsExt(reader[c], chunk.header) = (chunk.header.ext # <<>>)
      /\ a.length > a.got /\ Takes(a, peerSize) = chunk.body
      /\ g[1].reader = [reader EXCEPT ![c] = done]
      /\ done.completed =>
           /\ pipe[c] # <<>> /\ Head(pipe[c]) = Completed(done, chunk.size)
           /\ g[1].pipe = [pipe EXCEPT ![c] = Tail(pipe[c])]
           /\ g[1].peer = IF done.typeID = SetChunkSizeType THEN chunk.size ELSE peerSize
      /\ ~done.completed => g[1].pipe = pipe /\ g[1].peer = peerSize
  BY <1>6, <1>7, Zenon DEF Reads
<1>9. c \in ChunkStreams /\ a \in ReaderState
  <2>1. c \in ChunkStreams
    BY <1>3, StreamKnown
  <2>2. reader[c] \in ReaderState /\ chunk.header \in Header
    BY <1>3, <2>1 DEF TInv, Shape, Chunk
  <2> QED
    BY <2>1, <2>2, AppliedType
<1>10. ~(a.length <= a.got) /\ ~OverRead(chunk.basic)
  BY <1>3, <1>8, <1>9, HeaderTaken DEF ReaderState
<1> HIDE DEF chunk, c, a, done
<1>11. /\ reader' = [reader EXCEPT ![c] = done]
       /\ done.completed =>
            /\ last' = [last EXCEPT ![c] = Completed(done, chunk.size)]
            /\ pipe' = [pipe EXCEPT ![c] = Tail(@)]
            /\ peerSize' = IF Completed(done, chunk.size).typeID = SetChunkSizeType
                           THEN Completed(done, chunk.size).size ELSE peerSize
       /\ ~done.completed => UNCHANGED <<peerSize, pipe, last>>
       /\ UNCHANGED broken
  BY <1>1, <1>8, <1>10, Zenon
<1>12. /\ Completed(done, chunk.size).typeID = done.typeID
       /\ Completed(done, chunk.size).size = chunk.size
  BY DEF Completed
<1>13. reader' = g[1].reader /\ pipe' = g[1].pipe /\ peerSize' = g[1].peer
  <2>1. CASE done.completed
    BY <1>8, <1>11, <1>12, <2>1
  <2>2. CASE ~done.completed
    BY <1>8, <1>11, <2>2
  <2> QED
    BY <2>1, <2>2
<1>14. Now' = g[1]
  <2>1. g[1] = [peer |-> g[1].peer, reader |-> g[1].reader, pipe |-> g[1].pipe]
    BY <1>5 DEF Side
  <2> QED
    BY <1>13, <2>1 DEF Now
<1>15. PICK f : f = [i \in 0..Len(wire) - 1 |-> g[i + 1]]
  OBVIOUS
<1>16. \A i \in 0..Len(wire) - 1 : i + 1 \in 0..Len(wire) /\ f[i] = g[i + 1]
  BY <1>4, <1>15
<1>17. f \in [0..Len(wire) - 1 -> Side]
  BY <1>2, <1>15, <1>16
<1>18. f[0] = Now'
  <2>1. 0 \in 0..Len(wire) - 1 /\ 0 + 1 = 1
    BY <1>4
  <2> QED
    BY <1>14, <1>16, <2>1
<1>19. ASSUME NEW i \in 1..Len(wire) - 1 PROVE Reads(f[i - 1], wire'[i], f[i])
  <2>1. /\ i - 1 \in 0..Len(wire) - 1 /\ i \in 0..Len(wire) - 1 /\ i + 1 \in 1..Len(wire)
        /\ (i - 1) + 1 = i /\ (i + 1) - 1 = i
    BY <1>4
  <2>2. f[i - 1] = g[i] /\ f[i] = g[i + 1] /\ wire'[i] = wire[i + 1]
    BY <1>3, <1>16, <2>1
  <2>3. Reads(g[(i + 1) - 1], wire[i + 1], g[i + 1])
    BY <1>2, <2>1
  <2> QED
    BY <2>1, <2>2, <2>3
<1>20. ASSUME NEW d \in ChunkStreams, NEW i \in 0..Len(wire) - 1, NEW j \in 0..Len(wire) - 1,
              i <= j, \A k \in i + 1..j : StreamOf(wire'[k]) # d
       PROVE  /\ f[i].reader[d] = f[j].reader[d]
              /\ d = Control => f[i].peer = f[j].peer
  <2>1. /\ i + 1 \in 0..Len(wire) /\ j + 1 \in 0..Len(wire) /\ i + 1 <= j + 1
        /\ f[i] = g[i + 1] /\ f[j] = g[j + 1]
    BY <1>4, <1>16, <1>20
  <2>2. ASSUME NEW k \in (i + 1) + 1..j + 1 PROVE StreamOf(wire[k]) # d
    <3>1. k - 1 \in i + 1..j /\ k - 1 \in 1..Len(wire) - 1 /\ (k - 1) + 1 = k
      BY <1>4
    <3>2. wire'[k - 1] = wire[(k - 1) + 1]
      BY <1>3, <3>1
    <3> QED
      BY <1>20, <3>1, <3>2
  <2>3. Untouched(g, d, i + 1, j + 1)
    BY <1>2, <2>1
  <2> QED
    BY <2>1, <2>2, <2>3, Zenon DEF Untouched
<1>21. Ahead(f)'
  <2>1. ASSUME NEW d \in ChunkStreams, NEW i \in 0..Len(wire) - 1, NEW j \in 0..Len(wire) - 1,
               i <= j
        PROVE  Untouched(f, d, i, j)'
    BY <1>20, <2>1, Zenon DEF Untouched
  <2> QED
    BY <1>4, <1>17, <1>18, <1>19, <2>1 DEF Ahead
<1>22. f[Len(wire')] = g[Len(wire)]
  <2>1. Len(wire') \in 0..Len(wire) - 1 /\ Len(wire') + 1 = Len(wire)
    BY <1>4
  <2> QED
    BY <1>16, <2>1
<1>23. \/ UNCHANGED <<pipe, last>>
       \/ \E d \in ChunkStreams :
            /\ pipe[d] # <<>>
            /\ last' = [last EXCEPT ![d] = Head(pipe[d])]
            /\ pipe' = [pipe EXCEPT ![d] = Tail(@)]
  <2>1. CASE done.completed
    BY <1>8, <1>9, <1>11, <2>1
  <2>2. CASE ~done.completed
    BY <1>11, <2>2
  <2> QED
    BY <2>1, <2>2
<1> QED
  BY <1>1, <1>11, <1>21, <1>22, <1>23

\* The writing side does not take part in that.
LEMMA StaysInStep ==
    ASSUME NEW v, SidesInStep(v), UNCHANGED <<selfSize, sizeReq, writer, queue>>
    PROVE  SidesInStep(v)'
BY DEF SidesInStep, SizeInStep, StreamInStep, Idle

\* CreateStream uses the new size before it is announced.
LEMMA ChangeInStep ==
    ASSUME PlainUse, TInv, NEW v, SidesInStep(v), ChangeSize
    PROVE  SidesInStep(v)'
<1>1. /\ queue = <<>> /\ sizeReq' # 0 /\ sizeReq' = selfSize'
      /\ UNCHANGED <<peerSize, writer, queue, wire, reader, broken, pipe, last>>
  BY SizesPositive DEF ChangeSize, PlainUse
<1>2. DOMAIN queue = {}
  BY <1>1
<1>3. SizeInStep(v)'
  BY <1>1, <1>2 DEF SizeInStep
<1>4. \A c \in ChunkStreams : StreamInStep(c, v)'
  BY <1>1 DEF SidesInStep, StreamInStep, Idle
<1> QED
  BY <1>3, <1>4 DEF SidesInStep

\* The writer whose turn it is, in step with its reader: what WriteChunk writes is
\* read right.
LEMMA TurnInStep ==
    ASSUME PlainUse, TInv, NEW v \in Side, SidesInStep(v), queue # <<>>
    PROVE  LET c == Head(queue)
               w == writer[c]
           IN  /\ c \in ChunkStreams /\ w \in WriterState /\ w.left <= w.length
               /\ v.pipe[c] = <<MessageOf(w)>> /\ MayWrite(c, MessageOf(w))
               /\ c = Control => w.length = 1 /\ w.size = selfSize
                                 /\ w.typeID = SetChunkSizeType
               /\ c # Control => v.peer = selfSize /\ w.typeID # SetChunkSizeType
               /\ ReadsRight(c, w, v.reader[c], v.peer)
<1> DEFINE c == Head(queue)
           w == writer[c]
           r == v.reader[c]
<1>1. /\ c \in ChunkStreams /\ c = queue[1] /\ DOMAIN queue = 1..Len(queue)
      /\ Len(queue) \in Nat \ {0}
  <2>1. queue \in Seq(ChunkStreams)
    BY DEF TInv, Shape
  <2> QED
    BY <2>1, TailPlaces
<1>2. 1 \in DOMAIN queue
  BY <1>1
<1>3. ~Idle(c)
  BY <1>1, <1>2 DEF Idle
<1> HIDE DEF c
<1>4. w \in WriterState /\ w.left <= w.length
  BY <1>1 DEF TInv, Shape
<1>5. r \in ReaderState /\ v.peer \in Nat \ {0} /\ selfSize \in Nat \ {0}
  <2>1. v.peer \in Sizes /\ v.reader \in [ChunkStreams -> ReaderState]
    BY DEF Side
  <2>2. selfSize \in Sizes
    BY DEF TInv, Shape
  <2> QED
    BY <1>1, <2>1, <2>2, SizesPositive
<1>6. /\ v.pipe[c] = <<MessageOf(w)>> /\ MayWrite(c, MessageOf(w)) /\ InStep(c, w, r)
  BY <1>1, <1>3 DEF SidesInStep, StreamInStep
<1>7. c = Control => w.length = 1 /\ w.size = selfSize /\ w.typeID = SetChunkSizeType
  <2> SUFFICES ASSUME c = Control
               PROVE  w.length = 1 /\ w.size = selfSize /\ w.typeID = SetChunkSizeType
    OBVIOUS
  <2>1. PICK s \in ChunkSizes : MessageOf(w) = SetChunkSize(s)
    BY <1>6 DEF MayWrite
  <2>2. w.length = 1 /\ w.typeID = SetChunkSizeType
    BY <2>1 DEF MessageOf, SetChunkSize
  <2>3. w.size = selfSize
    BY <1>1, <1>2 DEF SidesInStep, SizeInStep
  <2> QED
    BY <2>2, <2>3
<1>8. c # Control => v.peer = selfSize
  BY <1>1 DEF SidesInStep, SizeInStep
<1>9. c # Control => w.typeID # SetChunkSizeType
  BY <1>1 DEF TInv, Announces, ChunkStreams
<1> HIDE DEF w, r
<1>10. ReadsRight(c, w, r, v.peer)
  <2>1. CASE w.newChunk /\ w.left = w.length /\ Between(c, w, r)
    <3>1. v.peer = selfSize \/ w.length = 1
      BY <1>7, <1>8
    <3> QED
      BY <1>1, <1>4, <1>5, <1>6, <2>1, <3>1, FirstChunk
  <2>2. CASE Midway(w, r)
    <3>1. c # Control
      BY <1>4, <1>5, <1>7, <2>2 DEF Midway, WriterState, ReaderState
    <3> QED
      BY <1>1, <1>4, <1>5, <1>6, <1>8, <2>2, <3>1, NextChunk
  <2> QED
    BY <1>6, <2>1, <2>2 DEF InStep
<1> QED
  BY <1>1, <1>4, <1>6, <1>7, <1>8, <1>9, <1>10 DEF c, w, r

\* The side that has read all that was sent reads the new chunk, too.
LEMMA AheadExtends ==
    ASSUME TInv, NEW g, Ahead(g), NEW chunk \in Chunk, NEW u \in Side,
           Reads(g[Len(wire)], chunk, u), wire' = Append(wire, chunk),
           \A d \in ChunkStreams : StreamOf(chunk) # d =>
              /\ u.reader[d] = g[Len(wire)].reader[d]
              /\ d = Control => u.peer = g[Len(wire)].peer,
           UNCHANGED <<peerSize, reader, pipe>>
    PROVE  \E f : Ahead(f)' /\ f[Len(wire')] = u
<1> DEFINE n == Len(wire)
<1>1. /\ g \in [0..n -> Side] /\ g[0] = Now
      /\ \A i \in 1..n : Reads(g[i - 1], wire[i], g[i])
      /\ \A d \in ChunkStreams, i, j \in 0..n : i <= j => Untouched(g, d, i, j)
  BY DEF Ahead
<1>2. /\ n \in Nat /\ Len(wire') = n + 1
      /\ (\A i \in 1..n : wire'[i] = wire[i]) /\ wire'[n + 1] = chunk
  <2>1. wire \in Seq(Chunk)
    BY DEF TInv, Shape
  <2> QED
    BY <2>1, AppendPlaces
<1>3. n \in Nat /\ Len(wire') = n + 1
  BY <1>2
<1>4. /\ Reads(g[n], chunk, u)
      /\ \A d \in ChunkStreams : StreamOf(chunk) # d =>
              /\ u.reader[d] = g[n].reader[d]
              /\ d = Control => u.peer = g[n].peer
  OBVIOUS
<1> HIDE DEF n
<1>5. PICK f : f = [i \in 0..n + 1 |-> IF i = n + 1 THEN u ELSE g[i]]
  OBVIOUS
<1>6. f[n + 1] = u /\ \A i \in 0..n : f[i] = g[i]
  BY <1>3, <1>5
<1>7. \A i \in 0..n + 1 : i \in 0..n \/ i = n + 1
  BY <1>3
<1>8. f \in [0..n + 1 -> Side]
  BY <1>1, <1>5, <1>7
<1>9. f[0] = Now'
  <2>1. 0 \in 0..n
    BY <1>3
  <2> QED
    BY <1>1, <1>6, <2>1 DEF Now
<1>10. ASSUME NEW i \in 1..n + 1 PROVE Reads(f[i - 1], wire'[i], f[i])
  <2>1. CASE i \in 1..n
    <3>1. i - 1 \in 0..n /\ i \in 0..n
      BY <1>3, <2>1
    <3> QED
      BY <1>1, <1>2, <1>6, <2>1, <3>1
  <2>2. CASE i = n + 1
    <3>1. i - 1 = n /\ n \in 0..n
      BY <1>3, <2>2
    <3> QED
      BY <1>2, <1>4, <1>6, <2>2, <3>1
  <2>3. i \in 1..n \/ i = n + 1
    BY <1>3
  <2> QED
    BY <2>1, <2>2, <2>3
<1>11. ASSUME NEW d \in ChunkStreams, NEW i \in 0..n + 1, NEW j \in 0..n + 1,
              i <= j, \A k \in i + 1..j : StreamOf(wire'[k]) # d
       PROVE  /\ f[i].reader[d] = f[j].reader[d]
              /\ d = Control => f[i].peer = f[j].peer
  <2>1. ASSUME NEW l \in 0..n, i <= l, l <= j
        PROVE  /\ g[i].reader[d] = g[l].reader[d]
               /\ d = Control => g[i].peer = g[l].peer
    <3>1. i \in 0..n
      BY <1>3, <2>1
    <3>2. Untouched(g, d, i, l)
      BY <1>1, <2>1, <3>1
    <3>3. ASSUME NEW k \in i + 1..l PROVE StreamOf(wire[k]) # d
      <4>1. k \in i + 1..j /\ k \in 1..n
        BY <1>3, <2>1
      <4> QED
        BY <1>2, <1>11, <4>1
    <3> QED
      BY <3>2, <3>3, Zenon DEF Untouched
  <2>2. CASE j \in 0..n
    <3>1. i \in 0..n
      BY <1>3, <1>11, <2>2
    <3> QED
      BY <1>6, <1>11, <2>1, <2>2, <3>1
  <2>3. CASE i = n + 1
    <3>1. i = j
      BY <1>3, <1>11, <2>3
    <3> QED
      BY <3>1
  <2>4. CASE i \in 0..n /\ j = n + 1
    <3>1. n \in 0..n /\ i <= n /\ n <= j /\ n + 1 \in i + 1..j
      BY <1>3, <2>4
    <3>2. StreamOf(chunk) # d
      BY <1>2, <1>11, <3>1
    <3>3. /\ g[i].reader[d] = g[n].reader[d]
          /\ d = Control => g[i].peer = g[n].peer
      BY <2>1, <3>1
    <3> QED
      BY <1>4, <1>6, <2>4, <3>2, <3>3
  <2> QED
    BY <1>7, <2>2, <2>3, <2>4
<1>12. Ahead(f)'
  <2>1. ASSUME NEW d \in ChunkStreams, NEW i \in 0..n + 1, NEW j \in 0..n + 1, i <= j
        PROVE  Untouched(f, d, i, j)'
    BY <1>11, <2>1, Zenon DEF Untouched
  <2> QED
    BY <1>3, <1>8, <1>9, <1>10, <2>1 DEF Ahead
<1> QED
  BY <1>3, <1>6, <1>12

\* The writer whose turn it was leaves the queue, or goes to its end.
LEMMA TurnOver ==
    ASSUME queue \in Seq(ChunkStreams), queue # <<>>, Once,
           NEW c, c = Head(queue),
           \/ queue' = Tail(queue)
           \/ queue' = Append(Tail(queue), c)
    PROVE  /\ Once'
           /\ \A d \in ChunkStreams \ {c} : Idle(d)' <=> Idle(d)
           /\ queue' = Tail(queue) => Idle(c)'
           /\ queue' = Append(Tail(queue), c) => ~Idle(c)'
           /\ \A i \in DOMAIN queue' :
                \/ queue'[i] = c /\ queue' = Append(Tail(queue), c)
                \/ \E j \in DOMAIN queue : j # 1 /\ queue'[i] = queue[j]
<1> DEFINE t == Tail(queue)
           n == Len(queue) - 1
<1>1. /\ Len(queue) \in Nat \ {0} /\ c = queue[1] /\ c \in ChunkStreams
      /\ t \in Seq(ChunkStreams) /\ Len(t) = n /\ DOMAIN t = 1..n
      /\ (\A i \in 1..n : t[i] = queue[i + 1])
      /\ DOMAIN queue = 1..Len(queue)
  BY TailPlaces
<1>2. n \in Nat /\ Len(queue) = n + 1 /\ DOMAIN queue = 1..n + 1 /\ Len(t) = n
  BY <1>1
<1>3. /\ c = queue[1] /\ c \in ChunkStreams /\ t \in Seq(ChunkStreams) /\ DOMAIN t = 1..n
      /\ \A i \in 1..n : t[i] = queue[i + 1]
  BY <1>1
<1>4. queue' = t \/ queue' = Append(t, c)
  OBVIOUS
<1> HIDE DEF t, n
<1>5. \A i, j \in 1..n + 1 : queue[i] = queue[j] => i = j
  BY <1>2, Zenon DEF Once
<1>6. ASSUME NEW i \in 1..n PROVE t[i] # c
  <2>1. i + 1 \in 1..n + 1 /\ 1 \in 1..n + 1 /\ i + 1 # 1
    BY <1>2
  <2> QED
    BY <1>3, <1>5, <2>1
<1>7. ASSUME NEW i \in 1..n, NEW j \in 1..n, t[i] = t[j] PROVE i = j
  <2>1. i + 1 \in 1..n + 1 /\ j + 1 \in 1..n + 1
    BY <1>2
  <2>2. i + 1 = j + 1
    BY <1>3, <1>5, <1>7, <2>1
  <2> QED
    BY <1>2, <2>2
<1>8. ASSUME NEW d \in ChunkStreams \ {c}
      PROVE  Idle(d) <=> \A i \in 1..n : t[i] # d
  <2>1. ASSUME Idle(d), NEW i \in 1..n PROVE t[i] # d
    <3>1. i + 1 \in 1..n + 1
      BY <1>2
    <3> QED
      BY <1>2, <1>3, <2>1, <3>1 DEF Idle
  <2>2. ASSUME \A i \in 1..n : t[i] # d, NEW i \in 1..n + 1 PROVE queue[i] # d
    <3>1. CASE i = 1
      BY <1>3, <3>1
    <3>2. CASE i # 1
      <4>1. i - 1 \in 1..n /\ (i - 1) + 1 = i
        BY <1>2, <3>2
      <4> QED
        BY <1>3, <2>2, <4>1
    <3> QED
      BY <3>1, <3>2
  <2> QED
    BY <1>2, <2>1, <2>2 DEF Idle
<1>9. \A i \in 1..n : \E j \in DOMAIN queue : j # 1 /\ t[i] = queue[j]
  <2> SUFFICES ASSUME NEW i \in 1..n
               PROVE  \E j \in DOMAIN queue : j # 1 /\ t[i] = queue[j]
    OBVIOUS
  <2>1. i + 1 \in DOMAIN queue /\ i + 1 # 1
    BY <1>2
  <2> QED
    BY <1>3, <2>1
<1>10. CASE queue' = t
  <2>1. queue' # Append(t, c)
    <3>1. Len(Append(t, c)) = n + 1
      BY <1>2, <1>3
    <3> QED
      BY <1>2, <1>10, <3>1
  <2>2. Once'
    BY <1>3, <1>7, <1>10, Zenon DEF Once
  <2>3. Idle(c)'
    BY <1>3, <1>6, <1>10, Zenon DEF Idle
  <2>4. \A d \in ChunkStreams \ {c} : Idle(d)' <=> Idle(d)
    BY <1>3, <1>8, <1>10, Zenon DEF Idle
  <2> QED
    BY <1>3, <1>9, <1>10, <2>1, <2>2, <2>3, <2>4, Zenon DEF t
<1>11. CASE queue' = Append(t, c)
  <2>1. /\ DOMAIN queue' = 1..n + 1 /\ queue'[n + 1] = c
        /\ \A i \in 1..n : queue'[i] = t[i]
    <3>1. /\ DOMAIN Append(t, c) = 1..Len(t) + 1 /\ Append(t, c)[Len(t) + 1] = c
          /\ \A i \in 1..Len(t) : Append(t, c)[i] = t[i]
      BY <1>3, AppendPlaces
    <3> QED
      BY <1>2, <1>11, <3>1
  <2>2. \A i \in 1..n + 1 : i \in 1..n \/ i = n + 1
    BY <1>2
  <2>3. (\A i \in 1..n : i \in 1..n + 1) /\ n + 1 \in 1..n + 1
    BY <1>2
  <2>4. Once'
    <3>1. ASSUME NEW i \in 1..n + 1, NEW j \in 1..n + 1, queue'[i] = queue'[j]
          PROVE  i = j
      BY <1>6, <1>7, <2>1, <2>2, <3>1, Zenon
    <3> QED
      BY <2>1, <3>1, Zenon DEF Once
  <2>5. ~Idle(c)' /\ \A d \in ChunkStreams \ {c} : Idle(d)' <=> Idle(d)
    <3>1. ~Idle(c)'
      BY <2>1, <2>3, Zenon DEF Idle
    <3>2. ASSUME NEW d \in ChunkStreams \ {c} PROVE Idle(d)' <=> Idle(d)
      <4>1. (\A i \in 1..n + 1 : queue'[i] # d) <=> \A i \in 1..n : t[i] # d
        BY <2>1, <2>2, <2>3, <3>2, Zenon
      <4> QED
        BY <1>8, <2>1, <4>1, Zenon DEF Idle
    <3> QED
      BY <3>1, <3>2
  <2>6. queue' # t
    <3>1. n + 1 # n
      BY <1>2
    <3>2. Len(Append(t, c)) = n + 1
      BY <1>2, <1>3
    <3> QED
      BY <1>2, <1>11, <3>1, <3>2
  <2>7. \A i \in DOMAIN queue' :
           \/ queue'[i] = c
           \/ \E j \in DOMAIN queue : j # 1 /\ queue'[i] = queue[j]
    BY <1>9, <2>1, <2>2, Zenon
  <2> QED
    BY <1>11, <2>4, <2>5, <2>6, <2>7, Zenon DEF t
<1> QED
  BY <1>4, <1>10, <1>11

\* WriteChunk takes the two sides from step to step.
LEMMA WriteInStep ==
    ASSUME PlainUse, TInv, Once, NEW v \in Side, SidesInStep(v), WriteChunk
    PROVE  LET c == Head(queue)
               chunk == ChunkOf(c, writer[c])
           IN  /\ Once' /\ chunk \in Chunk /\ wire' = Append(wire, chunk)
               /\ UNCHANGED <<peerSize, reader, broken, pipe, last>>
               /\ \E u \in Side :
                    /\ Reads(v, chunk, u) /\ SidesInStep(u)'
                    /\ \A d \in ChunkStreams : StreamOf(chunk) # d =>
                         /\ u.reader[d] = v.reader[d]
                         /\ d = Control => u.peer = v.peer
<1> PICK c : c = Head(queue)
  OBVIOUS
<1> PICK w : w = writer[c]
  OBVIOUS
<1> DEFINE chunk == ChunkOf(c, w)
           a == Applied(v.reader[c], chunk.header)
           done == FilledWith(a, v.peer)
           full == w.left = Taken(w)
<1>1. /\ queue # <<>> /\ c \in ChunkStreams /\ w \in WriterState
      /\ wire' = Append(wire, chunk)
      /\ writer' = [writer EXCEPT ![c] = Written(w)]
      /\ queue' = IF full THEN Tail(queue) ELSE Append(Tail(queue), c)
      /\ UNCHANGED <<selfSize, peerSize, sizeReq, reader, broken, pipe, last>>
  BY WriteChunkStep DEF TInv
<1>2. /\ w.left <= w.length /\ v.pipe[c] = <<MessageOf(w)>> /\ MayWrite(c, MessageOf(w))
      /\ c = Control => w.length = 1 /\ w.size = selfSize /\ w.typeID = SetChunkSizeType
      /\ c # Control => v.peer = selfSize /\ w.typeID # SetChunkSizeType
      /\ ReadsRight(c, w, v.reader[c], v.peer)
  BY <1>1, TurnInStep
<1>3. /\ writer \in [ChunkStreams -> WriterState] /\ selfSize \in Nat \ {0}
      /\ selfSize \in Sizes
      /\ v.peer \in Sizes /\ v.peer \in Nat \ {0}
      /\ v.reader \in [ChunkStreams -> ReaderState]
      /\ v.pipe \in [ChunkStreams -> Seq(Message)]
  BY SizesPositive DEF TInv, Shape, Side
<1>4. /\ Taken(w) \in Nat /\ (Taken(w) = w.left \/ Taken(w) = selfSize)
      /\ Taken(w) <= w.left
      /\ Written(w).timestamp = w.timestamp /\ Written(w).length = w.length
      /\ Written(w).typeID = w.typeID /\ Written(w).streamID = w.streamID
      /\ Written(w).size = w.size
  BY <1>1, <1>2, <1>3, WrittenType
<1>5. chunk \in Chunk /\ StreamOf(chunk) = c /\ chunk.size = w.size
  BY <1>1, <1>2, <1>3, ChunkType
<1>6. /\ chunk.header.ext = <<>> /\ ~WantsExt(v.reader[c], chunk.header)
      /\ a.length > a.got /\ Takes(a, v.peer) = Taken(w)
      /\ done.completed <=> full
      /\ full => /\ Completed(done, w.size) = MessageOf(w)
                 /\ Between(c, Written(w), done)
      /\ ~full => Midway(Written(w), done)
  BY <1>2, Zenon DEF ReadsRight
<1>7. chunk.body = Taken(w)
  BY DEF ChunkOf
<1>8. done \in ReaderState
  <2>1. chunk.header \in Header /\ v.reader[c] \in ReaderState
    BY <1>1, <1>3, <1>5 DEF Chunk
  <2>2. a \in ReaderState /\ ~a.completed
    BY <2>1, AppliedType
  <2> HIDE DEF a
  <2>3. a.got < a.length
    BY <1>6, <2>2 DEF ReaderState
  <2> QED
    BY <1>3, <2>2, <2>3, FilledType
<1> DEFINE size == IF full /\ c = Control THEN w.size ELSE v.peer
           rest == IF full THEN <<>> ELSE v.pipe[c]
<1>9. PICK u : u = [peer |-> size, reader |-> [v.reader EXCEPT ![c] = done],
                    pipe |-> [v.pipe EXCEPT ![c] = rest]]
  OBVIOUS
<1> HIDE DEF chunk, a, done, full
<1>10. rest \in Seq(Message) /\ size \in Sizes
  <2>1. rest \in Seq(Message)
    BY <1>1, <1>3
  <2>2. size \in Sizes
    BY <1>2, <1>3
  <2> QED
    BY <2>1, <2>2
<1> HIDE DEF size, rest
<1>11. /\ u \in Side /\ u.peer = size /\ u.reader = [v.reader EXCEPT ![c] = done]
       /\ u.pipe = [v.pipe EXCEPT ![c] = rest]
  BY <1>1, <1>3, <1>8, <1>9, <1>10 DEF Side
<1>12. /\ u.reader[c] = done /\ u.pipe[c] = rest
       /\ \A d \in ChunkStreams \ {c} : u.reader[d] = v.reader[d] /\ u.pipe[d] = v.pipe[d]
  BY <1>1, <1>3, <1>11
<1>13. Reads(v, chunk, u)
  <2>1. full => /\ v.pipe[c] # <<>> /\ Head(v.pipe[c]) = Completed(done, chunk.size)
                /\ Tail(v.pipe[c]) = <<>>
    BY <1>2, <1>5, <1>6
  <2>2. full => done.typeID = w.typeID
    <3>1. MessageOf(w).typeID = w.typeID
      BY DEF MessageOf
    <3>2. Completed(done, w.size).typeID = done.typeID
      BY DEF Completed
    <3> QED
      BY <1>6, <3>1, <3>2
  <2>3. full => u.peer = IF done.typeID = SetChunkSizeType THEN chunk.size ELSE v.peer
    BY <1>2, <1>5, <1>11, <2>2 DEF size
  <2>4. ~full => u.peer = v.peer /\ u.pipe = v.pipe
    BY <1>1, <1>3, <1>11 DEF size, rest
  <2>5. full => u.pipe = [v.pipe EXCEPT ![c] = Tail(v.pipe[c])]
    BY <1>11, <2>1 DEF rest
  <2>6. /\ WantsExt(v.reader[c], chunk.header) = (chunk.header.ext # <<>>)
        /\ a.length > a.got /\ Takes(a, v.peer) = chunk.body
    BY <1>6, <1>7 DEF WantsExt
  <2> QED
    BY <1>5, <1>6, <1>11, <2>1, <2>3, <2>4, <2>5, <2>6, Zenon DEF Reads, a, done
<1>14. \A d \in ChunkStreams : StreamOf(chunk) # d =>
         /\ u.reader[d] = v.reader[d]
         /\ d = Control => u.peer = v.peer
  BY <1>5, <1>11, <1>12 DEF size
<1>15. queue \in Seq(ChunkStreams) /\ 1 \in DOMAIN queue
  <2>1. queue \in Seq(ChunkStreams)
    BY DEF TInv, Shape
  <2> QED
    BY <1>1, <2>1
<1>16. /\ Once'
       /\ \A d \in ChunkStreams \ {c} : Idle(d)' <=> Idle(d)
       /\ full => Idle(c)'
       /\ ~full => ~Idle(c)'
       /\ \A i \in DOMAIN queue' :
            \/ queue'[i] = c /\ ~full
            \/ \E j \in DOMAIN queue : j # 1 /\ queue'[i] = queue[j]
  <2> HIDE DEF Once, Idle
  <2>1. CASE full
    <3>1. queue' = Tail(queue)
      BY <1>1, <2>1
    <3>2. /\ Once' /\ \A d \in ChunkStreams \ {c} : Idle(d)' <=> Idle(d)
          /\ queue' = Tail(queue) => Idle(c)'
          /\ queue' = Append(Tail(queue), c) => ~Idle(c)'
          /\ \A i \in DOMAIN queue' :
               \/ queue'[i] = c /\ queue' = Append(Tail(queue), c)
               \/ \E j \in DOMAIN queue : j # 1 /\ queue'[i] = queue[j]
      BY <1>1, <1>15, <3>1, TurnOver
    <3> QED
      BY <2>1, <3>1, <3>2, Zenon
  <2>2. CASE ~full
    <3>1. queue' = Append(Tail(queue), c)
      BY <1>1, <2>2
    <3>2. /\ Once' /\ \A d \in ChunkStreams \ {c} : Idle(d)' <=> Idle(d)
          /\ queue' = Append(Tail(queue), c) => ~Idle(c)'
          /\ \A i \in DOMAIN queue' :
               \/ queue'[i] = c /\ queue' = Append(Tail(queue), c)
               \/ \E j \in DOMAIN queue : j # 1 /\ queue'[i] = queue[j]
      BY <1>1, <1>15, <3>1, TurnOver
    <3> QED
      BY <2>2, <3>1, <3>2, Zenon
  <2> QED
    BY <2>1, <2>2
<1>17. c = Control => full
  <2> SUFFICES ASSUME c = Control PROVE full
    OBVIOUS
  <2>1. w.length = 1 /\ w.left \in Nat /\ w.left <= 1
    BY <1>1, <1>2 DEF WriterState
  <2> QED
    BY <1>3, <1>4, <2>1 DEF full
<1>18. sizeReq = 0 /\ u.peer = selfSize
  <2>1. sizeReq = 0
    BY <1>1 DEF SidesInStep, SizeInStep
  <2>2. CASE c = Control
    <3>1. size = w.size
      BY <1>17, <2>2, Zenon DEF size
    <3>2. w.size = selfSize
      BY <1>2, <2>2, Zenon
    <3>3. u.peer = size
      BY <1>11
    <3> QED
      BY <2>1, <3>1, <3>2, <3>3
  <2>3. CASE c # Control
    <3>1. size = v.peer
      BY <2>3, Zenon DEF size
    <3>2. v.peer = selfSize
      BY <1>2, <2>3, Zenon
    <3>3. u.peer = size
      BY <1>11
    <3> QED
      BY <2>1, <3>1, <3>2, <3>3
  <2> QED
    BY <2>1, <2>2, <2>3
<1>19. SizeInStep(u)'
  <2>1. \A i \in DOMAIN queue' : queue'[i] # Control
    <3>1. \A j \in DOMAIN queue : queue[j] = Control => j = 1
      BY DEF SidesInStep, SizeInStep
    <3> QED
      BY <1>16, <1>17, <3>1
  <2> QED
    BY <1>1, <1>18, <2>1 DEF SizeInStep
<1>20. ASSUME NEW d \in ChunkStreams, d # c PROVE StreamInStep(d, u)'
  <2>1. writer'[d] = writer[d] /\ u.pipe[d] = v.pipe[d] /\ u.reader[d] = v.reader[d]
        /\ (Idle(d)' <=> Idle(d))
    BY <1>1, <1>3, <1>12, <1>16, <1>20
  <2>2. StreamInStep(d, v)
    BY DEF SidesInStep
  <2> QED
    BY <2>1, <2>2 DEF StreamInStep
<1>21. StreamInStep(c, u)'
  <2>1. writer'[c] = Written(w)
    BY <1>1, <1>3
  <2>2. CASE full
    <3>1. Idle(c)' /\ u.pipe[c] = <<>> /\ Between(c, writer'[c], u.reader[c])
      BY <1>6, <1>12, <1>16, <2>1, <2>2 DEF rest
    <3> QED
      BY <3>1 DEF StreamInStep
  <2>3. CASE ~full
    <3>1. MessageOf(Written(w)) = MessageOf(w)
      BY <1>4 DEF MessageOf
    <3>2. /\ ~Idle(c)' /\ u.pipe[c] = <<MessageOf(writer'[c])>>
          /\ MayWrite(c, MessageOf(writer'[c])) /\ Midway(writer'[c], u.reader[c])
      BY <1>2, <1>6, <1>12, <1>16, <2>1, <2>3, <3>1 DEF rest
    <3> QED
      BY <3>2 DEF StreamInStep, InStep
  <2> QED
    BY <2>2, <2>3
<1>22. SidesInStep(u)'
  BY <1>19, <1>20, <1>21 DEF SidesInStep
<1> QED
  BY <1>1, <1>5, <1>11, <1>13, <1>14, <1>16, <1>22, Zenon DEF chunk

\* There is a reading side for every chunk in transit, and the last is in step.
IInv ==
    /\ TInv /\ Once /\ ~broken
    /\ \E g : Ahead(g) /\ SidesInStep(g[Len(wire)])

\* A message loaded while nothing keeps CreateStream's announcement back.
LEMMA LoadKeeps ==
    ASSUME IInv, TInv', NEW c \in ChunkStreams, NEW m \in Message, MayWrite(c, m),
           Load(c, m), UNCHANGED <<peerSize, wire, reader, broken>>,
           \A v : SidesInStep(v) => SizeInStep(Grown(v, c, m))'
    PROVE  IInv'
<1>1. PICK g : Ahead(g) /\ SidesInStep(g[Len(wire)])
  BY DEF IInv
<1>2. g[Len(wire)] \in Side
  <2>1. Len(wire) \in 0..Len(wire)
    BY DEF IInv, TInv, Shape
  <2> QED
    BY <1>1, <2>1 DEF Ahead
<1>3. pipe' = [pipe EXCEPT ![c] = Append(@, m)]
  BY DEF Load
<1>4. PICK f : Ahead(f)' /\ f[Len(wire)] = Grown(g[Len(wire)], c, m)
  BY <1>1, <1>3, AheadGrows DEF IInv
<1> PICK v : v = g[Len(wire)]
  OBVIOUS
<1>5. Once' /\ \A d \in ChunkStreams : StreamInStep(d, Grown(v, c, m))'
  <2>1. \A d \in ChunkStreams : StreamInStep(d, v)
    BY <1>1 DEF SidesInStep
  <2> QED
    BY <1>2, <2>1, LoadInStep DEF IInv
<1>6. SidesInStep(Grown(v, c, m))'
  BY <1>1, <1>5 DEF SidesInStep
<1>7. wire' = wire /\ broken' = broken
  OBVIOUS
<1> QED
  BY <1>4, <1>5, <1>6, <1>7 DEF IInv

\* Write, on a stream that is not being written, is one message into its pipe.
LEMMA WriteKeeps ==
    ASSUME PlainUse, IInv, TInv', NEW c \in Media, Write(c)
    PROVE  IInv' /\ c \in ChunkStreams /\ \E m \in Message : Load(c, m)
<1>1. PICK m \in MediaMessage : Load(c, m)
  BY DEF Write
<1>2. /\ UNCHANGED <<selfSize, peerSize, sizeReq, wire, reader, broken, last>>
      /\ sizeReq = 0 /\ c \in ChunkStreams /\ m \in Message /\ MayWrite(c, m)
  BY MayWriteMessages, Zenon DEF Write, ChunkStreams, PlainUse
<1>3. c # Control
  BY ControlApart
<1>4. ASSUME NEW v, SidesInStep(v) PROVE SizeInStep(Grown(v, c, m))'
  <2>1. queue \in Seq(ChunkStreams) /\ queue' = Append(queue, c)
    BY <1>1 DEF IInv, TInv, Shape, Load
  <2>2. /\ DOMAIN queue' = 1..Len(queue) + 1 /\ DOMAIN queue = 1..Len(queue)
        /\ Len(queue) \in Nat /\ (\A i \in 1..Len(queue) : queue'[i] = queue[i])
        /\ queue'[Len(queue) + 1] = c /\ (queue # <<>> <=> Len(queue) > 0)
    BY <1>2, <2>1, AppendPlaces
  <2>3. \A i \in 1..Len(queue) + 1 : i \in 1..Len(queue) \/ i = Len(queue) + 1
    BY <2>2
  <2>4. writer'[Control] = writer[Control]
    BY <1>1, <1>3, ControlApart DEF Load, IInv, TInv, Shape
  <2>5. \A i \in DOMAIN queue' : queue'[i] = Control => i = 1 /\ writer'[Control].size = selfSize
    BY <1>3, <1>4, <2>2, <2>3, <2>4, Zenon DEF SidesInStep, SizeInStep
  <2>6. v.peer # selfSize => queue' # <<>> /\ queue'[1] = Control
    <3>1. v.peer # selfSize => queue # <<>> /\ queue[1] = Control
      BY <1>2, <1>4 DEF SidesInStep, SizeInStep
    <3>2. queue # <<>> => 1 \in 1..Len(queue) /\ queue' # <<>>
      BY <2>1, <2>2
    <3> QED
      BY <2>2, <3>1, <3>2, Zenon
  <2>7. Grown(v, c, m).peer = v.peer
    BY DEF Grown
  <2> QED
    BY <1>2, <2>5, <2>6, <2>7 DEF SizeInStep
<1> QED
  BY <1>1, <1>2, <1>4, LoadKeeps

\* WriteSetChunkSize is alone in the queue, so that its chunk is the next.
LEMMA AnnounceKeeps ==
    ASSUME PlainUse, IInv, TInv', AnnounceSize
    PROVE  IInv' /\ \E m \in Message : Load(Control, m)
<1>1. /\ sizeReq \in ChunkSizes /\ sizeReq # 0
      /\ Load(Control, SetChunkSize(sizeReq)) /\ sizeReq' = 0
      /\ UNCHANGED <<selfSize, peerSize, wire, reader, broken, last>>
  BY DEF AnnounceSize, IInv, TInv, Shape
<1> PICK m : m = SetChunkSize(sizeReq)
  OBVIOUS
<1>2. m \in Message /\ MayWrite(Control, m) /\ m.size = sizeReq
  BY <1>1, MayWriteMessages DEF SetChunkSize
<1>3. ASSUME NEW v, SidesInStep(v) PROVE SizeInStep(Grown(v, Control, m))'
  <2>1. queue = <<>> /\ sizeReq = selfSize
    BY <1>1, <1>3 DEF SidesInStep, SizeInStep
  <2>2. queue' = <<Control>>
    BY <1>1, <2>1 DEF Load
  <2>3. writer'[Control].size = selfSize
    <3>1. writer[Control] \in WriterState
      BY ControlApart DEF IInv, TInv, Shape
    <3>2. writer'[Control] = Loaded(writer[Control], m)
      BY <1>1, ControlApart DEF Load, IInv, TInv, Shape
    <3>3. Loaded(writer[Control], m).size = m.size
      BY <1>2, <3>1, LoadedType
    <3> QED
      BY <1>2, <2>1, <3>2, <3>3
  <2> QED
    BY <1>1, <2>2, <2>3 DEF SizeInStep
<1> QED
  BY <1>1, <1>2, <1>3, ControlApart, LoadKeeps

\* A turn of the scheduler adds one side to the sequence, the one that has read the
\* new chunk, and no user sees it.
LEMMA WriteChunkKeeps ==
    ASSUME PlainUse, IInv, TInv', WriteChunk
    PROVE  IInv' /\ UNCHANGED <<pipe, last>>
<1>1. PICK g : Ahead(g) /\ SidesInStep(g[Len(wire)])
  BY DEF IInv
<1> PICK v : v = g[Len(wire)]
  OBVIOUS
<1>2. v \in Side
  <2>1. Len(wire) \in 0..Len(wire)
    BY DEF IInv, TInv, Shape
  <2> QED
    BY <1>1, <2>1 DEF Ahead
<1> PICK chunk : chunk = ChunkOf(Head(queue), writer[Head(queue)])
  OBVIOUS
<1>3. /\ Once' /\ chunk \in Chunk /\ wire' = Append(wire, chunk)
      /\ UNCHANGED <<peerSize, reader, broken, pipe, last>>
      /\ \E u \in Side :
           /\ Reads(v, chunk, u) /\ SidesInStep(u)'
           /\ \A d \in ChunkStreams : StreamOf(chunk) # d =>
                /\ u.reader[d] = v.reader[d]
                /\ d = Control => u.peer = v.peer
  BY <1>1, <1>2, WriteInStep DEF IInv
<1>4. PICK u \in Side :
           /\ Reads(v, chunk, u) /\ SidesInStep(u)'
           /\ \A d \in ChunkStreams : StreamOf(chunk) # d =>
                /\ u.reader[d] = v.reader[d]
                /\ d = Control => u.peer = v.peer
  BY <1>3
<1>5. PICK f : Ahead(f)' /\ f[Len(wire')] = u
  BY <1>1, <1>3, <1>4, AheadExtends DEF IInv
<1> QED
  BY <1>3, <1>4, <1>5 DEF IInv

\* readChunk takes the first side off the sequence; if its chunk completes a message,
\* that is the first one in the pipe of its stream.
LEMMA ReadChunkKeeps ==
    ASSUME PlainUse, IInv, TInv', ReadChunk
    PROVE  /\ IInv'
           /\ \/ UNCHANGED <<pipe, last>>
              \/ \E c \in ChunkStreams :
                   /\ pipe[c] # <<>>
                   /\ last' = [last EXCEPT ![c] = Head(pipe[c])]
                   /\ pipe' = [pipe EXCEPT ![c] = Tail(@)]
<1>1. PICK g : Ahead(g) /\ SidesInStep(g[Len(wire)])
  BY DEF IInv
<1>2. /\ ~broken'
      /\ \E f : Ahead(f)' /\ f[Len(wire')] = g[Len(wire)]
      /\ \/ UNCHANGED <<pipe, last>>
         \/ \E c \in ChunkStreams :
              /\ pipe[c] # <<>>
              /\ last' = [last EXCEPT ![c] = Head(pipe[c])]
              /\ pipe' = [pipe EXCEPT ![c] = Tail(@)]
  BY <1>1, AheadShifts DEF IInv
<1>3. PICK f : Ahead(f)' /\ f[Len(wire')] = g[Len(wire)]
  BY <1>2
<1> PICK v : v = g[Len(wire)]
  OBVIOUS
<1>4. UNCHANGED <<selfSize, sizeReq, writer, queue>>
  BY DEF ReadChunk
<1>5. SidesInStep(v)'
  BY <1>1, <1>4, StaysInStep
<1>6. Once'
  BY <1>4 DEF IInv, Once
<1> QED
  BY <1>2, <1>3, <1>5, <1>6 DEF IInv

\* CreateStream's new chunk size, while nothing is being written.
LEMMA ChangeSizeKeeps ==
    ASSUME PlainUse, IInv, TInv', ChangeSize
    PROVE  IInv' /\ UNCHANGED <<pipe, last>>
<1>1. PICK g : Ahead(g) /\ SidesInStep(g[Len(wire)])
  BY DEF IInv
<1> PICK v : v = g[Len(wire)]
  OBVIOUS
<1>2. UNCHANGED <<peerSize, writer, queue, wire, reader, broken, pipe, last>>
  BY DEF ChangeSize
<1>3. SidesInStep(v)'
  BY <1>1, ChangeInStep DEF IInv
<1>4. Ahead(g)'
  BY <1>1, <1>2 DEF Ahead, Now, Untouched
<1> QED
  BY <1>2, <1>3, <1>4 DEF IInv, Once

\* The invariant holds from the start and every step keeps it.
LEMMA StepKeeps ==
    ASSUME PlainUse, IInv, [Next]_vars
    PROVE  IInv'
<1>1. TInv'
  BY NextTypes DEF IInv
<1>2. CASE \E c \in Media : Write(c)
  BY <1>1, <1>2, WriteKeeps
<1>3. CASE ChangeSize
  BY <1>1, <1>3, ChangeSizeKeeps
<1>4. CASE AnnounceSize
  BY <1>1, <1>4, AnnounceKeeps
<1>5. CASE WriteChunk
  BY <1>1, <1>5, WriteChunkKeeps
<1>6. CASE ReadChunk
  BY <1>1, <1>6, ReadChunkKeeps
<1>7. CASE UNCHANGED vars
  <2>1. PICK g : Ahead(g) /\ SidesInStep(g[Len(wire)])
    BY DEF IInv
  <2> PICK v : v = g[Len(wire)]
    OBVIOUS
  <2>2. /\ UNCHANGED <<selfSize, sizeReq, writer, queue>>
        /\ UNCHANGED <<peerSize, wire, reader, broken, pipe>>
    BY <1>7 DEF vars
  <2>3. SidesInStep(v)'
    BY <2>1, <2>2, StaysInStep
  <2>4. Ahead(g)'
    BY <2>1, <2>2 DEF Ahead, Now, Untouched
  <2> QED
    BY <1>1, <2>2, <2>3, <2>4 DEF IInv, Once
<1> QED
  BY <1>2, <1>3, <1>4, <1>5, <1>6, <1>7 DEF Next

\* The two sides are always in step, however chunks are read and written.
LEMMA InStepAlways ==
    ASSUME PlainUse
    PROVE  Spec => []IInv
<1>1. Init => IInv
  BY InitTypes, InitInStep DEF IInv
<1>2. IInv /\ [Next]_vars => IInv'
  BY StepKeeps
<1> QED
  BY <1>1, <1>2, PTL DEF Spec

-----------------------------------------------------------------------------
(* What the invariant says *)

\* readChunk always knows where a chunk ends: it neither panics nor takes the
\* bytes of a header for payload, whatever chunks are in transit.
THEOREM AlwaysReadable ==
    ASSUME PlainUse
    PROVE  Spec => []Readable
<1>1. IInv => Readable
  BY DEF IInv, Readable
<1> QED
  BY <1>1, InStepAlways, PTL

\* The reader of a settled stream is where all of the transport will leave it.
LEMMA SettledReader ==
    ASSUME TInv, NEW g, Ahead(g), NEW c \in ChunkStreams, Settled(c)
    PROVE  /\ Idle(c) /\ reader[c] = g[Len(wire)].reader[c]
           /\ c = Control => peerSize = g[Len(wire)].peer
<1>1. DOMAIN wire = 1..Len(wire) /\ Len(wire) \in Nat
  BY DEF TInv, Shape
<1>2. \A k \in 0 + 1..Len(wire) : StreamOf(wire[k]) # c
  BY <1>1 DEF Settled, StreamOf
<1>3. Untouched(g, c, 0, Len(wire))
  <2>1. 0 \in 0..Len(wire) /\ Len(wire) \in 0..Len(wire) /\ 0 <= Len(wire)
    BY <1>1
  <2> QED
    BY <2>1, Zenon DEF Ahead
<1>4. g[0].reader = reader /\ g[0].peer = peerSize
  BY DEF Ahead, Now
<1> QED
  BY <1>2, <1>3, <1>4 DEF Untouched, Settled

\* Once all of a chunk stream's messages have arrived, the reader knows exactly
\* what updateWriterHeader believes it to know.
THEOREM HeadersInStep ==
    ASSUME PlainUse
    PROVE  Spec => []HeadersAgree
<1>1. IInv => HeadersAgree
  <2> SUFFICES ASSUME IInv, NEW c \in ChunkStreams, Settled(c), reader[c].completed
               PROVE  Agree(writer[c], reader[c])
    BY DEF HeadersAgree, Agree
  <2>1. PICK g : Ahead(g) /\ SidesInStep(g[Len(wire)])
    BY DEF IInv
  <2>2. Idle(c) /\ reader[c] = g[Len(wire)].reader[c]
    BY <2>1, SettledReader DEF IInv
  <2>3. Between(c, writer[c], reader[c])
    BY <2>1, <2>2 DEF SidesInStep, StreamInStep
  <2>4. ~NewReader.completed
    BY DEF NewReader
  <2> QED
    BY <2>3, <2>4, Zenon DEF Between
<1> QED
  BY <1>1, InStepAlways, PTL

\* While nothing announces a new chunk size, neither a call of CreateStream nor a
\* message under way, both sides cut messages into chunks of the same size.
THEOREM SizesInStep ==
    ASSUME PlainUse
    PROVE  Spec => []SizesAgree
<1>1. IInv => SizesAgree
  <2> SUFFICES ASSUME IInv, sizeReq = 0, Settled(Control) PROVE peerSize = selfSize
    BY DEF SizesAgree
  <2>1. PICK g : Ahead(g) /\ SidesInStep(g[Len(wire)])
    BY DEF IInv
  <2>2. Idle(Control) /\ peerSize = g[Len(wire)].peer
    BY <2>1, ControlApart, SettledReader DEF IInv
  <2>3. queue # <<>> => queue[1] # Control
    <3>1. queue \in Seq(ChunkStreams)
      BY DEF IInv, TInv, Shape
    <3>2. queue # <<>> => 1 \in DOMAIN queue
      BY <3>1
    <3> QED
      BY <2>2, <3>2, Zenon DEF Idle
  <2> QED
    BY <2>1, <2>2, <2>3 DEF SidesInStep, SizeInStep
<1> QED
  BY <1>1, InStepAlways, PTL

\* The chunks, the compressed headers, the scheduler's turns and the changing
\* chunk size implement the pipes of ChunkPipe: WriteChunk and the chunks that
\* complete nothing are invisible, Write puts a message into the pipe of its chunk
\* stream, and the chunk that completes a message takes out the first one, the
\* same message that was put in.
THEOREM ImplementsPipe ==
    ASSUME PlainUse
    PROVE  Spec => CodecImplementsPipe
<1>1. Init => Pipe!Init
  BY DEF Init, Pipe!Init
<1>2. IInv /\ [Next]_vars => [Pipe!Next]_<<pipe, last>>
  <2> SUFFICES ASSUME IInv, [Next]_vars
               PROVE  Pipe!Next \/ UNCHANGED <<pipe, last>>
    OBVIOUS
  <2>1. TInv'
    BY NextTypes DEF IInv
  <2>2. ASSUME NEW c \in ChunkStreams, NEW m \in Message, Load(c, m), UNCHANGED last
        PROVE  Pipe!Next
    BY <2>2 DEF Load, Pipe!Next, Pipe!Accept
  <2>3. CASE \E c \in Media : Write(c)
    <3>1. PICK c \in Media : Write(c)
      BY <2>3
    <3>2. c \in ChunkStreams /\ \E m \in Message : Load(c, m)
      BY <2>1, <3>1, WriteKeeps
    <3>3. UNCHANGED last
      BY <3>1 DEF Write
    <3> QED
      BY <2>2, <3>2, <3>3
  <2>4. CASE AnnounceSize
    <3>1. \E m \in Message : Load(Control, m)
      BY <2>1, <2>4, AnnounceKeeps
    <3>2. UNCHANGED last
      BY <2>4 DEF AnnounceSize
    <3> QED
      BY <2>2, <3>1, <3>2, ControlApart
  <2>5. CASE ReadChunk
    <3>1. ASSUME NEW c \in ChunkStreams, pipe[c] # <<>>,
                 last' = [last EXCEPT ![c] = Head(pipe[c])],
                 pipe' = [pipe EXCEPT ![c] = Tail(@)]
          PROVE  Pipe!Next
      BY <3>1 DEF Pipe!Next, Pipe!Deliver
    <3> QED
      BY <2>1, <2>5, <3>1, ReadChunkKeeps
  <2>6. CASE ChangeSize \/ WriteChunk \/ UNCHANGED vars
    BY <2>6 DEF ChangeSize, WriteChunk, vars
  <2> QED
    BY <2>3, <2>4, <2>5, <2>6 DEF Next
<1> QED
  BY <1>1, <1>2, InStepAlways, PTL DEF Spec, CodecImplementsPipe, Pipe!Spec
=============================================================================
