# A specification of go-rtmp

go-rtmp is a library for RTMP 1.0 clients and servers. A connection carries
*messages* of numbered *message streams*; a message travels on a *chunk stream*,
cut into chunks that alternate with the chunks of other chunk streams. The
library runs several goroutines per connection, and the two ends keep state
about each other that must not drift apart. This directory models those parts,
checks the models with TLC and proves what matters most with TLAPS.

`PROJECT.json` lists the components, the runs, the mutants, the theorems, the
hazards and, for every definition that stands for code, the lines it translates.

    tlc -workers 2 -config WritersSafety.cfg MCChunkWriters.tla
    tlapm ChunkWriters_proof.tla

## Inventory

| component | files | state | operations | speaks to |
| --- | --- | --- | --- | --- |
| chunk stream writers | chunk_streamer.go, chunk_stream_writer.go | `writers`, per writer `doneCh`, `closeCh`, `lastErr`, `aqM`, buffer and header | `Write`, `Wait`, `Sched` | the shared encoder; the scheduler, over a bounded channel |
| scheduler | chunk_streamer.go | its channel, `stopCh`, `done`, `err` | `Run`, `writeChunk`, `Close`, `forceCloseWriters` | the transport; writers, by closing `doneCh` or `closeCh` |
| chunk headers | chunk_header.go, chunk_streamer.go | the last header of every chunk stream, on both ends | `updateWriterHeader`, encode, decode | each other, through the wire |
| chunk stream readers | chunk_streamer.go, chunk_stream_reader.go | header state and buffer per chunk stream | `readChunk`, `NewChunkReader` | message loop; the writers, to acknowledge |
| control state | conn_state.go, chunk_streamer_reader.go | chunk size, ack window, byte counters | `SetChunkSize`, `SetAckWindowSize`, `sendAck` | reader and writer of both ends |
| connection | conn.go | `isClosed`, table of message streams | `handleMessageLoop`, `Close`, `waitWriters` | streamer, handlers, transport |
| message streams | streams.go, stream.go | stream table, state handler, `cmsg`, transactions | `Create`, `CreateIfAvailable`, `Delete`, the commands and their replies | the streamer's `Write` |
| server handlers | server_control_*.go, server_data_*.go, stream_handler.go | state of each message stream | `onCommand`, `onMessage`, `onData` | the user's `Handler`; the client, by replies |
| client | client_conn.go, transactions.go | stream table, pending transactions, `lastErr` | `Connect`, `CreateStream`, `DeleteStream`, `Publish`, `Close` | the server, by commands; its message loop, by transactions |
| server listener | server.go | `listener`, `doneCh` | `Serve`, `Close` | connections |
| handshake | handshake/ | none beyond the call | `HandshakeWithClient`, `HandshakeWithServer` | the peer, over the bare transport |
| message bodies | message/ | none | encode and decode AMF and fixed layouts | reader, shared encoder |
| user interface | handler.go, default_handler.go, response_preset.go | none | callbacks | handlers |
| relay demo | example/server_relay_demo/ | table of published names; per publisher its players, header and key frame; per connection `pub` and `sub` | `OnPublish`, `OnPlay`, `Publish`, `OnClose` | its connections' message loops, and each other's `Conn.Write` |
| other demos | example/client_demo, server_demo | none, a file | | the library |

What makes each of them correct, and what is hard about it:

- **Writers and scheduler.** A writer belongs to one goroutine at a time; what
  is accepted is written whole, once and in order per chunk stream; nobody
  blocks for ever. Hard: callers, the scheduler and `Conn.Close` meet at two
  mutexes, two channels per writer and one bounded channel whose only receiver
  is also a sender; contexts expire and the transport breaks at any point.
- **Chunk headers and sizes.** The reader recovers every message with its
  timestamp, although a header leaves out what the peer is believed to know.
  Hard: two copies of a state machine that must move in step, boundaries of
  field widths, a chunk size that changes in the middle.
- **Acknowledgements.** They come in time and never stop the traffic they
  report on. Hard: the goroutine that reads is the one that must write.
- **Streams and transactions.** Both ends have the same streams, each call gets
  its own reply. Hard: constant transaction IDs, stream IDs used again, failing
  writes on either side, messages that overtake each other.
- **Message bodies.** What one side encodes the other decodes, field by field, in
  the same order and width. Hard: two hand-written switches per direction, numbers
  that wrap around, bodies whose decoder is chosen by name or by transaction.
- **Relay demo.** A name belongs to one publisher and is free again after it; a
  player can decode what it gets. Hard: players join while the publisher walks
  over them without a lock, and connections end in between.
- **Server listener.** `Serve` ends with `ErrClosed` after `Close`, and only then.
- **Handshake.** Two ends of this library always agree, on any transport.

Every hazard found in the code, with its line and the properties about it, is in
`PROJECT.json`.

## Modules

| module | what it models |
| --- | --- |
| `ChunkWriters` | `ChunkStreamer.Write`, the scheduler goroutine and `Conn.Close`, one action per blocking point |
| `ChunkPipe` | abstract: a chunk stream is a FIFO pipe of messages |
| `ChunkDelivery` | extends `ChunkWriters` by the peer's `readChunk`; implements `ChunkPipe` |
| `ChunkCodec` | headers, timestamps and chunk size between one writing and one reading end; implements `ChunkPipe` |
| `AckWindow` | two ends that count and acknowledge over bounded transports |
| `MessageBodies` | every message, user control event and command body, encoded and decoded |
| `SessionMessages` | the messages of a session as packets, and the order they arrive in |
| `ServerConn`, `ClientConn` | the two ends of a session |
| `Session` | their composition, by `INSTANCE` |
| `HandshakePackets` | what a handshake's packets say: who signed, where the digest lies, whom they echo |
| `Accepting` | a server that accepts and is closed, and both sides of the handshake |
| `Relay` | the relay demo: one service, its connections' handlers and their `OnClose` |
| `MC...` | instances for TLC |
| `ChunkWriters_proof`, `ChunkDelivery_proof`, `ChunkCodec_proof`, `Accepting_proof`, `AckWindow_proof`, `MessageBodies_proof`, `Session_proof`, `Relay_proof` | theorems |

### ChunkWriters

A program counter per goroutine. For a caller of `Write`: `prepare`
(`prepareChunkWriter` under `cs.mu`), `lock` (`aqM.Lock()`), `select` (the three
cases of `Wait`), `reset`, `encode`, `header`, `sched`. For the scheduler:
`select`, `write`, `requeue` and, after an error, `force`
(`forceCloseWriters`). For `Conn.Close`: `mu`, then for each writer `next`,
`lock`, `select`, and finally `stop` and `rwc`. A closed Go channel is a Boolean;
`doneCh`, which `Wait` replaces by a new one, is the state of its current
channel. Messages are a name and a number of pieces, a piece being what one
chunk carries, and `buf` holds the pieces not yet written, so that a message
encoded into the wrong buffer shows. The encoder that all callers share is the
variable `msgEnc`: `Reset` points it to a writer in one step and `Encode` uses it
in the next, as the code does without a lock.

The users may be any goroutines, the message loop included: `sendAck` is a call
of `Write` like any other.

### ChunkDelivery and ChunkPipe

`ChunkPipe` says what users may rely on: per chunk stream, whole messages, once,
in order. `ChunkDelivery` adds the peer's readers to `ChunkWriters` as a history
variable, `peer`: in every step the reader of a chunk stream reads the chunk the step
puts on its wire. A connection keeps the order of bytes and a chunk stream has a
reader of its own, so this is what the peer will have read, whenever it does. The
refinement mapping takes the accepted messages not yet read for the pipe's content.

### ChunkCodec

Field widths are parameters (`TimeMod` for 2^32, `TimeExt` for 0xffffff,
`LengthMod` for 2^24) so that the boundaries are within TLC's reach. `NextFmt`
and `Updated` are `updateWriterHeader`, `EncodeHeader` and `WantsExt` are the two
halves of chunk_header.go, `Applied` and `Filled` the two halves of `readChunk`.
`ChangeSize` and `AnnounceSize` are the two steps of `CreateStream` that change
the chunk size. Payload is counted, not stored; a chunk whose body is not as long as
the reader expects, or that carries an extended timestamp the reader does not read,
sets `broken`.

Basic headers are bytes, because `decodeChunkBasicHeader` does not always stop at
their end. Its buffer is the streamer's 64 KB `cacheBuffer`, and for the form of three
bytes it offers all of it to `io.ReadAtLeast` (chunk_header.go:41): from chunk stream
320 on it takes whatever has arrived behind the header, message header, payload and
later chunks, and drops it. `BasicHeaderTakes` says how much, and `OverRead` whether that
is more than the header if anything follows. How much of a chunk has arrived when
its basic header is read is open, so `ReadChunk` may then lose the reader or not.

### AckWindow

Each end has a scheduler's channel, a transport of bounded capacity and a
message loop that is reading (`read`), in `sendAck` (`ack`), handling what it
read (`handle`) or over (`ended`). `Write` is one step here; what happens inside
is the subject of `ChunkWriters`.

### MessageBodies

A Go message is a record with the struct's name as its `type`. `Encode` gives the
fields that encoder.go writes, `TypeID` the type ID beside them, `Decode` is
decoder.go. `ToArgs` are the `ToArgs` methods of net_connection.go and
net_stream.go; `CmdBody` and the `DecodeBody...` operators are body_decoder.go. A
field of a fixed layout is a word of its width, so numbers wrap where the code's
do; an AMF value is its kind and what it holds (the AMF library is external).

### Session

`ServerHandle` of `ServerConn` is one turn of the message loop: it takes a packet,
decodes it, finds the message stream, and runs the handler of that
stream's state, whose decoded body decides what happens. The user's handler may
reject, a reply may fail, no stream ID may be free, a size or window may be
refused, a message may have no handler; a deferred reply is part of the action.
`ClientConn` has the API's calls: `Connect` and `CreateStream` register a
transaction, write, and wait; the message loop answers the transaction
(`ClientHandle`) and removes it in a step of its own (`Resolve`), and the caller
may run in between. The client's data streams have no state handler, so a message
the loop's switch does not know ends the loop by its `recover` (`NoHandler`).
`UserWrites` writes the other messages a user may write on a stream or on the
control stream. Tags on packets are history: they name the call, or the
incarnation of the stream, that a packet belongs to. `Arriving` gives the packets
that can arrive next: a chunk stream is a pipe, and a message of several chunks
can be overtaken by later ones of other chunk streams.

### Relay

One process per connection, because its message loop and its `OnClose` are one
goroutine. `OnPlay` takes three steps: `GetPubsub` under the service's mutex, `Sub`
under the Pubsub's, and the assignment of `eventCallback` under none. `Publish`
reads the slice of players once and then takes a step per player. `Deregister`
holds the Pubsub's mutex until `RemovePubsub` is done, so a `Sub` waits. A tag is
its place in the publisher's stream, its kind and its timestamp. The handlers pass on
the timestamp the publisher has sent, whatever it is (handler.go:109-150), so the model
takes any of `Timestamps` for any tag: they may rise, repeat or go back. A player's
times are differences that wrap around (pubsub.go:127-130). What a player got is what `onEvent` handed to its
connection's `Write`.

### Accepting and HandshakePackets

Each `Serve` is in its accept loop, at the question whether the server is closed,
or over; `Close` closes the registered listener, and with it the connections
nobody has accepted. Each connection has a program counter on either side that
names the packet it deals with next, and a transport that holds `Buffer` packets
in a direction: both sides write before they read. A packet is a record of what
the other side can find out about it: its version, the sums that place its digest
in either scheme, where a digest lies and whose key made it, what it echoes or
proves. Signatures are facts, not bytes. The clients are `HandshakeWithServer`, a
client that signs its C1 under either scheme and looks for the digest of S1 under
the same one (outside the library), and one that echoes nothing.

## Runs

Passing runs:

| run | instance | what it shows |
| --- | --- | --- |
| `writers_safety` | 3 users, 3 chunk streams of which 2 may exist, channel of 2, messages of up to 2 chunks, failures and `Close` at any time; symmetric users and streams | `OneHolder`, `WritersKnown`, `NoSelfBlock`, `BusyMeansRunning`, `MutexHeldInSelect`, `NoInterleaving` |
| `writers_live` | 2 users, 2 chunk streams, expiring contexts, encoder and transport that may fail | `Write` and `Close` return and the scheduler ends even if the peer stops reading (`StallSpec`); queued writers finish if writes end |
| `delivery_one_user` | 1 user, 2 messages of up to 2 chunks, 2 chunk streams | the pipes are implemented; a `Close` that does not time out loses nothing; what is accepted arrives |
| `codec` | one media chunk stream (ID 319, the last one with a basic header of two bytes) and the control chunk stream, timestamps up, equal and down, three lengths, two types, two chunk sizes | the reader never loses track, both ends agree on headers and sizes, messages arrive as written |
| `ack_window` | both ends write two messages of up to two chunks over transports of one media chunk; counters wrap | acknowledgements are in time, advance, and end |
| `accepting` | two `Serve` calls on a server that may be closed at any time, one connection over a transport of one packet, three kinds of client, sums 0 and 759 | handshakes succeed when they should, read their packets and no others, in order, and never lock up; handlers and `Serve` end |
| `session` | 2 data streams; four workloads (below); rejections, failing writes on both sides, close at any time | both ends agree on streams; every call gets its own reply; neither audio nor a publish or play reaches a stream it was not written for |
| `relay` | 3 connections, 2 names; publishers, players and tags up to a total weight of 6, timestamps 0, 3 and 5 in any order, modulo 8 | names stay with their publishers and are freed; what a player gets is in order and complete; its times keep the distances of the publisher's timestamps, modulo their width and, where nothing is earlier than the player's first, exactly |

Violation runs, each a disagreement between the code and what a comment or test
says (`findings` in `PROJECT.json` quotes it):

- `encoder_violation`: two goroutines that write on different chunk streams mix
  their messages through the shared encoder.
- `codec_extended_violation`: on chunk stream 5, a message of several chunks with an
  extended timestamp cannot be read back.
- `codec_overread_violation`: a message on chunk stream 320 cannot be read back, because
  the read of its basic header takes what follows. The unit test of the decoder passes
  no buffer and nothing behind the header (chunk_header_test.go:132-134).
- `session_race_violation`: `CreateStream` called as soon as the last one has
  returned may fail with "Transaction already exists".

One more configuration is kept beside the runs, for MCChunkWriters, and its finding is
in `PROJECT.json`: with `WritersClogViolation.cfg` TLC violates `SchedStops`. With more
busy writers than places in the channel the scheduler blocks sending to itself
(chunk_streamer.go:483) and no longer sees `Close`. `ChannelNeverFull` is the theorem
about the other case.

### Bounds, and why they are enough

- Three users and three chunk streams let two users compete for one writer while
  another one is queued, and exceed the limit of chunk streams by one. With two
  chunks a message is requeued once, which is where schedules differ; a third
  chunk repeats the second's steps. One call per user (`MaxWrites`) is enough for
  safety with three users; the one-user run has two so that a writer is used again.
- The codec's timestamps {0, 1, 2, 4} give equal and different deltas and
  reversals, its lengths 1 to 3 with chunk sizes 1 and 2 give one to three chunks
  and sizes that divide a length or not. `WireSize` bounds the chunks in transit.
- In `ack_window` a counter modulo 9 wraps around within a run, and the transport
  is as small as a media chunk, which makes the ends block as often as possible.
- The session's workloads (`MCWorkloads`) split what users do, so that each can be
  long enough. A publisher makes seven calls (connect, create, publish, two media,
  delete and create again: the shortest run in which a stream ID is used twice with
  media under way). A player makes five, the server's user sends it audio. The
  third workload writes every other kind of message, known or unknown to the other
  side's handlers, on either side in any state; the fourth changes chunk sizes,
  one of them beyond the server's maximum and one that cannot be encoded. Three
  stream IDs leave room for two data streams, and a third create finds none free.
  `Threshold` 1 lets one message for a missing stream pass and ends the loop on the
  second. `WordMod` 16 keeps words small; only sizes and windows come near it.
- In `relay` a publisher weighs as much as two tags and a player as one
  (`MaxWork`): three tags for one player, two for two players, one if two
  publishers compete for a name. Three tags are a header, a key frame and one more,
  and a player that joins at the header gets it twice and both tags after it. The third connection is a second player or the second publisher. Of the
  timestamps, 0 is the one a player does not count from, and 3 and 5 in either order
  give times that wrap around modulo 8 and times that do not. `Relay_proof` covers
  any number of connections, tags and timestamps.
- One connection is enough for `accepting`: connections share nothing but the
  listener. The sums 0 and 759 give a first place, one after the reduction modulo
  728, and one that would leave the block without it; `Accepting_proof`
  covers every sum. A transport of one packet is the hardest for the order of
  reads and writes.

### Preconditions of passing properties

- `ServeReturns` speaks of listeners that `Close` has closed. If `Close` comes
  before `registerListener` there is none to close: `Serve` then accepts
  connections for ever (server.go:72).
- `HandshakesEnd` is about clients of this library; the handshake has no deadline,
  so a silent client keeps its handler until the transport fails (`HandlersEnd`).

- `CloseReturns` needs callers with a deadline, as `Stream.Write` has: with
  `Background = {u1, u2}` in WritersLive.cfg TLC finds `waitWriters` blocked for ever
  on `aqM` of a writer whose caller waits without one, beyond its three seconds
  (chunk_streamer.go:354-359). The relay demo is such a caller (callback.go:26).
- `NamesAreHeld` excepts the first name of a connection that publishes a second one:
  nobody frees it (handler.go:66). `PlayableVideo` is about publishers that start
  with a sequence header, and does not count the frames between the remembered key
  frame and the tag a player joins at. `TimesKeepDistance` counts from the first tag a
  player got whose timestamp is not 0, as the code does. Times are exact between tags
  that are no earlier than that one, and throughout if the publisher's timestamps never
  go back and no remembered tag is older than the audio the player already had. Any
  other tag wraps around (pubsub.go:130), audio at 5 followed by video at 3 for
  instance, and the distance holds modulo the width only.
- `NoSelfBlock` (and with it `SchedStops`) needs `MaxChunkStreams <= QueueSize`.
  The defaults are math.MaxUint32 and 64; `WritersClogViolation.cfg` shows the other case.
- `BusyMeansRunning` needs messages that can be encoded: after an encoding error
  nobody closes the writer's `doneCh` again. `writers_live` has encoding errors,
  and `WritersFinish` speaks of queued writers only.
- `ImplementsPipe` needs that no two users are between the encoder's `Reset` and
  `Encode` at the same time, as is proved (`LockedEncoderPipes`); `delivery_one_user`
  has one user, `encoder_violation` shows two.
- `Readable` and its companions in `codec` need chunk stream IDs below 320
  (`codec_overread_violation` shows the first one above), timestamps and deltas below
  0xffffff, lengths from 1 to 2^24 - 1, one message stream per chunk stream (after
  a change of the message stream the writer keeps a delta that the reader resets)
  and nothing else written while `CreateStream` changes the chunk size
  (`QuietSizeChange`). `ChunkDelivery` and `Session`, which have no basic headers, are
  about such chunk streams as well.
- `Quiesces` needs half a window to have room for one chunk of every chunk stream
  (`WindowAssumption`). With less, two message loops can wait for each other's
  reading until `Write`'s five seconds end both connections.
- The user of a session's client connects first, goes on when the server has
  accepted, makes one call at a time, and writes no publish, play or media on the
  control stream; audio fits one chunk, video, publish and play
  do not: audio of several chunks may be overtaken as video is. Both ends set
  `IgnoreMessagesOnNotExistStream`. The client's `MaxMessageStreams` is at its default:
  its own limit (streams.go:42) never refuses a stream the server has created.

### Fairness

- Goroutines that can run do run: weak fairness per action.
- `sync.Mutex` hands itself to a starving waiter and a Go channel serves its
  senders in order: strong fairness for `LockWriter`, `CloseLocksWriter`, `Sched`.
- Timers fire: weak fairness of expiry, for users with a deadline (`Stream.Write`
  always has one of five seconds; `Background` users have none).
- Writes to an open transport need not end (`StallSpec`); `LiveSpec` adds that they
  do. `WriteReturns`, `CloseReturns` and `SchedStops` are checked under the former;
  `WritersFinish` and `AcceptedArrives` name what else they need.
- A client of this library goes on with its handshake, the server's goroutines run,
  and `Accept` on a closed listener fails.
- Schedulers take turns among their writers, so what was sent first cannot be
  overtaken for ever: `Session` has weak fairness of handling the first packet.
- Nothing makes a user call, a peer send or a connection close. In `AckWindow`
  the deadline of an Ack may pass, and need not.

## Proofs

`ChunkWriters_proof` shows for any number of users, chunk streams, messages and
places in the channel, from the assumptions stated in `ChunkWriters`:

- `TypeCorrect`: `Spec => []TypeOK`;
- `HolderUnique`: `Spec => []OneHolder`, a writer is in one pair of hands
  (a caller's, the channel's or the scheduler's) until its `closeCh` is closed;
- `WritersBounded`: `Spec => []WritersKnown`;
- `ChannelNeverFull`: the channel always has a place when the scheduler or a
  caller needs one, if `MaxChunkStreams <= QueueSize`;
- `NoWriterLost`: if messages can be encoded, a busy writer is in somebody's hands;
- `MutexHeld`: `Spec => []MutexHeldInSelect`, whoever waits in the select of `Wait`
  holds that writer's `aqM`, and nobody else does;
- `MessagesApart`: `Spec => []NoInterleaving`, the chunks of two messages never mix
  within a chunk stream.

The inductive invariant is `TypeOK /\ OneHolder /\ WritersKnown`. None of the
three is inductive alone: that `Wait` gives a writer to one caller follows from
`doneCh` only if whoever holds the writer is known to keep it open, and that the
scheduler returns it only if nobody was let in by `closeCh`, which stays open as
long as `Run` lives. The bound on the channel follows because its entries are
different members of `writers`. The proof has one step per action, and under it
one per conjunct the action can disturb.

`MessagesApart` needs no exclusion at all: it holds when users encode into each other's
buffers and when `forceCloseWriters` lets several callers in, because `Encode` appends
whole messages and the scheduler takes pieces from the front. Its invariant
(`StreamOrdered`) looks at the wire and the buffer together. The bodies on the wire follow
one another (`Ordered`), the buffer is lined up in the same way (`Lined`) and ends with the
end of a message, what is first in the buffer may come after the last body on the wire
(`MayFollow`), and if the buffer is empty that body ended a message (`MayStop`). A chunk
without a body, which the scheduler writes for an empty buffer, changes none of it
(`EmptyChunk`).

`ChunkDelivery_proof` is about what the peer makes of these chunks, again for any
numbers. The shared encoder is a real defect (`encoder_violation`), so that
`DeliverySpec => ImplementsPipe` is false with two users, and the theorems name what is
missing. `OneEncodes` says that at most one user at a time is between `Reset` and
`Encode`. A mutex around lines 125 and 126 of chunk_streamer.go would give just that;
nothing else in the code would have to change:

- `LockedEncoderPipes`: `DeliverySpec /\ []OneEncodes => ImplementsPipe`, the refinement
  of `ChunkPipe`. `Sched` is `Accept`, a `WriteChunk` that empties the buffer is
  `Deliver`, every other step is a stutter;
- `LockedCloseIsClean`: `DeliverySpec /\ []OneEncodes => CleanClose`, an action property;
- `OneUserPipes`, `OneUserCloseIsClean`: with one user both hold of `DeliverySpec` alone,
  because the hypothesis is then true of every state. This is what `delivery_one_user`
  checks.

The inductive invariant (`DInv`) adds to that of the writers that the encoder points to
the writer of the user about to encode (`EncoderMine`), and for each chunk stream where
its message is (`StreamInStep`). What the peer has read is a prefix of what was accepted.
While `Run` lives, a chunk stream that the scheduler has something of is `Halfway`: the
message accepted last is the one being written, and the pieces the reader has and the
pieces in the buffer make up that message, with the length its header announces. A chunk
stream that the scheduler has nothing of is `AtRest`: all is read, and the buffer is empty
but for the message of a user that has encoded it and not yet handed it over. That no more
than one user can be in that place, and none while the scheduler has the writer, is
`OneHolder`; that `Encode` puts the pieces there and not elsewhere is `EncoderMine`.
After a failure `Run` writes nothing more, and only the prefix remains.

`CleanClose` follows from `DInv` and from `Waited`: while `waitWriters` has run into neither
its deadline nor a failure, every writer is one it has acquired, has still to wait for or
is waiting for. That rests on `cs.mu`, which keeps `prepareChunkWriter` from adding
writers, and on failed or closed writers implying `cs.err`. When nothing is left to wait
for, all writers are `drained`, hence by `OneHolder` with nobody else, hence `AtRest`.

`ChunkCodec_proof` proves two facts about operators, for all field widths:
`BasicHeaderRoundTrip` (whatever follows a basic header, the decoder finds every ID from
2 to 65599; but it takes exactly the header if and only if the ID is below 320 or nothing
follows, and else all that has arrived, up to the size of `cacheBuffer`) and
`HeaderRoundTrip` (if the two ends agree on a chunk stream, the header the writer
chooses gives the reader the next message's length, type, message stream and
timestamp, reversals included, when no extended timestamp is needed). Of the state
machine it proves

- `TypeCorrect`: `Spec => []TypeOK`, whatever is written;

and, from the assumption `PlainUse`, for any chunk streams, messages, chunk sizes and
any number of chunks in transit,

- `AlwaysReadable`: `Spec => []Readable`, `readChunk` never panics and never takes the
  bytes of a header for payload or payload for a header;
- `HeadersInStep`: `Spec => []HeadersAgree`;
- `SizesInStep`: `Spec => []SizesAgree`;
- `ImplementsPipe`: `Spec => CodecImplementsPipe`, the refinement of `ChunkPipe`. Write
  and the announcement of a chunk size are `Accept`, the chunk that completes a message
  is `Deliver`, every other step is a stutter.

`PlainUse` is what the code needs, no more than one clause per way to break it:

| clause | without it |
| --- | --- |
| chunk stream IDs below 320 | the decoder takes what has arrived behind the basic header (`codec_overread_violation`, chunk_header.go:41) |
| timestamps below 0xffffff | fmt 3 chunks leave out the extended timestamp the reader expects (`codec_extended_violation`) |
| lengths from 1 to 2^24 - 1 | an empty message has a chunk the reader has no room for, a longer one's length is cut off (chunk_streamer.go:258) |
| one message stream | a change of it sends fmt 0, after which writer and reader disagree on the delta (chunk_streamer.go:343) |
| `QuietSizeChange` | what is written between `CreateStream`'s assignment and its announcement is cut into chunks of a size the reader does not know |

The constants of `codec` satisfy it. The difficulty of the proof is that the chunks in
transit were written for a reader that does not exist yet, the one who has read all
before them. The inductive invariant names that reader: there is a sequence `g` of
reading sides, one per chunk in transit, that starts with the present side (`Ahead`);
each reads its chunk rightly and becomes the next (`Reads`); and the last one is in step
with the writers (`SidesInStep`). In step means, for a chunk stream that nobody writes,
that its pipe is empty and its headers agree (`Between`), and for one that is being
written, that its pipe holds just the writer's message, of which the reader has exactly
the part the writer no longer has (`Midway`). `ReadChunk` takes the first side off `g`
(`AheadShifts`), `WriteChunk` adds one at the end (`WriteInStep`, from `FirstChunk` and
`NextChunk`), and a message loaded appears in the pipe of every side (`AheadGrows`),
which changes none of the readings because whatever is completed was already in the
pipe. That a chunk stream without chunks in transit has the reader the last side has
(`Untouched`) is part of the invariant: it would take an induction to derive it.

`Accepting_proof` is about any number of listeners and connections, transports of any
capacity and any random bytes:

- `TypeCorrect`: `Spec => []TypeOK`, with at most one `Serve` in its accept loop;
- `ReadsInStep`: `Spec => []InStep`, either side reads the packets it expects, in order;
- `HonestSucceed`: `Spec => []HandshakesSucceed`;
- `ChecksPass`: the checks of C2 and S2 that the last one rests on, for every C1.

The inductive invariant of a connection (`ConnInv`) says that what a side has read,
followed by what is in transit to it, is a prefix of the packets the other side has to
send (`InOrder`); that the length of the prefix goes with the place of either side's code
(`AtPlace`); and that S1 was made for the scheme of C1 (`AnswersC1`). `InStep` and
`HandshakesSucceed` are not inductive without it, because a packet that is read was
checked against one that is long gone from the transport.

Its first section is about the place of the digests, for every sum of four bytes: it
stays in its block (`DigestStaysInBlock`), within the packet and clear of the bytes that
place a digest (`DigestMovesNone`); the server's digest lies where a client looks for it
(`S1DigestFound`); and a client is answered under the scheme it has signed under
(`SignedSchemeIsFound`), because no place belongs to both blocks.

`AckWindow_proof` is about any sizes of chunks and messages, windows, counters and
capacities that satisfy the module's assumptions, of which it needs that a chunk is less
than half a window and a window less than the counter's range:

- `TypeCorrect`: `Spec => []TypeOK`;
- `AcksInTime`: `Spec => []AckInTime`, no end is a whole window ahead of what it has
  told its peer;
- `AcksInOrder`: `Spec => AcksAdvance`, an action property: no step takes an
  acknowledgement back or repeats it.

What an end has told its peer is one sequence (`Told`): what the peer's user has got,
the chunk the peer is at, the transport and the channel. Its own steps add to the end of
it, its peer's steps take from the front. The inductive invariant says that the bytes
read since its newest acknowledgement are `fragmentReadBytes`, up to one turn of the
counter (`Telling`); that each acknowledgement in it is half a window ahead of the one
before (`Chained`); and that less than half a window is unacknowledged whenever the
message loop reads on (`Fragments`). `Fragments` is not inductive by itself because the
window may shrink while bytes are counted: nothing but the announcement has come by then
(`Early`, `Announcing`).

`MessageBodies_proof` shows that decoding undoes encoding: for every user control
event (`EventRoundTrip`), every message the encoder accepts (`MessageRoundTrip`),
every command body both sides know except play's, whose three numbers have their
own optional forms (`CommandBodyRoundTrip`), and the results of connect and
createStream (`ResultRoundTrip`), over words of any even size and any names,
objects and payloads. It rests on the two switches of each direction being inverse
(`EventTypesDiffer`, `CommandsDiffer`) and on words wrapping the same way in both.

`Session_proof` is about any number of message streams, calls and messages, any
workload, whether or not messages for missing streams are ignored, and whatever
writes, handlers and replies fail:

- `TypeCorrect`: `Spec => []TypeOK`;
- `OwnReplies`: `Spec => []OwnReply`, and `AllExpected`: `Spec => []RepliesExpected`;
- `StreamsInStep`: `Spec => []StreamsAgree`;
- `AudioInPlace`: `Spec => []NoStrayAudio`, and `CommandsInPlace`:
  `Spec => []NoStrayCommand`.

One inductive invariant (`IInv`) carries them all. Its first part, `Shape`, types the
variables, and the packets in transit by what the two ends write: `ClientPackets` and
`ServerPackets`, of which `MessageBodies_proof` says what a decoder makes of them. The
second, `OneAtATime`, follows a call: its request, the reply to it and the answer given
to the caller are at most one thing, and bear the call's tag and transaction, which is
registered until the answer is there. It is inductive with `Shape`, and `OwnReply` and
`RepliesExpected` are parts of it. The third, `InStep`, says what is in transit knows of
the server's streams: commands and audio for a stream find the incarnation they were
written for (`SmallInPlace`) because nothing for a stream follows its deletion
(`DeletesLast`) and neither can be overtaken by it (`CommandArrives`); and a stream that
one end has and the other has not is accounted for by a `deleteStream` or by the reply
to a `createStream` on the way (`StreamInStep`), for which the server's control stream
must be connected (`Connection`). The proof reduces the handlers to what they do to
streams and replies (`Turn`, `Call`) and has one lemma per step and part. The constants
are assumed to be of their types, and `None` to be no number and no packet.

`Relay_proof` proves the invariants of the relay demo for any connections and names and
any number of tags with any timestamps in any order; it assumes that `NoPubsub` and `NoTag`
are neither Pubsub nor tag, and that a timestamp is a number of its width. `NamesAreHeld` is inductive together with `TableType`:
`RemovePubsub` goes by the name, and removes its own Pubsub because the table leads from
the name to it and because a connection's `pub` is its own. All handlers but publish and
the end of a publisher only move a connection from place to place (`MovesOrNot`).

`PlayableVideo` and `TimesKeepDistance` say what a player has got, and are not inductive:
nothing in them says that the next tag fits. `PInv` adds three things. What `Publish`
remembers is an opening (`Remembered`): a key frame no older than the header, and a header
at all once video has come from a stream that starts with one. What any player has got is
from its publisher, counted from the first timestamp that is not 0 (`Timed`) and in order
unless its opening was older than the audio before it (`Sorted`); this stays true however
the player or its publisher ends (`Past`). And a player in the list of a publisher that
still publishes has seen all up to the tag that is being relayed, or up to the one before
if it is still in `Publish`'s list (`Live`, `Seen`); while it has had no video it has got
all audio since it began, so an opening is either the tag that is relayed or older than all
it has got (`LatestOrOlder`). That both lists have a player only once, and that a name's
next Pubsub starts without players, follows from `Lists`, `Playing` and `NamesAreHeld`.
Handlers that publish nothing, subscribe nobody and relay nothing are one lemma
(`QuietKeeps`), the four others have one each. `TypeCorrect`, `PlayersCanPlay` and
`DistancesKept` follow. The last one needs that two times counted from one base differ as
the timestamps do up to one turn of the counter (`Apart`), and that counting begins at the
base (`CountedFrom`); `Sorted` makes a steady publisher's later tags no earlier than it.

Only model-checked:

- everything temporal beyond invariants, action properties and the two refinements of
  `ChunkPipe`: liveness under fairness and `ENABLED` are out of the prover's reach;
  these are `CloseReturns`, `WriteReturns`, `SchedStops`, `WritersFinish` and
  `AcceptedArrives` of the writers, `CallsReturn` of the session, `HandlersEnd`,
  `HandshakesEnd` and `ServeReturns` of the server, and `Quiesces` of `AckWindow`, that
  acknowledgements never stop the traffic they acknowledge.

## Not modelled

- AMF's bytes and the signatures' are external: a value is its kind and content, a
  signature who made it. What a message body with fields of the wrong kind does is
  modelled for getStreamLength without its name and for results that are not
  objects only as far as this library's two ends send them.
- Data races proper: unsynchronised maps (`streams.At`, `transactions.At`) may end
  the program, which is not a state. The relay's unlocked reads of `Pubsub.subs` and
  `eventCallback` see either the old or the new value, as on the common platforms.
- What users' handlers do, except that they may return an error, and what the relay
  demo does. That a slow player blocks its publisher (callback.go:26 writes with
  `context.Background`) is why `Relay` promises nothing about progress.
- `WriteSetChunkSize` called by a user (stream.go:308) announces a size the writer
  does not use; only `CreateStream`'s announcement is modelled.
- The client and server demos, the choice of a dialer, TLS, logging.

## Plan

1. Composition of `Stream.cmsg` with the writers: a user's request and the message
   loop's Ack share the control stream's `cmsg` (stream.go:325).
2. Message streams that share a chunk stream in `ChunkCodec`
   (chunk_streamer.go:343), and messages without payload (chunk_streamer.go:258).
