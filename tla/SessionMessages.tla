--------------------------- MODULE SessionMessages ---------------------------
(***************************************************************************)
(* The messages the two ends of an RTMP connection exchange about message  *)
(* streams, as they travel, and the order in which they arrive.  A message *)
(* travels on a chunk stream, and a chunk stream is a pipe (module         *)
(* ChunkPipe); messages of different chunk streams overtake each other     *)
(* when they have several chunks, because the scheduler alternates between *)
(* them.                                                                   *)
(***************************************************************************)
EXTENDS MessageBodies, SequencesExt

CONSTANTS
    MaxMessageStreams, \* of the server; IDs are 0..MaxMessageStreams - 1
    Workloads          \* what users do: see Workload

ControlStreamID == 0
StreamIDs == 0..MaxMessageStreams - 1

\* What users write beside the calls of the client's API, by name.
Kinds == {"publish", "play", "releaseStream", "FCPublish", "FCUnpublish",
          "closeStream", "unnamed", "checkbw", "@setDataFrame", "onTextData", "audio", "video",
          "ping", "ack window", "huge ack window"}

\* A user of the client makes at most "calls" calls, asks for the chunk sizes
\* "sizes", and writes messages of "kinds" on the streams it has created and of
\* "control" on the control stream; a user of the server writes messages of
\* "server" to players.
Workload == [calls : Nat, sizes : SUBSET Nat, kinds : SUBSET Kinds,
             control : SUBSET Kinds, server : SUBSET Kinds]

ASSUME StreamsAssumption == MaxMessageStreams \in Nat \ {0} /\ Workloads \subseteq Workload

\* Stream.Connect always uses transaction 1 and Stream.CreateStream 2.
ConnectTransaction == 1
CreateStreamTransaction == 2
Transactions == {ConnectTransaction, CreateStreamTransaction}

-----------------------------------------------------------------------------
(* Packets: what a message is on the wire.  The tag is history: the number *)
(* of the call that a command and its reply belong to, or the incarnation  *)
(* of the message stream that a message was written on.                    *)

Packet(sid, m, tag) ==
    [sid |-> sid, id |-> TypeID(m), data |-> Encode(m), tag |-> tag]

CommandMessage(name, tid, args) ==
    [type |-> "CommandMessage", CommandName |-> name, TransactionID |-> tid,
     Encoding |-> AMF0, Body |-> args]

\* Stream.writeCommandMessage
Command(sid, name, tid, body, tag) ==
    Packet(sid, CommandMessage(name, tid, ToArgs(body)), tag)

Message(p) == Decode(p.id, p.data)

CommandID == 20
CommandName(p) == IF p.id = CommandID THEN Value(p.data[1]) ELSE "none"

\* The message a user writes by hand.  A play command has no body that could be
\* encoded, and no third argument; "unnamed" lacks the argument it needs.
Huge == WordMod \div 2 - 1

UserMessage(kind) ==
    CASE kind = "publish" ->
            CommandMessage(kind, 0, ToArgs([type |-> "NetStreamPublish",
                PublishingName |-> "name", PublishingType |-> "live"]))
      [] kind = "play" -> CommandMessage(kind, 0, <<Null, Text("name")>>)
      [] kind \in {"releaseStream", "FCPublish", "FCUnpublish"} ->
            CommandMessage(kind, 0, ToArgs([type |-> CmdBodyDecoders[kind],
                                            StreamName |-> "name"]))
      [] kind = "closeStream" ->
            CommandMessage(kind, 0, ToArgs([type |-> CmdBodyDecoders[kind]]))
      [] kind = "unnamed" -> CommandMessage("getStreamLength", 0, <<Null>>)
      [] kind = "checkbw" -> CommandMessage(kind, 0, <<Null>>)
      [] kind \in {"@setDataFrame", "onTextData"} ->
            [type |-> "DataMessage", Name |-> kind, Encoding |-> AMF0,
             Body |-> ToArgs([type |-> "NetStreamSetDataFrame",
                              AmfData |-> Object("metadata")])]
      [] kind = "audio" -> [type |-> "AudioMessage", Payload |-> "sound"]
      [] kind = "video" -> [type |-> "VideoMessage", Payload |-> "picture"]
      [] kind = "ping" ->
            [type |-> "UserCtrl",
             Event |-> [type |-> "UserCtrlEventPingRequest", Timestamp |-> 0]]
      [] kind = "ack window" -> [type |-> "WinAckSize", Size |-> 1]
      [] kind = "huge ack window" -> [type |-> "WinAckSize", Size |-> Huge]

-----------------------------------------------------------------------------
(* Order of arrival *)

\* Mutant: publish and play go over a chunk stream of their own.
ChunkStream_OwnForPublish(p) ==
    CASE p.id = 8 -> "audio"
      [] p.id = 9 -> "video"
      [] p.id = 18 -> "data"
      [] p.id = CommandID /\ CommandName(p) \in {"publish", "play"} -> "publish"
      [] p.id = CommandID -> "command"
      [] OTHER -> "control"

\* Commands go over chunk stream 3, audio, video and data over one each, and
\* everything else over chunk stream 2.
ChunkStream(p) == CASE p.id = 8 -> "audio"
                    [] p.id = 9 -> "video"
                    [] p.id = 18 -> "data"
                    [] p.id = CommandID -> "command"
                    [] OTHER -> "control"

\* Messages of several chunks of the default size of 128 bytes, as publish and play
\* are when the name is long.
Large(p) == \/ p.id \in {9, 18}
            \/ CommandName(p) \in {"connect", "_result", "_error", "onStatus",
                                  "publish", "play"}

\* The places of a queue from which the next message can arrive.  The
\* scheduler's channel keeps single chunks in order, and a large message can be
\* overtaken by all that follows on other chunk streams.
Arriving(q) ==
    {i \in 1..Len(q) :
       \A j \in 1..i - 1 : Large(q[j]) /\ ChunkStream(q[j]) # ChunkStream(q[i])}
=============================================================================
