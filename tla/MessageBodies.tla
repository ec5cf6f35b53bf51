---------------------------- MODULE MessageBodies ----------------------------
(***************************************************************************)
(* What the package message does: a Go message becomes a type ID and a     *)
(* sequence of fields on the wire, and back; the arguments of a command    *)
(* become a body, and back.  Go structs are records with the struct's name *)
(* as "type".  A field on the wire is its kind and its value: an AMF value *)
(* carries its kind with it, a field of a fixed layout is known by its     *)
(* place.                                                                  *)
(***************************************************************************)
EXTENDS Integers, Sequences

CONSTANT WordMod \* 2^32: the values of four bytes

ASSUME WordAssumption == WordMod \in Nat /\ WordMod > 1 /\ WordMod % 2 = 0

\* AMF0 values.
Null == <<"null">>
Number(n) == <<"number", n>>
Text(s) == <<"string", s>>
Object(o) == <<"object", o>>

\* Fields of fixed layouts, and payload nobody looks into.
Word(n) == <<"word", n % WordMod>>
Half(n) == <<"half", n>>
Octet(n) == <<"octet", n>>
Bytes(p) == <<"bytes", p>>

Value(field) == field[2]
Int32(field) == IF Value(field) >= WordMod \div 2 THEN Value(field) - WordMod
                ELSE Value(field)

AMF0 == 0
AMF3 == 3

-----------------------------------------------------------------------------
(* Type IDs *)

PlainTypeID ==
    [SetChunkSize |-> 1, AbortMessage |-> 2, Ack |-> 3, UserCtrl |-> 4,
     WinAckSize |-> 5, SetPeerBandwidth |-> 6, AudioMessage |-> 8,
     VideoMessage |-> 9, SharedObjectMessageAMF3 |-> 16,
     SharedObjectMessageAMF0 |-> 19, AggregateMessage |-> 22]

TypeID(m) ==
    CASE m.type = "DataMessage" -> IF m.Encoding = AMF3 THEN 15 ELSE 18
      [] m.type = "CommandMessage" -> IF m.Encoding = AMF3 THEN 17 ELSE 20
      [] OTHER -> PlainTypeID[m.type]

-----------------------------------------------------------------------------
(* User control events *)

EventType == [UserCtrlEventStreamBegin |-> 0, UserCtrlEventStreamEOF |-> 1,
              UserCtrlEventStreamDry |-> 2, UserCtrlEventSetBufferLength |-> 3,
              UserCtrlEventStreamIsRecorded |-> 4, UserCtrlEventPingRequest |-> 6,
              UserCtrlEventPingResponse |-> 7]

Pings == {"UserCtrlEventPingRequest", "UserCtrlEventPingResponse"}

EncodeEvent(e) ==
    CASE e.type \in Pings -> <<Half(EventType[e.type]), Word(e.Timestamp)>>
      [] e.type = "UserCtrlEventSetBufferLength" ->
            <<Half(3), Word(e.StreamID), Word(e.LengthMs)>>
      [] OTHER -> <<Half(EventType[e.type]), Word(e.StreamID)>>

DecodeEvent(data) ==
    LET eventType == Value(data[1])
        name == CHOOSE t \in DOMAIN EventType : EventType[t] = eventType
    IN  CASE eventType \in {6, 7} -> [type |-> name, Timestamp |-> Value(data[2])]
          [] eventType = 3 -> [type |-> name, StreamID |-> Value(data[2]),
                               LengthMs |-> Value(data[3])]
          [] OTHER -> [type |-> name, StreamID |-> Value(data[2])]

-----------------------------------------------------------------------------
(* Messages *)

NotImplemented == {"SharedObjectMessageAMF3", "SharedObjectMessageAMF0",
                   "AggregateMessage"}

\* Encoder.Encode returns no error and does not panic.
Encodable(m) ==
    /\ m.type \notin NotImplemented
    /\ m.type = "SetChunkSize" => m.ChunkSize \in 1..(WordMod \div 2 - 1)
    /\ m.type \in {"DataMessage", "CommandMessage"} => m.Encoding = AMF0
    /\ m.type = "UserCtrl" => m.Event.type \in DOMAIN EventType

Encode(m) ==
    CASE m.type = "SetChunkSize" -> <<Word(m.ChunkSize)>>
      [] m.type = "AbortMessage" -> <<Word(m.ChunkStreamID)>>
      [] m.type = "Ack" -> <<Word(m.SequenceNumber)>>
      [] m.type = "UserCtrl" -> EncodeEvent(m.Event)
      [] m.type = "WinAckSize" -> <<Word(m.Size)>>
      [] m.type = "SetPeerBandwidth" -> <<Word(m.Size), Octet(m.Limit)>>
      [] m.type \in {"AudioMessage", "VideoMessage"} -> <<Bytes(m.Payload)>>
      [] m.type = "DataMessage" -> <<Text(m.Name)>> \o m.Body
      [] m.type = "CommandMessage" ->
            <<Text(m.CommandName), Number(m.TransactionID)>> \o m.Body

\* The AMF values come in these kinds.
Starts(data, kinds) ==
    Len(data) >= Len(kinds) /\ \A i \in DOMAIN kinds : data[i][1] = kinds[i]

\* Decoder.Decode returns no error.
Decodable(id, data) ==
    CASE id = 1 -> data # <<>> /\ Value(data[1]) \in 1..(WordMod \div 2 - 1)
      [] id \in {2, 3, 5} -> Len(data) >= 1
      [] id = 4 -> /\ Len(data) >= IF Value(data[1]) = 3 THEN 3 ELSE 2
                   /\ \E t \in DOMAIN EventType : EventType[t] = Value(data[1])
      [] id = 6 -> Len(data) >= 2
      [] id \in {8, 9} -> data # <<>>
      [] id = 18 -> Starts(data, <<"string">>)
      [] id = 20 -> Starts(data, <<"string", "number">>)
      [] OTHER -> FALSE

Decode(id, data) ==
    CASE id = 1 -> [type |-> "SetChunkSize", ChunkSize |-> Value(data[1])]
      [] id = 2 -> [type |-> "AbortMessage", ChunkStreamID |-> Value(data[1])]
      [] id = 3 -> [type |-> "Ack", SequenceNumber |-> Value(data[1])]
      [] id = 4 -> [type |-> "UserCtrl", Event |-> DecodeEvent(data)]
      [] id = 5 -> [type |-> "WinAckSize", Size |-> Int32(data[1])]
      [] id = 6 -> [type |-> "SetPeerBandwidth", Size |-> Int32(data[1]),
                    Limit |-> Value(data[2])]
      [] id = 8 -> [type |-> "AudioMessage", Payload |-> Value(data[1])]
      [] id = 9 -> [type |-> "VideoMessage", Payload |-> Value(data[1])]
      [] id = 18 -> [type |-> "DataMessage", Name |-> Value(data[1]),
                     Encoding |-> AMF0, Body |-> SubSeq(data, 2, Len(data))]
      [] id = 20 -> [type |-> "CommandMessage", CommandName |-> Value(data[1]),
                     TransactionID |-> Value(data[2]), Encoding |-> AMF0,
                     Body |-> SubSeq(data, 3, Len(data))]

-----------------------------------------------------------------------------
(* Bodies of commands and data messages *)

\* Name of a command -> the body its decoder makes.
CmdBodyDecoders ==
    [connect |-> "NetConnectionConnect",
     createStream |-> "NetConnectionCreateStream",
     deleteStream |-> "NetStreamDeleteStream",
     publish |-> "NetStreamPublish",
     play |-> "NetStreamPlay",
     releaseStream |-> "NetConnectionReleaseStream",
     FCPublish |-> "NetStreamFCPublish",
     FCUnpublish |-> "NetStreamFCUnpublish",
     getStreamLength |-> "NetStreamGetStreamLength",
     ping |-> "NetStreamPing",
     closeStream |-> "NetStreamCloseStream"]

DataBodyDecoders == {"@setDataFrame"}

Bare == {"NetConnectionCreateStream", "NetStreamPing", "NetStreamCloseStream"}
Named == {"NetConnectionReleaseStream", "NetStreamFCPublish",
          "NetStreamFCUnpublish", "NetStreamGetStreamLength"}

\* ToArgs of NetStreamPlay panics: a play command can be read, not written.
Writable(b) == b.type # "NetStreamPlay"

ArgsOfNetConnection(b) ==
    CASE b.type = "NetConnectionConnect" -> <<Object(b.Command)>>
      [] b.type = "NetConnectionConnectResult" ->
            <<Object(b.Properties), Object(b.Information)>>
      [] b.type = "NetConnectionCreateStreamResult" -> <<Null, Number(b.StreamID)>>

ArgsOfNetStream(b) ==
    CASE b.type = "NetStreamPublish" ->
            <<Null, Text(b.PublishingName), Text(b.PublishingType)>>
      [] b.type = "NetStreamOnStatus" -> <<Null, Object(b.InfoObject)>>
      [] b.type = "NetStreamDeleteStream" -> <<Null, Number(b.StreamID)>>

ArgsOfSetDataFrame(b) == <<Text("onMetaData"), b.AmfData>>

ToArgs(b) ==
    CASE b.type \in Bare -> <<Null>>
      [] b.type \in Named -> <<Null, Text(b.StreamName)>>
      [] b.type \in {"NetConnectionConnect", "NetConnectionConnectResult",
                     "NetConnectionCreateStreamResult"} -> ArgsOfNetConnection(b)
      [] b.type = "NetStreamSetDataFrame" -> ArgsOfSetDataFrame(b)
      [] OTHER -> ArgsOfNetStream(b)

\* A third argument may be missing, and is of its kind if it is there.
ThirdIs(args, kind) == Len(args) >= 3 => args[3][1] = kind

\* The decoder of the command returns no error.
CmdBodyDecodes(name, args) ==
    LET body == CmdBodyDecoders[name] IN
    CASE name = "connect" -> Len(args) >= 1 /\ args[1][1] \in {"object", "null"}
      [] body \in Bare -> Len(args) >= 1
      [] body \in Named -> Len(args) >= 2 /\ args[2][1] = "string"
      [] name = "deleteStream" -> Len(args) >= 2 /\ args[2][1] = "number"
      [] name = "publish" ->
            Len(args) >= 2 /\ args[2][1] = "string" /\ ThirdIs(args, "string")
      [] name = "play" ->
            Len(args) >= 2 /\ args[2][1] = "string" /\ ThirdIs(args, "number")

DecodeBodyPublish(args) ==
    [type |-> "NetStreamPublish", PublishingName |-> Value(args[2]),
     PublishingType |-> IF Len(args) >= 3 THEN Value(args[3]) ELSE "live"]

DecodeBodyPlay(args) ==
    [type |-> "NetStreamPlay", StreamName |-> Value(args[2]),
     Start |-> IF Len(args) >= 3 THEN Value(args[3]) ELSE 0]

DecodeBodyDeleteStream(args) ==
    [type |-> "NetStreamDeleteStream", StreamID |-> Value(args[2])]

DecodeBodyNamed(name, args) ==
    [type |-> CmdBodyDecoders[name], StreamName |-> Value(args[2])]

\* A null for the command object leaves a command whose fields are all zero.
ZeroCommand == "zero"
DecodeBodyConnect(args) ==
    [type |-> "NetConnectionConnect",
     Command |-> IF args[1][1] = "null" THEN ZeroCommand ELSE Value(args[1])]

CmdBody(name, args) ==
    CASE name = "connect" -> DecodeBodyConnect(args)
      [] CmdBodyDecoders[name] \in Bare -> [type |-> CmdBodyDecoders[name]]
      [] CmdBodyDecoders[name] \in Named -> DecodeBodyNamed(name, args)
      [] name = "deleteStream" -> DecodeBodyDeleteStream(args)
      [] name = "publish" -> DecodeBodyPublish(args)
      [] name = "play" -> DecodeBodyPlay(args)

\* The results of connect and createStream; on properties or information that
\* are no objects FromArgs panics.
ConnectResultDecodes(args) == Starts(args, <<"object", "object">>)

DecodeBodyConnectResult(args) ==
    [type |-> "NetConnectionConnectResult", Properties |-> Value(args[1]),
     Information |-> Value(args[2])]

CreateStreamResultDecodes(args) == Len(args) >= 2 /\ args[2][1] = "number"

DecodeBodyCreateStreamResult(args) ==
    [type |-> "NetConnectionCreateStreamResult", StreamID |-> Value(args[2])]

\* @setDataFrame keeps what follows its name as it is.
DecodeBodyAtSetDataFrame(args) ==
    [type |-> "NetStreamSetDataFrame", Payload |-> args, AmfData |-> Null]
=============================================================================
