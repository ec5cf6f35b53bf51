------------------------- MODULE MessageBodies_proof -------------------------
(***************************************************************************)
(* What is written is read back: type IDs tell messages apart, and the     *)
(* decoders invert the encoders on every message the encoder accepts.      *)
(***************************************************************************)
EXTENDS MessageBodies, SequenceTheorems, TLAPS

Words == 0..WordMod - 1
Int32s == -(WordMod \div 2)..(WordMod \div 2 - 1)

\* A number that fits its word is written as it is.
LEMMA WordOfWord ==
    ASSUME NEW n \in Words
    PROVE  n % WordMod = n
  BY WordAssumption DEF Words

\* An int32 written as a word, as the chunk size and the windows are, is read as itself.
LEMMA IntOfWord ==
    ASSUME NEW n \in Int32s
    PROVE  Int32(Word(n)) = n
  <1> DEFINE r == n % WordMod
  <1>1. WordMod \div 2 \in Nat /\ WordMod = 2 * (WordMod \div 2)
    BY WordAssumption
  <1>2. CASE n >= 0
    <2>1. r = n
      BY <1>1, <1>2, WordAssumption DEF Int32s
    <2> QED
      BY <1>1, <1>2, <2>1 DEF Int32, Word, Value, Int32s
  <1>3. CASE n < 0
    <2>1. r = n + WordMod
      BY <1>1, <1>3, WordAssumption DEF Int32s
    <2> QED
      BY <1>1, <1>3, <2>1 DEF Int32, Word, Value, Int32s
  <1> QED
    BY <1>2, <1>3 DEF Int32s

-----------------------------------------------------------------------------
(* User control events *)

StreamEvents == DOMAIN EventType \ (Pings \cup {"UserCtrlEventSetBufferLength"})

Events ==
    [type : StreamEvents, StreamID : Words] \cup [type : Pings, Timestamp : Words]
    \cup [type : {"UserCtrlEventSetBufferLength"}, StreamID : Words, LengthMs : Words]

\* No two user control events share a number.
LEMMA EventTypesDiffer ==
    ASSUME NEW t \in DOMAIN EventType, NEW u \in DOMAIN EventType,
           EventType[t] = EventType[u]
    PROVE  t = u
  BY DEF EventType

\* The decoder's switch finds the event its number was written for.
LEMMA NameOfEvent ==
    ASSUME NEW t \in DOMAIN EventType
    PROVE  (CHOOSE u \in DOMAIN EventType : EventType[u] = EventType[t]) = t
  <1> DEFINE c == CHOOSE u \in DOMAIN EventType : EventType[u] = EventType[t]
  <1>1. c \in DOMAIN EventType /\ EventType[c] = EventType[t]
    OBVIOUS
  <1> QED
    BY <1>1, EventTypesDiffer

(* Every event the encoder writes is read back, and the decoder accepts it. *)
THEOREM EventRoundTrip ==
    \A e \in Events : /\ DecodeEvent(EncodeEvent(e)) = e
                      /\ Decodable(4, EncodeEvent(e))
  <1> SUFFICES ASSUME NEW e \in Events
               PROVE  DecodeEvent(EncodeEvent(e)) = e /\ Decodable(4, EncodeEvent(e))
    OBVIOUS
  <1> DEFINE t == EventType[e.type]
  <1>0. e.type \in DOMAIN EventType
    BY DEF Events, StreamEvents, Pings, EventType
  <1>1. t = Value(EncodeEvent(e)[1])
    BY <1>0 DEF EncodeEvent, Half, Value, EventType
  <1>2. (CHOOSE u \in DOMAIN EventType : EventType[u] = Value(EncodeEvent(e)[1])) = e.type
    BY <1>0, <1>1, NameOfEvent
  <1>3. CASE e.type \in StreamEvents
    <2>1. /\ e = [type |-> e.type, StreamID |-> e.StreamID] /\ e.StreamID \in Words
          /\ t \notin {3, 6, 7}
      BY <1>3 DEF Events, StreamEvents, Pings, EventType
    <2>2. EncodeEvent(e) = <<Half(t), Word(e.StreamID)>>
      BY <1>3 DEF EncodeEvent, StreamEvents
    <2>3. Value(EncodeEvent(e)[2]) = e.StreamID
      BY <2>1, <2>2, WordOfWord DEF Word, Value
    <2>4. DecodeEvent(EncodeEvent(e)) = [type |-> e.type, StreamID |-> e.StreamID]
      BY <1>1, <1>2, <2>1, <2>3 DEF DecodeEvent
    <2>5. Decodable(4, EncodeEvent(e))
      BY <1>0, <1>1, <2>1, <2>2 DEF Decodable
    <2> QED
      BY <2>1, <2>4, <2>5
  <1>4. CASE e.type \in Pings
    <2>1. /\ e = [type |-> e.type, Timestamp |-> e.Timestamp] /\ e.Timestamp \in Words
          /\ t \in {6, 7} /\ t # 3
      BY <1>4 DEF Events, StreamEvents, Pings, EventType
    <2>2. EncodeEvent(e) = <<Half(t), Word(e.Timestamp)>>
      BY <1>4 DEF EncodeEvent, Pings
    <2>3. Value(EncodeEvent(e)[2]) = e.Timestamp
      BY <2>1, <2>2, WordOfWord DEF Word, Value
    <2>4. DecodeEvent(EncodeEvent(e)) = [type |-> e.type, Timestamp |-> e.Timestamp]
      BY <1>1, <1>2, <2>1, <2>3 DEF DecodeEvent
    <2>5. Decodable(4, EncodeEvent(e))
      BY <1>0, <1>1, <2>1, <2>2 DEF Decodable
    <2> QED
      BY <2>1, <2>4, <2>5
  <1>5. CASE e.type = "UserCtrlEventSetBufferLength"
    <2>1. /\ e = [type |-> e.type, StreamID |-> e.StreamID, LengthMs |-> e.LengthMs]
          /\ e.StreamID \in Words /\ e.LengthMs \in Words /\ t = 3 /\ t \notin {6, 7}
      BY <1>5 DEF Events, StreamEvents, Pings, EventType
    <2>2. EncodeEvent(e) = <<Half(3), Word(e.StreamID), Word(e.LengthMs)>>
      BY <1>5 DEF EncodeEvent, Pings
    <2>3. /\ Value(EncodeEvent(e)[2]) = e.StreamID
          /\ Value(EncodeEvent(e)[3]) = e.LengthMs
      BY <2>1, <2>2, WordOfWord DEF Word, Value
    <2>4. DecodeEvent(EncodeEvent(e))
             = [type |-> e.type, StreamID |-> e.StreamID, LengthMs |-> e.LengthMs]
      BY <1>1, <1>2, <2>1, <2>3 DEF DecodeEvent
    <2>5. Decodable(4, EncodeEvent(e))
      BY <1>0, <1>1, <2>1, <2>2 DEF Decodable
    <2> QED
      BY <2>1, <2>4, <2>5
  <1> QED
    BY <1>0, <1>3, <1>4, <1>5 DEF StreamEvents

-----------------------------------------------------------------------------
(* Messages: the Go types, for any payloads, names and AMF values.         *)

WordMessages ==
    [type : {"SetChunkSize"}, ChunkSize : Words]
    \cup [type : {"AbortMessage"}, ChunkStreamID : Words]
    \cup [type : {"Ack"}, SequenceNumber : Words]
    \cup [type : {"WinAckSize"}, Size : Int32s]
    \cup [type : {"SetPeerBandwidth"}, Size : Int32s, Limit : 0..2]

PayloadMessages(Payloads) ==
    [type : {"AudioMessage", "VideoMessage"}, Payload : Payloads]

AMFMessages(Names, Values) ==
    [type : {"DataMessage"}, Name : Names, Encoding : {AMF0, AMF3}, Body : Seq(Values)]
    \cup [type : {"CommandMessage"}, CommandName : Names, TransactionID : Int,
          Encoding : {AMF0, AMF3}, Body : Seq(Values)]

Messages(Payloads, Names, Values) ==
    WordMessages \cup [type : {"UserCtrl"}, Event : Events]
    \cup PayloadMessages(Payloads) \cup AMFMessages(Names, Values)

RoundTrip(m) == /\ Decodable(TypeID(m), Encode(m))
                /\ Decode(TypeID(m), Encode(m)) = m

\* The type ID the encoder writes for a message, by the message's type and encoding.
LEMMA TypeIDs ==
    ASSUME NEW m
    PROVE  /\ m.type \in DOMAIN PlainTypeID => TypeID(m) = PlainTypeID[m.type]
           /\ m.type = "DataMessage" /\ m.Encoding = AMF0 => TypeID(m) = 18
           /\ m.type = "CommandMessage" /\ m.Encoding = AMF0 => TypeID(m) = 20
  BY DEF TypeID, PlainTypeID, AMF0, AMF3

\* Messages that are one or two words.
LEMMA WordMessagesRoundTrip ==
    ASSUME NEW m \in WordMessages, Encodable(m)
    PROVE  RoundTrip(m)
  <1>1. CASE m.type = "SetChunkSize"
    <2>1. /\ m = [type |-> "SetChunkSize", ChunkSize |-> m.ChunkSize]
          /\ m.ChunkSize \in Words /\ m.ChunkSize \in 1..(WordMod \div 2 - 1)
      BY <1>1 DEF WordMessages, Encodable
    <2>2. Encode(m) = <<Word(m.ChunkSize)>> /\ TypeID(m) = 1
      BY <1>1, TypeIDs DEF Encode, PlainTypeID
    <2>3. Value(Encode(m)[1]) = m.ChunkSize
      BY <2>1, <2>2, WordOfWord DEF Word, Value
    <2> QED
      BY <2>1, <2>2, <2>3 DEF RoundTrip, Decodable, Decode
  <1>2. CASE m.type = "AbortMessage"
    <2>1. m = [type |-> "AbortMessage", ChunkStreamID |-> m.ChunkStreamID]
          /\ m.ChunkStreamID \in Words
      BY <1>2 DEF WordMessages
    <2>2. Encode(m) = <<Word(m.ChunkStreamID)>> /\ TypeID(m) = 2
      BY <1>2, TypeIDs DEF Encode, PlainTypeID
    <2>3. Value(Encode(m)[1]) = m.ChunkStreamID
      BY <2>1, <2>2, WordOfWord DEF Word, Value
    <2> QED
      BY <2>1, <2>2, <2>3 DEF RoundTrip, Decodable, Decode
  <1>3. CASE m.type = "Ack"
    <2>1. m = [type |-> "Ack", SequenceNumber |-> m.SequenceNumber]
          /\ m.SequenceNumber \in Words
      BY <1>3 DEF WordMessages
    <2>2. Encode(m) = <<Word(m.SequenceNumber)>> /\ TypeID(m) = 3
      BY <1>3, TypeIDs DEF Encode, PlainTypeID
    <2>3. Value(Encode(m)[1]) = m.SequenceNumber
      BY <2>1, <2>2, WordOfWord DEF Word, Value
    <2> QED
      BY <2>1, <2>2, <2>3 DEF RoundTrip, Decodable, Decode
  <1>4. CASE m.type = "WinAckSize"
    <2>1. m = [type |-> "WinAckSize", Size |-> m.Size] /\ m.Size \in Int32s
      BY <1>4 DEF WordMessages
    <2>2. Encode(m) = <<Word(m.Size)>> /\ TypeID(m) = 5
      BY <1>4, TypeIDs DEF Encode, PlainTypeID
    <2>3. Int32(Encode(m)[1]) = m.Size
      BY <2>1, <2>2, IntOfWord
    <2> QED
      BY <2>1, <2>2, <2>3 DEF RoundTrip, Decodable, Decode
  <1>5. CASE m.type = "SetPeerBandwidth"
    <2>1. m = [type |-> "SetPeerBandwidth", Size |-> m.Size, Limit |-> m.Limit]
          /\ m.Size \in Int32s
      BY <1>5 DEF WordMessages
    <2>2. Encode(m) = <<Word(m.Size), Octet(m.Limit)>> /\ TypeID(m) = 6
      BY <1>5, TypeIDs DEF Encode, PlainTypeID
    <2>3. Int32(Encode(m)[1]) = m.Size /\ Value(Encode(m)[2]) = m.Limit
      BY <2>1, <2>2, IntOfWord DEF Octet, Value
    <2> QED
      BY <2>1, <2>2, <2>3 DEF RoundTrip, Decodable, Decode
  <1> QED
    BY <1>1, <1>2, <1>3, <1>4, <1>5 DEF WordMessages

\* Audio and video: the payload is copied.
LEMMA PayloadRoundTrip ==
    ASSUME NEW Payloads, NEW m \in PayloadMessages(Payloads)
    PROVE  RoundTrip(m)
  <1>1. m = [type |-> m.type, Payload |-> m.Payload]
    BY DEF PayloadMessages
  <1>2. Encode(m) = <<Bytes(m.Payload)>>
    BY DEF PayloadMessages, Encode
  <1>3. Value(Encode(m)[1]) = m.Payload
    BY <1>2 DEF Bytes, Value
  <1>4. CASE m.type = "AudioMessage"
    <2>1. TypeID(m) = 8
      BY <1>4, TypeIDs DEF PlainTypeID
    <2> QED
      BY <1>1, <1>2, <1>3, <1>4, <2>1 DEF RoundTrip, Decodable, Decode
  <1>5. CASE m.type = "VideoMessage"
    <2>1. TypeID(m) = 9
      BY <1>5, TypeIDs DEF PlainTypeID
    <2> QED
      BY <1>1, <1>2, <1>3, <1>5, <2>1 DEF RoundTrip, Decodable, Decode
  <1> QED
    BY <1>4, <1>5 DEF PayloadMessages

\* What is left of the values of a body once its first one or two are read.
LEMMA TailOf ==
    ASSUME NEW Values, NEW a, NEW b, NEW s \in Seq(Values)
    PROVE  /\ SubSeq(<<a>> \o s, 2, Len(<<a>> \o s)) = s
           /\ SubSeq(<<a, b>> \o s, 3, Len(<<a, b>> \o s)) = s
           /\ (<<a>> \o s)[1] = a /\ Len(<<a>> \o s) >= 1
           /\ (<<a, b>> \o s)[1] = a /\ (<<a, b>> \o s)[2] = b
           /\ Len(<<a, b>> \o s) >= 2
  OBVIOUS

\* The AMF0 messages: the name, for a command the transaction, and the rest as body.
LEMMA DecodeAMF ==
    ASSUME NEW data
    PROVE  /\ Decode(18, data) = [type |-> "DataMessage", Name |-> Value(data[1]),
                                  Encoding |-> AMF0, Body |-> SubSeq(data, 2, Len(data))]
           /\ Decode(20, data) = [type |-> "CommandMessage",
                                  CommandName |-> Value(data[1]),
                                  TransactionID |-> Value(data[2]),
                                  Encoding |-> AMF0, Body |-> SubSeq(data, 3, Len(data))]
  BY DEF Decode

\* Data and command messages in the encoding the encoder knows.
LEMMA AMFRoundTrip ==
    ASSUME NEW Names, NEW Values, NEW m \in AMFMessages(Names, Values), Encodable(m)
    PROVE  RoundTrip(m)
  <1>1. m.Encoding = AMF0 /\ m.Body \in Seq(Values)
    BY DEF AMFMessages, Encodable
  <1>2. CASE m.type = "DataMessage"
    <2>1. m = [type |-> "DataMessage", Name |-> m.Name, Encoding |-> AMF0,
               Body |-> m.Body]
      BY <1>1, <1>2 DEF AMFMessages
    <2>2. Encode(m) = <<Text(m.Name)>> \o m.Body /\ TypeID(m) = 18
      BY <1>1, <1>2, TypeIDs DEF Encode
    <2>3. /\ Encode(m)[1] = <<"string", m.Name>> /\ Len(Encode(m)) >= 1
          /\ SubSeq(Encode(m), 2, Len(Encode(m))) = m.Body
      BY <1>1, <2>2, TailOf DEF Text
    <2>4. Starts(Encode(m), <<"string">>)
      BY <2>3 DEF Starts
    <2>6. Decodable(18, Encode(m))
      BY <2>4 DEF Decodable
    <2>5. Decode(18, Encode(m)) = [type |-> "DataMessage", Name |-> m.Name,
                                   Encoding |-> AMF0, Body |-> m.Body]
      <3>1. Value(Encode(m)[1]) = m.Name
        BY <2>3 DEF Value
      <3> QED
        BY <2>3, <3>1, DecodeAMF
    <2> QED
      BY <2>1, <2>2, <2>6, <2>5 DEF RoundTrip
  <1>3. CASE m.type = "CommandMessage"
    <2>1. m = [type |-> "CommandMessage", CommandName |-> m.CommandName,
               TransactionID |-> m.TransactionID, Encoding |-> AMF0, Body |-> m.Body]
      BY <1>1, <1>3 DEF AMFMessages
    <2>2. /\ Encode(m) = <<Text(m.CommandName), Number(m.TransactionID)>> \o m.Body
          /\ TypeID(m) = 20
      BY <1>1, <1>3, TypeIDs DEF Encode
    <2>3. /\ Encode(m)[1] = <<"string", m.CommandName>>
          /\ Encode(m)[2] = <<"number", m.TransactionID>> /\ Len(Encode(m)) >= 2
          /\ SubSeq(Encode(m), 3, Len(Encode(m))) = m.Body
      BY <1>1, <2>2, TailOf DEF Text, Number
    <2>4. Starts(Encode(m), <<"string", "number">>)
      BY <2>3 DEF Starts
    <2>6. Decodable(20, Encode(m))
      BY <2>4 DEF Decodable
    <2>5. Decode(20, Encode(m))
             = [type |-> "CommandMessage", CommandName |-> m.CommandName,
                TransactionID |-> m.TransactionID, Encoding |-> AMF0, Body |-> m.Body]
      <3>1. Value(Encode(m)[1]) = m.CommandName /\ Value(Encode(m)[2]) = m.TransactionID
        BY <2>3 DEF Value
      <3> QED
        BY <2>3, <3>1, DecodeAMF
    <2> QED
      BY <2>1, <2>2, <2>6, <2>5 DEF RoundTrip
  <1> QED
    BY <1>2, <1>3 DEF AMFMessages

(* Whatever message Encoder.Encode accepts, Decoder.Decode accepts its bytes and *)
(* gives the same message back, of the same Go type.                             *)
THEOREM MessageRoundTrip ==
    ASSUME NEW Payloads, NEW Names, NEW Values
    PROVE  \A m \in Messages(Payloads, Names, Values) : Encodable(m) => RoundTrip(m)
  <1> SUFFICES ASSUME NEW m \in Messages(Payloads, Names, Values), Encodable(m)
               PROVE  RoundTrip(m)
    OBVIOUS
  <1>1. CASE m \in [type : {"UserCtrl"}, Event : Events]
    <2>1. m = [type |-> "UserCtrl", Event |-> m.Event] /\ m.Event \in Events
      BY <1>1
    <2>2. m.type = "UserCtrl"
      BY <1>1
    <2>3. TypeID(m) = 4
      BY <2>2, TypeIDs DEF PlainTypeID
    <2>4. Encode(m) = EncodeEvent(m.Event)
      BY <2>2 DEF Encode
    <2>5. Decode(4, EncodeEvent(m.Event)) = [type |-> "UserCtrl", Event |-> m.Event]
      BY <2>1, EventRoundTrip DEF Decode
    <2> QED
      BY <2>1, <2>3, <2>4, <2>5, EventRoundTrip DEF RoundTrip
  <1> QED
    BY <1>1, WordMessagesRoundTrip, PayloadRoundTrip, AMFRoundTrip DEF Messages

-----------------------------------------------------------------------------
(* Bodies                                                                  *)

\* The bodies of the commands that both sides know, with the name each is sent
\* under.  A play command cannot be written.
NameOf(b) == CHOOSE name \in DOMAIN CmdBodyDecoders : CmdBodyDecoders[name] = b.type

Bodies(Objects, Names) ==
    [type : Bare]
    \cup [type : Named, StreamName : Names]
    \cup [type : {"NetConnectionConnect"}, Command : Objects]
    \cup [type : {"NetStreamDeleteStream"}, StreamID : Words]
    \cup [type : {"NetStreamPublish"}, PublishingName : Names, PublishingType : Names]

\* No two command names have the same body decoder.
LEMMA CommandsDiffer ==
    ASSUME NEW a \in DOMAIN CmdBodyDecoders, NEW b \in DOMAIN CmdBodyDecoders,
           CmdBodyDecoders[a] = CmdBodyDecoders[b]
    PROVE  a = b
  BY DEF CmdBodyDecoders

\* A body has one name: the one whose decoder reads it.
LEMMA NameOfBody ==
    ASSUME NEW b, NEW name \in DOMAIN CmdBodyDecoders, CmdBodyDecoders[name] = b.type
    PROVE  NameOf(b) = name
  <1>1. /\ NameOf(b) \in DOMAIN CmdBodyDecoders
        /\ CmdBodyDecoders[NameOf(b)] = b.type
    BY DEF NameOf
  <1> QED
    BY <1>1, CommandsDiffer

BodyRoundTrip(b) == /\ CmdBodyDecodes(NameOf(b), ToArgs(b))
                    /\ CmdBody(NameOf(b), ToArgs(b)) = b

\* Commands without an argument of their own: a null is all they carry.
LEMMA BareRoundTrip ==
    ASSUME NEW b \in [type : Bare]
    PROVE  BodyRoundTrip(b)
  <1>1. ToArgs(b) = <<Null>> /\ b = [type |-> b.type]
    BY DEF ToArgs, Bare, Named
  <1>2. PICK name \in {"createStream", "ping", "closeStream"} :
           name \in DOMAIN CmdBodyDecoders /\ CmdBodyDecoders[name] = b.type
    BY DEF CmdBodyDecoders, Bare
  <1>3. NameOf(b) = name
    BY <1>2, NameOfBody
  <1>4. /\ name # "connect" /\ CmdBodyDecoders[name] \in Bare
        /\ CmdBodyDecoders[name] \notin Named
        /\ name \notin {"deleteStream", "publish", "play"}
    BY <1>2 DEF Bare, Named
  <1>5. CmdBodyDecodes(name, ToArgs(b))
    <2>1. Len(ToArgs(b)) >= 1
      BY <1>1
    <2> QED
      BY <1>4, <2>1 DEF CmdBodyDecodes
  <1>6. CmdBody(name, ToArgs(b)) = [type |-> b.type]
    BY <1>2, <1>4 DEF CmdBody
  <1> QED
    BY <1>1, <1>3, <1>5, <1>6 DEF BodyRoundTrip

\* Commands whose argument is a stream name.
LEMMA NamedRoundTrip ==
    ASSUME NEW Names, NEW b \in [type : Named, StreamName : Names]
    PROVE  BodyRoundTrip(b)
  <1>1. ToArgs(b) = <<Null, Text(b.StreamName)>>
    BY DEF ToArgs, Bare, Named
  <1>2. b = [type |-> b.type, StreamName |-> b.StreamName]
    OBVIOUS
  <1>3. PICK name \in {"releaseStream", "FCPublish", "FCUnpublish", "getStreamLength"} :
           name \in DOMAIN CmdBodyDecoders /\ CmdBodyDecoders[name] = b.type
    BY DEF CmdBodyDecoders, Named
  <1>4. NameOf(b) = name
    BY <1>3, NameOfBody
  <1>5. /\ name # "connect" /\ CmdBodyDecoders[name] \in Named
        /\ CmdBodyDecoders[name] \notin Bare
        /\ name \notin {"deleteStream", "publish", "play"}
    BY <1>3 DEF Named, Bare
  <1>6. CmdBodyDecodes(name, ToArgs(b))
    <2>1. Len(ToArgs(b)) >= 2 /\ ToArgs(b)[2][1] = "string"
      BY <1>1 DEF Text
    <2> QED
      BY <1>5, <2>1 DEF CmdBodyDecodes
  <1>7. CmdBody(name, ToArgs(b)) = [type |-> b.type, StreamName |-> b.StreamName]
    BY <1>1, <1>3, <1>5 DEF CmdBody, DecodeBodyNamed, Text, Value
  <1> QED
    BY <1>2, <1>4, <1>6, <1>7 DEF BodyRoundTrip

\* connect: its command object is read as it was written.
LEMMA ConnectRoundTrip ==
    ASSUME NEW Objects, NEW b \in [type : {"NetConnectionConnect"}, Command : Objects]
    PROVE  BodyRoundTrip(b)
  <1>1. NameOf(b) = "connect"
    <2>1. "connect" \in DOMAIN CmdBodyDecoders /\ CmdBodyDecoders["connect"] = b.type
      BY DEF CmdBodyDecoders
    <2> QED
      BY <2>1, NameOfBody
  <1>2. ToArgs(b) = <<Object(b.Command)>>
    BY DEF ToArgs, Bare, Named, ArgsOfNetConnection
  <1>3. CmdBodyDecodes("connect", ToArgs(b))
    <2>1. Len(ToArgs(b)) >= 1 /\ ToArgs(b)[1][1] = "object"
      BY <1>2 DEF Object
    <2> QED
      BY <2>1 DEF CmdBodyDecodes, CmdBodyDecoders, Bare, Named
  <1>4. CmdBody("connect", ToArgs(b)) = DecodeBodyConnect(ToArgs(b))
    BY DEF CmdBody, CmdBodyDecoders, Bare, Named
  <1> QED
    BY <1>1, <1>2, <1>3, <1>4 DEF BodyRoundTrip, DecodeBodyConnect, Object, Value

\* deleteStream: the message stream ID comes back.
LEMMA DeleteStreamRoundTrip ==
    ASSUME NEW b \in [type : {"NetStreamDeleteStream"}, StreamID : Words]
    PROVE  BodyRoundTrip(b)
  <1>1. NameOf(b) = "deleteStream"
    <2>1. /\ "deleteStream" \in DOMAIN CmdBodyDecoders
          /\ CmdBodyDecoders["deleteStream"] = b.type
      BY DEF CmdBodyDecoders
    <2> QED
      BY <2>1, NameOfBody
  <1>2. ToArgs(b) = <<Null, Number(b.StreamID)>>
    BY DEF ToArgs, Bare, Named, ArgsOfNetStream
  <1>3. CmdBodyDecodes("deleteStream", ToArgs(b))
    <2>1. Len(ToArgs(b)) >= 2 /\ ToArgs(b)[2][1] = "number"
      BY <1>2 DEF Number
    <2> QED
      BY <2>1 DEF CmdBodyDecodes, CmdBodyDecoders, Bare, Named
  <1>4. CmdBody("deleteStream", ToArgs(b)) = DecodeBodyDeleteStream(ToArgs(b))
    BY DEF CmdBody, CmdBodyDecoders, Bare, Named
  <1> QED
    BY <1>1, <1>2, <1>3, <1>4 DEF BodyRoundTrip, DecodeBodyDeleteStream, Number, Value

\* publish: the publishing name and type come back in their order.
LEMMA PublishRoundTrip ==
    ASSUME NEW Names, NEW b \in [type : {"NetStreamPublish"}, PublishingName : Names,
                                 PublishingType : Names]
    PROVE  BodyRoundTrip(b)
  <1>1. NameOf(b) = "publish"
    <2>1. "publish" \in DOMAIN CmdBodyDecoders /\ CmdBodyDecoders["publish"] = b.type
      BY DEF CmdBodyDecoders
    <2> QED
      BY <2>1, NameOfBody
  <1>2. ToArgs(b) = <<Null, Text(b.PublishingName), Text(b.PublishingType)>>
    BY DEF ToArgs, Bare, Named, ArgsOfNetStream
  <1>3. CmdBodyDecodes("publish", ToArgs(b))
    <2>1. /\ Len(ToArgs(b)) >= 2 /\ ToArgs(b)[2][1] = "string"
          /\ ThirdIs(ToArgs(b), "string")
      BY <1>2 DEF Text, ThirdIs
    <2> QED
      BY <2>1 DEF CmdBodyDecodes, CmdBodyDecoders, Bare, Named
  <1>4. CmdBody("publish", ToArgs(b)) = DecodeBodyPublish(ToArgs(b))
    BY DEF CmdBody, CmdBodyDecoders, Bare, Named
  <1> QED
    BY <1>1, <1>2, <1>3, <1>4 DEF BodyRoundTrip, DecodeBodyPublish, Text, Value

(* The body of every command both sides know, other than play, is what its       *)
(* decoder makes of the arguments written for it.                                *)
THEOREM CommandBodyRoundTrip ==
    ASSUME NEW Objects, NEW Names
    PROVE  \A b \in Bodies(Objects, Names) : BodyRoundTrip(b)
  BY BareRoundTrip, NamedRoundTrip, ConnectRoundTrip, DeleteStreamRoundTrip,
     PublishRoundTrip DEF Bodies

(* The results of connect and createStream are read as they were written.        *)
THEOREM ResultRoundTrip ==
    ASSUME NEW Objects
    PROVE  /\ \A b \in [type : {"NetConnectionConnectResult"}, Properties : Objects,
                        Information : Objects] :
                 /\ ConnectResultDecodes(ToArgs(b))
                 /\ DecodeBodyConnectResult(ToArgs(b)) = b
           /\ \A b \in [type : {"NetConnectionCreateStreamResult"}, StreamID : Words] :
                 /\ CreateStreamResultDecodes(ToArgs(b))
                 /\ DecodeBodyCreateStreamResult(ToArgs(b)) = b
  <1>1. ASSUME NEW b \in [type : {"NetConnectionConnectResult"}, Properties : Objects,
                          Information : Objects]
        PROVE  /\ ConnectResultDecodes(ToArgs(b))
               /\ DecodeBodyConnectResult(ToArgs(b)) = b
    <2>1. ToArgs(b) = <<Object(b.Properties), Object(b.Information)>>
      BY DEF ToArgs, Bare, Named, ArgsOfNetConnection
    <2>2. ConnectResultDecodes(ToArgs(b))
      BY <2>1 DEF ConnectResultDecodes, Starts, Object
    <2>3. DecodeBodyConnectResult(ToArgs(b)) = b
      BY <2>1 DEF DecodeBodyConnectResult, Object, Value
    <2> QED
      BY <2>2, <2>3
  <1>2. ASSUME NEW b \in [type : {"NetConnectionCreateStreamResult"}, StreamID : Words]
        PROVE  /\ CreateStreamResultDecodes(ToArgs(b))
               /\ DecodeBodyCreateStreamResult(ToArgs(b)) = b
    <2>1. ToArgs(b) = <<Null, Number(b.StreamID)>>
      BY DEF ToArgs, Bare, Named, ArgsOfNetConnection
    <2> QED
      BY <2>1 DEF CreateStreamResultDecodes, DecodeBodyCreateStreamResult, Number, Value
  <1> QED
    BY <1>1, <1>2
=============================================================================
