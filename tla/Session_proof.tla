---------------------------- MODULE Session_proof ----------------------------
(***************************************************************************)
(* Theorems about Session, for any number of message streams and calls,    *)
(* any workload, and whatever writes and handlers fail.                    *)
(*                                                                         *)
(* Calls are made one at a time, so that the request, the reply to it and  *)
(* the answer given to the caller are at most one thing at any moment      *)
(* (OneAtATime).  Commands and small messages are not overtaken, so that   *)
(* what is in transit speaks of the streams the server has now             *)
(* (SmallInPlace, DeletesLast), and every difference between the streams   *)
(* of the two ends is accounted for by a deletion or a reply in transit    *)
(* (StreamInStep).                                                         *)
(***************************************************************************)
EXTENDS Session, MessageBodies_proof, WellFoundedInduction

-----------------------------------------------------------------------------
(* Both ends speak of the same messages: ServerConn and ClientConn extend  *)
(* SessionMessages, and INSTANCE makes copies of what they extend.         *)

\* The IDs of streams, transactions and commands.
LEMMA SameIDs ==
    /\ Server!StreamIDs = StreamIDs /\ Client!StreamIDs = StreamIDs
    /\ Server!ControlStreamID = ControlStreamID /\ Client!ControlStreamID = ControlStreamID
    /\ Server!ConnectTransaction = ConnectTransaction
    /\ Client!ConnectTransaction = ConnectTransaction
    /\ Client!CreateStreamTransaction = CreateStreamTransaction
BY DEF StreamIDs, Server!StreamIDs, Client!StreamIDs, ControlStreamID,
       Server!ControlStreamID, Client!ControlStreamID, ConnectTransaction,
       Server!ConnectTransaction, Client!ConnectTransaction,
       CreateStreamTransaction, Server!CreateStreamTransaction,
       Client!CreateStreamTransaction

\* What is written.
LEMMA SameEncode ==
    \A m : /\ Server!Encode(m) = Encode(m) /\ Client!Encode(m) = Encode(m)
           /\ Server!TypeID(m) = TypeID(m) /\ Client!TypeID(m) = TypeID(m)
BY DEF Encode, Server!Encode, Client!Encode, Word, Server!Word, Client!Word, Half,
       Server!Half, Client!Half, Octet, Server!Octet, Client!Octet, Bytes,
       Server!Bytes, Client!Bytes, Text, Server!Text, Client!Text, Number,
       Server!Number, Client!Number, EncodeEvent, Server!EncodeEvent,
       Client!EncodeEvent, EventType, Server!EventType, Client!EventType, Pings,
       Server!Pings, Client!Pings, TypeID, Server!TypeID, Client!TypeID,
       PlainTypeID, Server!PlainTypeID, Client!PlainTypeID, AMF0, Server!AMF0,
       Client!AMF0, AMF3, Server!AMF3, Client!AMF3

\* Packets.
LEMMA SamePacket ==
    \A s, m, t : /\ Server!Packet(s, m, t) = Packet(s, m, t)
                 /\ Client!Packet(s, m, t) = Packet(s, m, t)
BY SameEncode DEF Packet, Server!Packet, Client!Packet

\* The arguments of commands.
LEMMA SameArgs ==
    \A b : Server!ToArgs(b) = ToArgs(b) /\ Client!ToArgs(b) = ToArgs(b)
BY DEF ToArgs, Server!ToArgs, Client!ToArgs, Bare, Server!Bare, Client!Bare, Named,
       Server!Named, Client!Named, ArgsOfNetConnection, Server!ArgsOfNetConnection,
       Client!ArgsOfNetConnection, ArgsOfNetStream, Server!ArgsOfNetStream,
       Client!ArgsOfNetStream, ArgsOfSetDataFrame, Server!ArgsOfSetDataFrame,
       Client!ArgsOfSetDataFrame, Null, Server!Null, Client!Null, Text,
       Server!Text, Client!Text, Number, Server!Number, Client!Number, Object,
       Server!Object, Client!Object

\* Commands.
LEMMA SameCommand ==
    \A s, name, tid, b, t :
       /\ Server!Command(s, name, tid, b, t) = Command(s, name, tid, b, t)
       /\ Client!Command(s, name, tid, b, t) = Command(s, name, tid, b, t)
BY SamePacket, SameArgs DEF Command, Server!Command, Client!Command,
       CommandMessage, Server!CommandMessage, Client!CommandMessage, AMF0,
       Server!AMF0, Client!AMF0

\* Messages written by hand.
LEMMA SameUserMessage ==
    \A kind : /\ Server!UserMessage(kind) = UserMessage(kind)
              /\ Client!UserMessage(kind) = UserMessage(kind)
BY SameArgs DEF UserMessage, Server!UserMessage, Client!UserMessage,
       CommandMessage, Server!CommandMessage, Client!CommandMessage,
       CmdBodyDecoders, Server!CmdBodyDecoders, Client!CmdBodyDecoders, Null,
       Server!Null, Client!Null, Text, Server!Text, Client!Text, Object,
       Server!Object, Client!Object, Huge, Server!Huge, Client!Huge, AMF0,
       Server!AMF0, Client!AMF0

\* What is read.
LEMMA SameMessage ==
    \A p : /\ Server!Message(p) = Message(p) /\ Client!Message(p) = Message(p)
           /\ Server!CommandName(p) = CommandName(p)
           /\ Client!CommandName(p) = CommandName(p)
BY DEF Message, Server!Message, Client!Message, CommandName, Server!CommandName,
       Client!CommandName, CommandID, Server!CommandID, Client!CommandID, Decode,
       Server!Decode, Client!Decode, DecodeEvent, Server!DecodeEvent,
       Client!DecodeEvent, EventType, Server!EventType, Client!EventType, Value,
       Server!Value, Client!Value, Int32, Server!Int32, Client!Int32, AMF0,
       Server!AMF0, Client!AMF0

\* The bodies of commands.
LEMMA SameBody ==
    \A name, args :
       /\ Server!CmdBody(name, args) = CmdBody(name, args)
       /\ Server!CmdBodyDecoders = CmdBodyDecoders /\ Client!CmdBodyDecoders = CmdBodyDecoders
       /\ Client!DecodeBodyCreateStreamResult(args) = DecodeBodyCreateStreamResult(args)
       /\ Client!CreateStreamResultDecodes(args) = CreateStreamResultDecodes(args)
BY DEF CmdBody, Server!CmdBody, Client!CmdBody, CmdBodyDecoders,
       Server!CmdBodyDecoders, Client!CmdBodyDecoders, Bare, Server!Bare,
       Client!Bare, Named, Server!Named, Client!Named, ZeroCommand,
       Server!ZeroCommand, Client!ZeroCommand, DecodeBodyConnect,
       Server!DecodeBodyConnect, Client!DecodeBodyConnect, DecodeBodyNamed,
       Server!DecodeBodyNamed, Client!DecodeBodyNamed, DecodeBodyDeleteStream,
       Server!DecodeBodyDeleteStream, Client!DecodeBodyDeleteStream,
       DecodeBodyPublish, Server!DecodeBodyPublish, Client!DecodeBodyPublish,
       DecodeBodyPlay, Server!DecodeBodyPlay, Client!DecodeBodyPlay,
       DecodeBodyCreateStreamResult, Server!DecodeBodyCreateStreamResult,
       Client!DecodeBodyCreateStreamResult, CreateStreamResultDecodes,
       Server!CreateStreamResultDecodes, Client!CreateStreamResultDecodes, Value,
       Server!Value, Client!Value

\* The order in which messages arrive.
LEMMA SameQueue ==
    \A q, i : /\ Server!RemoveAt(q, i) = RemoveAt(q, i)
              /\ Client!RemoveAt(q, i) = RemoveAt(q, i)
              /\ Server!Arriving(q) = Arriving(q) /\ Client!Arriving(q) = Arriving(q)
BY DEF RemoveAt, Server!RemoveAt, Client!RemoveAt, Arriving, Server!Arriving,
       Client!Arriving, Large, Server!Large, Client!Large, ChunkStream,
       Server!ChunkStream, Client!ChunkStream, CommandName, Server!CommandName,
       Client!CommandName, CommandID, Server!CommandID, Client!CommandID, Value,
       Server!Value, Client!Value

-----------------------------------------------------------------------------
(* Packets *)

\* What the calls of the client's API write.
Connects(t) ==
    Command(ControlStreamID, "connect", ConnectTransaction,
            [type |-> "NetConnectionConnect", Command |-> "preset"], t)
Creation(t) ==
    Command(ControlStreamID, "createStream", CreateStreamTransaction,
            [type |-> "NetConnectionCreateStream", Command |-> "preset"], t)
Deletion(s, t) ==
    Command(ControlStreamID, "deleteStream", 0,
            [type |-> "NetStreamDeleteStream", StreamID |-> s], t)
Announced(n) == Packet(ControlStreamID, [type |-> "SetChunkSize", ChunkSize |-> n], 0)
Written(s, kind, t) == Packet(s, UserMessage(kind), t)

\* What the server's handlers write.
Admission(name, code, t) ==
    Command(ControlStreamID, name, ConnectTransaction,
            [type |-> "NetConnectionConnectResult", Properties |-> "preset",
             Information |-> code], t)
Given(name, s, t) ==
    Command(ControlStreamID, name, CreateStreamTransaction,
            [type |-> "NetConnectionCreateStreamResult", StreamID |-> s], t)
Status(s, level) ==
    Command(s, "onStatus", 0, [type |-> "NetStreamOnStatus", InfoObject |-> level], 0)
Window == Packet(ControlStreamID, [type |-> "WinAckSize", Size |-> MaxAckWindowSize], 0)
Bandwidth == Packet(ControlStreamID,
                    [type |-> "SetPeerBandwidth", Size |-> Huge, Limit |-> 0], 0)
Begins == Packet(ControlStreamID,
                 [type |-> "UserCtrl", Event |-> [type |-> "UserCtrlEventStreamBegin",
                                                  StreamID |-> ControlStreamID]], 0)

Tags == 0..workload.calls
Codes == {"Success", "Failed"}
Levels == {"status", "error"}
Replies == {"_result", "_error"}

ClientPackets ==
    {Connects(t) : t \in Tags} \cup {Creation(t) : t \in Tags}
    \cup {Deletion(s, t) : s \in StreamIDs, t \in Tags}
    \cup {Announced(n) : n \in workload.sizes \cap 1..(WordMod \div 2 - 1)}
    \cup {Written(s, kind, t) : s \in StreamIDs, kind \in Kinds, t \in Tags}

ServerPackets ==
    {Admission(name, code, t) : name \in Replies, code \in Codes, t \in Tags}
    \cup {Given(name, s, t) : name \in Replies, s \in StreamIDs, t \in Tags}
    \cup {Status(s, level) : s \in StreamIDs, level \in Levels}
    \cup {Window, Bandwidth, Begins}
    \cup {Written(s, kind, t) : s \in StreamIDs, kind \in Kinds, t \in Tags}

IsRequest(p) == CommandName(p) \in {"connect", "createStream"}
IsReply(p) == CommandName(p) \in Replies

\* The transaction of a command, and the stream a command is about.
Tid(p) == Message(p).TransactionID
Target(p) == Value(Message(p).Body[2])

Deletes(p, s) == CommandName(p) = "deleteStream" /\ Target(p) = s
Gives(p, s) == /\ CommandName(p) = "_result" /\ Tid(p) = CreateStreamTransaction
               /\ Target(p) = s
Admits(p) == CommandName(p) = "_result" /\ Tid(p) = ConnectTransaction

-----------------------------------------------------------------------------
(* The inductive invariant *)

Shape ==
    /\ workload \in Workloads
    /\ up \in Seq(ClientPackets)
    /\ down \in Seq(ServerPackets)
    /\ sstate \in [StreamIDs -> States]
    /\ sstate[ControlStreamID] \in {"none", "NotConnected", "Connected"}
    /\ \A s \in StreamIDs \ {ControlStreamID} :
          sstate[s] \in {"none", "Inactive", "Publish", "Play"}
    /\ sgen \in [StreamIDs -> Tags]
    /\ sloop \in {"running", "ended"} /\ cloop \in {"running", "ended"}
    /\ chunkSize \in workload.sizes \cup {0}
    /\ tag \in Tags
    /\ cstreams \in [StreamIDs -> Tags \cup {None}]
    /\ transactions \subseteq Transactions
    /\ resolving \in transactions \cup {0}
    /\ op \in {"idle", "Connect", "CreateStream"}
    /\ answer # None => answer \in ServerPackets /\ IsReply(answer)
    /\ {closed, connected} \subseteq BOOLEAN

\* What the user's call waits for.
Asked == IF op = "Connect" THEN "connect" ELSE "createStream"
Awaited == IF op = "Connect" THEN ConnectTransaction ELSE CreateStreamTransaction

\* A request on its way is the user's, the only one, and not yet answered.
Requested ==
    \A i \in DOMAIN up : IsRequest(up[i]) =>
       /\ op # "idle" /\ answer = None /\ up[i].tag = tag /\ CommandName(up[i]) = Asked
       /\ \A j \in DOMAIN up : IsRequest(up[j]) => i = j
       /\ \A j \in DOMAIN down : ~IsReply(down[j])

\* A reply on its way is the one reply to the user's request.
Replied ==
    \A i \in DOMAIN down : IsReply(down[i]) =>
       /\ op # "idle" /\ answer = None /\ down[i].tag = tag /\ Tid(down[i]) = Awaited
       /\ \A j \in DOMAIN down : IsReply(down[j]) => i = j

\* A call without an answer has its transaction.
Waiting ==
    /\ op = "idle" => answer = None
    /\ answer # None => answer.tag = tag /\ Tid(answer) = Awaited
    /\ op # "idle" /\ answer = None => Awaited \in transactions /\ resolving # Awaited
    /\ op # "idle" => cstreams[ControlStreamID] # None
    /\ op = "Connect" => ~connected
    /\ lastErr # "unexpected reply"

OneAtATime == Requested /\ Replied /\ Waiting

\* p has been written by the server and not yet been seen by the caller.
Pending(p) == (answer # None /\ p = answer) \/ \E i \in DOMAIN down : p = down[i]

DeletesLast ==
    \A i, j \in DOMAIN up, s \in StreamIDs :
       i < j /\ Deletes(up[i], s) => up[j].sid # s /\ ~Deletes(up[j], s)

\* id 8 is audio.
SmallInPlace ==
    \A i \in DOMAIN up :
       LET p == up[i] IN
       p.sid # ControlStreamID /\ p.id \in {8, CommandID} =>
          sstate[p.sid] # "none" /\ sgen[p.sid] = p.tag

Connection ==
    /\ connected => sstate[ControlStreamID] \in {"none", "Connected"}
    /\ \A p : Pending(p) /\ Admits(p) => sstate[ControlStreamID] = "Connected"
    /\ \A i \in DOMAIN up, s \in StreamIDs : Deletes(up[i], s) =>
          connected /\ sstate[ControlStreamID] = "Connected" /\ sstate[s] # "none"

StreamInStep(s) ==
    /\ cstreams[s] # None =>
         /\ sstate[s] # "none" /\ sgen[s] = cstreams[s]
         /\ \A i \in DOMAIN up : ~Deletes(up[i], s)
    /\ \A p : Pending(p) /\ Gives(p, s) =>
         /\ sstate[s] # "none" /\ sgen[s] = p.tag /\ cstreams[s] = None
         /\ \A i \in DOMAIN up : ~Deletes(up[i], s)
    /\ sstate[s] # "none" =>
         \/ cstreams[s] # None \/ (\E i \in DOMAIN up : Deletes(up[i], s))
         \/ \E p : Pending(p) /\ Gives(p, s)

InStep ==
    /\ strays = {}
    /\ sloop = "running" =>
         /\ DeletesLast /\ SmallInPlace
         /\ ~closed => Connection /\ \A s \in StreamIDs : StreamInStep(s)

IInv == Shape /\ OneAtATime /\ InStep

-----------------------------------------------------------------------------
(* What packets say *)

\* Every packet that can be decoded is of a type the message loops know, and only
\* commands have a command's name.
LEMMA PacketKinds ==
    ASSUME NEW p, Decodable(p.id, p.data)
    PROVE  /\ p.id \in {1, 2, 3, 4, 5, 6, 8, 9, 18, 20}
           /\ p.id = 20 => /\ Message(p).type = "CommandMessage"
                           /\ Message(p).CommandName = CommandName(p)
           /\ p.id # 20 => /\ Message(p).type # "CommandMessage"
                           /\ CommandName(p) = "none"
           /\ Message(p).type \in {"AudioMessage", "VideoMessage"} <=> p.id \in {8, 9}
           /\ Message(p).type = "DataMessage" <=> p.id = 18
<1>1. p.id \in {1, 2, 3, 4, 5, 6, 8, 9, 18, 20}
  BY DEF Decodable
<1>2. CASE p.id = 1
  BY <1>2 DEF Message, Decode, CommandName, CommandID
<1>3. CASE p.id = 2
  BY <1>3 DEF Message, Decode, CommandName, CommandID
<1>4. CASE p.id = 3
  BY <1>4 DEF Message, Decode, CommandName, CommandID
<1>5. CASE p.id = 4
  BY <1>5 DEF Message, Decode, CommandName, CommandID
<1>6. CASE p.id = 5
  BY <1>6 DEF Message, Decode, CommandName, CommandID
<1>7. CASE p.id = 6
  BY <1>7 DEF Message, Decode, CommandName, CommandID
<1>8. CASE p.id = 8
  BY <1>8 DEF Message, Decode, CommandName, CommandID
<1>9. CASE p.id = 9
  BY <1>9 DEF Message, Decode, CommandName, CommandID
<1>10. CASE p.id = 18
  BY <1>10 DEF Message, Decode, CommandName, CommandID
<1>11. CASE p.id = 20
  BY <1>11 DEF Message, Decode, CommandName, CommandID
<1> QED
  BY <1>1, <1>2, <1>3, <1>4, <1>5, <1>6, <1>7, <1>8, <1>9, <1>10, <1>11

\* A message comes back as it was written.
LEMMA PacketSays ==
    ASSUME NEW Payloads, NEW Names, NEW Values, NEW m \in Messages(Payloads, Names, Values),
           Encodable(m), NEW s, NEW t
    PROVE  /\ Packet(s, m, t).sid = s /\ Packet(s, m, t).tag = t
           /\ Packet(s, m, t).id = TypeID(m)
           /\ Decodable(Packet(s, m, t).id, Packet(s, m, t).data)
           /\ Message(Packet(s, m, t)) = m
<1>1. RoundTrip(m)
  BY MessageRoundTrip
<1> QED
  BY <1>1 DEF RoundTrip, Packet, Message

\* And so does a command.
LEMMA CommandSays ==
    ASSUME NEW Values, NEW args \in Seq(Values), NEW name, NEW tid \in Int, NEW s, NEW t
    PROVE  LET p == Packet(s, CommandMessage(name, tid, args), t) IN
           /\ p.sid = s /\ p.tag = t /\ p.id = 20 /\ CommandName(p) = name
           /\ Decodable(p.id, p.data) /\ Message(p) = CommandMessage(name, tid, args)
<1> DEFINE m == CommandMessage(name, tid, args)
           p == Packet(s, m, t)
<1>1. m \in Messages({}, {name}, Values)
  BY DEF CommandMessage, Messages, AMFMessages
<1>2. m.type = "CommandMessage" /\ m.Encoding = AMF0 /\ m.CommandName = name
  BY DEF CommandMessage
<1>3. Encodable(m)
  BY <1>2 DEF Encodable, NotImplemented
<1>4. TypeID(m) = 20
  BY <1>2, TypeIDs
<1> HIDE DEF m
<1>5. /\ p.sid = s /\ p.tag = t /\ p.id = 20 /\ Message(p) = m /\ Decodable(p.id, p.data)
  BY <1>1, <1>3, <1>4, PacketSays
<1>6. CommandName(p) = name
  BY <1>2, <1>5, PacketKinds
<1> QED
  BY <1>5, <1>6 DEF m

\* What the calls of the API ask for.
LEMMA CallsSay ==
    ASSUME NEW t
    PROVE  /\ LET p == Connects(t) IN
              /\ p.sid = ControlStreamID /\ p.tag = t /\ p.id = 20 /\ CommandName(p) = "connect"
              /\ Decodable(p.id, p.data) /\ Tid(p) = ConnectTransaction
           /\ LET p == Creation(t) IN
              /\ p.sid = ControlStreamID /\ p.tag = t /\ p.id = 20
              /\ CommandName(p) = "createStream"
              /\ Decodable(p.id, p.data) /\ Tid(p) = CreateStreamTransaction
           /\ \A s : LET p == Deletion(s, t) IN
              /\ p.sid = ControlStreamID /\ p.tag = t /\ p.id = 20
              /\ CommandName(p) = "deleteStream"
              /\ Decodable(p.id, p.data) /\ Target(p) = s
<1>1. LET p == Connects(t) IN
      /\ p.sid = ControlStreamID /\ p.tag = t /\ p.id = 20 /\ CommandName(p) = "connect"
      /\ Decodable(p.id, p.data) /\ Tid(p) = ConnectTransaction
  <2> DEFINE args == <<Object("preset")>>
             p == Packet(ControlStreamID, CommandMessage("connect", ConnectTransaction, args), t)
  <2>1. args \in Seq({Object("preset")})
    OBVIOUS
  <2>2. Connects(t) = p
    BY DEF Connects, Command, ToArgs, Bare, Named, ArgsOfNetConnection
  <2>3. CommandMessage("connect", ConnectTransaction, args).TransactionID = ConnectTransaction
    BY DEF CommandMessage
  <2>4. ConnectTransaction \in Int
    BY DEF ConnectTransaction
  <2> HIDE DEF args
  <2>5. /\ p.sid = ControlStreamID /\ p.tag = t /\ p.id = 20 /\ CommandName(p) = "connect"
        /\ Decodable(p.id, p.data)
        /\ Message(p) = CommandMessage("connect", ConnectTransaction, args)
    BY <2>1, <2>4, CommandSays
  <2> QED
    BY <2>2, <2>3, <2>5 DEF Tid
<1>2. LET p == Creation(t) IN
      /\ p.sid = ControlStreamID /\ p.tag = t /\ p.id = 20
      /\ CommandName(p) = "createStream"
      /\ Decodable(p.id, p.data) /\ Tid(p) = CreateStreamTransaction
  <2> DEFINE args == <<Null>>
             p == Packet(ControlStreamID,
                         CommandMessage("createStream", CreateStreamTransaction, args), t)
  <2>1. args \in Seq({Null})
    OBVIOUS
  <2>2. Creation(t) = p
    BY DEF Creation, Command, ToArgs, Bare, Named
  <2>3. CommandMessage("createStream", CreateStreamTransaction, args).TransactionID
           = CreateStreamTransaction
    BY DEF CommandMessage
  <2>4. CreateStreamTransaction \in Int
    BY DEF CreateStreamTransaction
  <2> HIDE DEF args
  <2>5. /\ p.sid = ControlStreamID /\ p.tag = t /\ p.id = 20 /\ CommandName(p) = "createStream"
        /\ Decodable(p.id, p.data)
        /\ Message(p) = CommandMessage("createStream", CreateStreamTransaction, args)
    BY <2>1, <2>4, CommandSays
  <2> QED
    BY <2>2, <2>3, <2>5 DEF Tid
<1>3. ASSUME NEW s
      PROVE  LET p == Deletion(s, t) IN
             /\ p.sid = ControlStreamID /\ p.tag = t /\ p.id = 20
             /\ CommandName(p) = "deleteStream"
             /\ Decodable(p.id, p.data) /\ Target(p) = s
  <2> DEFINE args == <<Null, Number(s)>>
             p == Packet(ControlStreamID, CommandMessage("deleteStream", 0, args), t)
  <2>1. args \in Seq({Null, Number(s)})
    OBVIOUS
  <2>2. Deletion(s, t) = p
    BY DEF Deletion, Command, ToArgs, Bare, Named, ArgsOfNetStream
  <2>3. CommandMessage("deleteStream", 0, args).Body = args
    BY DEF CommandMessage
  <2>4. Value(args[2]) = s
    BY DEF Value, Number
  <2> HIDE DEF args
  <2>5. /\ p.sid = ControlStreamID /\ p.tag = t /\ p.id = 20 /\ CommandName(p) = "deleteStream"
        /\ Decodable(p.id, p.data)
        /\ Message(p) = CommandMessage("deleteStream", 0, args)
    BY <2>1, CommandSays
  <2> QED
    BY <2>2, <2>3, <2>4, <2>5 DEF Target
<1> QED
  BY <1>1, <1>2, <1>3

\* What the server answers.
LEMMA RepliesSay ==
    ASSUME NEW t, NEW name
    PROVE  /\ \A code : LET p == Admission(name, code, t) IN
              /\ p.sid = ControlStreamID /\ p.tag = t /\ p.id = 20 /\ CommandName(p) = name
              /\ Decodable(p.id, p.data) /\ Tid(p) = ConnectTransaction
           /\ \A s : LET p == Given(name, s, t) IN
              /\ p.sid = ControlStreamID /\ p.tag = t /\ p.id = 20 /\ CommandName(p) = name
              /\ Decodable(p.id, p.data) /\ Tid(p) = CreateStreamTransaction /\ Target(p) = s
              /\ CreateStreamResultDecodes(Message(p).Body)
<1>1. ASSUME NEW code
      PROVE  LET p == Admission(name, code, t) IN
             /\ p.sid = ControlStreamID /\ p.tag = t /\ p.id = 20 /\ CommandName(p) = name
             /\ Decodable(p.id, p.data) /\ Tid(p) = ConnectTransaction
  <2> DEFINE args == <<Object("preset"), Object(code)>>
             p == Packet(ControlStreamID, CommandMessage(name, ConnectTransaction, args), t)
  <2>1. args \in Seq({Object("preset"), Object(code)})
    OBVIOUS
  <2>2. Admission(name, code, t) = p
    BY DEF Admission, Command, ToArgs, Bare, Named, ArgsOfNetConnection
  <2>3. CommandMessage(name, ConnectTransaction, args).TransactionID = ConnectTransaction
    BY DEF CommandMessage
  <2>4. ConnectTransaction \in Int
    BY DEF ConnectTransaction
  <2> HIDE DEF args
  <2>5. /\ p.sid = ControlStreamID /\ p.tag = t /\ p.id = 20 /\ CommandName(p) = name
        /\ Decodable(p.id, p.data)
        /\ Message(p) = CommandMessage(name, ConnectTransaction, args)
    BY <2>1, <2>4, CommandSays
  <2> QED
    BY <2>2, <2>3, <2>5 DEF Tid
<1>2. ASSUME NEW s
      PROVE  LET p == Given(name, s, t) IN
             /\ p.sid = ControlStreamID /\ p.tag = t /\ p.id = 20 /\ CommandName(p) = name
             /\ Decodable(p.id, p.data) /\ Tid(p) = CreateStreamTransaction /\ Target(p) = s
             /\ CreateStreamResultDecodes(Message(p).Body)
  <2> DEFINE args == <<Null, Number(s)>>
             p == Packet(ControlStreamID, CommandMessage(name, CreateStreamTransaction, args), t)
  <2>1. args \in Seq({Null, Number(s)})
    OBVIOUS
  <2>2. Given(name, s, t) = p
    BY DEF Given, Command, ToArgs, Bare, Named, ArgsOfNetConnection
  <2>3. /\ CommandMessage(name, CreateStreamTransaction, args).TransactionID
             = CreateStreamTransaction
        /\ CommandMessage(name, CreateStreamTransaction, args).Body = args
    BY DEF CommandMessage
  <2>4. CreateStreamTransaction \in Int
    BY DEF CreateStreamTransaction
  <2>5. Value(args[2]) = s /\ CreateStreamResultDecodes(args)
    BY DEF Value, Number, CreateStreamResultDecodes
  <2> HIDE DEF args
  <2>6. /\ p.sid = ControlStreamID /\ p.tag = t /\ p.id = 20 /\ CommandName(p) = name
        /\ Decodable(p.id, p.data)
        /\ Message(p) = CommandMessage(name, CreateStreamTransaction, args)
    BY <2>1, <2>4, CommandSays
  <2> QED
    BY <2>2, <2>3, <2>6, <2>5 DEF Tid, Target
<1> QED
  BY <1>1, <1>2

\* What tells that nothing has been asked, answered or deleted.
Plain(p) == CommandName(p) \notin {"connect", "createStream", "deleteStream"} \cup Replies

\* A packet that is no command is plain.
LEMMA NoCommandPlain ==
    ASSUME NEW p, p.id # 20
    PROVE  Plain(p)
BY DEF Plain, CommandName, CommandID, Replies

\* What else the server's handlers write: sizes, events and the status of a stream.
LEMMA NoticesSay ==
    /\ \A p \in {Window, Bandwidth, Begins} :
          p.sid = ControlStreamID /\ p.tag = 0 /\ Plain(p) /\ Decodable(p.id, p.data)
    /\ \A s, level : LET p == Status(s, level) IN
          /\ p.sid = s /\ p.tag = 0 /\ Plain(p) /\ Decodable(p.id, p.data)
          /\ CommandName(p) = "onStatus"
<1>1. /\ Window.sid = ControlStreamID /\ Window.tag = 0 /\ Window.id = 5
      /\ Decodable(Window.id, Window.data)
  BY DEF Window, Packet, TypeID, PlainTypeID, Encode, Word, Decodable
<1>2. /\ Bandwidth.sid = ControlStreamID /\ Bandwidth.tag = 0 /\ Bandwidth.id = 6
      /\ Decodable(Bandwidth.id, Bandwidth.data)
  BY DEF Bandwidth, Packet, TypeID, PlainTypeID, Encode, Word, Octet, Decodable
<1>3. /\ Begins.sid = ControlStreamID /\ Begins.tag = 0 /\ Begins.id = 4
      /\ Begins.data = <<Half(0), Word(ControlStreamID)>>
  BY DEF Begins, Packet, TypeID, PlainTypeID, Encode, EncodeEvent, Pings, EventType
<1>4. Decodable(Begins.id, Begins.data)
  <2>1. Value(Begins.data[1]) = 0 /\ Len(Begins.data) = 2
    BY <1>3 DEF Half, Value
  <2>2. EventType["UserCtrlEventStreamBegin"] = 0
        /\ "UserCtrlEventStreamBegin" \in DOMAIN EventType
    BY DEF EventType
  <2> QED
    BY <1>3, <2>1, <2>2 DEF Decodable
<1>5. ASSUME NEW s, NEW level
      PROVE  LET p == Status(s, level) IN
             /\ p.sid = s /\ p.tag = 0 /\ Plain(p) /\ Decodable(p.id, p.data)
             /\ CommandName(p) = "onStatus"
  <2> DEFINE args == <<Null, Object(level)>>
             p == Packet(s, CommandMessage("onStatus", 0, args), 0)
  <2>1. args \in Seq({Null, Object(level)})
    OBVIOUS
  <2>2. Status(s, level) = p
    BY DEF Status, Command, ToArgs, Bare, Named, ArgsOfNetStream
  <2> HIDE DEF args
  <2>3. /\ p.sid = s /\ p.tag = 0 /\ CommandName(p) = "onStatus"
        /\ Decodable(p.id, p.data)
    BY <2>1, CommandSays
  <2> QED
    BY <2>2, <2>3 DEF Plain, Replies
<1> QED
  BY <1>1, <1>2, <1>3, <1>4, <1>5, NoCommandPlain

\* The announcement of a chunk size the encoder accepts.
LEMMA AnnouncementSays ==
    ASSUME NEW n \in 1..(WordMod \div 2 - 1)
    PROVE  LET p == Announced(n) IN
           /\ p.sid = ControlStreamID /\ p.tag = 0 /\ p.id = 1
           /\ Plain(p) /\ Decodable(p.id, p.data)
<1> DEFINE p == Announced(n)
<1>1. n \in Words
  BY WordAssumption DEF Words
<1>2. p.sid = ControlStreamID /\ p.tag = 0 /\ p.id = 1 /\ p.data = <<<<"word", n % WordMod>>>>
  BY DEF Announced, Packet, TypeID, PlainTypeID, Encode, Word
<1>3. p.data = <<<<"word", n>>>>
  BY <1>1, <1>2, WordOfWord
<1>4. p.data # <<>> /\ Value(p.data[1]) = n
  BY <1>3 DEF Value
<1>5. Decodable(p.id, p.data)
  BY <1>2, <1>4 DEF Decodable
<1> QED
  BY <1>2, <1>5, NoCommandPlain

\* A command users write by hand.
LEMMA OtherCommandSays ==
    ASSUME NEW Values, NEW args \in Seq(Values), NEW name,
           name \notin {"connect", "createStream", "deleteStream"} \cup Replies,
           NEW s, NEW t
    PROVE  LET p == Packet(s, CommandMessage(name, 0, args), t) IN
           p.sid = s /\ p.tag = t /\ Plain(p) /\ Decodable(p.id, p.data)
BY CommandSays DEF Plain

\* What users write beside the calls of the API: neither a request nor a reply, and a
\* server that knows the type can read it.
LEMMA WrittenSays ==
    ASSUME NEW s, NEW kind \in Kinds, NEW t
    PROVE  LET p == Written(s, kind, t) IN
           p.sid = s /\ p.tag = t /\ Plain(p) /\ Decodable(p.id, p.data)
<1> DEFINE p == Written(s, kind, t)
           says == p.sid = s /\ p.tag = t /\ Plain(p) /\ Decodable(p.id, p.data)
<1>1. CASE kind = "publish"
  <2> DEFINE args == <<Null, Text("name"), Text("live")>>
  <2>1. args \in Seq({Null, Text("name"), Text("live")})
    OBVIOUS
  <2>2. UserMessage(kind) = CommandMessage("publish", 0, args)
    BY <1>1 DEF UserMessage, ToArgs, Bare, Named, ArgsOfNetStream
  <2> HIDE DEF args
  <2> QED
    BY <2>1, <2>2, OtherCommandSays DEF Written, Replies
<1>2. CASE kind = "play"
  <2> DEFINE args == <<Null, Text("name")>>
  <2>1. args \in Seq({Null, Text("name")})
    OBVIOUS
  <2>2. UserMessage(kind) = CommandMessage("play", 0, args)
    BY <1>2 DEF UserMessage
  <2> HIDE DEF args
  <2> QED
    BY <2>1, <2>2, OtherCommandSays DEF Written, Replies
<1>3. CASE kind \in {"releaseStream", "FCPublish", "FCUnpublish"}
  <2> DEFINE args == <<Null, Text("name")>>
  <2>1. args \in Seq({Null, Text("name")})
    OBVIOUS
  <2>2. CmdBodyDecoders[kind] \in Named /\ CmdBodyDecoders[kind] \notin Bare
    BY <1>3 DEF CmdBodyDecoders, Named, Bare
  <2>3. ToArgs([type |-> CmdBodyDecoders[kind], StreamName |-> "name"]) = args
    BY <2>2 DEF ToArgs, Named, Bare
  <2>4. UserMessage(kind) = CommandMessage(kind, 0, args)
    BY <1>3, <2>3 DEF UserMessage
  <2> HIDE DEF args
  <2> QED
    BY <1>3, <2>1, <2>4, OtherCommandSays DEF Written, Replies
<1>4. CASE kind = "closeStream"
  <2> DEFINE args == <<Null>>
  <2>1. args \in Seq({Null})
    OBVIOUS
  <2>2. CmdBodyDecoders[kind] \in Bare
    BY <1>4 DEF CmdBodyDecoders, Bare
  <2>3. ToArgs([type |-> CmdBodyDecoders[kind]]) = args
    BY <2>2 DEF ToArgs, Named, Bare
  <2>4. UserMessage(kind) = CommandMessage(kind, 0, args)
    BY <1>4, <2>3 DEF UserMessage
  <2> HIDE DEF args
  <2> QED
    BY <1>4, <2>1, <2>4, OtherCommandSays DEF Written, Replies
<1>5. CASE kind \in {"unnamed", "checkbw"}
  <2> DEFINE args == <<Null>>
             name == IF kind = "unnamed" THEN "getStreamLength" ELSE "checkbw"
  <2>1. args \in Seq({Null})
    OBVIOUS
  <2>2. UserMessage(kind) = CommandMessage(name, 0, args)
    BY <1>5 DEF UserMessage
  <2>3. name \notin {"connect", "createStream", "deleteStream"} \cup Replies
    BY DEF Replies
  <2> HIDE DEF args, name
  <2> QED
    BY <2>1, <2>2, <2>3, OtherCommandSays DEF Written
<1>6. CASE kind \in {"@setDataFrame", "onTextData"}
  <2> DEFINE args == <<Text("onMetaData"), Object("metadata")>>
  <2>1. ToArgs([type |-> "NetStreamSetDataFrame", AmfData |-> Object("metadata")]) = args
    BY DEF ToArgs, Bare, Named, ArgsOfSetDataFrame
  <2>2. UserMessage(kind) = [type |-> "DataMessage", Name |-> kind, Encoding |-> AMF0,
                             Body |-> args]
    BY <1>6, <2>1 DEF UserMessage
  <2>3. p.sid = s /\ p.tag = t /\ p.id = 18 /\ p.data = <<Text(kind)>> \o args
    BY <2>2 DEF Written, Packet, TypeID, Encode, AMF0, AMF3
  <2>4. args \in Seq({Text("onMetaData"), Object("metadata")})
    OBVIOUS
  <2> HIDE DEF args
  <2>5. Len(p.data) >= 1 /\ p.data[1] = Text(kind)
    BY <2>3, <2>4
  <2>6. Starts(p.data, <<"string">>)
    BY <2>5 DEF Starts, Text
  <2> QED
    BY <2>3, <2>6, NoCommandPlain DEF Decodable
<1>7. CASE kind \in {"audio", "video"}
  <2>1. UserMessage(kind).type \in {"AudioMessage", "VideoMessage"}
    BY <1>7 DEF UserMessage
  <2>2. p.sid = s /\ p.tag = t /\ p.id \in {8, 9} /\ p.data # <<>>
    BY <2>1 DEF Written, Packet, TypeID, PlainTypeID, Encode
  <2> QED
    BY <2>2, NoCommandPlain DEF Decodable
<1>8. CASE kind = "ping"
  <2>1. /\ UserMessage(kind).type = "UserCtrl"
        /\ UserMessage(kind).Event = [type |-> "UserCtrlEventPingRequest", Timestamp |-> 0]
    BY <1>8 DEF UserMessage
  <2>2. /\ p.sid = s /\ p.tag = t /\ p.id = 4 /\ p.data = <<Half(6), Word(0)>>
    BY <2>1 DEF Written, Packet, TypeID, PlainTypeID, Encode, EncodeEvent, Pings, EventType
  <2>3. Value(p.data[1]) = 6 /\ Len(p.data) = 2
    BY <2>2 DEF Half, Value
  <2>4. EventType["UserCtrlEventPingRequest"] = 6
        /\ "UserCtrlEventPingRequest" \in DOMAIN EventType
    BY DEF EventType
  <2> QED
    BY <2>2, <2>3, <2>4, NoCommandPlain DEF Decodable
<1>9. CASE kind \in {"ack window", "huge ack window"}
  <2>1. UserMessage(kind).type = "WinAckSize"
    BY <1>9 DEF UserMessage
  <2>2. p.sid = s /\ p.tag = t /\ p.id = 5 /\ Len(p.data) = 1
    BY <2>1 DEF Written, Packet, TypeID, PlainTypeID, Encode
  <2> QED
    BY <2>2, NoCommandPlain DEF Decodable
<1> QED
  BY <1>1, <1>2, <1>3, <1>4, <1>5, <1>6, <1>7, <1>8, <1>9 DEF Kinds

\* A reply is not taken for the absence of one.
LEMMA ReplyIsSome ==
    ASSUME NEW name \in Replies, NEW t \in Nat
    PROVE  /\ \A code \in Codes : Admission(name, code, t) # None
           /\ \A s \in StreamIDs : Given(name, s, t) # None
<1> DEFINE Atom == ReplyWords \cup Nat
           Field == Seq(Atom)
           Somes == [sid : Nat, id : Nat, data : Seq(Field), tag : Nat]
<1>1. /\ ControlStreamID \in Nat /\ ConnectTransaction \in Nat
      /\ CreateStreamTransaction \in Nat /\ StreamIDs \subseteq Nat
  BY StreamsAssumption DEF ControlStreamID, ConnectTransaction, CreateStreamTransaction, StreamIDs
<1>2. /\ name \in Atom /\ Nat \subseteq Atom /\ \A c \in Codes : c \in Atom
      /\ "string" \in Atom /\ "null" \in Atom /\ "number" \in Atom /\ "object" \in Atom
      /\ "preset" \in Atom
  BY DEF Codes, Replies, ReplyWords
<1>3. None \notin Somes
  BY SwitchesAssumption DEF ReplyPackets
<1> HIDE DEF Atom
<1>4. /\ Text(name) \in Field /\ Null \in Field
      /\ \A n \in Nat : Number(n) \in Field
      /\ Object("preset") \in Field /\ \A c \in Codes : Object(c) \in Field
  BY <1>2 DEF Text, Null, Number, Object
<1> HIDE DEF Field
<1>5. ASSUME NEW tid \in Nat, NEW args \in Seq(Field)
      PROVE  Packet(ControlStreamID, CommandMessage(name, tid, args), t) \in Somes
  <2> DEFINE p == Packet(ControlStreamID, CommandMessage(name, tid, args), t)
  <2>1. p = [sid |-> ControlStreamID, id |-> 20,
             data |-> <<Text(name), Number(tid)>> \o args, tag |-> t]
    BY DEF Packet, CommandMessage, TypeID, Encode, AMF0, AMF3
  <2>2. <<Text(name), Number(tid)>> \in Seq(Field)
    BY <1>4
  <2>3. <<Text(name), Number(tid)>> \o args \in Seq(Field)
    BY <2>2
  <2> QED
    BY <1>1, <2>1, <2>3
<1>6. ASSUME NEW code \in Codes
      PROVE  Admission(name, code, t) \in Somes
  <2>1. <<Object("preset"), Object(code)>> \in Seq(Field)
    BY <1>4
  <2>2. Admission(name, code, t)
           = Packet(ControlStreamID,
                    CommandMessage(name, ConnectTransaction,
                                   <<Object("preset"), Object(code)>>), t)
    BY DEF Admission, Command, ToArgs, Bare, Named, ArgsOfNetConnection
  <2> QED
    BY <1>1, <1>5, <2>1, <2>2
<1>7. ASSUME NEW s \in StreamIDs
      PROVE  Given(name, s, t) \in Somes
  <2>1. <<Null, Number(s)>> \in Seq(Field)
    BY <1>1, <1>4
  <2>2. Given(name, s, t)
           = Packet(ControlStreamID,
                    CommandMessage(name, CreateStreamTransaction, <<Null, Number(s)>>), t)
    BY DEF Given, Command, ToArgs, Bare, Named, ArgsOfNetConnection
  <2> QED
    BY <1>1, <1>5, <2>1, <2>2
<1> QED
  BY <1>6, <1>7, <1>3

\* A packet of the client: its streams exist, and its name tells what it is about.
LEMMA ClientPacketSays ==
    ASSUME Shape, NEW p \in ClientPackets
    PROVE  /\ p.sid \in StreamIDs /\ p.tag \in Tags /\ Decodable(p.id, p.data)
           /\ ~Plain(p) => p.sid = ControlStreamID /\ p.id = 20 /\ ~IsReply(p)
           /\ CommandName(p) = "connect" => Tid(p) = ConnectTransaction
           /\ CommandName(p) = "createStream" => Tid(p) = CreateStreamTransaction
           /\ CommandName(p) = "deleteStream" => Target(p) \in StreamIDs
<1>1. ControlStreamID \in StreamIDs
  BY StreamsAssumption DEF StreamIDs, ControlStreamID
<1>2. 0 \in Tags
  BY StreamsAssumption DEF Shape, Tags, Workload
<1>3. CASE \E t \in Tags : p = Connects(t)
  BY <1>1, <1>3, CallsSay DEF IsReply, Replies, Plain
<1>4. CASE \E t \in Tags : p = Creation(t)
  BY <1>1, <1>4, CallsSay DEF IsReply, Replies, Plain
<1>5. CASE \E s \in StreamIDs, t \in Tags : p = Deletion(s, t)
  BY <1>1, <1>5, CallsSay DEF IsReply, Replies, Plain
<1>6. CASE \E n \in 1..(WordMod \div 2 - 1) : p = Announced(n)
  BY <1>1, <1>2, <1>6, AnnouncementSays DEF Plain
<1>7. CASE \E s \in StreamIDs, kind \in Kinds, t \in Tags : p = Written(s, kind, t)
  BY <1>7, WrittenSays DEF Plain
<1> QED
  BY <1>3, <1>4, <1>5, <1>6, <1>7 DEF ClientPackets

\* A packet of the server: its replies go to the control stream.
LEMMA ServerPacketSays ==
    ASSUME Shape, NEW p \in ServerPackets
    PROVE  /\ p.sid \in StreamIDs /\ p.tag \in Tags /\ Decodable(p.id, p.data)
           /\ ~Plain(p) => p.sid = ControlStreamID /\ p.id = 20 /\ IsReply(p) /\ p # None
           /\ IsReply(p) => Tid(p) \in Transactions
           /\ IsReply(p) /\ Tid(p) = CreateStreamTransaction =>
                 Target(p) \in StreamIDs /\ CreateStreamResultDecodes(Message(p).Body)
<1>1. ControlStreamID \in StreamIDs
  BY StreamsAssumption DEF StreamIDs, ControlStreamID
<1>2. 0 \in Tags /\ Tags \subseteq Nat
  BY StreamsAssumption DEF Shape, Tags, Workload
<1>3. ConnectTransaction # CreateStreamTransaction
  BY DEF ConnectTransaction, CreateStreamTransaction
<1>4. CASE \E name \in Replies, code \in Codes, t \in Tags : p = Admission(name, code, t)
  BY <1>1, <1>2, <1>3, <1>4, RepliesSay, ReplyIsSome DEF IsReply, Transactions
<1>5. CASE \E name \in Replies, s \in StreamIDs, t \in Tags : p = Given(name, s, t)
  <2>1. PICK name \in Replies, s \in StreamIDs, t \in Tags : p = Given(name, s, t)
    BY <1>5
  <2>2. /\ p.sid = ControlStreamID /\ p.tag = t /\ p.id = 20 /\ CommandName(p) = name
        /\ Decodable(p.id, p.data) /\ Tid(p) = CreateStreamTransaction /\ Target(p) = s
        /\ CreateStreamResultDecodes(Message(p).Body)
    BY <2>1, RepliesSay
  <2>3. p # None
    BY <1>2, <2>1, ReplyIsSome
  <2> QED
    BY <1>1, <2>2, <2>3 DEF IsReply, Transactions
<1>6. CASE \E s \in StreamIDs, level \in Levels : p = Status(s, level)
  BY <1>2, <1>6, NoticesSay DEF Plain, IsReply
<1>7. CASE p \in {Window, Bandwidth, Begins}
  BY <1>1, <1>2, <1>7, NoticesSay DEF Plain, IsReply
<1>8. CASE \E s \in StreamIDs, kind \in Kinds, t \in Tags : p = Written(s, kind, t)
  BY <1>8, WrittenSays DEF Plain, IsReply
<1> QED
  BY <1>4, <1>5, <1>6, <1>7, <1>8 DEF ServerPackets

-----------------------------------------------------------------------------
(* Queues *)

\* What is sent follows what is on its way.
LEMMA JoinedPlaces ==
    ASSUME NEW S, NEW q \in Seq(S), NEW t \in Seq(S)
    PROVE  /\ q \o t \in Seq(S) /\ Len(q \o t) = Len(q) + Len(t)
           /\ \A k \in DOMAIN (q \o t) :
                 \/ k \in DOMAIN q /\ (q \o t)[k] = q[k]
                 \/ /\ k - Len(q) \in DOMAIN t /\ (q \o t)[k] = t[k - Len(q)]
                    /\ k \in Nat /\ \A j \in DOMAIN q : j < k
           /\ \A k \in DOMAIN q : k \in DOMAIN (q \o t) /\ (q \o t)[k] = q[k]
           /\ \A k \in DOMAIN t : k + Len(q) \in DOMAIN (q \o t) /\ (q \o t)[k + Len(q)] = t[k]
<1> DEFINE r == q \o t
<1>1. /\ r \in Seq(S) /\ Len(r) = Len(q) + Len(t)
      /\ \A k \in 1..Len(r) : r[k] = IF k <= Len(q) THEN q[k] ELSE t[k - Len(q)]
  OBVIOUS
<1>2. Len(q) \in Nat /\ Len(t) \in Nat
  OBVIOUS
<1>3. DOMAIN q = 1..Len(q) /\ DOMAIN t = 1..Len(t) /\ DOMAIN r = 1..Len(r)
  BY <1>1
<1> HIDE DEF r
<1>4. \A k \in DOMAIN r : \/ k \in DOMAIN q /\ r[k] = q[k]
                          \/ /\ k - Len(q) \in DOMAIN t /\ r[k] = t[k - Len(q)]
                             /\ k \in Nat /\ \A j \in DOMAIN q : j < k
  BY <1>1, <1>2, <1>3
<1>5. \A k \in DOMAIN q : k \in DOMAIN r /\ r[k] = q[k]
  BY <1>1, <1>2, <1>3
<1>6. \A k \in DOMAIN t : k + Len(q) \in DOMAIN r /\ r[k + Len(q)] = t[k]
  BY <1>1, <1>2, <1>3
<1> QED
  BY <1>1, <1>4, <1>5, <1>6 DEF r

\* Where a place of a queue was before the i-th was taken out.
Back(i, k) == IF k < i THEN k ELSE k + 1

\* Taking a packet out leaves the others in their order.
LEMMA RemovedPlaces ==
    ASSUME NEW S, NEW q \in Seq(S), NEW i \in DOMAIN q
    PROVE  /\ RemoveAt(q, i) \in Seq(S)
           /\ \A k \in DOMAIN RemoveAt(q, i) :
                 /\ Back(i, k) \in DOMAIN q /\ Back(i, k) # i
                 /\ RemoveAt(q, i)[k] = q[Back(i, k)]
           /\ \A k, l \in DOMAIN RemoveAt(q, i) : k < l => Back(i, k) < Back(i, l)
           /\ \A k, l \in DOMAIN RemoveAt(q, i) : Back(i, k) = Back(i, l) => k = l
           /\ \A j \in DOMAIN q : j # i => \E k \in DOMAIN RemoveAt(q, i) : Back(i, k) = j
<1> DEFINE r == RemoveAt(q, i)
           head == SubSeq(q, 1, i - 1)
           tail == SubSeq(q, i + 1, Len(q))
<1>1. i \in 1..Len(q) /\ Len(q) \in Nat
  OBVIOUS
<1>2. head \in Seq(S) /\ Len(head) = i - 1 /\ \A k \in 1..i - 1 : head[k] = q[k]
  BY <1>1
<1>3. /\ tail \in Seq(S) /\ Len(tail) = Len(q) - i
      /\ \A k \in 1..Len(q) - i : tail[k] = q[k + i]
  BY <1>1
<1>4. r = head \o tail
  BY DEF RemoveAt
<1> HIDE DEF head, tail
<1>5. /\ r \in Seq(S) /\ Len(r) = Len(q) - 1
      /\ \A k \in 1..i - 1 : r[k] = q[k]
      /\ \A k \in 1..Len(q) - i : r[i - 1 + k] = q[k + i]
  <2>1. r \in Seq(S) /\ Len(r) = Len(q) - 1
    BY <1>1, <1>2, <1>3, <1>4, JoinedPlaces
  <2>2. DOMAIN head = 1..i - 1 /\ DOMAIN tail = 1..Len(q) - i
    BY <1>1, <1>2, <1>3
  <2>3. \A k \in DOMAIN head : r[k] = head[k]
    BY <1>2, <1>3, <1>4, JoinedPlaces
  <2>4. \A k \in DOMAIN tail : r[k + Len(head)] = tail[k]
    BY <1>2, <1>3, <1>4, JoinedPlaces
  <2>5. \A k \in 1..Len(q) - i : k + Len(head) = i - 1 + k
    BY <1>1, <1>2
  <2> HIDE DEF r
  <2>6. \A k \in 1..i - 1 : r[k] = q[k]
    BY <1>2, <2>2, <2>3
  <2>7. \A k \in 1..Len(q) - i : r[k + Len(head)] = q[k + i]
    BY <1>3, <2>2, <2>4
  <2>8. \A k \in 1..Len(q) - i : r[i - 1 + k] = q[k + i]
    BY <2>5, <2>7
  <2> QED
    BY <2>1, <2>6, <2>8
<1> HIDE DEF r
<1>6. DOMAIN r = 1..Len(q) - 1 /\ DOMAIN q = 1..Len(q)
  BY <1>1, <1>5
<1>7. \A k \in DOMAIN r : k >= i => r[k] = q[k + 1]
  <2> SUFFICES ASSUME NEW k \in DOMAIN r, k >= i
               PROVE  r[k] = q[k + 1]
    OBVIOUS
  <2> DEFINE m == k - i + 1
  <2>1. m \in 1..Len(q) - i /\ i - 1 + m = k /\ m + i = k + 1
    BY <1>1, <1>6
  <2> QED
    BY <1>5, <2>1
<1>8. \A k \in DOMAIN r : k < i => r[k] = q[k]
  BY <1>1, <1>5, <1>6
<1>9. \A k \in DOMAIN r : /\ Back(i, k) \in DOMAIN q /\ Back(i, k) # i
                          /\ r[k] = q[Back(i, k)]
  BY <1>1, <1>6, <1>7, <1>8 DEF Back
<1>10. \A k, l \in DOMAIN r : k < l => Back(i, k) < Back(i, l)
  BY <1>1, <1>6 DEF Back
<1>11. \A k, l \in DOMAIN r : Back(i, k) = Back(i, l) => k = l
  BY <1>1, <1>6 DEF Back
<1>12. ASSUME NEW j \in DOMAIN q, j # i
       PROVE  \E k \in DOMAIN r : Back(i, k) = j
  <2>1. CASE j < i
    BY <1>1, <1>6, <1>12, <2>1 DEF Back
  <2>2. CASE j > i
    <3>1. j - 1 \in DOMAIN r /\ Back(i, j - 1) = j
      BY <1>1, <1>6, <1>12, <2>2 DEF Back
    <3> QED
      BY <3>1
  <2> QED
    BY <1>1, <1>6, <1>12, <2>1, <2>2
<1> QED
  BY <1>5, <1>9, <1>10, <1>11, <1>12 DEF r

\* Commands arrive in order, and audio is small: what is left behind of what was sent
\* before a command that arrives is neither.
LEMMA CommandArrives ==
    ASSUME Shape, NEW i \in Arriving(up), up[i].id = 20,
           NEW j \in DOMAIN up, j < i
    PROVE  up[j].id \notin {8, 20}
<1>1. i \in 1..Len(up) /\ up \in Seq(ClientPackets)
  BY DEF Arriving, Shape
<1>2. j \in 1..i - 1
  BY <1>1
<1>3. Large(up[j]) /\ ChunkStream(up[j]) # ChunkStream(up[i])
  BY <1>2 DEF Arriving
<1>4. ChunkStream(up[i]) = "command"
  BY DEF ChunkStream, CommandID
<1> QED
  BY <1>3, <1>4 DEF ChunkStream, CommandID, Large, CommandName

-----------------------------------------------------------------------------
(* A turn of the server's message loop *)

\* A decoder makes the body of its command.
LEMMA BodyType ==
    ASSUME NEW name \in DOMAIN CmdBodyDecoders, NEW args
    PROVE  /\ CmdBody(name, args).type = CmdBodyDecoders[name]
           /\ name = "deleteStream" => CmdBody(name, args).StreamID = Value(args[2])
<1>1. name \in {"connect", "createStream", "deleteStream", "publish", "play", "releaseStream",
                "FCPublish", "FCUnpublish", "getStreamLength", "ping", "closeStream"}
  BY DEF CmdBodyDecoders
<1>2. CASE name = "connect"
  BY <1>2 DEF CmdBody, CmdBodyDecoders, Bare, Named, DecodeBodyConnect
<1>3. CASE name \in {"createStream", "ping", "closeStream"}
  <2>1. CmdBodyDecoders[name] \in Bare
    BY <1>3 DEF CmdBodyDecoders, Bare
  <2>2. CmdBody(name, args) = [type |-> CmdBodyDecoders[name]]
    BY <1>3, <2>1 DEF CmdBody, Named, Bare
  <2> QED
    BY <1>3, <2>2
<1>4. CASE name \in {"releaseStream", "FCPublish", "FCUnpublish", "getStreamLength"}
  <2>1. CmdBodyDecoders[name] \in Named
    BY <1>4 DEF CmdBodyDecoders, Named
  <2>2. CmdBody(name, args) = DecodeBodyNamed(name, args)
    BY <1>4, <2>1 DEF CmdBody, Named, Bare
  <2> QED
    BY <1>4, <2>2 DEF DecodeBodyNamed
<1>5. CASE name = "deleteStream"
  BY <1>5 DEF CmdBody, CmdBodyDecoders, Bare, Named, DecodeBodyDeleteStream
<1>6. CASE name = "publish"
  BY <1>6 DEF CmdBody, CmdBodyDecoders, Bare, Named, DecodeBodyPublish
<1>7. CASE name = "play"
  BY <1>7 DEF CmdBody, CmdBodyDecoders, Bare, Named, DecodeBodyPlay
<1> QED
  BY <1>1, <1>2, <1>3, <1>4, <1>5, <1>6, <1>7

\* What a handler may answer to a request: one reply at most, and to this request.
Answers(t, p) ==
    /\ t \in Seq(ServerPackets)
    /\ \A k \in DOMAIN t : IsReply(t[k]) =>
         /\ t[k].tag = p.tag /\ Tid(t[k]) = Tid(p)
         /\ \A l \in DOMAIN t : IsReply(t[l]) => k = l

\* Nothing but the loop, and the user, takes notice of a message.
Ignores == UNCHANGED <<down, sstate, sgen, strays>>

\* The connection ends with an error, after the answer if there was time for it.
Rejection(p) ==
    /\ IsRequest(p)
    /\ \E t : Answers(t, p) /\ down' = down \o t
    /\ sloop' = "ended"
    /\ UNCHANGED <<sstate, sgen, strays>>

Accepts(p) ==
    /\ CommandName(p) = "connect" /\ sstate[ControlStreamID] = "NotConnected"
    /\ \E t : Answers(t, p) /\ down' = down \o t
    /\ sstate' = [sstate EXCEPT ![ControlStreamID] = "Connected"]
    /\ UNCHANGED <<sgen, strays>>

Exhausted(p) ==
    /\ CommandName(p) = "createStream"
    /\ down' = down \o <<Given("_error", ControlStreamID, p.tag)>>
    /\ UNCHANGED <<sstate, sgen, strays>>

Creates(p, s) ==
    /\ CommandName(p) = "createStream" /\ sstate[ControlStreamID] = "Connected"
    /\ sstate[s] = "none"
    /\ down' = down \o <<Given("_result", s, p.tag)>>
    /\ sstate' = [sstate EXCEPT ![s] = "Inactive"]
    /\ sgen' = [sgen EXCEPT ![s] = p.tag]
    /\ UNCHANGED strays

Removes(p, s) ==
    /\ Deletes(p, s)
    /\ sstate' = [sstate EXCEPT ![s] = "none"]
    /\ sgen' = [sgen EXCEPT ![s] = 0]
    /\ UNCHANGED <<down, strays>>

Strays(p, kind) == strays' = IF p.tag = sgen[p.sid] THEN strays ELSE strays \cup {kind}

Opens(p, state) ==
    /\ p.id = 20 /\ sstate[p.sid] = "Inactive"
    /\ \E t : /\ t \in Seq(ServerPackets) /\ \A k \in DOMAIN t : ~IsReply(t[k])
              /\ down' = down \o t
    /\ sstate' \in {sstate, [sstate EXCEPT ![p.sid] = state]}
    /\ Strays(p, "command")
    /\ UNCHANGED sgen

Receives(p) ==
    /\ sstate[p.sid] = "Publish"
    /\ IF p.id = 8 THEN Strays(p, "audio") ELSE UNCHANGED strays
    /\ UNCHANGED <<down, sstate, sgen>>

\* What a turn does to the message p: a stream is deleted or the loop ends.
Turn(p) ==
    /\ sloop' \in {sloop, "ended"}
    /\ CommandName(p) = "deleteStream" /\ sstate[ControlStreamID] = "Connected" =>
          sloop' = "ended" \/ \E s \in StreamIDs : Removes(p, s)
    /\ \/ Ignores \/ Rejection(p) \/ Accepts(p) \/ Exhausted(p)
       \/ \E s \in StreamIDs : Creates(p, s) \/ Removes(p, s)
       \/ \E state \in {"Publish", "Play"} : Opens(p, state)
       \/ Receives(p)

\* The handler of the state decides what a message does.
LEMMA HandleForms ==
    ASSUME NEW p, Decodable(p.id, p.data), Server!Handle(p, Message(p))
    PROVE  \/ /\ Ignores /\ sloop' \in {sloop, "ended"}
              /\ CommandName(p) \in DOMAIN CmdBodyDecoders => sloop' = "ended"
           \/ /\ p.id = 20
              /\ CommandName(p) \in DOMAIN CmdBodyDecoders
              /\ Server!HandleBody(p, CmdBody(CommandName(p), Message(p).Body))
           \/ sstate[p.sid] = "Publish" /\ Server!OnMedia(p)
<1> DEFINE m == Message(p)
<1> USE DEF Server!svars, Ignores
<1>1. Server!PassThrough => Ignores /\ sloop' \in {sloop, "ended"}
  BY DEF Server!PassThrough, Server!UserHandles, Server!EndLoop
<1>2. Server!Fails => Ignores /\ sloop' = "ended"
  BY DEF Server!Fails, Server!EndLoop
<1>3. Server!UnknownBody => Ignores /\ sloop' \in {sloop, "ended"}
  BY DEF Server!UnknownBody
<1>4. \A ok : Server!SetSize(ok) => Ignores /\ sloop' \in {sloop, "ended"}
  BY <1>2 DEF Server!SetSize
<1>5. "none" \notin DOMAIN CmdBodyDecoders
  BY DEF CmdBodyDecoders
<1>6. CASE p.id = 20
  <2>1. m.type = "CommandMessage" /\ m.CommandName = CommandName(p)
    BY <1>6, PacketKinds
  <2>2. Server!HandleCommand(p, CommandName(p), m.Body)
    BY <2>1 DEF Server!Handle
  <2> QED
    BY <1>2, <1>3, <1>6, <2>2, SameBody DEF Server!HandleCommand
<1>7. CASE p.id = 18
  <2>1. m.type = "DataMessage" /\ CommandName(p) = "none"
    BY <1>7, PacketKinds
  <2>2. Server!HandleData(p, m.Name)
    BY <2>1 DEF Server!Handle
  <2> QED
    BY <1>1, <1>3, <1>5, <2>1, <2>2 DEF Server!HandleData
<1>8. CASE p.id \notin {18, 20}
  <2>1. m.type \notin {"DataMessage", "CommandMessage"} /\ CommandName(p) = "none"
    BY <1>8, PacketKinds
  <2>2. \/ Server!PassThrough \/ \E ok : Server!SetSize(ok)
        \/ sstate[p.sid] = "Publish" /\ Server!OnMedia(p)
    BY <2>1 DEF Server!Handle
  <2> QED
    BY <1>1, <1>4, <1>5, <2>1, <2>2
<1> QED
  BY <1>6, <1>7, <1>8

\* A reply to the request, after what is no reply, answers it.
LEMMA AnswersOnce ==
    ASSUME NEW p, NEW w \in Seq(ServerPackets), \A k \in DOMAIN w : ~IsReply(w[k]),
           NEW r \in ServerPackets, r.tag = p.tag, Tid(r) = Tid(p)
    PROVE  Answers(Append(w, r), p) /\ Answers(w, p)
<1> DEFINE t == Append(w, r)
<1>1. /\ t \in Seq(ServerPackets) /\ Len(t) = Len(w) + 1 /\ Len(w) \in Nat
      /\ \A k \in 1..Len(w) : t[k] = w[k]
      /\ t[Len(w) + 1] = r
  OBVIOUS
<1>2. DOMAIN w = 1..Len(w)
  OBVIOUS
<1> HIDE DEF t
<1>3. \A k \in DOMAIN t : IsReply(t[k]) => k = Len(w) + 1
  <2> SUFFICES ASSUME NEW k \in DOMAIN t, k # Len(w) + 1
               PROVE  ~IsReply(t[k])
    OBVIOUS
  <2>1. k \in 1..Len(w)
    BY <1>1
  <2> QED
    BY <1>1, <1>2, <2>1
<1>4. Answers(t, p)
  BY <1>1, <1>3 DEF Answers
<1> QED
  BY <1>4 DEF Answers, t

\* A reply of the server's handlers, as the client gets it.
LEMMA ServerReplies ==
    ASSUME NEW p, p.sid = ControlStreamID
    PROVE  /\ Server!ReplyConnect(p, "Success") = Admission("_result", "Success", p.tag)
           /\ Server!ReplyConnect(p, "Failed") = Admission("_error", "Failed", p.tag)
           /\ Server!Welcome(p) = <<Window, Bandwidth, Begins>>
           /\ Tid(p) = CreateStreamTransaction =>
                 /\ Server!CreateError(p) = Given("_error", ControlStreamID, p.tag)
                 /\ \A s : Server!ReplyCreateStream(p, "_result", s) = Given("_result", s, p.tag)
<1>1. /\ Server!ReplyConnect(p, "Success") = Admission("_result", "Success", p.tag)
      /\ Server!ReplyConnect(p, "Failed") = Admission("_error", "Failed", p.tag)
  BY SameIDs, SameCommand DEF Server!ReplyConnect, Admission
<1>2. Server!Welcome(p) = <<Window, Bandwidth, Begins>>
  BY SamePacket DEF Server!Welcome, Window, Bandwidth, Begins, Huge, Server!Huge
<1>3. ASSUME Tid(p) = CreateStreamTransaction, NEW name, NEW s
      PROVE  Server!ReplyCreateStream(p, name, s) = Given(name, s, p.tag)
  <2>1. Server!Message(p).TransactionID = CreateStreamTransaction
    BY <1>3, SameMessage DEF Tid
  <2> QED
    BY <2>1, SameCommand DEF Server!ReplyCreateStream, Given
<1> QED
  BY <1>1, <1>2, <1>3 DEF Server!CreateError, ControlStreamID

\* serverControlNotConnectedHandler accepts, or answers that it does not.
LEMMA ConnectTurn ==
    ASSUME Shape, NEW p \in ClientPackets, CommandName(p) = "connect",
           sstate[p.sid] = "NotConnected", Server!OnConnect(p)
    PROVE  sloop' \in {sloop, "ended"} /\ (Accepts(p) \/ Rejection(p))
<1>1. /\ p.sid = ControlStreamID /\ p.tag \in Tags /\ Tid(p) = ConnectTransaction
  BY ClientPacketSays DEF Plain
<1> DEFINE w == <<Window, Bandwidth, Begins>>
           yes == Admission("_result", "Success", p.tag)
           no == Admission("_error", "Failed", p.tag)
<1>2. /\ Server!Welcome(p) = w /\ Server!ReplyConnect(p, "Success") = yes
      /\ Server!ReplyConnect(p, "Failed") = no
  BY <1>1, ServerReplies
<1>3. /\ {Window, Bandwidth, Begins, yes, no} \subseteq ServerPackets
  BY <1>1 DEF ServerPackets, Replies, Codes
<1>4. /\ yes.tag = p.tag /\ Tid(yes) = Tid(p) /\ no.tag = p.tag /\ Tid(no) = Tid(p)
  BY <1>1, RepliesSay
<1>5. ~IsReply(Window) /\ ~IsReply(Bandwidth) /\ ~IsReply(Begins)
  BY NoticesSay DEF Plain, IsReply
<1>6. /\ w \in Seq(ServerPackets) /\ \A k \in DOMAIN w : ~IsReply(w[k])
  BY <1>3, <1>5
<1> HIDE DEF w, yes, no
<1>7. ASSUME NEW n \in 0..3
      PROVE  /\ SubSeq(w, 1, n) \in Seq(ServerPackets)
             /\ \A k \in DOMAIN SubSeq(w, 1, n) : ~IsReply(SubSeq(w, 1, n)[k])
  <2>1. Len(w) = 3
    BY DEF w
  <2>2. /\ SubSeq(w, 1, n) \in Seq(ServerPackets) /\ Len(SubSeq(w, 1, n)) = n
        /\ \A k \in 1..n : SubSeq(w, 1, n)[k] = w[k] /\ k \in DOMAIN w
    BY <1>6, <2>1
  <2> QED
    BY <1>6, <2>2
<1>8. \A v : Server!SendOrFail(v, no) => down' \in {down \o Append(v, no), down \o v}
  BY DEF Server!SendOrFail, Server!Send
<1>9. /\ <<>> \in Seq(ServerPackets) /\ \A k \in DOMAIN <<>> : ~IsReply(<<>>[k])
  OBVIOUS
<1>10. /\ Answers(Append(w, yes), p) /\ Answers(Append(<<>>, no), p) /\ Answers(<<>>, p)
  BY <1>3, <1>4, <1>6, <1>9, AnswersOnce
<1>11. \A n \in 0..3 : Answers(Append(SubSeq(w, 1, n), no), p) /\ Answers(SubSeq(w, 1, n), p)
  BY <1>3, <1>4, <1>7, AnswersOnce
<1>12. CASE /\ Server!Send(Append(Server!Welcome(p), Server!ReplyConnect(p, "Success")))
            /\ sstate' = [sstate EXCEPT ![p.sid] = "Connected"]
            /\ UNCHANGED sloop
  <2>1. down' = down \o Append(w, yes)
    BY <1>2, <1>12 DEF Server!Send
  <2>2. UNCHANGED <<sgen, strays>>
    BY DEF Server!OnConnect
  <2>3. sstate[ControlStreamID] = "NotConnected"
    BY <1>1
  <2> QED
    BY <1>1, <1>10, <1>12, <2>1, <2>2, <2>3 DEF Accepts
<1>13. CASE /\ \/ Rejects /\ Server!SendOrFail(<<>>, Server!ReplyConnect(p, "Failed"))
               \/ /\ ServerWriteFails
                  /\ \E n \in 0..3 : Server!SendOrFail(SubSeq(Server!Welcome(p), 1, n),
                                                       Server!ReplyConnect(p, "Failed"))
            /\ Server!EndLoop
            /\ UNCHANGED sstate
  <2>1. \E t : Answers(t, p) /\ down' = down \o t
    BY <1>2, <1>8, <1>10, <1>11, <1>13
  <2>2. UNCHANGED <<sgen, strays>>
    BY DEF Server!OnConnect
  <2>3. IsRequest(p)
    BY DEF IsRequest
  <2> QED
    BY <1>13, <2>1, <2>2, <2>3 DEF Rejection, Server!EndLoop
<1> QED
  BY <1>12, <1>13 DEF Server!OnConnect

\* The lowest of some numbers is one of them.
LEMMA LeastOfSome ==
    ASSUME NEW S, S # {}, S \subseteq Nat
    PROVE  Server!Min(S) \in S
<1> DEFINE R == OpToRel(<, Nat)
<1>1. IsWellFoundedOn(R, Nat)
  BY NatLessThanWellFounded
<1>2. \A m, n \in Nat : <<m, n>> \in R <=> m < n
  BY DEF OpToRel
<1> HIDE DEF R
<1>3. PICK n \in S : \A m \in S : ~(<<m, n>> \in R)
  BY <1>1, WFMin
<1>4. ASSUME NEW m \in S
      PROVE  n <= m
  <2>1. m \in Nat /\ n \in Nat
    OBVIOUS
  <2>2. ~(m < n)
    BY <1>2, <1>3, <2>1
  <2> QED
    BY <2>1, <2>2
<1> QED
  BY <1>4 DEF Server!Min

\* onCreateStream takes an ID nobody uses, or answers why it does not.
LEMMA CreateTurn ==
    ASSUME Shape, NEW p \in ClientPackets, CommandName(p) = "createStream",
           sstate[p.sid] = "Connected", Server!OnCreateStream(p)
    PROVE  /\ sloop' \in {sloop, "ended"}
           /\ Exhausted(p) \/ Rejection(p) \/ \E s \in StreamIDs : Creates(p, s)
<1>1. /\ p.sid = ControlStreamID /\ p.tag \in Tags /\ Tid(p) = CreateStreamTransaction
  BY ClientPacketSays DEF Plain
<1> DEFINE no == Given("_error", ControlStreamID, p.tag)
<1>2. /\ Server!CreateError(p) = no
      /\ \A s : Server!ReplyCreateStream(p, "_result", s) = Given("_result", s, p.tag)
  BY <1>1, ServerReplies
<1>3. ControlStreamID \in StreamIDs
  BY StreamsAssumption DEF StreamIDs, ControlStreamID
<1>4. no \in ServerPackets
  BY <1>1, <1>3 DEF ServerPackets, Replies
<1>5. no.tag = p.tag /\ Tid(no) = Tid(p)
  BY <1>1, RepliesSay
<1> HIDE DEF no
<1>6. <<>> \in Seq(ServerPackets) /\ \A k \in DOMAIN <<>> : ~IsReply(<<>>[k])
  OBVIOUS
<1>7. Answers(Append(<<>>, no), p) /\ Answers(<<>>, p)
  BY <1>4, <1>5, <1>6, AnswersOnce
<1>8. UNCHANGED strays
  BY DEF Server!OnCreateStream
<1>9. CASE Server!NoneFree(p)
  <2>1. down' = down \o <<no>> /\ UNCHANGED <<sstate, sgen, sloop>>
    BY <1>2, <1>9 DEF Server!NoneFree, Server!Send
  <2> QED
    BY <1>8, <2>1 DEF Exhausted, no
<1>10. CASE Server!NewStream(p)
  <2> DEFINE s == Server!Min(Server!Free)
  <2>1. Server!Free # {} /\ Server!Free \subseteq Nat
    BY <1>10, SameIDs, StreamsAssumption DEF Server!NewStream, Server!Free, StreamIDs
  <2>2. s \in Server!Free
    BY <2>1, LeastOfSome
  <2>3. /\ down' = down \o <<Server!ReplyCreateStream(p, "_result", s)>>
        /\ sstate' = [sstate EXCEPT ![s] = "Inactive"]
        /\ sgen' = [sgen EXCEPT ![s] = p.tag] /\ UNCHANGED sloop
    BY <1>10 DEF Server!NewStream, Server!Send
  <2> HIDE DEF s
  <2>4. s \in StreamIDs /\ sstate[s] = "none"
    BY <2>2, SameIDs DEF Server!Free
  <2>5. Creates(p, s)
    BY <1>1, <1>2, <1>8, <2>3, <2>4 DEF Creates
  <2> QED
    BY <2>3, <2>4, <2>5
<1>11. CASE Server!CreateFails(p)
  <2>1. down' \in {down \o Append(<<>>, no), down \o <<>>}
    BY <1>2, <1>11 DEF Server!CreateFails, Server!SendOrFail, Server!Send
  <2>2. sloop' = "ended" /\ UNCHANGED <<sstate, sgen>>
    BY <1>11 DEF Server!CreateFails, Server!EndLoop
  <2>3. IsRequest(p)
    BY DEF IsRequest
  <2> QED
    BY <1>7, <1>8, <2>1, <2>2, <2>3 DEF Rejection
<1> QED
  BY <1>9, <1>10, <1>11 DEF Server!OnCreateStream

\* onDeleteStream removes the stream the command names, or ends the connection.
LEMMA DeleteTurn ==
    ASSUME Shape, NEW p \in ClientPackets, CommandName(p) = "deleteStream",
           Server!OnDeleteStream(p, Target(p))
    PROVE  \/ sloop' = "ended" /\ Ignores
           \/ UNCHANGED sloop /\ \E s \in StreamIDs : Removes(p, s)
<1>1. Target(p) \in StreamIDs
  BY ClientPacketSays
<1>2. UNCHANGED <<down, strays>>
  BY DEF Server!OnDeleteStream
<1>3. CASE Server!EndLoop /\ UNCHANGED <<sstate, sgen>>
  BY <1>2, <1>3 DEF Server!EndLoop, Ignores
<1>4. CASE /\ sstate' = [sstate EXCEPT ![Target(p)] = "none"]
           /\ sgen' = [sgen EXCEPT ![Target(p)] = 0]
           /\ UNCHANGED sloop
  BY <1>1, <1>2, <1>4 DEF Removes, Deletes
<1> QED
  BY <1>3, <1>4 DEF Server!OnDeleteStream

\* serverDataInactiveHandler tells the client, and hands the stream over to the user.
LEMMA OpenTurn ==
    ASSUME Shape, NEW p \in ClientPackets, p.id = 20, sstate[p.sid] = "Inactive",
           NEW state, Server!OnPublishOrPlay(p, state)
    PROVE  sloop' \in {sloop, "ended"} /\ Opens(p, state)
<1>1. p.sid \in StreamIDs
  BY ClientPacketSays
<1>2. \A level \in Levels : Server!NotifyStatus(p, level) = Status(p.sid, level)
  BY SameCommand DEF Server!NotifyStatus, Status
<1>3. ASSUME NEW level \in Levels
      PROVE  Status(p.sid, level) \in ServerPackets /\ ~IsReply(Status(p.sid, level))
  BY <1>1, NoticesSay DEF ServerPackets, Plain, IsReply
<1> DEFINE Told(t) == t \in Seq(ServerPackets) /\ \A k \in DOMAIN t : ~IsReply(t[k])
<1>4. Told(<<>>) /\ \A level \in Levels : Told(<<Status(p.sid, level)>>)
  BY <1>3
<1>5. "status" \in Levels /\ "error" \in Levels
  BY DEF Levels
<1>6. \A v : Append(<<>>, v) = <<v>>
  OBVIOUS
<1>7. /\ down' \in {down \o <<Status(p.sid, "status")>>, down \o <<Status(p.sid, "error")>>,
                    down \o <<>>}
      /\ sstate' \in {sstate, [sstate EXCEPT ![p.sid] = state]}
      /\ sloop' \in {sloop, "ended"}
  <2>1. CASE /\ Server!Send(<<Server!NotifyStatus(p, "status")>>)
             /\ sstate' = [sstate EXCEPT ![p.sid] = state]
             /\ UNCHANGED sloop
    BY <1>2, <1>5, <2>1 DEF Server!Send
  <2>2. CASE /\ \/ Rejects /\ Server!SendOrFail(<<>>, Server!NotifyStatus(p, "error"))
                \/ ServerWriteFails /\ Server!Send(<<>>)
             /\ Server!EndLoop
             /\ UNCHANGED sstate
    <3>1. down' \in {down \o Append(<<>>, Server!NotifyStatus(p, "error")), down \o <<>>}
      BY <2>2 DEF Server!SendOrFail, Server!Send
    <3> QED
      BY <1>2, <1>5, <1>6, <2>2, <3>1 DEF Server!EndLoop
  <2> QED
    BY <2>1, <2>2 DEF Server!OnPublishOrPlay
<1>8. \E t : Told(t) /\ down' = down \o t
  BY <1>4, <1>5, <1>7
<1>9. Strays(p, "command") /\ UNCHANGED sgen
  BY DEF Server!OnPublishOrPlay, Server!Stray, Strays
<1> QED
  BY <1>7, <1>8, <1>9 DEF Opens

\* What a message does to the streams is one of these.
LEMMA ServerTurn ==
    ASSUME Shape, NEW i, Server!ServerHandle(i)
    PROVE  /\ sloop = "running" /\ i \in Arriving(up) /\ i \in DOMAIN up
           /\ up[i] \in ClientPackets
           /\ up' = RemoveAt(up, i) /\ UNCHANGED <<workload, closed>>
           /\ Turn(up[i])
<1> DEFINE p == up[i]
<1>1. /\ sloop = "running" /\ i \in Arriving(up) /\ up' = RemoveAt(up, i)
      /\ UNCHANGED <<workload, closed>>
      /\ \/ sstate[p.sid] # "none" /\ Server!Handle(p, Server!Message(p))
         \/ sstate[p.sid] = "none" /\ Server!OnNoStream
  BY SameQueue DEF Server!ServerHandle
<1>2. i \in DOMAIN up /\ p \in ClientPackets
  BY <1>1 DEF Arriving, Shape
<1>3. p.sid \in StreamIDs /\ Decodable(p.id, p.data)
  BY <1>2, ClientPacketSays
<1>4. CommandName(p) = "deleteStream" => p.sid = ControlStreamID
  BY <1>2, ClientPacketSays DEF Plain
<1>5. ASSUME sstate[p.sid] = "none", Server!OnNoStream
      PROVE  Turn(p)
  BY <1>5, <1>4 DEF Server!OnNoStream, Server!EndLoop, Turn, Ignores
<1>6. ASSUME Server!Handle(p, Server!Message(p))
      PROVE  Turn(p)
  <2> DEFINE name == CommandName(p)
             args == Message(p).Body
             b == CmdBody(name, args)
             Done == sloop' = "ended" \/ \E s \in StreamIDs : Removes(p, s)
  <2>1. Server!Handle(p, Message(p))
    BY <1>6, SameMessage
  <2>2. CASE /\ Ignores /\ sloop' \in {sloop, "ended"}
             /\ CommandName(p) \in DOMAIN CmdBodyDecoders => sloop' = "ended"
    BY <2>2 DEF Turn, CmdBodyDecoders
  <2>3. CASE sstate[p.sid] = "Publish" /\ Server!OnMedia(p)
    BY <1>4, <2>3 DEF Server!OnMedia, Server!Stray, Strays, Server!UserHandles,
                      Server!EndLoop, Turn, Receives
  <2>4. CASE /\ p.id = 20 /\ name \in DOMAIN CmdBodyDecoders /\ Server!HandleBody(p, b)
    <3>1. /\ b.type = CmdBodyDecoders[name]
          /\ name = "deleteStream" => b.StreamID = Target(p)
      BY <2>4, BodyType DEF Target
    <3>2. /\ b.type = "NetConnectionConnect" => name = "connect"
          /\ b.type = "NetConnectionCreateStream" => name = "createStream"
          /\ b.type = "NetStreamDeleteStream" <=> name = "deleteStream"
      BY <2>4, <3>1 DEF CmdBodyDecoders
    <3> HIDE DEF b, name, p
    <3>3. \/ /\ sstate[p.sid] = "NotConnected" /\ b.type = "NetConnectionConnect"
             /\ Server!OnConnect(p)
          \/ /\ sstate[p.sid] = "Connected" /\ b.type = "NetConnectionCreateStream"
             /\ Server!OnCreateStream(p)
          \/ /\ b.type = "NetStreamDeleteStream" /\ Server!OnDeleteStream(p, b.StreamID)
          \/ Server!OnAnnounced \/ Server!PassThrough
          \/ /\ sstate[p.sid] = "Inactive"
             /\ \E state \in {"Publish", "Play"} : Server!OnPublishOrPlay(p, state)
      BY <2>4 DEF Server!HandleBody
    <3>4. sstate[p.sid] = "Connected" /\ b.type = "NetStreamDeleteStream" =>
             Server!OnDeleteStream(p, b.StreamID)
      BY <2>4 DEF Server!HandleBody
    <3>5. Server!OnAnnounced \/ Server!PassThrough => Ignores /\ sloop' \in {sloop, "ended"}
      BY DEF Server!OnAnnounced, Server!PassThrough, Server!UserHandles, Server!EndLoop,
             Ignores
    <3>6. Server!OnDeleteStream(p, b.StreamID) /\ b.type = "NetStreamDeleteStream" =>
             /\ sloop' \in {sloop, "ended"} /\ Done
             /\ Ignores \/ \E s \in StreamIDs : Removes(p, s)
      BY <1>2, <3>1, <3>2, DeleteTurn DEF name
    <3>7. CommandName(p) = "deleteStream" /\ sstate[ControlStreamID] = "Connected" => Done
      BY <1>4, <3>2, <3>6, <3>4 DEF name
    <3> HIDE DEF Done
    <3>8. sstate[p.sid] = "NotConnected" /\ b.type = "NetConnectionConnect"
             /\ Server!OnConnect(p) =>
             sloop' \in {sloop, "ended"} /\ (Accepts(p) \/ Rejection(p))
      BY <1>2, <3>2, ConnectTurn DEF name
    <3>9. sstate[p.sid] = "Connected" /\ b.type = "NetConnectionCreateStream"
             /\ Server!OnCreateStream(p) =>
             /\ sloop' \in {sloop, "ended"}
             /\ Exhausted(p) \/ Rejection(p) \/ \E s \in StreamIDs : Creates(p, s)
      BY <1>2, <3>2, CreateTurn DEF name
    <3>10. sstate[p.sid] = "Inactive"
             /\ (\E state \in {"Publish", "Play"} : Server!OnPublishOrPlay(p, state)) =>
             /\ sloop' \in {sloop, "ended"}
             /\ \E state \in {"Publish", "Play"} : Opens(p, state)
      BY <1>2, <2>4, OpenTurn
    <3>11. /\ sloop' \in {sloop, "ended"}
           /\ \/ Ignores \/ Rejection(p) \/ Accepts(p) \/ Exhausted(p)
              \/ \E s \in StreamIDs : Creates(p, s) \/ Removes(p, s)
              \/ \E state \in {"Publish", "Play"} : Opens(p, state)
      BY <3>3, <3>5, <3>8, <3>9, <3>6, <3>10
    <3> QED
      BY <3>7, <3>11 DEF Turn, Done
  <2> QED
    BY <1>3, <2>1, <2>2, <2>3, <2>4, HandleForms
<1> QED
  BY <1>1, <1>2, <1>5, <1>6

-----------------------------------------------------------------------------
(* The calls of the client's user *)

\* The client writes on streams it has, and what it writes is marked with the stream.
Sound(t) ==
    /\ t \in Seq(ClientPackets)
    /\ \A k \in DOMAIN t :
         /\ cstreams[t[k].sid] # None
         /\ t[k].sid # ControlStreamID => t[k].tag = cstreams[t[k].sid]

Sends(t) == up' = IF closed THEN up ELSE up \o t

\* A call that returns at once, with or without an error.
Tries ==
    /\ op' = "idle"
    /\ up' = up \/ \E t : Sound(t) /\ (\A k \in DOMAIN t : Plain(t[k])) /\ Sends(t)
    /\ transactions \subseteq transactions' /\ transactions' \subseteq Transactions
    /\ UNCHANGED cstreams

\* A call that waits for its reply.
Asks ==
    /\ op' \in {"Connect", "CreateStream"} /\ (op' = "Connect" => ~connected)
    /\ cstreams[ControlStreamID] # None
    /\ Awaited' \notin transactions /\ transactions' = transactions \cup {Awaited'}
    /\ \E t : /\ Sound(t)
              /\ \A k \in DOMAIN t :
                    \/ Plain(t[k])
                    \/ k = Len(t) /\ CommandName(t[k]) = Asked' /\ t[k].tag = tag'
              /\ Sends(t)
    /\ UNCHANGED cstreams

Discards(s) ==
    /\ op' = "idle"
    /\ connected /\ cstreams[ControlStreamID] # None /\ cstreams[s] # None
    /\ Sends(<<Deletion(s, tag')>>)
    /\ cstreams' = [cstreams EXCEPT ![s] = None]
    /\ UNCHANGED transactions

\* What a call of the user does.
Call ==
    /\ op = "idle" /\ tag' \in Tags
    /\ chunkSize' \in workload.sizes \cup {0}
    /\ Tries \/ Asks \/ \E s \in StreamIDs : Discards(s)
    /\ UNCHANGED <<workload, down, closed, answer, resolving, cloop, lastErr, connected>>

\* One more call is within the workload.
LEMMA CallCounted ==
    ASSUME Shape, Client!NewCall
    PROVE  op = "idle" /\ tag' \in Tags
BY StreamsAssumption DEF Shape, Client!NewCall, Tags, Workload

\* Nothing at all is soundly written.
LEMMA NothingSound == Sound(<<>>) /\ \A k \in DOMAIN <<>> : Plain(<<>>[k])
BY DEF Sound

\* A single packet.
LEMMA OneSound ==
    ASSUME NEW p \in ClientPackets, cstreams[p.sid] # None,
           p.sid # ControlStreamID => p.tag = cstreams[p.sid]
    PROVE  Sound(<<p>>) /\ (Plain(p) => \A k \in DOMAIN <<p>> : Plain(<<p>>[k]))
BY DEF Sound

\* Ask returns at once or leaves the call to wait for the reply to its request.
LEMMA AskForms ==
    ASSUME Shape, op = "idle", tag' \in Tags,
           NEW call \in {"Connect", "CreateStream"}, NEW tid, NEW name, NEW body,
           NEW before,
           Client!Controllable => Sound(before) /\ \A k \in DOMAIN before : Plain(before[k]),
           tid = IF call = "Connect" THEN ConnectTransaction ELSE CreateStreamTransaction,
           name = IF call = "Connect" THEN "connect" ELSE "createStream",
           body = IF call = "Connect" THEN "NetConnectionConnect"
                  ELSE "NetConnectionCreateStream",
           Client!Ask(call, tid, name, body, before), UNCHANGED cstreams,
           call = "Connect" => ~connected
    PROVE  Tries \/ Asks
<1> DEFINE r == Command(ControlStreamID, name, tid, [type |-> body, Command |-> "preset"], tag')
<1>1. Client!Command(Client!ControlStreamID, name, tid,
                     [type |-> body, Command |-> "preset"], tag') = r
  BY SameCommand, SameIDs
<1>2. r \in {Connects(tag'), Creation(tag')}
  BY DEF Connects, Creation
<1>3. r \in ClientPackets
  BY <1>2 DEF ClientPackets
<1>4. r.sid = ControlStreamID /\ r.tag = tag' /\ CommandName(r) = name
  <2>1. CASE call = "Connect"
    BY <2>1, CallsSay DEF Connects
  <2>2. CASE call = "CreateStream"
    BY <2>2, CallsSay DEF Creation
  <2> QED
    BY <2>1, <2>2
<1> HIDE DEF r
<1>5. Client!Controllable => cstreams[ControlStreamID] # None
  BY SameIDs DEF Client!Controllable, Client!Created
<1>6. \A t : Client!Writes(t) <=> Sends(t)
  BY DEF Client!Writes, Sends
<1>7. tid \in Transactions /\ transactions \subseteq Transactions
  BY DEF Transactions, Shape
<1>8. CASE ~Client!Controllable /\ UNCHANGED <<up, transactions, op>>
  BY <1>7, <1>8 DEF Tries
<1>9. CASE /\ Client!Controllable /\ Client!Writes(before)
           /\ transactions' \in {transactions, transactions \cup {tid}} /\ UNCHANGED op
  BY <1>6, <1>7, <1>9 DEF Tries
<1>10. CASE /\ Client!Controllable /\ tid \notin transactions
            /\ transactions' = transactions \cup {tid}
            /\ Client!Writes(Append(before, r)) /\ op' = call
  <2> DEFINE t == Append(before, r)
  <2>1. before \in Seq(ClientPackets) /\ Len(before) \in Nat
    BY <1>10 DEF Sound
  <2>2. /\ t \in Seq(ClientPackets) /\ Len(t) = Len(before) + 1
        /\ \A k \in 1..Len(before) : t[k] = before[k] /\ k \in DOMAIN before
        /\ t[Len(before) + 1] = r /\ DOMAIN t = 1..Len(before) + 1
    BY <1>3, <2>1
  <2>3. Awaited' = tid /\ Asked' = name
    BY <1>10 DEF Awaited, Asked
  <2>4. Sends(t)
    BY <1>6, <1>10
  <2> HIDE DEF t
  <2>5. \A k \in DOMAIN t : k \in 1..Len(before) \/ k = Len(before) + 1
    BY <2>1, <2>2
  <2>6. Sound(before) /\ \A k \in DOMAIN before : Plain(before[k])
    BY <1>10
  <2>7. Sound(t)
    BY <1>4, <1>5, <1>10, <2>2, <2>5, <2>6 DEF Sound
  <2>8. \A k \in DOMAIN t : \/ Plain(t[k])
                            \/ k = Len(t) /\ CommandName(t[k]) = Asked' /\ t[k].tag = tag'
    BY <1>4, <2>2, <2>3, <2>5, <2>6
  <2>9. op' \in {"Connect", "CreateStream"} /\ (op' = "Connect" => ~connected)
    BY <1>10
  <2> QED
    BY <1>5, <1>10, <2>3, <2>4, <2>7, <2>8, <2>9 DEF Asks
<1> QED
  BY <1>1, <1>8, <1>9, <1>10 DEF Client!Ask, r

\* Stream.Connect
LEMMA ConnectCall ==
    ASSUME Shape, Client!Connect
    PROVE  Call
<1>1. op = "idle" /\ tag' \in Tags
  BY CallCounted DEF Client!Connect
<1>2. Client!Ask("Connect", ConnectTransaction, "connect", "NetConnectionConnect", <<>>)
  BY SameIDs DEF Client!Connect
<1>3. UNCHANGED <<workload, down, closed, chunkSize, cstreams, answer, resolving, cloop,
                  lastErr, connected>>
  BY DEF Client!Connect, Client!loopVars
<1>4. ~connected
  BY DEF Client!Connect
<1>5. Tries \/ Asks
  BY <1>1, <1>2, <1>3, <1>4, AskForms, NothingSound
<1> QED
  BY <1>1, <1>3, <1>5 DEF Call, Shape

\* Stream.CreateStream
LEMMA CreateStreamCall ==
    ASSUME Shape, NEW n \in workload.sizes \cup {0}, Client!CreateStream(n)
    PROVE  Call
<1> DEFINE before == IF Client!Changes(n)
                     THEN <<Client!Packet(Client!ControlStreamID, Client!Announcement(n), 0)>>
                     ELSE <<>>
<1>1. op = "idle" /\ tag' \in Tags
  BY CallCounted DEF Client!CreateStream
<1>2. /\ UNCHANGED <<workload, down, closed, cstreams, answer, resolving, cloop,
                     lastErr, connected>>
      /\ chunkSize' \in workload.sizes \cup {0}
  BY DEF Client!CreateStream, Client!loopVars, Shape
<1>3. CASE /\ Client!Changes(n) => Client!Encodable(Client!Announcement(n))
           /\ Client!Ask("CreateStream", Client!CreateStreamTransaction, "createStream",
                         "NetConnectionCreateStream", before)
  <2>1. Client!Controllable => Sound(before) /\ \A k \in DOMAIN before : Plain(before[k])
    <3> SUFFICES ASSUME Client!Controllable
                 PROVE  Sound(before) /\ \A k \in DOMAIN before : Plain(before[k])
      OBVIOUS
    <3>1. CASE ~Client!Changes(n)
      BY <3>1, NothingSound
    <3>2. CASE Client!Changes(n)
      <4>1. n \in 1..(WordMod \div 2 - 1)
        BY <1>3, <3>2 DEF Client!Encodable, Client!Announcement
      <4>2. before = <<Announced(n)>>
        BY <3>2, SamePacket, SameIDs DEF Client!Announcement, Announced
      <4>3. n \in workload.sizes
        BY <3>2 DEF Client!Changes
      <4>4. Announced(n) \in ClientPackets
        BY <4>1, <4>3 DEF ClientPackets
      <4>5. Announced(n).sid = ControlStreamID /\ Plain(Announced(n))
        BY <4>1, AnnouncementSays
      <4>6. cstreams[ControlStreamID] # None
        BY SameIDs DEF Client!Controllable, Client!Created
      <4> HIDE DEF before
      <4> QED
        BY <4>2, <4>4, <4>5, <4>6, OneSound
    <3> QED
      BY <3>1, <3>2
  <2> HIDE DEF before
  <2>2. Client!Ask("CreateStream", CreateStreamTransaction, "createStream",
                   "NetConnectionCreateStream", before)
    BY <1>3, SameIDs
  <2>3. Tries \/ Asks
    BY <1>1, <1>2, <2>1, <2>2, AskForms
  <2> QED
    BY <1>1, <1>2, <2>3 DEF Call
<1>4. CASE UNCHANGED <<up, transactions, op>>
  <2>1. Tries
    BY <1>1, <1>2, <1>4 DEF Tries, Shape
  <2> QED
    BY <1>1, <1>2, <2>1 DEF Call
<1> QED
  BY <1>3, <1>4 DEF Client!CreateStream

\* Stream.DeleteStream
LEMMA DeleteStreamCall ==
    ASSUME Shape, NEW s \in StreamIDs, Client!DeleteStream(s)
    PROVE  Call
<1>1. op = "idle" /\ tag' \in Tags
  BY CallCounted DEF Client!DeleteStream
<1>2. /\ UNCHANGED <<workload, down, closed, chunkSize, answer, resolving, cloop, lastErr,
                     connected, transactions, op>>
      /\ chunkSize' \in workload.sizes \cup {0}
  BY DEF Client!DeleteStream, Client!loopVars, Shape
<1>3. connected /\ cstreams[s] # None /\ cstreams[ControlStreamID] # None
  BY SameIDs DEF Client!DeleteStream, Client!Controllable, Client!Created
<1>4. Client!DeleteCommand(s) = Deletion(s, tag')
  BY SameIDs, SameCommand DEF Client!DeleteCommand, Deletion
<1>5. PICK ok \in BOOLEAN :
         /\ Client!Write(Client!DeleteCommand(s), ok)
         /\ cstreams' = IF ok THEN [cstreams EXCEPT ![s] = None] ELSE cstreams
  BY DEF Client!DeleteStream
<1>6. CASE ok
  <2>1. Sends(<<Deletion(s, tag')>>)
    BY <1>4, <1>5, <1>6 DEF Client!Write, Client!Writes, Sends
  <2>2. Discards(s)
    BY <1>1, <1>2, <1>3, <1>5, <1>6, <2>1 DEF Discards
  <2> QED
    BY <1>1, <1>2, <2>2 DEF Call
<1>7. CASE ~ok
  <2>1. UNCHANGED <<up, cstreams>>
    BY <1>5, <1>7 DEF Client!Write
  <2>2. Tries
    BY <1>1, <1>2, <2>1 DEF Tries, Shape
  <2> QED
    BY <1>1, <1>2, <2>2 DEF Call
<1> QED
  BY <1>6, <1>7

\* Stream.Publish, Stream.WriteDataMessage and Stream.Write
LEMMA WriteCall ==
    ASSUME Shape, NEW s \in StreamIDs, NEW kind \in Kinds, Client!WriteOn(s, kind)
    PROVE  Call
<1>1. op = "idle" /\ tag' \in Tags
  BY CallCounted DEF Client!WriteOn
<1>2. /\ UNCHANGED <<workload, down, closed, chunkSize, answer, resolving, cloop, lastErr,
                     connected, transactions, op, cstreams>>
      /\ chunkSize' \in workload.sizes \cup {0}
  BY DEF Client!WriteOn, Client!loopVars, Shape
<1> DEFINE p == Written(s, kind, cstreams[s])
<1>3. cstreams[s] # None
  BY DEF Client!WriteOn, Client!Created
<1>4. cstreams[s] \in Tags
  BY <1>3 DEF Shape
<1>5. p \in ClientPackets
  BY <1>4 DEF ClientPackets
<1>6. p.sid = s /\ p.tag = cstreams[s] /\ Plain(p)
  BY WrittenSays
<1>7. Client!Packet(s, Client!UserMessage(kind), cstreams[s]) = p
  BY SamePacket, SameUserMessage DEF Written
<1> HIDE DEF p
<1>8. up' = up \/ Sends(<<p>>)
  BY <1>7 DEF Client!WriteOn, Client!Write, Client!Writes, Sends
<1>9. Sound(<<p>>) /\ \A k \in DOMAIN <<p>> : Plain(<<p>>[k])
  BY <1>3, <1>5, <1>6, OneSound
<1>10. Tries
  BY <1>1, <1>2, <1>8, <1>9 DEF Tries, Shape
<1> QED
  BY <1>1, <1>2, <1>10 DEF Call

-----------------------------------------------------------------------------
(* The reply, and the client's message loop *)

\* The caller finds the reply to its own call: CreateStream adds the stream it has been
\* given, if it does not have it.
LEMMA ReturnForms ==
    ASSUME Shape, OneAtATime, Client!Return
    PROVE  /\ op # "idle" /\ answer # None /\ op' = "idle" /\ answer' = None
           /\ UNCHANGED <<workload, up, down, closed, chunkSize, transactions, resolving,
                          cloop, lastErr, tag>>
           /\ connected' \in BOOLEAN
           /\ connected' => connected \/ Admits(answer)
           /\ connected => connected'
           /\ \/ \E s \in StreamIDs : /\ Gives(answer, s) /\ cstreams[s] = None
                                      /\ cstreams' = [cstreams EXCEPT ![s] = answer.tag]
              \/ /\ UNCHANGED cstreams
                 /\ \A s \in StreamIDs : Gives(answer, s) => cstreams[s] # None
<1> DEFINE args == Message(answer).Body
           s == Target(answer)
           accepted == CommandName(answer) = "_result"
<1>1. /\ op # "idle" /\ answer # None /\ op' = "idle" /\ answer' = None
      /\ UNCHANGED <<workload, up, down, closed, chunkSize, transactions, resolving,
                     cloop, lastErr, tag>>
  BY DEF Client!Return, Client!loopVars
<1>2. answer \in ServerPackets /\ IsReply(answer) /\ Tid(answer) = Awaited
  BY <1>1 DEF Shape, OneAtATime, Requested, Replied, Waiting
<1>3. ConnectTransaction # CreateStreamTransaction
  BY DEF ConnectTransaction, CreateStreamTransaction
<1>4. op \in {"Connect", "CreateStream"} /\ connected \in BOOLEAN
  BY <1>1 DEF Shape
<1>5. /\ op = "CreateStream" <=> Tid(answer) = CreateStreamTransaction
      /\ op = "Connect" <=> Tid(answer) = ConnectTransaction
  BY <1>2, <1>3, <1>4 DEF Awaited
<1>6. /\ Client!DecodeBodyCreateStreamResult(Client!Message(answer).Body).StreamID = s
      /\ Client!CommandName(answer) = CommandName(answer)
      /\ Client!CreateStreamResultDecodes(Client!Message(answer).Body)
            <=> CreateStreamResultDecodes(args)
  BY SameBody, SameMessage DEF DecodeBodyCreateStreamResult, Target
<1>7. op = "CreateStream" => s \in StreamIDs /\ CreateStreamResultDecodes(args)
  BY <1>2, <1>5, ServerPacketSays
<1> DEFINE added == op = "CreateStream" /\ accepted /\ cstreams[s] = None
<1>8. /\ cstreams' = IF added THEN [cstreams EXCEPT ![s] = answer.tag] ELSE cstreams
      /\ connected' => connected \/ (op = "Connect" /\ accepted)
      /\ connected => connected'
      /\ connected' \in BOOLEAN
  <2> DEFINE args0 == Client!Message(answer).Body
             s0 == Client!DecodeBodyCreateStreamResult(args0).StreamID
             added0 == /\ op = "CreateStream" /\ Client!CommandName(answer) = "_result"
                       /\ Client!CreateStreamResultDecodes(args0) /\ s0 \notin Client!Created
  <2>1. /\ cstreams' = IF added0 THEN [cstreams EXCEPT ![s0] = answer.tag] ELSE cstreams
        /\ connected' = \/ connected
                        \/ /\ op = "Connect" /\ Client!ConnectResultDecodes(args0)
                           /\ Client!CommandName(answer) = "_result"
    BY DEF Client!Return
  <2>2. s0 = s
    BY <1>6
  <2>3. added0 <=> added
    BY <1>6, <1>7, <2>2, SameIDs DEF Client!Created
  <2> QED
    BY <1>4, <1>6, <2>1, <2>2, <2>3
<1>9. connected' => connected \/ Admits(answer)
  BY <1>5, <1>8 DEF Admits
<1>10. \A u : Gives(answer, u) <=> op = "CreateStream" /\ accepted /\ u = s
  BY <1>5 DEF Gives
<1> HIDE DEF s, accepted
<1>11. CASE added
  BY <1>1, <1>7, <1>8, <1>9, <1>10, <1>11
<1>12. CASE ~added
  BY <1>1, <1>8, <1>9, <1>10, <1>12
<1> QED
  BY <1>11, <1>12

\* A turn of the client's message loop gives the caller its reply, or it is about
\* something else.
LEMMA ClientTurn ==
    ASSUME Shape, OneAtATime, NEW i, Client!ClientHandle(i)
    PROVE  /\ i \in DOMAIN down /\ down[i] \in ServerPackets
           /\ down' = RemoveAt(down, i)
           /\ UNCHANGED <<workload, up, closed, chunkSize, cstreams, transactions, op, tag,
                          connected>>
           /\ cloop' \in {cloop, "ended"} /\ resolving = 0
           /\ lastErr' # "unexpected reply"
           /\ \/ /\ IsReply(down[i]) /\ answer' = down[i] /\ answer' # None
                 /\ resolving' = Tid(down[i]) /\ resolving' \in transactions
              \/ ~IsReply(down[i]) /\ UNCHANGED <<answer, resolving>>
<1> DEFINE p == down[i]
           m == Message(p)
<1>1. /\ i \in Arriving(down) /\ down' = RemoveAt(down, i) /\ resolving = 0
      /\ UNCHANGED <<workload, up, closed, chunkSize, cstreams, transactions, op, tag,
                     connected>>
      /\ \/ p.sid \in Client!Created /\ Client!Handle(p, m)
         \/ p.sid \notin Client!Created /\ Client!OnNoStream
  BY SameQueue, SameMessage DEF Client!ClientHandle, Client!userVars
<1>2. i \in DOMAIN down /\ p \in ServerPackets
  BY <1>1 DEF Arriving, Shape
<1>3. lastErr # "unexpected reply"
  BY DEF OneAtATime, Requested, Replied, Waiting
<1>4. p.sid \in StreamIDs /\ Decodable(p.id, p.data)
  BY <1>2, ServerPacketSays
<1>5. CASE IsReply(p)
  <2>1. /\ op # "idle" /\ answer = None /\ Tid(p) = Awaited
    BY <1>2, <1>5 DEF OneAtATime, Requested, Replied, Waiting
  <2>2. Awaited \in transactions /\ cstreams[ControlStreamID] # None
    BY <2>1 DEF OneAtATime, Requested, Replied, Waiting
  <2>3. p.sid = ControlStreamID /\ p.id = 20 /\ p # None
    BY <1>2, <1>5, ServerPacketSays DEF Plain, IsReply
  <2>4. p.sid \in Client!Created
    BY <1>4, <2>2, <2>3, SameIDs DEF Client!Created
  <2>5. m.type = "CommandMessage" /\ m.CommandName \in {"_result", "_error"}
    BY <1>4, <1>5, <2>3, PacketKinds DEF IsReply, Replies
  <2> HIDE DEF p, m
  <2>6. Client!OnReply(p, m.TransactionID)
    BY <1>1, <2>4, <2>5 DEF Client!Handle, Client!CmdBodyDecoders
  <2>7. m.TransactionID = Tid(p) /\ Client!ControlStreamID = ControlStreamID
    BY SameIDs DEF Tid, m
  <2>8. answer' = p /\ resolving' = Tid(p) /\ UNCHANGED <<cloop, lastErr>>
    BY <2>1, <2>2, <2>3, <2>6, <2>7 DEF Client!OnReply
  <2>9. /\ i \in DOMAIN down /\ p \in ServerPackets /\ down' = RemoveAt(down, i)
        /\ UNCHANGED <<workload, up, closed, chunkSize, cstreams, transactions, op, tag,
                       connected>>
        /\ cloop' \in {cloop, "ended"} /\ resolving = 0 /\ lastErr' # "unexpected reply"
    BY <1>1, <1>2, <1>3, <2>8
  <2>10. /\ IsReply(p) /\ answer' = p /\ answer' # None
         /\ resolving' = Tid(p) /\ resolving' \in transactions
    BY <1>5, <2>1, <2>2, <2>3, <2>8
  <2> QED
    BY <2>9, <2>10 DEF p
<1>6. CASE ~IsReply(p)
  <2> DEFINE Else == /\ UNCHANGED <<answer, resolving>>
                     /\ cloop' \in {cloop, "ended"} /\ lastErr' # "unexpected reply"
  <2>1. ~(m.type = "CommandMessage" /\ m.CommandName \in {"_result", "_error"})
    BY <1>4, <1>6, PacketKinds DEF IsReply, Replies
  <2>2. \A why : why # "unexpected reply" /\ Client!Fails(why) => Else
    BY DEF Client!Fails, Client!EndLoop
  <2>3. UNCHANGED <<answer, Client!loopVars>> => Else
    BY <1>3 DEF Client!loopVars
  <2>4. Client!OnNoStream => Else
    BY <1>3, <2>2 DEF Client!OnNoStream
  <2>5. \A ok : Client!SetSize(ok) => Else
    BY <2>2, <2>3 DEF Client!SetSize
  <2>6. Client!PassThrough \/ Client!NoHandler \/ Client!UnknownBody => Else
    BY <2>2, <2>3 DEF Client!PassThrough, Client!NoHandler, Client!UnknownBody
  <2>7. Client!Handle(p, m) => \/ Client!PassThrough \/ Client!NoHandler
                               \/ Client!UnknownBody \/ Client!Fails("body")
                               \/ \E ok : Client!SetSize(ok)
    <3> HIDE DEF p, m
    <3> QED
      BY <2>1 DEF Client!Handle
  <2> HIDE DEF Else, p, m
  <2>8. Else
    BY <1>1, <2>2, <2>4, <2>5, <2>6, <2>7
  <2> QED
    BY <1>1, <1>2, <1>6, <2>8 DEF Else, p
<1> QED
  BY <1>5, <1>6

-----------------------------------------------------------------------------
(* The types *)

StreamTypes ==
    /\ sstate \in [StreamIDs -> States]
    /\ sstate[ControlStreamID] \in {"none", "NotConnected", "Connected"}
    /\ \A s \in StreamIDs \ {ControlStreamID} :
          sstate[s] \in {"none", "Inactive", "Publish", "Play"}

\* Packets keep their types as long as the workload is the same.
LEMMA SamePackets ==
    ASSUME UNCHANGED workload
    PROVE  Tags' = Tags /\ ClientPackets' = ClientPackets /\ ServerPackets' = ServerPackets
BY DEF Tags, ClientPackets, ServerPackets

\* The control stream exists, and 0 is the tag of what no call has asked for.
LEMMA Zeros ==
    ASSUME Shape
    PROVE  ControlStreamID \in StreamIDs /\ 0 \in Tags /\ Tags \subseteq Nat
BY StreamsAssumption DEF Shape, Tags, Workload, StreamIDs, ControlStreamID

\* What is handled adds at most one reply to what is on its way, and to this request.
LEMMA TurnAnswers ==
    ASSUME Shape, NEW p \in ClientPackets, Turn(p)
    PROVE  \E t \in Seq(ServerPackets) :
              /\ down' = down \o t
              /\ \/ \A k \in DOMAIN t : ~IsReply(t[k])
                 \/ IsRequest(p) /\ Answers(t, p)
<1>1. down = down \o <<>> /\ <<>> \in Seq(ServerPackets) /\ DOMAIN <<>> = {}
  BY DEF Shape
<1>2. CASE UNCHANGED down
  BY <1>1, <1>2
<1>3. CASE Rejection(p) \/ Accepts(p)
  BY <1>3 DEF Rejection, Accepts, Answers, IsRequest
<1>4. p.tag \in Tags
  BY ClientPacketSays
<1>5. ASSUME NEW name \in Replies, NEW s \in StreamIDs, CommandName(p) = "createStream",
             down' = down \o <<Given(name, s, p.tag)>>
      PROVE  \E t \in Seq(ServerPackets) : down' = down \o t /\ IsRequest(p) /\ Answers(t, p)
  <2> DEFINE r == Given(name, s, p.tag)
  <2>1. r \in ServerPackets
    BY <1>4 DEF ServerPackets
  <2>2. r.tag = p.tag /\ Tid(r) = Tid(p)
    BY <1>5, RepliesSay, ClientPacketSays
  <2> HIDE DEF r
  <2>3. Answers(<<r>>, p) /\ <<r>> \in Seq(ServerPackets)
    BY <2>1, <2>2 DEF Answers
  <2>4. IsRequest(p)
    BY <1>5 DEF IsRequest
  <2> QED
    BY <1>5, <2>3, <2>4 DEF r
<1>6. CASE Exhausted(p) \/ \E s \in StreamIDs : Creates(p, s)
  BY <1>5, <1>6, Zeros DEF Exhausted, Creates, Replies
<1>7. CASE \E state \in {"Publish", "Play"} : Opens(p, state)
  BY <1>7 DEF Opens
<1> QED
  BY <1>2, <1>3, <1>6, <1>7 DEF Turn, Ignores, Removes, Receives

\* A turn keeps the types of the server's streams.
LEMMA TurnTypes ==
    ASSUME Shape, NEW p \in ClientPackets, Turn(p)
    PROVE  StreamTypes' /\ sgen' \in [StreamIDs -> Tags]
<1>1. ControlStreamID \in StreamIDs /\ 0 \in Tags /\ p.tag \in Tags /\ p.sid \in StreamIDs
  BY Zeros, ClientPacketSays
<1>2. StreamTypes /\ sgen \in [StreamIDs -> Tags]
  BY DEF Shape, StreamTypes
<1>3. CASE UNCHANGED <<sstate, sgen>>
  BY <1>2, <1>3 DEF StreamTypes
<1>4. ASSUME NEW s \in StreamIDs, NEW state \in States,
             sstate' = [sstate EXCEPT ![s] = state],
             IF s = ControlStreamID THEN state \in {"none", "NotConnected", "Connected"}
             ELSE state \in {"none", "Inactive", "Publish", "Play"}
      PROVE  StreamTypes'
  BY <1>2, <1>4 DEF StreamTypes
<1>5. CASE Accepts(p)
  BY <1>1, <1>2, <1>4, <1>5 DEF Accepts, States
<1>6. ASSUME NEW s \in StreamIDs, Creates(p, s)
      PROVE  StreamTypes' /\ sgen' \in [StreamIDs -> Tags]
  <2>1. s # ControlStreamID
    BY <1>6 DEF Creates
  <2> QED
    BY <1>1, <1>2, <1>4, <1>6, <2>1 DEF Creates, States
<1>7. ASSUME NEW s \in StreamIDs, Removes(p, s)
      PROVE  StreamTypes' /\ sgen' \in [StreamIDs -> Tags]
  BY <1>1, <1>2, <1>4, <1>7 DEF Removes, States
<1>8. ASSUME NEW state \in {"Publish", "Play"}, Opens(p, state)
      PROVE  StreamTypes' /\ sgen' \in [StreamIDs -> Tags]
  <2>1. p.sid # ControlStreamID
    BY <1>2, <1>8 DEF Opens, StreamTypes
  <2>2. CASE UNCHANGED sstate
    BY <1>2, <1>8, <2>2 DEF Opens, StreamTypes
  <2>3. CASE sstate' = [sstate EXCEPT ![p.sid] = state]
    BY <1>1, <1>2, <1>4, <1>8, <2>1, <2>3 DEF Opens, States
  <2> QED
    BY <1>8, <2>2, <2>3 DEF Opens
<1> QED
  BY <1>3, <1>5, <1>6, <1>7, <1>8 DEF Turn, Ignores, Rejection, Accepts, Exhausted, Receives,
     StreamTypes

\* The server's steps keep the types.
LEMMA ServerShape ==
    ASSUME Shape, Server!ServerNext, UNCHANGED cvars
    PROVE  Shape'
<1>1. UNCHANGED workload
  BY DEF Server!ServerNext, Server!ServerHandle, Server!ServerReadFails, Server!ServerCloses,
         Server!ServerWrites
<1>2. /\ Tags' = Tags /\ ClientPackets' = ClientPackets /\ ServerPackets' = ServerPackets
  BY <1>1, SamePackets
<1>3. /\ UNCHANGED <<chunkSize, tag, cstreams, transactions, resolving, cloop, op, answer,
                     connected>>
  BY DEF cvars
<1>4. ASSUME up' \in Seq(ClientPackets), down' \in Seq(ServerPackets), StreamTypes',
             sgen' \in [StreamIDs -> Tags], sloop' \in {"running", "ended"},
             closed' \in BOOLEAN
      PROVE  Shape'
  BY <1>1, <1>2, <1>3, <1>4 DEF Shape, StreamTypes
<1>5. /\ up \in Seq(ClientPackets) /\ down \in Seq(ServerPackets) /\ StreamTypes
      /\ sgen \in [StreamIDs -> Tags] /\ sloop \in {"running", "ended"}
      /\ closed \in BOOLEAN
  BY DEF Shape, StreamTypes
<1>6. UNCHANGED sstate => StreamTypes'
  BY <1>5 DEF StreamTypes
<1>7. ASSUME NEW i, Server!ServerHandle(i)
      PROVE  Shape'
  <2>1. /\ i \in DOMAIN up /\ up[i] \in ClientPackets /\ up' = RemoveAt(up, i)
        /\ UNCHANGED closed /\ Turn(up[i])
    BY <1>7, ServerTurn
  <2>2. up' \in Seq(ClientPackets)
    BY <1>5, <2>1, RemovedPlaces
  <2>3. down' \in Seq(ServerPackets)
    <3>1. PICK t \in Seq(ServerPackets) : down' = down \o t
      BY <2>1, TurnAnswers
    <3> QED
      BY <1>5, <3>1, JoinedPlaces
  <2>4. sloop' \in {"running", "ended"}
    BY <1>5, <2>1 DEF Turn
  <2> QED
    BY <1>4, <1>5, <2>1, <2>2, <2>3, <2>4, TurnTypes
<1>8. CASE Server!ServerReadFails
  BY <1>4, <1>5, <1>6, <1>8 DEF Server!ServerReadFails, Server!EndLoop
<1>9. CASE Server!ServerCloses
  BY <1>4, <1>5, <1>6, <1>9 DEF Server!ServerCloses, Server!svars
<1>10. ASSUME NEW s \in StreamIDs, NEW kind \in Kinds, Server!ServerWrites(s, kind)
       PROVE  Shape'
  <2>1. /\ down' = down \o <<Written(s, kind, sgen[s])>>
        /\ UNCHANGED <<up, closed, sstate, sgen, sloop>>
    BY <1>10, SamePacket, SameUserMessage
       DEF Server!ServerWrites, Server!Send, Server!svars, Written
  <2>2. Written(s, kind, sgen[s]) \in ServerPackets
    BY <1>5 DEF ServerPackets
  <2>3. <<Written(s, kind, sgen[s])>> \in Seq(ServerPackets)
    BY <2>2
  <2>4. down' \in Seq(ServerPackets)
    BY <1>5, <2>1, <2>3, JoinedPlaces
  <2> QED
    BY <1>4, <1>5, <1>6, <2>1, <2>4
<1>11. workload.server \subseteq Kinds
  BY StreamsAssumption DEF Shape, Workload
<1> QED
  BY <1>7, <1>8, <1>9, <1>10, <1>11, SameIDs DEF Server!ServerNext

\* A step of the client is a call, the end of one, or a turn of its loop.
LEMMA ClientSteps ==
    ASSUME Shape, Client!ClientNext
    PROVE  \/ Call \/ Client!Return \/ Client!Close
           \/ \E i \in DOMAIN down : Client!ClientHandle(i)
           \/ Client!Resolve \/ Client!ClientReadFails
<1>1. workload.control \subseteq Kinds /\ workload.kinds \subseteq Kinds
  BY StreamsAssumption DEF Shape, Workload
<1>2. Client!UserWrites => Call
  BY <1>1, WriteCall, SameIDs DEF Client!UserWrites
<1> QED
  BY <1>2, ConnectCall, CreateStreamCall, DeleteStreamCall, SameIDs DEF Client!ClientNext

\* The client's steps keep the types.
LEMMA ClientShape ==
    ASSUME Shape, OneAtATime, Client!ClientNext, UNCHANGED svars
    PROVE  Shape'
<1>1. UNCHANGED <<sstate, sloop, sgen>>
  BY DEF svars
<1>2. ASSUME UNCHANGED workload, up' \in Seq(ClientPackets), down' \in Seq(ServerPackets),
             chunkSize' \in workload.sizes \cup {0}, tag' \in Tags,
             cstreams' \in [StreamIDs -> Tags \cup {None}],
             transactions' \subseteq Transactions, resolving' \in transactions' \cup {0},
             cloop' \in {"running", "ended"}, op' \in {"idle", "Connect", "CreateStream"},
             answer' # None => answer' \in ServerPackets /\ IsReply(answer'),
             {closed', connected'} \subseteq BOOLEAN
      PROVE  Shape'
  <2>1. /\ Tags' = Tags /\ ClientPackets' = ClientPackets /\ ServerPackets' = ServerPackets
    BY <1>2, SamePackets
  <2> QED
    BY <1>1, <1>2, <2>1 DEF Shape
<1>3. /\ workload \in Workloads
      /\ up \in Seq(ClientPackets) /\ down \in Seq(ServerPackets)
      /\ chunkSize \in workload.sizes \cup {0} /\ tag \in Tags
      /\ cstreams \in [StreamIDs -> Tags \cup {None}]
      /\ transactions \subseteq Transactions /\ resolving \in transactions \cup {0}
      /\ cloop \in {"running", "ended"} /\ op \in {"idle", "Connect", "CreateStream"}
      /\ answer # None => answer \in ServerPackets /\ IsReply(answer)
      /\ {closed, connected} \subseteq BOOLEAN
  BY DEF Shape
<1>4. ASSUME Call
      PROVE  Shape'
  <2>1. /\ tag' \in Tags /\ chunkSize' \in workload.sizes \cup {0}
        /\ UNCHANGED <<workload, down, closed, answer, resolving, cloop, connected>>
    BY <1>4 DEF Call
  <2>2. ASSUME NEW t \in Seq(ClientPackets), Sends(t)
        PROVE  up' \in Seq(ClientPackets)
    BY <1>3, <2>2, JoinedPlaces DEF Sends
  <2>3. \A s \in StreamIDs : <<Deletion(s, tag')>> \in Seq(ClientPackets)
    BY <2>1 DEF ClientPackets
  <2>4. up' \in Seq(ClientPackets)
    BY <1>3, <1>4, <2>2, <2>3 DEF Call, Tries, Asks, Discards, Sound
  <2>5. Awaited' \in Transactions
    BY DEF Awaited, Transactions
  <2>6. /\ transactions \subseteq transactions' /\ transactions' \subseteq Transactions
        /\ op' \in {"idle", "Connect", "CreateStream"}
        /\ cstreams' \in [StreamIDs -> Tags \cup {None}]
    BY <1>3, <1>4, <2>5 DEF Call, Tries, Asks, Discards
  <2>7. resolving' \in transactions' \cup {0}
    BY <1>3, <2>1, <2>6
  <2> QED
    BY <1>2, <1>3, <2>1, <2>4, <2>6, <2>7
<1>5. CASE Client!Return
  <2>1. answer # None /\ answer \in ServerPackets
    BY <1>3, <1>5, ReturnForms
  <2>2. answer.tag \in Tags
    BY <2>1, ServerPacketSays
  <2>3. cstreams' \in [StreamIDs -> Tags \cup {None}]
    BY <1>3, <1>5, <2>2, ReturnForms
  <2>4. /\ op' = "idle" /\ answer' = None /\ connected' \in BOOLEAN
        /\ UNCHANGED <<workload, up, down, closed, chunkSize, transactions, resolving,
                       cloop, tag>>
    BY <1>5, ReturnForms
  <2> QED
    BY <1>2, <1>3, <2>3, <2>4
<1>6. CASE Client!Close
  BY <1>2, <1>3, <1>6 DEF Client!Close, Client!cvars, Client!loopVars, Client!userVars
<1>7. ASSUME NEW i, Client!ClientHandle(i)
      PROVE  Shape'
  <2>1. /\ i \in DOMAIN down /\ down[i] \in ServerPackets
        /\ down' = RemoveAt(down, i)
        /\ UNCHANGED <<workload, up, closed, chunkSize, cstreams, transactions, op, tag,
                       connected>>
        /\ cloop' \in {cloop, "ended"}
        /\ \/ /\ IsReply(down[i]) /\ answer' = down[i] /\ resolving' \in transactions
           \/ UNCHANGED <<answer, resolving>>
    BY <1>7, ClientTurn
  <2>2. down' \in Seq(ServerPackets)
    BY <1>3, <2>1, RemovedPlaces
  <2>3. /\ resolving' \in transactions' \cup {0}
        /\ answer' # None => answer' \in ServerPackets /\ IsReply(answer')
    BY <1>3, <2>1
  <2>4. /\ up' \in Seq(ClientPackets) /\ chunkSize' \in workload.sizes \cup {0} /\ tag' \in Tags
        /\ cstreams' \in [StreamIDs -> Tags \cup {None}]
        /\ transactions' \subseteq Transactions
        /\ cloop' \in {"running", "ended"} /\ op' \in {"idle", "Connect", "CreateStream"}
        /\ {closed', connected'} \subseteq BOOLEAN /\ UNCHANGED workload
    BY <1>3, <2>1
  <2> QED
    BY <1>2, <2>2, <2>3, <2>4
<1>8. CASE Client!Resolve
  BY <1>2, <1>3, <1>8 DEF Client!Resolve, Client!userVars
<1>9. CASE Client!ClientReadFails
  BY <1>2, <1>3, <1>9 DEF Client!ClientReadFails, Client!EndLoop, Client!userVars
<1> QED
  BY <1>4, <1>5, <1>6, <1>7, <1>8, <1>9, ClientSteps

-----------------------------------------------------------------------------
(* One call at a time *)

\* The transaction of a request is the one its caller waits for.
LEMMA RequestAwaited ==
    ASSUME Shape, Requested, NEW i \in DOMAIN up, IsRequest(up[i])
    PROVE  Tid(up[i]) = Awaited
<1>1. up[i] \in ClientPackets /\ CommandName(up[i]) = Asked
  BY DEF Shape, Requested
<1>2. op # "idle" /\ op \in {"idle", "Connect", "CreateStream"}
  BY DEF Shape, Requested
<1> QED
  BY <1>1, <1>2, ClientPacketSays DEF Asked, Awaited

\* The server answers a request when it has taken it, and answers nothing else.
LEMMA ServerOneAtATime ==
    ASSUME Shape, OneAtATime, Server!ServerNext, UNCHANGED cvars
    PROVE  OneAtATime'
<1>1. Requested /\ Replied /\ Waiting
  BY DEF OneAtATime
<1>2. UNCHANGED <<cstreams, transactions, resolving, lastErr, op, tag, answer, connected>>
  BY DEF cvars
<1>3. Waiting' /\ Asked' = Asked /\ Awaited' = Awaited
  BY <1>1, <1>2 DEF Waiting, Asked, Awaited
<1>4. up \in Seq(ClientPackets) /\ down \in Seq(ServerPackets)
  BY DEF Shape
<1>5. CASE UNCHANGED <<up, down>>
  <2>1. Requested' /\ Replied'
    BY <1>1, <1>2, <1>3, <1>5 DEF Requested, Replied
  <2> QED
    BY <1>3, <2>1 DEF OneAtATime
<1>6. ASSUME NEW t \in Seq(ServerPackets), down' = down \o t, UNCHANGED up,
             \A k \in DOMAIN t : ~IsReply(t[k])
      PROVE  OneAtATime'
  <2>1. \A k \in DOMAIN down' : IsReply(down'[k]) => k \in DOMAIN down /\ down'[k] = down[k]
    BY <1>4, <1>6, JoinedPlaces
  <2>2. Requested' /\ Replied'
    BY <1>1, <1>2, <1>3, <1>6, <2>1 DEF Requested, Replied
  <2> QED
    BY <1>3, <2>2 DEF OneAtATime
<1>7. ASSUME NEW i, Server!ServerHandle(i)
      PROVE  OneAtATime'
  <2>1. /\ i \in DOMAIN up /\ up[i] \in ClientPackets /\ up' = RemoveAt(up, i)
        /\ Turn(up[i])
    BY <1>7, ServerTurn
  <2>2. PICK t \in Seq(ServerPackets) :
           /\ down' = down \o t
           /\ \/ \A k \in DOMAIN t : ~IsReply(t[k])
              \/ IsRequest(up[i]) /\ Answers(t, up[i])
    BY <2>1, TurnAnswers
  <2>3. \A k \in DOMAIN up' : /\ Back(i, k) \in DOMAIN up /\ Back(i, k) # i
                              /\ up'[k] = up[Back(i, k)]
    BY <1>4, <2>1, RemovedPlaces
  <2>4. \A k, l \in DOMAIN up' : Back(i, k) = Back(i, l) => k = l
    BY <1>4, <2>1, RemovedPlaces
  <2>5. \A k \in DOMAIN down' : \/ k \in DOMAIN down /\ down'[k] = down[k]
                                \/ k - Len(down) \in DOMAIN t /\ down'[k] = t[k - Len(down)]
    BY <1>4, <2>2, JoinedPlaces
  <2>6. CASE \A k \in DOMAIN t : ~IsReply(t[k])
    <3>1. \A k \in DOMAIN down' : IsReply(down'[k]) => k \in DOMAIN down /\ down'[k] = down[k]
      BY <2>5, <2>6
    <3>2. Requested'
      <4> SUFFICES ASSUME NEW k \in DOMAIN up', IsRequest(up'[k])
                   PROVE  /\ op' # "idle" /\ answer' = None /\ up'[k].tag = tag'
                          /\ CommandName(up'[k]) = Asked'
                          /\ \A l \in DOMAIN up' : IsRequest(up'[l]) => k = l
                          /\ \A l \in DOMAIN down' : ~IsReply(down'[l])
        BY DEF Requested
      <4>1. IsRequest(up[Back(i, k)]) /\ Back(i, k) \in DOMAIN up
        BY <2>3
      <4>2. /\ op # "idle" /\ answer = None /\ up[Back(i, k)].tag = tag
            /\ CommandName(up[Back(i, k)]) = Asked
            /\ \A j \in DOMAIN up : IsRequest(up[j]) => Back(i, k) = j
            /\ \A j \in DOMAIN down : ~IsReply(down[j])
        BY <1>1, <4>1 DEF Requested
      <4>3. \A l \in DOMAIN up' : IsRequest(up'[l]) => k = l
        BY <2>3, <2>4, <4>2
      <4> QED
        BY <1>2, <1>3, <2>3, <3>1, <4>2, <4>3
    <3>3. Replied'
      BY <1>1, <1>2, <1>3, <3>1 DEF Replied
    <3> QED
      BY <1>3, <3>2, <3>3 DEF OneAtATime
  <2>7. CASE IsRequest(up[i]) /\ Answers(t, up[i])
    <3>1. /\ op # "idle" /\ answer = None /\ up[i].tag = tag /\ Tid(up[i]) = Awaited
          /\ \A j \in DOMAIN up : IsRequest(up[j]) => i = j
          /\ \A j \in DOMAIN down : ~IsReply(down[j])
      BY <1>1, <2>1, <2>7, RequestAwaited DEF Requested
    <3>2. Requested'
      <4>1. \A k \in DOMAIN up' : ~IsRequest(up'[k])
        BY <2>3, <3>1
      <4> QED
        BY <4>1 DEF Requested
    <3>3. \A k \in DOMAIN down' : IsReply(down'[k]) =>
             k - Len(down) \in DOMAIN t /\ down'[k] = t[k - Len(down)]
      BY <2>5, <3>1
    <3>4. \A k, l \in DOMAIN down' : k - Len(down) = l - Len(down) => k = l
      <4>1. DOMAIN down' \subseteq Nat /\ Len(down) \in Nat
        BY <1>4, <2>2, JoinedPlaces
      <4> QED
        BY <4>1
    <3>5. Replied'
      <4> SUFFICES ASSUME NEW k \in DOMAIN down', IsReply(down'[k])
                   PROVE  /\ op' # "idle" /\ answer' = None /\ down'[k].tag = tag'
                          /\ Tid(down'[k]) = Awaited'
                          /\ \A l \in DOMAIN down' : IsReply(down'[l]) => k = l
        BY DEF Replied
      <4>1. /\ t[k - Len(down)].tag = up[i].tag /\ Tid(t[k - Len(down)]) = Tid(up[i])
            /\ \A m \in DOMAIN t : IsReply(t[m]) => k - Len(down) = m
        BY <2>7, <3>3 DEF Answers
      <4>2. \A l \in DOMAIN down' : IsReply(down'[l]) => k = l
        BY <3>3, <3>4, <4>1
      <4> QED
        BY <1>2, <1>3, <3>1, <3>3, <4>1, <4>2
    <3> QED
      BY <1>3, <3>2, <3>5 DEF OneAtATime
  <2> QED
    BY <2>2, <2>6, <2>7
<1>8. CASE Server!ServerReadFails
  BY <1>5, <1>8 DEF Server!ServerReadFails
<1>9. CASE Server!ServerCloses
  BY <1>5, <1>9 DEF Server!ServerCloses
<1>10. ASSUME NEW s \in StreamIDs, NEW kind \in Kinds, Server!ServerWrites(s, kind)
       PROVE  OneAtATime'
  <2> DEFINE p == Written(s, kind, sgen[s])
  <2>1. down' = down \o <<p>> /\ UNCHANGED up
    BY <1>10, SamePacket, SameUserMessage DEF Server!ServerWrites, Server!Send, Written
  <2>2. p \in ServerPackets /\ ~IsReply(p)
    BY WrittenSays DEF ServerPackets, Shape, Plain, IsReply
  <2> HIDE DEF p
  <2>3. <<p>> \in Seq(ServerPackets) /\ \A k \in DOMAIN <<p>> : ~IsReply(<<p>>[k])
    BY <2>2
  <2> QED
    BY <1>6, <2>1, <2>3
<1>11. workload.server \subseteq Kinds
  BY StreamsAssumption DEF Shape, Workload
<1> QED
  BY <1>7, <1>8, <1>9, <1>10, <1>11, SameIDs DEF Server!ServerNext

\* What a call writes: at most one request, and last.
LEMMA CallWrites ==
    ASSUME Shape, Call
    PROVE  \E t \in Seq(ClientPackets) :
              /\ up' \in {up, up \o t}
              /\ \A k \in DOMAIN t : IsRequest(t[k]) =>
                    /\ op' # "idle" /\ t[k].tag = tag' /\ CommandName(t[k]) = Asked'
                    /\ k = Len(t)
<1>1. CASE Tries
  <2>1. <<>> \in Seq(ClientPackets) /\ DOMAIN <<>> = {}
    OBVIOUS
  <2>2. CASE up' = up
    BY <2>1, <2>2
  <2>3. CASE \E t : Sound(t) /\ (\A k \in DOMAIN t : Plain(t[k])) /\ Sends(t)
    BY <2>3 DEF Sound, Sends, Plain, IsRequest
  <2> QED
    BY <1>1, <2>2, <2>3 DEF Tries
<1>2. CASE Asks
  <2>1. PICK t : /\ Sound(t) /\ Sends(t)
                 /\ \A k \in DOMAIN t :
                       \/ Plain(t[k])
                       \/ k = Len(t) /\ CommandName(t[k]) = Asked' /\ t[k].tag = tag'
    BY <1>2 DEF Asks
  <2>2. op' # "idle"
    BY <1>2 DEF Asks
  <2> QED
    BY <2>1, <2>2 DEF Sound, Sends, Plain, IsRequest
<1>3. ASSUME NEW s \in StreamIDs, Discards(s)
      PROVE  \E t \in Seq(ClientPackets) :
                up' \in {up, up \o t} /\ \A k \in DOMAIN t : ~IsRequest(t[k])
  <2> DEFINE p == Deletion(s, tag')
  <2>1. p \in ClientPackets
    BY DEF ClientPackets, Call
  <2>2. ~IsRequest(p)
    BY CallsSay DEF IsRequest
  <2>3. up' \in {up, up \o <<p>>}
    BY <1>3 DEF Discards, Sends
  <2> HIDE DEF p
  <2>4. <<p>> \in Seq(ClientPackets) /\ \A k \in DOMAIN <<p>> : ~IsRequest(<<p>>[k])
    BY <2>1, <2>2
  <2> QED
    BY <2>3, <2>4
<1> QED
  BY <1>1, <1>2, <1>3 DEF Call

\* A caller asks only when no call is under way, and gets one reply.
LEMMA ClientOneAtATime ==
    ASSUME Shape, OneAtATime, Client!ClientNext
    PROVE  OneAtATime'
<1>1. Requested /\ Replied /\ Waiting
  BY DEF OneAtATime
<1>2. up \in Seq(ClientPackets) /\ down \in Seq(ServerPackets)
  BY DEF Shape
<1>3. ASSUME Call
      PROVE  OneAtATime'
  <2>1. /\ op = "idle"
        /\ UNCHANGED <<down, answer, resolving, lastErr, connected>>
    BY <1>3 DEF Call
  <2>2. answer = None /\ lastErr # "unexpected reply"
    BY <1>1, <2>1 DEF Waiting
  <2>3. /\ \A i \in DOMAIN up : ~IsRequest(up[i])
        /\ \A i \in DOMAIN down : ~IsReply(down[i])
    BY <1>1, <2>1 DEF Requested, Replied
  <2>4. Replied'
    BY <2>1, <2>3 DEF Replied
  <2>5. Waiting'
    <3>1. CASE op' = "idle"
      BY <2>1, <2>2, <3>1 DEF Waiting
    <3>2. CASE op' # "idle"
      <4>1. Asks
        BY <1>3, <3>2 DEF Call, Tries, Discards
      <4>2. resolving \in transactions \cup {0}
        BY DEF Shape
      <4>3. Awaited' # 0
        BY DEF Awaited, ConnectTransaction, CreateStreamTransaction
      <4>4. resolving # Awaited' /\ Awaited' \in transactions'
        BY <4>1, <4>2, <4>3 DEF Asks
      <4>5. cstreams'[ControlStreamID] # None /\ (op' = "Connect" => ~connected')
        BY <2>1, <4>1 DEF Asks
      <4> QED
        BY <2>1, <2>2, <4>4, <4>5 DEF Waiting
    <3> QED
      BY <3>1, <3>2
  <2>6. Requested'
    <3>1. PICK t \in Seq(ClientPackets) :
             /\ up' \in {up, up \o t}
             /\ \A k \in DOMAIN t : IsRequest(t[k]) =>
                   /\ op' # "idle" /\ t[k].tag = tag' /\ CommandName(t[k]) = Asked'
                   /\ k = Len(t)
      BY <1>3, CallWrites
    <3>2. CASE up' = up
      BY <2>3, <3>2 DEF Requested
    <3>3. CASE up' = up \o t
      <4>1. \A k \in DOMAIN up' : \/ k \in DOMAIN up /\ up'[k] = up[k]
                                  \/ /\ k - Len(up) \in DOMAIN t /\ up'[k] = t[k - Len(up)]
                                     /\ k \in Nat
        BY <1>2, <3>3, JoinedPlaces
      <4>2. \A k \in DOMAIN up' : IsRequest(up'[k]) =>
               /\ k - Len(up) = Len(t) /\ k \in Nat
               /\ op' # "idle" /\ up'[k].tag = tag' /\ CommandName(up'[k]) = Asked'
        BY <2>3, <3>1, <4>1
      <4>3. Len(up) \in Nat /\ Len(t) \in Nat
        BY <1>2
      <4>4. \A k, l \in DOMAIN up' : IsRequest(up'[k]) /\ IsRequest(up'[l]) => k = l
        BY <4>2, <4>3
      <4> QED
        BY <2>1, <2>2, <2>3, <4>2, <4>4 DEF Requested
    <3> QED
      BY <3>1, <3>2, <3>3
  <2> QED
    BY <2>4, <2>5, <2>6 DEF OneAtATime
<1>4. CASE Client!Return
  <2>1. /\ answer # None /\ op' = "idle" /\ answer' = None
        /\ UNCHANGED <<up, down, lastErr>>
    BY <1>4, ReturnForms
  <2>2. Requested' /\ Replied'
    BY <1>1, <2>1 DEF Requested, Replied
  <2>3. Waiting'
    BY <1>1, <2>1 DEF Waiting
  <2> QED
    BY <2>2, <2>3 DEF OneAtATime
<1>5. CASE Client!Close
  <2>1. UNCHANGED <<up, down, cstreams, transactions, resolving, lastErr, op, tag, answer,
                    connected>>
    BY <1>5 DEF Client!Close, Client!cvars, Client!loopVars, Client!userVars
  <2>2. Requested' /\ Replied' /\ Waiting'
    BY <1>1, <2>1 DEF Requested, Replied, Waiting, Asked, Awaited
  <2> QED
    BY <2>2 DEF OneAtATime
<1>6. ASSUME NEW i, Client!ClientHandle(i)
      PROVE  OneAtATime'
  <2>1. /\ i \in DOMAIN down /\ down[i] \in ServerPackets
        /\ down' = RemoveAt(down, i)
        /\ UNCHANGED <<up, cstreams, transactions, op, tag, connected>>
        /\ lastErr' # "unexpected reply"
        /\ \/ IsReply(down[i]) /\ answer' = down[i] /\ answer' # None
           \/ ~IsReply(down[i]) /\ UNCHANGED <<answer, resolving>>
    BY <1>6, ClientTurn
  <2>2. i \in DOMAIN down /\ down' = RemoveAt(down, i)
    BY <2>1
  <2>3. \A k \in DOMAIN down' : /\ Back(i, k) \in DOMAIN down /\ Back(i, k) # i
                                /\ down'[k] = down[Back(i, k)]
    BY <1>2, <2>2, RemovedPlaces
  <2>4. \A k, l \in DOMAIN down' : Back(i, k) = Back(i, l) => k = l
    BY <1>2, <2>2, RemovedPlaces
  <2>5. Asked' = Asked /\ Awaited' = Awaited
    BY <2>1 DEF Asked, Awaited
  <2>6. CASE IsReply(down[i]) /\ answer' = down[i] /\ answer' # None
    <3>1. /\ op # "idle" /\ down[i].tag = tag /\ Tid(down[i]) = Awaited
          /\ \A j \in DOMAIN down : IsReply(down[j]) => i = j
      BY <1>1, <2>1, <2>6 DEF Replied
    <3>2. \A k \in DOMAIN down' : ~IsReply(down'[k])
      BY <2>3, <3>1
    <3>3. \A k \in DOMAIN up : ~IsRequest(up[k])
      BY <1>1, <2>1, <2>6 DEF Requested
    <3>4. Requested' /\ Replied'
      BY <2>1, <3>2, <3>3 DEF Requested, Replied
    <3>5. Waiting'
      BY <1>1, <2>1, <2>5, <2>6, <3>1 DEF Waiting
    <3> QED
      BY <3>4, <3>5 DEF OneAtATime
  <2>7. CASE ~IsReply(down[i]) /\ UNCHANGED <<answer, resolving>>
    <3>1. Waiting'
      BY <1>1, <2>1, <2>5, <2>7 DEF Waiting
    <3>2. Requested'
      BY <1>1, <2>1, <2>3, <2>5, <2>7 DEF Requested
    <3>3. Replied'
      <4> SUFFICES ASSUME NEW k \in DOMAIN down', IsReply(down'[k])
                   PROVE  /\ op' # "idle" /\ answer' = None /\ down'[k].tag = tag'
                          /\ Tid(down'[k]) = Awaited'
                          /\ \A l \in DOMAIN down' : IsReply(down'[l]) => k = l
        BY DEF Replied
      <4>1. IsReply(down[Back(i, k)]) /\ Back(i, k) \in DOMAIN down
        BY <2>3
      <4>2. /\ op # "idle" /\ answer = None /\ down[Back(i, k)].tag = tag
            /\ Tid(down[Back(i, k)]) = Awaited
            /\ \A j \in DOMAIN down : IsReply(down[j]) => Back(i, k) = j
        BY <1>1, <4>1 DEF Replied
      <4>3. \A l \in DOMAIN down' : IsReply(down'[l]) => k = l
        BY <2>3, <2>4, <4>2
      <4> QED
        BY <2>1, <2>3, <2>5, <2>7, <4>2, <4>3
    <3> QED
      BY <3>1, <3>2, <3>3 DEF OneAtATime
  <2> QED
    BY <2>1, <2>6, <2>7
<1>7. CASE Client!Resolve
  <2>1. /\ transactions' = transactions \ {resolving} /\ resolving' = 0
        /\ UNCHANGED <<up, down, cstreams, lastErr, op, tag, answer, connected>>
    BY <1>7 DEF Client!Resolve, Client!userVars
  <2>2. Requested' /\ Replied'
    BY <1>1, <2>1 DEF Requested, Replied, Asked, Awaited
  <2>3. Awaited' = Awaited /\ Awaited # 0
    BY <2>1 DEF Awaited, ConnectTransaction, CreateStreamTransaction
  <2>4. Waiting'
    BY <1>1, <2>1, <2>3 DEF Waiting
  <2> QED
    BY <2>2, <2>4 DEF OneAtATime
<1>8. CASE Client!ClientReadFails
  <2>1. /\ UNCHANGED <<up, down, cstreams, transactions, resolving, op, tag, answer, connected>>
        /\ lastErr' \in {"closed", "nil"}
    BY <1>8 DEF Client!ClientReadFails, Client!EndLoop, Client!userVars
  <2>2. Requested' /\ Replied' /\ Waiting'
    BY <1>1, <2>1 DEF Requested, Replied, Waiting, Asked, Awaited
  <2> QED
    BY <2>2 DEF OneAtATime
<1> QED
  BY <1>3, <1>4, <1>5, <1>6, <1>7, <1>8, ClientSteps

-----------------------------------------------------------------------------
(* The two ends in step *)

\* What changes nothing but the ends of loops and connection.
LEMMA EndsInStep ==
    ASSUME InStep, UNCHANGED <<up, down, answer, sstate, sgen, strays, cstreams, connected>>,
           sloop' = "running" => sloop = "running", ~closed' => ~closed
    PROVE  InStep'
BY DEF InStep, DeletesLast, SmallInPlace, Connection, StreamInStep, Pending

\* What changes nothing but notices on their way to the client, or who holds its reply.
LEMMA PendingInStep ==
    ASSUME InStep, UNCHANGED <<up, sstate, sgen, strays, cstreams, connected, sloop, closed>>,
           \A p : IsReply(p) => (Pending(p)' <=> Pending(p))
    PROVE  InStep'
<1>1. \A p, s : /\ Admits(p) => IsReply(p)
                /\ Gives(p, s) => IsReply(p)
  BY DEF Admits, Gives, IsReply, Replies
<1>2. DeletesLast /\ SmallInPlace => DeletesLast' /\ SmallInPlace'
  BY DEF DeletesLast, SmallInPlace
<1>3. Connection => Connection'
  BY <1>1 DEF Connection
<1>4. ASSUME NEW s \in StreamIDs
      PROVE  StreamInStep(s) => StreamInStep(s)'
  BY <1>1 DEF StreamInStep
<1> QED
  BY <1>2, <1>3, <1>4 DEF InStep

\* What is taken out leaves the order of the deletions.
LEMMA OrderKept ==
    ASSUME Shape, DeletesLast, NEW i \in DOMAIN up, up' = RemoveAt(up, i)
    PROVE  DeletesLast'
<1>1. up \in Seq(ClientPackets)
  BY DEF Shape
<1>2. \A k \in DOMAIN up' : Back(i, k) \in DOMAIN up /\ up'[k] = up[Back(i, k)]
  BY <1>1, RemovedPlaces
<1>3. \A k, l \in DOMAIN up' : k < l => Back(i, k) < Back(i, l)
  BY <1>1, RemovedPlaces
<1> QED
  BY <1>2, <1>3 DEF DeletesLast

\* A turn changes only the stream its message is about.
LEMMA TurnKeeps ==
    ASSUME Shape, NEW p \in ClientPackets, Turn(p), NEW x \in StreamIDs
    PROVE  /\ sstate[x] # "none" /\ ~Deletes(p, x) =>
                 /\ sstate'[x] # "none" /\ sgen'[x] = sgen[x]
                 /\ x = ControlStreamID /\ sstate[x] = "Connected" => sstate'[x] = "Connected"
           /\ sstate[x] = "none" /\ sstate'[x] # "none" => Creates(p, x)
           /\ sstate'[x] = "NotConnected" => sstate[x] = "NotConnected"
<1>1. p.sid \in StreamIDs /\ ControlStreamID \in StreamIDs
  BY ClientPacketSays, Zeros
<1>2. /\ sstate \in [StreamIDs -> States] /\ sgen \in [StreamIDs -> Tags]
      /\ sstate[ControlStreamID] \in {"none", "NotConnected", "Connected"}
  BY DEF Shape
<1>3. CASE UNCHANGED <<sstate, sgen>>
  BY <1>3
<1>4. CASE Accepts(p)
  BY <1>1, <1>2, <1>4 DEF Accepts
<1>5. ASSUME NEW s \in StreamIDs, Creates(p, s)
      PROVE  /\ sstate[x] # "none" => sstate'[x] = sstate[x] /\ sgen'[x] = sgen[x]
             /\ sstate[x] = "none" /\ sstate'[x] # "none" => Creates(p, x)
             /\ sstate'[x] = "NotConnected" => sstate[x] = "NotConnected"
  <2>1. CASE x = s
    BY <1>2, <1>5, <2>1 DEF Creates
  <2>2. CASE x # s
    BY <1>2, <1>5, <2>2 DEF Creates
  <2> QED
    BY <2>1, <2>2
<1>6. ASSUME NEW s \in StreamIDs, Removes(p, s)
      PROVE  /\ ~Deletes(p, x) => sstate'[x] = sstate[x] /\ sgen'[x] = sgen[x]
             /\ sstate'[x] \in {"none", sstate[x]}
  BY <1>2, <1>6 DEF Removes
<1>7. ASSUME NEW state \in {"Publish", "Play"}, Opens(p, state)
      PROVE  /\ sgen'[x] = sgen[x]
             /\ (sstate'[x] = sstate[x]) \/ (sstate[x] = "Inactive" /\ sstate'[x] = state)
  BY <1>1, <1>2, <1>7 DEF Opens
<1> QED
  BY <1>3, <1>4, <1>5, <1>6, <1>7 DEF Turn, Ignores, Rejection, Exhausted, Receives

\* Nothing strays: what a handler is given was written on the very stream that exists.
LEMMA TurnStrays ==
    ASSUME Shape, InStep, sloop = "running", NEW i \in DOMAIN up, Turn(up[i])
    PROVE  strays' = {}
<1>1. up[i] \in ClientPackets /\ strays = {} /\ SmallInPlace
  BY DEF Shape, InStep
<1>2. sstate[ControlStreamID] \in {"none", "NotConnected", "Connected"}
  BY DEF Shape
<1>3. up[i].sid # ControlStreamID /\ up[i].id \in {8, 20} => sgen[up[i].sid] = up[i].tag
  BY <1>1 DEF SmallInPlace, CommandID
<1>4. ASSUME NEW state, Opens(up[i], state)
      PROVE  strays' = strays
  BY <1>2, <1>3, <1>4 DEF Opens, Strays
<1>5. CASE Receives(up[i])
  BY <1>1, <1>2, <1>3, <1>5 DEF Receives, Strays
<1> QED
  BY <1>1, <1>4, <1>5 DEF Turn, Ignores, Rejection, Accepts, Exhausted, Creates, Removes

\* When a deletion arrives, no command and no audio for its stream is left behind: such a
\* message arrives first if it was sent first, and is not sent later.
LEMMA DeletionArrives ==
    ASSUME Shape, DeletesLast, NEW i \in Arriving(up), NEW s \in StreamIDs, Deletes(up[i], s),
           NEW j \in DOMAIN up, j # i
    PROVE  /\ ~Deletes(up[j], s)
           /\ up[j].id \in {8, 20} => up[j].sid # s
           /\ s = ControlStreamID => \A x : ~Deletes(up[j], x)
<1>1. i \in DOMAIN up /\ \A k \in DOMAIN up : up[k] \in ClientPackets
  BY DEF Arriving, Shape
<1>2. \A x : \A k \in DOMAIN up : Deletes(up[k], x) => up[k].id = 20 /\ up[k].sid = ControlStreamID
  BY <1>1, ClientPacketSays DEF Plain, Deletes
<1>3. CASE j < i
  <2>1. up[i].id = 20
    BY <1>1, <1>2
  <2>2. up[j].id \notin {8, 20}
    BY <1>3, <2>1, CommandArrives
  <2> QED
    BY <1>2, <2>2
<1>4. CASE i < j
  <2>1. up[j].sid # s /\ ~Deletes(up[j], s)
    BY <1>1, <1>4 DEF DeletesLast
  <2> QED
    BY <1>2, <2>1
<1>5. j < i \/ i < j
  <2>1. DOMAIN up \subseteq Int
    BY DEF Shape
  <2> QED
    BY <1>1, <2>1
<1> QED
  BY <1>3, <1>4, <1>5

\* What is on its way stays when the server writes more.
LEMMA MorePending ==
    ASSUME Shape, NEW t \in Seq(ServerPackets), down' = down \o t, UNCHANGED answer
    PROVE  \A q : Pending(q)' <=> Pending(q) \/ \E k \in DOMAIN t : q = t[k]
<1>1. down \in Seq(ServerPackets)
  BY DEF Shape
<1>2. /\ \A k \in DOMAIN down : k \in DOMAIN down' /\ down'[k] = down[k]
      /\ \A k \in DOMAIN t : k + Len(down) \in DOMAIN down' /\ down'[k + Len(down)] = t[k]
      /\ \A k \in DOMAIN down' : \/ k \in DOMAIN down /\ down'[k] = down[k]
                                 \/ k - Len(down) \in DOMAIN t /\ down'[k] = t[k - Len(down)]
  BY <1>1, JoinedPlaces
<1>3. ASSUME NEW q, q # answer \/ answer = None
      PROVE  Pending(q)' <=> Pending(q) \/ \E k \in DOMAIN t : q = t[k]
  <2>1. /\ Pending(q) <=> \E k \in DOMAIN down : q = down[k]
        /\ Pending(q)' <=> \E k \in DOMAIN down' : q = down'[k]
    BY <1>3 DEF Pending
  <2>2. ASSUME NEW k \in DOMAIN t, q = t[k]
        PROVE  \E l \in DOMAIN down' : q = down'[l]
    <3>1. k + Len(down) \in DOMAIN down' /\ down'[k + Len(down)] = t[k]
      BY <1>2
    <3> QED
      BY <2>2, <3>1
  <2>3. ASSUME NEW k \in DOMAIN down, q = down[k]
        PROVE  \E l \in DOMAIN down' : q = down'[l]
    BY <1>2, <2>3
  <2>4. ASSUME NEW k \in DOMAIN down', q = down'[k]
        PROVE  (\E l \in DOMAIN down : q = down[l]) \/ \E l \in DOMAIN t : q = t[l]
    BY <1>2, <2>4
  <2> QED
    BY <2>1, <2>2, <2>3, <2>4
<1>4. ASSUME NEW q, q = answer, answer # None
      PROVE  Pending(q) /\ Pending(q)'
  BY <1>4 DEF Pending
<1> QED
  BY <1>3, <1>4

\* Replies that are on their way stay, and a turn may add one to its request.
LEMMA TurnPending ==
    ASSUME Shape, NEW p \in ClientPackets, Turn(p), UNCHANGED answer, sloop' # "ended"
    PROVE  /\ \A q : Pending(q) => Pending(q)'
           /\ \A q : Admits(q) /\ Pending(q)' => Pending(q) \/ Accepts(p)
           /\ \A q : \A x \in StreamIDs : Gives(q, x) /\ Pending(q)' =>
                 Pending(q) \/ (Creates(p, x) /\ q.tag = p.tag)
           /\ \A x \in StreamIDs : Creates(p, x) => \E q : Pending(q)' /\ Gives(q, x)
<1>1. PICK t \in Seq(ServerPackets) : down' = down \o t
  BY TurnAnswers
<1>2. \A q : Pending(q) => Pending(q)'
  BY <1>1, MorePending
<1>3. ConnectTransaction # CreateStreamTransaction
  BY DEF ConnectTransaction, CreateStreamTransaction
<1>4. p.tag \in Tags
  BY ClientPacketSays
<1>5. ASSUME NEW name \in Replies, NEW s \in StreamIDs,
             down' = down \o <<Given(name, s, p.tag)>>
      PROVE  /\ \A q : Pending(q)' <=> Pending(q) \/ q = Given(name, s, p.tag)
             /\ \A q : Admits(q) /\ Pending(q)' => Pending(q)
             /\ \A q : \A x \in StreamIDs : Gives(q, x) /\ Pending(q)' =>
                   Pending(q) \/ (name = "_result" /\ x = s /\ q.tag = p.tag)
             /\ name = "_result" => \E q : Pending(q)' /\ Gives(q, s)
  <2> DEFINE r == Given(name, s, p.tag)
  <2>1. r \in ServerPackets
    BY <1>4 DEF ServerPackets
  <2>2. /\ CommandName(r) = name /\ r.tag = p.tag /\ Target(r) = s
        /\ Tid(r) = CreateStreamTransaction
    BY RepliesSay
  <2>3. down' = down \o <<r>>
    BY <1>5
  <2> HIDE DEF r
  <2>4. \A q : Pending(q)' <=> Pending(q) \/ q = r
    <3>1. <<r>> \in Seq(ServerPackets)
      BY <2>1
    <3>2. \A q : Pending(q)' <=> Pending(q) \/ \E k \in DOMAIN <<r>> : q = <<r>>[k]
      BY <2>3, <3>1, MorePending
    <3>3. DOMAIN <<r>> = {1} /\ <<r>>[1] = r
      OBVIOUS
    <3> QED
      BY <3>2, <3>3
  <2>5. ~Admits(r) /\ \A x : Gives(r, x) <=> name = "_result" /\ x = s
    BY <1>3, <2>2 DEF Admits, Gives
  <2>6. \A q : Pending(q)' <=> Pending(q) \/ q = Given(name, s, p.tag)
    BY <2>4 DEF r
  <2>7. \A q : \A x \in StreamIDs : Gives(q, x) /\ Pending(q)' =>
           Pending(q) \/ (name = "_result" /\ x = s /\ q.tag = p.tag)
    BY <2>2, <2>4, <2>5
  <2>8. \A q : Admits(q) /\ Pending(q)' => Pending(q)
    BY <2>4, <2>5
  <2>9. name = "_result" => \E q : Pending(q)' /\ Gives(q, s)
    BY <2>4, <2>5
  <2> QED
    BY <2>6, <2>7, <2>8, <2>9
<1>6. ASSUME NEW x \in StreamIDs, Creates(p, x)
      PROVE  /\ \E q : Pending(q)' /\ Gives(q, x)
             /\ \A q : Admits(q) /\ Pending(q)' => Pending(q)
             /\ \A q : \A y \in StreamIDs : Gives(q, y) /\ Pending(q)' =>
                   Pending(q) \/ (Creates(p, y) /\ q.tag = p.tag)
  <2>1. "_result" \in Replies /\ down' = down \o <<Given("_result", x, p.tag)>>
    BY <1>6 DEF Creates, Replies
  <2> QED
    BY <1>5, <1>6, <2>1
<1>7. CASE Exhausted(p)
  <2>1. /\ "_error" \in Replies /\ ControlStreamID \in StreamIDs
        /\ down' = down \o <<Given("_error", ControlStreamID, p.tag)>>
    BY <1>7, Zeros DEF Exhausted, Replies
  <2>2. /\ \A q : Admits(q) /\ Pending(q)' => Pending(q)
        /\ \A q : \A x \in StreamIDs : Gives(q, x) /\ Pending(q)' => Pending(q)
    BY <1>5, <2>1
  <2> QED
    BY <1>2, <1>6, <2>2
<1>8. \A q, x : (Admits(q) \/ Gives(q, x)) => IsReply(q)
  BY DEF Admits, Gives, IsReply, Replies
<1>9. CASE Accepts(p)
  <2>1. PICK w : Answers(w, p) /\ down' = down \o w
    BY <1>9 DEF Accepts
  <2>2. w \in Seq(ServerPackets) /\ \A k \in DOMAIN w : IsReply(w[k]) => Tid(w[k]) = Tid(p)
    BY <2>1 DEF Answers
  <2>3. Tid(p) = ConnectTransaction
    BY <1>9, ClientPacketSays DEF Accepts
  <2>4. \A q, x : Gives(q, x) => Tid(q) # ConnectTransaction
    BY <1>3 DEF Gives
  <2>5. \A q : Pending(q)' <=> Pending(q) \/ \E k \in DOMAIN w : q = w[k]
    BY <2>1, <2>2, MorePending
  <2>6. \A q, x : Gives(q, x) /\ Pending(q)' => Pending(q)
    BY <1>8, <2>2, <2>3, <2>4, <2>5
  <2> QED
    BY <1>2, <1>6, <1>9, <2>6
<1>10. ASSUME \E w \in Seq(ServerPackets) :
                 (\A k \in DOMAIN w : ~IsReply(w[k])) /\ down' = down \o w
       PROVE  \A q : IsReply(q) /\ Pending(q)' => Pending(q)
  <2>1. PICK w \in Seq(ServerPackets) :
           (\A k \in DOMAIN w : ~IsReply(w[k])) /\ down' = down \o w
    BY <1>10
  <2>2. \A q : Pending(q)' <=> Pending(q) \/ \E k \in DOMAIN w : q = w[k]
    BY <2>1, MorePending
  <2> QED
    BY <2>1, <2>2
<1>11. CASE \E state \in {"Publish", "Play"} : Opens(p, state)
  <2>1. \A q : IsReply(q) /\ Pending(q)' => Pending(q)
    BY <1>10, <1>11 DEF Opens
  <2> QED
    BY <1>2, <1>6, <1>8, <2>1
<1>12. CASE UNCHANGED down
  <2>1. \A q : Pending(q)' => Pending(q)
    BY <1>12 DEF Pending
  <2> QED
    BY <1>2, <1>6, <2>1
<1>13. CASE \E s \in StreamIDs : Creates(p, s)
  BY <1>2, <1>6, <1>13
<1> QED
  BY <1>7, <1>9, <1>11, <1>12, <1>13 DEF Turn, Ignores, Rejection, Removes, Receives

\* A message is taken and handled, and the loop goes on.
Taken(i) ==
    /\ sloop = "running" /\ sloop' = "running"
    /\ i \in Arriving(up) /\ i \in DOMAIN up /\ up[i] \in ClientPackets
    /\ up' = RemoveAt(up, i)
    /\ Turn(up[i])
    /\ UNCHANGED <<workload, closed, answer, cstreams, connected>>

\* What is left is what was not taken.
LEMMA TakenPlaces ==
    ASSUME Shape, NEW i, Taken(i)
    PROVE  /\ \A k \in DOMAIN up' : \E j \in DOMAIN up : j # i /\ up'[k] = up[j]
           /\ \A j \in DOMAIN up : j # i => \E k \in DOMAIN up' : up'[k] = up[j]
<1>1. up \in Seq(ClientPackets) /\ i \in DOMAIN up /\ up' = RemoveAt(up, i)
  BY DEF Shape, Taken
<1>2. /\ \A k \in DOMAIN up' : Back(i, k) \in DOMAIN up /\ Back(i, k) # i
                               /\ up'[k] = up[Back(i, k)]
      /\ \A j \in DOMAIN up : j # i => \E k \in DOMAIN up' : Back(i, k) = j
  BY <1>1, RemovedPlaces
<1> QED
  BY <1>2

\* Of two messages, a deletion that is taken leaves what is none of its stream's.
LEMMA TakenDeletion ==
    ASSUME Shape, InStep, NEW i, Taken(i), NEW s \in StreamIDs, NEW j \in DOMAIN up, j # i,
           Deletes(up[i], s)
    PROVE  /\ ~Deletes(up[j], s)
           /\ up[j].id \in {8, 20} => up[j].sid # s
           /\ s = ControlStreamID => \A x : ~Deletes(up[j], x)
<1>1. DeletesLast /\ i \in Arriving(up)
  BY DEF InStep, Taken
<1> QED
  BY <1>1, DeletionArrives

\* Commands and audio that are left behind are still in place.
LEMMA TakenSmall ==
    ASSUME Shape, InStep, NEW i, Taken(i)
    PROVE  SmallInPlace'
<1>1. SmallInPlace /\ up[i] \in ClientPackets /\ Turn(up[i])
  BY DEF InStep, Taken
<1> SUFFICES ASSUME NEW k \in DOMAIN up',
                    up'[k].sid # ControlStreamID, up'[k].id \in {8, CommandID}
             PROVE  sstate'[up'[k].sid] # "none" /\ sgen'[up'[k].sid] = up'[k].tag
  BY DEF SmallInPlace
<1>2. PICK j \in DOMAIN up : j # i /\ up'[k] = up[j]
  BY TakenPlaces
<1> DEFINE s == up[j].sid
<1>3. up[j] \in ClientPackets /\ s \in StreamIDs
  <2>1. up[j] \in ClientPackets
    BY DEF Shape
  <2> QED
    BY <2>1, ClientPacketSays
<1>4. sstate[s] # "none" /\ sgen[s] = up[j].tag
  BY <1>1, <1>2 DEF SmallInPlace
<1>5. ~Deletes(up[i], s)
  <2>1. up[j].id \in {8, 20}
    BY <1>2 DEF CommandID
  <2> QED
    BY <1>2, <1>3, <2>1, TakenDeletion
<1>6. sstate'[s] # "none" /\ sgen'[s] = sgen[s]
  BY <1>1, <1>3, <1>4, <1>5, TurnKeeps
<1> QED
  BY <1>2, <1>4, <1>6

\* The reply to connect is awaited by Connect.
LEMMA AdmissionAwaited ==
    ASSUME OneAtATime, NEW q, Pending(q), Admits(q)
    PROVE  op = "Connect" /\ ~connected
<1>1. Requested /\ Replied /\ Waiting
  BY DEF OneAtATime
<1>2. IsReply(q) /\ Tid(q) = ConnectTransaction
  BY DEF Admits, IsReply, Replies
<1>3. Tid(q) = Awaited /\ op # "idle"
  BY <1>1, <1>2 DEF Pending, Replied, Waiting
<1>4. op = "Connect"
  BY <1>2, <1>3 DEF Awaited, ConnectTransaction, CreateStreamTransaction
<1> QED
  BY <1>1, <1>4 DEF Waiting

\* What the reply to connect and the deletions say of the control stream stays true.
LEMMA TakenConnection ==
    ASSUME Shape, OneAtATime, InStep, ~closed, NEW i, Taken(i)
    PROVE  Connection'
<1>1. /\ Connection /\ up[i] \in ClientPackets /\ Turn(up[i])
      /\ UNCHANGED <<connected, answer>> /\ sloop' # "ended"
  BY DEF InStep, Taken
<1>2. ControlStreamID \in StreamIDs
  BY Zeros
<1>3. connected' => sstate'[ControlStreamID] \in {"none", "Connected"}
  <2>1. sstate'[ControlStreamID] \in {"none", "NotConnected", "Connected"}
    BY <1>1, TurnTypes DEF StreamTypes
  <2>2. sstate'[ControlStreamID] = "NotConnected" => sstate[ControlStreamID] = "NotConnected"
    BY <1>1, <1>2, TurnKeeps
  <2> QED
    BY <1>1, <2>1, <2>2 DEF Connection
<1>4. ASSUME sstate[ControlStreamID] = "Connected", ~Deletes(up[i], ControlStreamID)
      PROVE  sstate'[ControlStreamID] = "Connected"
  BY <1>1, <1>2, <1>4, TurnKeeps
<1>5. ASSUME NEW q, Pending(q)', Admits(q)
      PROVE  sstate'[ControlStreamID] = "Connected"
  <2>1. CASE Accepts(up[i])
    BY <1>2, <2>1 DEF Accepts, Shape
  <2>2. CASE Pending(q)
    <3>1. ~connected
      BY <1>5, <2>2, AdmissionAwaited
    <3>2. ~Deletes(up[i], ControlStreamID)
      BY <1>1, <1>2, <3>1 DEF Connection, Taken
    <3>3. sstate[ControlStreamID] = "Connected"
      BY <1>1, <1>5, <2>2 DEF Connection
    <3> QED
      BY <1>4, <3>2, <3>3
  <2> QED
    BY <1>1, <1>5, <2>1, <2>2, TurnPending
<1>6. ASSUME NEW k \in DOMAIN up', NEW s \in StreamIDs, Deletes(up'[k], s)
      PROVE  connected' /\ sstate'[ControlStreamID] = "Connected" /\ sstate'[s] # "none"
  <2>1. PICK j \in DOMAIN up : j # i /\ up'[k] = up[j]
    BY TakenPlaces
  <2>2. connected /\ sstate[ControlStreamID] = "Connected" /\ sstate[s] # "none"
    BY <1>1, <1>6, <2>1 DEF Connection
  <2>3. ~Deletes(up[i], s) /\ ~Deletes(up[i], ControlStreamID)
    BY <1>2, <1>6, <2>1, TakenDeletion
  <2>4. sstate'[s] # "none"
    BY <1>1, <2>2, <2>3, TurnKeeps
  <2> QED
    BY <1>1, <1>4, <2>2, <2>3, <2>4
<1> QED
  BY <1>3, <1>5, <1>6 DEF Connection

\* A turn accounts for the streams it creates and removes.
LEMMA TakenStream ==
    ASSUME Shape, OneAtATime, InStep, ~closed, NEW i, Taken(i), NEW s \in StreamIDs
    PROVE  StreamInStep(s)'
<1> DEFINE p == up[i]
<1>1. /\ Connection /\ StreamInStep(s) /\ p \in ClientPackets /\ Turn(p) /\ i \in DOMAIN up
      /\ UNCHANGED <<cstreams, answer>> /\ sloop' # "ended"
  BY DEF InStep, Taken
<1> HIDE DEF p
<1>2. /\ \A k \in DOMAIN up' : \E j \in DOMAIN up : up'[k] = up[j]
      /\ \A j \in DOMAIN up : j # i => \E k \in DOMAIN up' : up'[k] = up[j]
  BY TakenPlaces
<1>3. /\ \A q : Pending(q) => Pending(q)'
      /\ \A q : Gives(q, s) /\ Pending(q)' => Pending(q) \/ (Creates(p, s) /\ q.tag = p.tag)
      /\ Creates(p, s) => \E q : Pending(q)' /\ Gives(q, s)
  BY <1>1, TurnPending
<1>4. ASSUME sstate[s] # "none", \A j \in DOMAIN up : ~Deletes(up[j], s)
      PROVE  /\ sstate'[s] # "none" /\ sgen'[s] = sgen[s]
             /\ \A k \in DOMAIN up' : ~Deletes(up'[k], s)
  <2>1. ~Deletes(p, s)
    BY <1>1, <1>4 DEF p
  <2>2. sstate'[s] # "none" /\ sgen'[s] = sgen[s]
    BY <1>1, <1>4, <2>1, TurnKeeps
  <2> QED
    BY <1>2, <1>4, <2>2
<1>5. ASSUME cstreams'[s] # None
      PROVE  /\ sstate'[s] # "none" /\ sgen'[s] = cstreams'[s]
             /\ \A k \in DOMAIN up' : ~Deletes(up'[k], s)
  BY <1>1, <1>4, <1>5 DEF StreamInStep
<1>6. ASSUME NEW q, Pending(q)', Gives(q, s)
      PROVE  /\ sstate'[s] # "none" /\ sgen'[s] = q.tag /\ cstreams'[s] = None
             /\ \A k \in DOMAIN up' : ~Deletes(up'[k], s)
  <2>1. CASE Pending(q)
    BY <1>1, <1>4, <1>6, <2>1 DEF StreamInStep
  <2>2. CASE Creates(p, s) /\ q.tag = p.tag
    <3>1. sstate[s] = "none"
      BY <2>2 DEF Creates
    <3>2. cstreams[s] = None /\ \A j \in DOMAIN up : ~Deletes(up[j], s)
      BY <1>1, <3>1 DEF StreamInStep, Connection
    <3>3. sstate'[s] = "Inactive" /\ sgen'[s] = p.tag
      BY <2>2 DEF Creates, Shape
    <3> QED
      BY <1>1, <1>2, <2>2, <3>2, <3>3
  <2> QED
    BY <1>3, <1>6, <2>1, <2>2
<1>7. ASSUME sstate'[s] # "none"
      PROVE  \/ cstreams'[s] # None \/ (\E k \in DOMAIN up' : Deletes(up'[k], s))
             \/ \E q : Pending(q)' /\ Gives(q, s)
  <2>1. CASE sstate[s] = "none"
    BY <1>1, <1>3, <1>7, <2>1, TurnKeeps
  <2>2. ASSUME sstate[s] # "none", NEW j \in DOMAIN up, Deletes(up[j], s)
        PROVE  \E k \in DOMAIN up' : Deletes(up'[k], s)
    <3>1. CASE j # i
      BY <1>2, <2>2, <3>1
    <3>2. CASE j = i
      <4>1. Deletes(p, s) /\ sstate[ControlStreamID] = "Connected"
        BY <1>1, <2>2, <3>2 DEF Connection, p
      <4>2. PICK x \in StreamIDs : Removes(p, x)
        BY <1>1, <4>1 DEF Turn, Deletes
      <4>3. x = s
        BY <4>1, <4>2 DEF Removes, Deletes
      <4>4. sstate'[s] = "none"
        BY <4>2, <4>3 DEF Removes, Shape
      <4> QED
        BY <1>7, <4>4
    <3> QED
      BY <3>1, <3>2
  <2>3. CASE sstate[s] # "none"
    BY <1>1, <1>3, <2>2, <2>3 DEF StreamInStep
  <2> QED
    BY <2>1, <2>3
<1> QED
  BY <1>5, <1>6, <1>7 DEF StreamInStep

\* The server's steps keep the ends in step.
LEMMA ServerInStep ==
    ASSUME Shape, OneAtATime, InStep, Server!ServerNext, UNCHANGED cvars
    PROVE  InStep'
<1>1. UNCHANGED <<answer, cstreams, connected>>
  BY DEF cvars
<1>2. ASSUME NEW i, Server!ServerHandle(i)
      PROVE  InStep'
  <2>1. /\ sloop = "running" /\ i \in Arriving(up) /\ i \in DOMAIN up
        /\ up[i] \in ClientPackets
        /\ up' = RemoveAt(up, i) /\ UNCHANGED <<workload, closed>>
        /\ Turn(up[i])
    BY <1>2, ServerTurn
  <2>2. strays' = {}
    BY <2>1, TurnStrays
  <2>3. CASE sloop' = "ended"
    BY <2>2, <2>3 DEF InStep
  <2>4. CASE sloop' = "running"
    <3>1. Taken(i)
      BY <1>1, <2>1, <2>4 DEF Taken
    <3>2. DeletesLast'
      <4>1. DeletesLast
        BY <2>1 DEF InStep
      <4> QED
        BY <2>1, <4>1, OrderKept
    <3>3. SmallInPlace'
      BY <3>1, TakenSmall
    <3>4. ~closed => Connection' /\ \A s \in StreamIDs : StreamInStep(s)'
      BY <3>1, TakenConnection, TakenStream
    <3> QED
      BY <2>1, <2>2, <3>2, <3>3, <3>4 DEF InStep
  <2> QED
    BY <2>1, <2>3, <2>4 DEF Turn
<1>3. CASE Server!ServerReadFails
  BY <1>1, <1>3, EndsInStep DEF Server!ServerReadFails, Server!EndLoop
<1>4. CASE Server!ServerCloses
  BY <1>1, <1>4, EndsInStep DEF Server!ServerCloses, Server!svars
<1>5. ASSUME NEW s \in StreamIDs, NEW kind \in Kinds, Server!ServerWrites(s, kind)
      PROVE  InStep'
  <2>1. /\ Written(s, kind, sgen[s]) \in ServerPackets
        /\ ~IsReply(Written(s, kind, sgen[s]))
    BY WrittenSays DEF ServerPackets, Shape, Plain, IsReply
  <2>2. down' = down \o <<Written(s, kind, sgen[s])>>
    BY <1>5, SamePacket, SameUserMessage DEF Server!ServerWrites, Server!Send, Written
  <2>3. PICK w \in ServerPackets : ~IsReply(w) /\ down' = down \o <<w>>
    BY <2>1, <2>2
  <2>4. <<w>> \in Seq(ServerPackets)
    BY <2>3
  <2>5. \A q : Pending(q)' <=> Pending(q) \/ \E k \in DOMAIN <<w>> : q = <<w>>[k]
    BY <1>1, <2>3, <2>4, MorePending
  <2>6. \A q : IsReply(q) => (Pending(q)' <=> Pending(q))
    BY <2>3, <2>5
  <2> QED
    BY <1>1, <1>5, <2>6, PendingInStep DEF Server!ServerWrites, Server!svars
<1>6. workload.server \subseteq Kinds
  BY StreamsAssumption DEF Shape, Workload
<1> QED
  BY <1>2, <1>3, <1>4, <1>5, <1>6, SameIDs DEF Server!ServerNext

\* What is written follows what is on its way.
LEMMA MoreOnItsWay ==
    ASSUME Shape, NEW t \in Seq(ClientPackets), up' = up \o t
    PROVE  /\ \A k \in DOMAIN up : k \in DOMAIN up' /\ up'[k] = up[k]
           /\ \A k \in DOMAIN t : \E l \in DOMAIN up' : up'[l] = t[k]
           /\ \A k \in DOMAIN up' : \/ k \in DOMAIN up /\ up'[k] = up[k]
                                    \/ /\ k - Len(up) \in DOMAIN t /\ up'[k] = t[k - Len(up)]
                                       /\ k \notin DOMAIN up
           /\ \A k, l \in DOMAIN up' : k < l /\ l \in DOMAIN up => k \in DOMAIN up
           /\ \A k, l \in DOMAIN up' : k < l => k - Len(up) # l - Len(up)
<1>1. up \in Seq(ClientPackets)
  BY DEF Shape
<1>2. /\ \A k \in DOMAIN up : k \in DOMAIN up' /\ up'[k] = up[k]
      /\ \A k \in DOMAIN t : k + Len(up) \in DOMAIN up' /\ up'[k + Len(up)] = t[k]
      /\ \A k \in DOMAIN up' : \/ k \in DOMAIN up /\ up'[k] = up[k]
                               \/ /\ k - Len(up) \in DOMAIN t /\ up'[k] = t[k - Len(up)]
                                  /\ k \in Nat /\ \A j \in DOMAIN up : j < k
  BY <1>1, JoinedPlaces
<1>3. DOMAIN up \subseteq Int
  BY <1>1
<1>4. \A k \in DOMAIN t : \E l \in DOMAIN up' : up'[l] = t[k]
  BY <1>2
<1>5. ASSUME NEW k \in DOMAIN up'
      PROVE  \/ k \in DOMAIN up /\ up'[k] = up[k]
             \/ /\ k - Len(up) \in DOMAIN t /\ up'[k] = t[k - Len(up)]
                /\ k \notin DOMAIN up
  <2>1. CASE k - Len(up) \in DOMAIN t /\ up'[k] = t[k - Len(up)] /\ k \in Nat
             /\ \A j \in DOMAIN up : j < k
    <3>1. ~(k < k)
      BY <2>1
    <3> QED
      BY <2>1, <3>1
  <2> QED
    BY <1>2, <2>1
<1>6. ASSUME NEW k \in DOMAIN up', NEW l \in DOMAIN up, k < l
      PROVE  k \in DOMAIN up
  <2>1. CASE k \in Nat /\ \A j \in DOMAIN up : j < k
    <3>1. l < k /\ l \in Int
      BY <1>3, <2>1
    <3> QED
      BY <1>6, <2>1, <3>1
  <2> QED
    BY <1>2, <2>1
<1>7. ASSUME NEW k \in DOMAIN up', NEW l \in DOMAIN up', k < l
      PROVE  k - Len(up) # l - Len(up)
  <2>1. up' \in Seq(ClientPackets)
    BY <1>1, JoinedPlaces
  <2>2. k \in Int /\ l \in Int /\ Len(up) \in Int
    BY <1>1, <2>1
  <2> QED
    BY <1>7, <2>2
<1> QED
  BY <1>2, <1>4, <1>5, <1>6, <1>7

\* The client writes only on streams whose deletion is not under way, and which the
\* server has.
LEMMA SoundlyWritten ==
    ASSUME Shape, InStep, sloop = "running", ~closed, NEW t, Sound(t), NEW k \in DOMAIN t
    PROVE  /\ t[k].sid \in StreamIDs
           /\ \A i \in DOMAIN up : ~Deletes(up[i], t[k].sid)
           /\ t[k].sid # ControlStreamID => /\ sstate[t[k].sid] # "none"
                                            /\ sgen[t[k].sid] = t[k].tag
<1>1. t[k] \in ClientPackets /\ cstreams[t[k].sid] # None
  BY DEF Sound
<1>2. t[k].sid \in StreamIDs
  BY <1>1, ClientPacketSays
<1>3. StreamInStep(t[k].sid)
  BY <1>2 DEF InStep
<1> QED
  BY <1>1, <1>2, <1>3 DEF StreamInStep, Sound

\* What is written on the client's streams is in its place, and the last.
LEMMA SoundInPlace ==
    ASSUME Shape, InStep, sloop = "running", ~closed, NEW t, Sound(t), up' = up \o t,
           UNCHANGED <<sstate, sgen>>,
           \A k \in DOMAIN t : \A i \in DOMAIN up, s \in StreamIDs :
              Deletes(up[i], s) => ~Deletes(t[k], s),
           \A k, l \in DOMAIN t, s \in StreamIDs : Deletes(t[k], s) => k = l
    PROVE  DeletesLast' /\ SmallInPlace'
<1>1. t \in Seq(ClientPackets) /\ DeletesLast /\ SmallInPlace
  BY DEF Sound, InStep
<1>2. /\ \A k \in DOMAIN up : k \in DOMAIN up' /\ up'[k] = up[k]
      /\ \A k \in DOMAIN up' : \/ k \in DOMAIN up /\ up'[k] = up[k]
                               \/ /\ k - Len(up) \in DOMAIN t /\ up'[k] = t[k - Len(up)]
                                  /\ k \notin DOMAIN up
      /\ \A k, l \in DOMAIN up' : k < l /\ l \in DOMAIN up => k \in DOMAIN up
      /\ \A k, l \in DOMAIN up' : k < l => k - Len(up) # l - Len(up)
  BY <1>1, MoreOnItsWay
<1>3. ASSUME NEW i \in DOMAIN up', NEW j \in DOMAIN up', NEW s \in StreamIDs,
             i < j, Deletes(up'[i], s)
      PROVE  up'[j].sid # s /\ ~Deletes(up'[j], s)
  <2>1. CASE j \in DOMAIN up
    <3>1. i \in DOMAIN up /\ up'[i] = up[i] /\ up'[j] = up[j]
      BY <1>2, <1>3, <2>1
    <3> QED
      BY <1>1, <1>3, <2>1, <3>1 DEF DeletesLast
  <2>2. CASE j \notin DOMAIN up /\ i \in DOMAIN up
    <3>1. PICK l \in DOMAIN t : up'[j] = t[l]
      BY <1>2, <2>2
    <3>2. Deletes(up[i], s)
      BY <1>2, <1>3, <2>2
    <3>3. t[l].sid # s
      BY <2>2, <3>2, SoundlyWritten
    <3> QED
      BY <2>2, <3>1, <3>2, <3>3
  <2>3. CASE j \notin DOMAIN up /\ i \notin DOMAIN up
    <3>1. /\ i - Len(up) \in DOMAIN t /\ up'[i] = t[i - Len(up)]
          /\ j - Len(up) \in DOMAIN t
      BY <1>2, <2>3
    <3> QED
      BY <1>2, <1>3, <3>1
  <2> QED
    BY <2>1, <2>2, <2>3
<1>4. ASSUME NEW i \in DOMAIN up', up'[i].sid # ControlStreamID, up'[i].id \in {8, CommandID}
      PROVE  sstate'[up'[i].sid] # "none" /\ sgen'[up'[i].sid] = up'[i].tag
  <2>1. CASE i \in DOMAIN up /\ up'[i] = up[i]
    BY <1>1, <1>4, <2>1 DEF SmallInPlace
  <2>2. CASE i - Len(up) \in DOMAIN t /\ up'[i] = t[i - Len(up)]
    BY <1>4, <2>2, SoundlyWritten
  <2> QED
    BY <1>2, <2>1, <2>2
<1> QED
  BY <1>3, <1>4 DEF DeletesLast, SmallInPlace

\* Writing what deletes no stream keeps the ends in step.
LEMMA WritingInStep ==
    ASSUME Shape, InStep, sloop = "running", ~closed, NEW t, Sound(t), up' = up \o t,
           \A k \in DOMAIN t, s \in StreamIDs : ~Deletes(t[k], s),
           UNCHANGED <<down, answer, sstate, sgen, strays, cstreams, connected, sloop, closed>>
    PROVE  InStep'
<1>1. DeletesLast' /\ SmallInPlace'
  BY SoundInPlace
<1>2. t \in Seq(ClientPackets)
  BY DEF Sound
<1>3. \A s \in StreamIDs :
         /\ \A k \in DOMAIN up' : Deletes(up'[k], s) => k \in DOMAIN up /\ up'[k] = up[k]
         /\ \A k \in DOMAIN up : k \in DOMAIN up' /\ up'[k] = up[k]
  BY <1>2, MoreOnItsWay
<1>4. \A q : Pending(q)' <=> Pending(q)
  BY DEF Pending
<1>5. Connection'
  <2>1. Connection
    BY DEF InStep
  <2> QED
    BY <1>3, <1>4, <2>1 DEF Connection
<1>6. ASSUME NEW s \in StreamIDs
      PROVE  StreamInStep(s)'
  <2>1. StreamInStep(s)
    BY DEF InStep
  <2>2. (\E k \in DOMAIN up' : Deletes(up'[k], s)) <=> \E k \in DOMAIN up : Deletes(up[k], s)
    BY <1>3
  <2> QED
    BY <1>4, <2>1, <2>2 DEF StreamInStep
<1> QED
  BY <1>1, <1>5, <1>6 DEF InStep

\* A stream the client deletes is accounted for by the command that says so.
LEMMA DeletingInStep ==
    ASSUME Shape, InStep, sloop = "running", ~closed, NEW x \in StreamIDs, Discards(x),
           tag' \in Tags,
           UNCHANGED <<down, answer, sstate, sgen, strays, connected, sloop, closed>>
    PROVE  InStep'
<1> DEFINE d == Deletion(x, tag')
<1>1. /\ d \in ClientPackets /\ d.sid = ControlStreamID
      /\ \A s : Deletes(d, s) <=> s = x
  BY CallsSay DEF ClientPackets, Deletes
<1>2. up' = up \o <<d>>
  BY DEF Discards, Sends
<1> HIDE DEF d
<1>3. /\ connected /\ cstreams[ControlStreamID] # None /\ cstreams[x] # None
      /\ cstreams' = [cstreams EXCEPT ![x] = None]
  BY DEF Discards
<1>4. <<d>> \in Seq(ClientPackets) /\ DOMAIN <<d>> = {1} /\ <<d>>[1] = d
  BY <1>1
<1>5. Sound(<<d>>)
  BY <1>1, <1>3, <1>4 DEF Sound
<1>6. /\ Connection
      /\ \A s \in StreamIDs : StreamInStep(s)
      /\ ControlStreamID \in StreamIDs
  BY Zeros DEF InStep
<1>7. \A i \in DOMAIN up : ~Deletes(up[i], x)
  BY <1>3, <1>6 DEF StreamInStep
<1>8. DeletesLast' /\ SmallInPlace'
  <2>1. \A k \in DOMAIN <<d>> : \A i \in DOMAIN up, s \in StreamIDs :
           Deletes(up[i], s) => ~Deletes(<<d>>[k], s)
    BY <1>1, <1>4, <1>7
  <2>2. \A k, l \in DOMAIN <<d>>, s \in StreamIDs : Deletes(<<d>>[k], s) => k = l
    BY <1>4
  <2> QED
    BY <1>2, <1>5, <2>1, <2>2, SoundInPlace
<1>9. /\ \A k \in DOMAIN up : k \in DOMAIN up' /\ up'[k] = up[k]
      /\ \E k \in DOMAIN up' : up'[k] = d
      /\ \A k \in DOMAIN up' : (k \in DOMAIN up /\ up'[k] = up[k]) \/ up'[k] = d
  <2>1. /\ \A k \in DOMAIN up : k \in DOMAIN up' /\ up'[k] = up[k]
        /\ \A k \in DOMAIN <<d>> : \E l \in DOMAIN up' : up'[l] = <<d>>[k]
        /\ \A k \in DOMAIN up' : \/ k \in DOMAIN up /\ up'[k] = up[k]
                                 \/ /\ k - Len(up) \in DOMAIN <<d>>
                                    /\ up'[k] = <<d>>[k - Len(up)]
                                    /\ k \notin DOMAIN up
    BY <1>2, <1>4, MoreOnItsWay
  <2> QED
    BY <1>4, <2>1
<1>10. \A q : Pending(q)' <=> Pending(q)
  BY DEF Pending
<1>11. Connection'
  <2>1. sstate[ControlStreamID] # "none" /\ sstate[x] # "none"
    BY <1>3, <1>6 DEF StreamInStep
  <2>2. sstate[ControlStreamID] = "Connected"
    BY <1>3, <1>6, <2>1 DEF Connection
  <2>3. ASSUME NEW i \in DOMAIN up', NEW s \in StreamIDs, Deletes(up'[i], s)
        PROVE  connected' /\ sstate'[ControlStreamID] = "Connected" /\ sstate'[s] # "none"
    <3>1. CASE i \in DOMAIN up /\ up'[i] = up[i]
      BY <1>6, <2>3, <3>1 DEF Connection
    <3>2. CASE up'[i] = d
      BY <1>1, <1>3, <2>1, <2>2, <2>3, <3>2
    <3> QED
      BY <1>9, <3>1, <3>2
  <2> QED
    BY <1>6, <1>10, <2>3 DEF Connection
<1>12. ASSUME NEW s \in StreamIDs
       PROVE  StreamInStep(s)'
  <2>1. CASE s = x
    <3>1. cstreams'[s] = None
      BY <1>3, <2>1 DEF Shape
    <3>2. \A q : ~(Pending(q)' /\ Gives(q, s))
      BY <1>3, <1>6, <1>10, <2>1 DEF StreamInStep
    <3>3. \E k \in DOMAIN up' : Deletes(up'[k], s)
      BY <1>1, <1>9, <2>1
    <3> QED
      BY <3>1, <3>2, <3>3 DEF StreamInStep
  <2>2. CASE s # x
    <3>1. cstreams'[s] = cstreams[s]
      BY <1>3, <2>2 DEF Shape
    <3>2. (\E k \in DOMAIN up' : Deletes(up'[k], s)) <=> \E k \in DOMAIN up : Deletes(up[k], s)
      BY <1>1, <1>9, <2>2
    <3> QED
      BY <1>6, <1>10, <3>1, <3>2 DEF StreamInStep
  <2> QED
    BY <2>1, <2>2
<1> QED
  BY <1>8, <1>11, <1>12 DEF InStep

\* The caller that gets its reply has the stream the server has given to it.
LEMMA ReturnInStep ==
    ASSUME Shape, OneAtATime, InStep, Client!Return, UNCHANGED svars
    PROVE  InStep'
<1>1. /\ answer # None /\ answer' = None /\ UNCHANGED <<up, down, closed>>
      /\ connected' => connected \/ Admits(answer)
      /\ connected => connected'
      /\ \/ \E s \in StreamIDs : /\ Gives(answer, s) /\ cstreams[s] = None
                                 /\ cstreams' = [cstreams EXCEPT ![s] = answer.tag]
         \/ /\ UNCHANGED cstreams
            /\ \A s \in StreamIDs : Gives(answer, s) => cstreams[s] # None
  BY ReturnForms
<1>2. UNCHANGED <<sstate, sgen, strays, sloop>>
  BY DEF svars
<1>3. Pending(answer)
  BY <1>1 DEF Pending
<1>4. \A q : Pending(q) /\ IsReply(q) => q = answer
  BY <1>1 DEF OneAtATime, Pending, Replied
<1>5. \A q : Pending(q)' => ~IsReply(q)
  BY <1>1 DEF OneAtATime, Pending, Replied
<1>6. \A q, s : (Admits(q) \/ Gives(q, s)) => IsReply(q)
  BY DEF Admits, Gives, IsReply, Replies
<1>7. DeletesLast /\ SmallInPlace => DeletesLast' /\ SmallInPlace'
  BY <1>1, <1>2 DEF DeletesLast, SmallInPlace
<1>8. Connection => Connection'
  BY <1>1, <1>2, <1>3, <1>5, <1>6 DEF Connection
<1>9. ASSUME NEW s \in StreamIDs, StreamInStep(s)
      PROVE  StreamInStep(s)'
  <2>1. ASSUME NEW x \in StreamIDs, Gives(answer, x), cstreams[x] = None,
               cstreams' = [cstreams EXCEPT ![x] = answer.tag]
        PROVE  StreamInStep(s)'
    <3>1. CASE s = x
      <4>1. cstreams'[s] = answer.tag
        BY <2>1, <3>1 DEF Shape
      <4>2. /\ sstate[s] # "none" /\ sgen[s] = answer.tag
            /\ \A i \in DOMAIN up : ~Deletes(up[i], s)
        BY <1>3, <1>9, <2>1, <3>1 DEF StreamInStep
      <4>3. answer.tag # None
        <5>1. answer \in ServerPackets
          BY <1>1 DEF Shape
        <5>2. answer.tag \in Nat
          BY <5>1, ServerPacketSays, Zeros
        <5> QED
          BY <5>2, SwitchesAssumption
      <4> QED
        BY <1>1, <1>2, <1>5, <1>6, <4>1, <4>2, <4>3 DEF StreamInStep
    <3>2. CASE s # x
      <4>1. cstreams'[s] = cstreams[s]
        BY <2>1, <3>2 DEF Shape
      <4>2. ~Gives(answer, s)
        BY <2>1, <3>2 DEF Gives
      <4>3. \A q : ~(Pending(q) /\ Gives(q, s))
        BY <1>4, <1>6, <4>2
      <4> QED
        BY <1>1, <1>2, <1>5, <1>6, <1>9, <4>1, <4>3 DEF StreamInStep
    <3> QED
      BY <3>1, <3>2
  <2>2. CASE /\ UNCHANGED cstreams
             /\ \A x \in StreamIDs : Gives(answer, x) => cstreams[x] # None
    <3>1. ~Gives(answer, s)
      BY <1>3, <1>9, <2>2 DEF StreamInStep
    <3>2. \A q : ~(Pending(q) /\ Gives(q, s))
      BY <1>4, <1>6, <3>1
    <3> QED
      BY <1>1, <1>2, <1>5, <1>6, <1>9, <2>2, <3>2 DEF StreamInStep
  <2> QED
    BY <1>1, <2>1, <2>2
<1> QED
  BY <1>1, <1>2, <1>7, <1>8, <1>9 DEF InStep

\* A call writes on the client's streams, or deletes one.
LEMMA CallInStep ==
    ASSUME Shape, OneAtATime, InStep, Call, UNCHANGED svars
    PROVE  InStep'
<1>1. /\ UNCHANGED <<down, closed, answer, connected, sstate, sgen, strays, sloop>>
      /\ tag' \in Tags
  BY DEF Call, svars
<1>2. CASE sloop # "running"
  BY <1>1, <1>2 DEF InStep
<1>3. CASE closed
  <2>1. up' = up
    BY <1>3 DEF Call, Tries, Asks, Discards, Sends
  <2> QED
    BY <1>1, <1>3, <2>1 DEF InStep, DeletesLast, SmallInPlace
<1>4. CASE sloop = "running" /\ ~closed
  <2>1. CASE Tries /\ up' = up
    BY <1>1, <2>1, EndsInStep DEF Tries
  <2>2. ASSUME NEW t, Sound(t), Sends(t), UNCHANGED cstreams,
               \A k \in DOMAIN t : CommandName(t[k]) # "deleteStream"
        PROVE  InStep'
    <3>1. up' = up \o t
      BY <1>4, <2>2 DEF Sends
    <3>2. \A k \in DOMAIN t, s \in StreamIDs : ~Deletes(t[k], s)
      BY <2>2 DEF Deletes
    <3> QED
      BY <1>1, <1>4, <2>2, <3>1, <3>2, WritingInStep
  <2>3. ASSUME Tries, up' # up
        PROVE  InStep'
    <3>1. PICK t : Sound(t) /\ (\A k \in DOMAIN t : Plain(t[k])) /\ Sends(t)
      BY <2>3 DEF Tries
    <3>2. UNCHANGED cstreams /\ \A k \in DOMAIN t : CommandName(t[k]) # "deleteStream"
      BY <2>3, <3>1 DEF Tries, Plain
    <3> QED
      BY <2>2, <3>1, <3>2
  <2>4. CASE Asks
    <3>1. PICK t : /\ Sound(t)
                   /\ \A k \in DOMAIN t : \/ Plain(t[k])
                                          \/ k = Len(t) /\ CommandName(t[k]) = Asked'
                                             /\ t[k].tag = tag'
                   /\ Sends(t)
      BY <2>4 DEF Asks
    <3>2. Asked' # "deleteStream"
      BY DEF Asked
    <3>3. UNCHANGED cstreams /\ \A k \in DOMAIN t : CommandName(t[k]) # "deleteStream"
      BY <2>4, <3>1, <3>2 DEF Asks, Plain
    <3> QED
      BY <2>2, <3>1, <3>3
  <2>5. CASE \E s \in StreamIDs : Discards(s)
    BY <1>1, <1>4, <2>5, DeletingInStep
  <2> QED
    BY <2>1, <2>3, <2>4, <2>5 DEF Call
<1> QED
  BY <1>2, <1>3, <1>4 DEF Shape

\* The client's steps keep the ends in step.
LEMMA ClientInStep ==
    ASSUME Shape, OneAtATime, InStep, Client!ClientNext, UNCHANGED svars
    PROVE  InStep'
<1>1. UNCHANGED <<sstate, sgen, strays, sloop>>
  BY DEF svars
<1>2. ASSUME NEW i \in DOMAIN down, Client!ClientHandle(i)
      PROVE  InStep'
  <2>1. /\ i \in DOMAIN down /\ down' = RemoveAt(down, i)
        /\ UNCHANGED <<up, closed, cstreams, connected>>
        /\ \/ IsReply(down[i]) /\ answer' = down[i] /\ answer' # None
           \/ ~IsReply(down[i]) /\ UNCHANGED answer
    BY <1>2, ClientTurn
  <2>2. down \in Seq(ServerPackets) /\ i \in DOMAIN down /\ down' = RemoveAt(down, i)
    BY <2>1 DEF Shape
  <2>3. /\ \A k \in DOMAIN down' : Back(i, k) \in DOMAIN down /\ down'[k] = down[Back(i, k)]
        /\ \A j \in DOMAIN down : j # i => \E k \in DOMAIN down' : Back(i, k) = j
    BY <2>2, RemovedPlaces
  <2>4. /\ \A k \in DOMAIN down' : \E j \in DOMAIN down : down'[k] = down[j]
        /\ \A j \in DOMAIN down : j # i => \E k \in DOMAIN down' : down'[k] = down[j]
    BY <2>3
  <2>5. ASSUME NEW q, IsReply(q)
        PROVE  Pending(q)' <=> Pending(q)
    <3>1. CASE IsReply(down[i]) /\ answer' = down[i] /\ answer' # None
      <4>1. answer = None
        BY <2>1, <3>1 DEF OneAtATime, Replied
      <4>2. Pending(q) <=> \E j \in DOMAIN down : q = down[j]
        BY <4>1 DEF Pending
      <4>3. Pending(q)' <=> q = down[i] \/ \E k \in DOMAIN down' : q = down'[k]
        BY <3>1 DEF Pending
      <4> QED
        BY <2>1, <2>4, <4>2, <4>3
    <3>2. CASE ~IsReply(down[i]) /\ UNCHANGED answer
      <4>1. (\E k \in DOMAIN down' : q = down'[k]) <=> \E j \in DOMAIN down : q = down[j]
        BY <2>4, <2>5, <3>2
      <4> QED
        BY <3>2, <4>1 DEF Pending
    <3> QED
      BY <2>1, <3>1, <3>2
  <2> QED
    BY <1>1, <2>1, <2>5, PendingInStep
<1>3. CASE Client!Close
  BY <1>1, <1>3, EndsInStep DEF Client!Close, Client!cvars, Client!userVars
<1>4. CASE Client!Resolve
  BY <1>1, <1>4, EndsInStep DEF Client!Resolve, Client!userVars
<1>5. CASE Client!ClientReadFails
  BY <1>1, <1>5, EndsInStep DEF Client!ClientReadFails, Client!userVars
<1> QED
  BY <1>2, <1>3, <1>4, <1>5, ReturnInStep, CallInStep, ClientSteps

-----------------------------------------------------------------------------
(* The theorems *)

\* Nobody has asked for anything, and both ends have the control stream and no other.
LEMMA Initially == Init => IInv
<1> SUFFICES ASSUME Init
             PROVE  IInv
  OBVIOUS
<1>1. /\ workload \in Workloads /\ up = <<>> /\ down = <<>> /\ closed = FALSE
      /\ sstate = [s \in StreamIDs |-> IF s = ControlStreamID THEN "NotConnected" ELSE "none"]
      /\ sgen = [s \in StreamIDs |-> 0]
      /\ sloop = "running" /\ strays = {}
  BY SameIDs DEF Init, Server!ServerInit
<1>2. /\ chunkSize = 0 /\ transactions = {} /\ resolving = 0
      /\ cstreams = [s \in StreamIDs |-> IF s = ControlStreamID THEN 0 ELSE None]
      /\ cloop = "running" /\ lastErr = "nil"
      /\ op = "idle" /\ tag = 0 /\ answer = None /\ connected = FALSE
  BY SameIDs DEF Init, Client!ClientInit
<1>3. up = <<>> /\ down = <<>> /\ DOMAIN up = {} /\ DOMAIN down = {}
  BY <1>1
<1>4. 0 \in Tags /\ ControlStreamID \in StreamIDs
  BY <1>1, StreamsAssumption DEF Tags, Workload, StreamIDs, ControlStreamID
<1>5. Shape
  <2>1. up \in Seq(ClientPackets) /\ down \in Seq(ServerPackets)
    BY <1>3
  <2> QED
    BY <1>1, <1>2, <1>4, <2>1 DEF Shape, States
<1>6. OneAtATime
  BY <1>2, <1>3 DEF OneAtATime, Requested, Replied, Waiting
<1>7. \A q : ~Pending(q)
  BY <1>2, <1>3 DEF Pending
<1>8. DeletesLast /\ SmallInPlace /\ Connection
  BY <1>2, <1>3, <1>7 DEF DeletesLast, SmallInPlace, Connection
<1>9. ASSUME NEW s \in StreamIDs
      PROVE  StreamInStep(s)
  <2>1. sgen[s] = 0 /\ (sstate[s] # "none" <=> s = ControlStreamID)
    BY <1>1
  <2>2. cstreams[s] = IF s = ControlStreamID THEN 0 ELSE None
    BY <1>2
  <2>3. 0 # None
    BY SwitchesAssumption
  <2>4. s = ControlStreamID => sgen[s] = cstreams[s] /\ cstreams[s] # None
    BY <2>1, <2>2, <2>3
  <2> QED
    BY <1>3, <1>7, <2>1, <2>2, <2>4 DEF StreamInStep
<1> QED
  BY <1>1, <1>5, <1>6, <1>8, <1>9 DEF IInv, InStep

\* Every step keeps the invariant.
LEMMA Always == IInv /\ [Next]_vars => IInv'
<1> SUFFICES ASSUME Shape, OneAtATime, InStep, [Next]_vars
             PROVE  IInv'
  BY DEF IInv
<1>1. CASE Server!ServerNext /\ UNCHANGED cvars
  BY <1>1, ServerShape, ServerOneAtATime, ServerInStep DEF IInv
<1>2. CASE Client!ClientNext /\ UNCHANGED svars
  BY <1>2, ClientShape, ClientOneAtATime, ClientInStep DEF IInv
<1>3. CASE UNCHANGED vars
  <2>1. UNCHANGED <<workload, up, down, closed, svars, cvars>>
    BY <1>3 DEF vars
  <2>2. UNCHANGED <<sstate, sloop, ignored, sgen, strays>>
    BY <2>1 DEF svars
  <2>3. UNCHANGED <<chunkSize, cstreams, transactions, resolving, cloop, lastErr, cignored, op,
                    tag, answer, result, connected>>
    BY <2>1 DEF cvars
  <2>4. Tags' = Tags /\ ClientPackets' = ClientPackets /\ ServerPackets' = ServerPackets
    BY <2>1, SamePackets
  <2>5. Shape'
    BY <2>1, <2>2, <2>3, <2>4 DEF Shape
  <2>6. Requested' /\ Replied' /\ Waiting'
    BY <2>1, <2>3 DEF OneAtATime, Requested, Replied, Waiting, Asked, Awaited
  <2>7. OneAtATime'
    BY <2>6 DEF OneAtATime
  <2>8. InStep'
    BY <2>1, <2>2, <2>3, EndsInStep
  <2> QED
    BY <2>5, <2>7, <2>8 DEF IInv
<1> QED
  BY <1>1, <1>2, <1>3 DEF Next

\* The invariant holds in every state.
LEMMA Invariant == Spec => []IInv
BY Initially, Always, PTL DEF Spec

\* Whatever the users do, every message on its way between the two ends of a connection can
\* be decoded (conn.go, stream.go) and every stream is in a state that streams.go,
\* server_control_connected_handler.go and their like know.
THEOREM TypeCorrect == Spec => []TypeOK
<1>1. IInv => TypeOK
  <2> SUFFICES ASSUME Shape, InStep
               PROVE  TypeOK
    BY DEF IInv
  <2>1. \A p \in ClientPackets : WellFormed(p)
    BY ClientPacketSays DEF WellFormed, Tags
  <2>2. \A p \in ServerPackets : WellFormed(p)
    BY ServerPacketSays DEF WellFormed, Tags
  <2>3. /\ \A i \in DOMAIN up : up[i] \in ClientPackets
        /\ \A i \in DOMAIN down : down[i] \in ServerPackets
        /\ answer # None => answer \in ServerPackets
    BY DEF Shape
  <2>4. strays \subseteq {"audio", "command"}
    BY DEF InStep
  <2> QED
    BY <2>1, <2>2, <2>3, <2>4 DEF TypeOK, Shape, Tags
<1> QED
  BY <1>1, Invariant, PTL

\* The caller of Connect or CreateStream is given the reply to that very call, though
\* stream.go uses the transaction IDs 1 and 2 again and again (transactions.go).
THEOREM OwnReplies == Spec => []OwnReply
<1>1. IInv => OwnReply
  BY DEF IInv, OneAtATime, Requested, Replied, Waiting, OwnReply
<1> QED
  BY <1>1, Invariant, PTL

\* The client's message loop never ends because handleCommand of stream_handler.go finds no
\* transaction for a reply.
THEOREM AllExpected == Spec => []RepliesExpected
<1>1. IInv => RepliesExpected
  BY DEF IInv, OneAtATime, Requested, Replied, Waiting, RepliesExpected
<1> QED
  BY <1>1, Invariant, PTL

\* When nothing is under way the client (stream.go) has the streams the server (streams.go)
\* has, each created for the call that the client got it by.
THEOREM StreamsInStep == Spec => []StreamsAgree
<1>1. IInv => StreamsAgree
  <2> SUFFICES ASSUME Shape, OneAtATime, InStep, Quiet, sloop = "running",
                      NEW s \in StreamIDs
               PROVE  /\ sstate[s] # "none" <=> cstreams[s] # None
                      /\ sstate[s] # "none" => sgen[s] = cstreams[s]
    BY DEF IInv, StreamsAgree
  <2>1. StreamInStep(s)
    BY DEF InStep, Quiet
  <2>2. \A i \in DOMAIN up : ~Deletes(up[i], s)
    BY DEF Quiet, Deletes
  <2>3. answer = None
    BY DEF Quiet, OneAtATime, Requested, Replied, Waiting
  <2>4. \A p : ~(Pending(p) /\ Gives(p, s))
    BY <2>3 DEF Quiet, Pending, Gives
  <2> QED
    BY <2>1, <2>2, <2>4 DEF StreamInStep
<1> QED
  BY <1>1, Invariant, PTL

\* Audio is handed to OnAudio (server_data_publish_handler.go) only on the stream it was
\* written for, never on a later stream with its ID.
THEOREM AudioInPlace == Spec => []NoStrayAudio
<1>1. IInv => NoStrayAudio
  BY DEF IInv, InStep, NoStrayAudio
<1> QED
  BY <1>1, Invariant, PTL

\* A publish or play command is handed to OnPublish or OnPlay
\* (server_data_inactive_handler.go) only on the stream it was written for.
THEOREM CommandsInPlace == Spec => []NoStrayCommand
<1>1. IInv => NoStrayCommand
  BY DEF IInv, InStep, NoStrayCommand
<1> QED
  BY <1>1, Invariant, PTL

=============================================================================
