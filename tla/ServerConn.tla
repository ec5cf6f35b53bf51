----------------------------- MODULE ServerConn -----------------------------
(***************************************************************************)
(* The server's end of a connection: the message loop of conn.go, the      *)
(* message streams of streams.go and the handlers of their states.  One    *)
(* goroutine reads a message and handles it before it reads the next one;  *)
(* an error of a handler ends the loop, and with it the connection.        *)
(***************************************************************************)
EXTENDS SessionMessages

CONSTANTS
    Ignore, Threshold, \* IgnoreMessagesOnNotExistStream and its threshold
    Rejects,           \* may the user's handler return an error?
    WriteFails,        \* may Stream.Write fail (its context expires)?
    ChunkSizeLimit,    \* 0xffffff
    MaxChunkSize, MaxAckWindowSize \* configured

VARIABLES
    workload, \* what the users do
    up,       \* packets on their way to the server
    down,     \* packets on their way to the client
    closed,   \* the transport is closed
    sstate,   \* message stream -> state of its handler, "none" if not created
    sloop,    \* handleMessageLoop: "running" or "ended"
    ignored,  \* ignoredMessages
    sgen,     \* history: message stream -> call that created it
    strays    \* history: small messages of another stream that were handled

svars == <<sstate, sloop, ignored, sgen, strays>>

ServerInit ==
    /\ sstate = [s \in StreamIDs |-> IF s = ControlStreamID THEN "NotConnected"
                                     ELSE "none"]
    /\ sloop = "running" /\ ignored = 0
    /\ sgen = [s \in StreamIDs |-> 0]
    /\ strays = {}

-----------------------------------------------------------------------------
Send(packets) == down' = down \o packets
EndLoop == sloop' = "ended"

\* The loop goes on, or the user's handler returns an error.
UserHandles == UNCHANGED sloop \/ (Rejects /\ EndLoop)

\* The deferred reply of a handler that returns an error, if it can be sent.
SendOrFail(before, p) == \/ Send(Append(before, p))
                         \/ WriteFails /\ Send(before)

\* Stream.ReplyConnect
ReplyConnect(p, code) ==
    Command(p.sid, IF code = "Failed" THEN "_error" ELSE "_result",
            ConnectTransaction,
            [type |-> "NetConnectionConnectResult", Properties |-> "preset",
             Information |-> code], p.tag)

\* Stream.ReplyCreateStream, with the ID 0 in place of an error object.
ReplyCreateStream(p, name, s) ==
    Command(p.sid, name, Message(p).TransactionID,
            [type |-> "NetConnectionCreateStreamResult", StreamID |-> s], p.tag)

\* Stream.NotifyStatus
NotifyStatus(p, level) ==
    Command(p.sid, "onStatus", 0,
            [type |-> "NetStreamOnStatus", InfoObject |-> level], 0)

\* What goes out before the result of connect.
Welcome(p) ==
    <<Packet(p.sid, [type |-> "WinAckSize", Size |-> MaxAckWindowSize], 0),
      Packet(p.sid, [type |-> "SetPeerBandwidth", Size |-> Huge, Limit |-> 0], 0),
      Packet(p.sid, [type |-> "UserCtrl",
                     Event |-> [type |-> "UserCtrlEventStreamBegin",
                                StreamID |-> p.sid]], 0)>>

\* serverControlNotConnectedHandler: the replies go out before the state
\* changes, and an error on the way is answered with "_error".
OnConnect(p) ==
    /\ \/ /\ Send(Append(Welcome(p), ReplyConnect(p, "Success")))
          /\ sstate' = [sstate EXCEPT ![p.sid] = "Connected"]
          /\ UNCHANGED sloop
       \/ /\ \/ Rejects /\ SendOrFail(<<>>, ReplyConnect(p, "Failed"))
             \/ /\ WriteFails
                /\ \E n \in 0..3 :
                      SendOrFail(SubSeq(Welcome(p), 1, n), ReplyConnect(p, "Failed"))
          /\ EndLoop
          /\ UNCHANGED sstate
    /\ UNCHANGED <<ignored, sgen, strays>>

\* Mutants: IDs are not checked; the control stream's is not spared.
Free_Unchecked == StreamIDs \ {ControlStreamID}
Free_All == StreamIDs

\* streams.CreateIfAvailable takes the lowest ID that streams.Create accepts.
Free == {s \in StreamIDs : sstate[s] = "none"}

CreateError(p) == ReplyCreateStream(p, "_error", 0)

\* Mutants: the deferred reply is sent as well; none is.
NoneFree_RepliesTwice(p) ==
    /\ Free = {}
    /\ Send(<<CreateError(p), CreateError(p)>>)
    /\ UNCHANGED <<sstate, sgen, sloop>>
NoneFree_Silent(p) == Free = {} /\ UNCHANGED <<down, sstate, sgen, sloop>>

\* No ID is free: the client is told, and the connection stays.
NoneFree(p) ==
    /\ Free = {}
    /\ Send(<<CreateError(p)>>)
    /\ UNCHANGED <<sstate, sgen, sloop>>

NewStream(p) ==
    /\ Free # {}
    /\ LET s == Min(Free) IN
       /\ Send(<<ReplyCreateStream(p, "_result", s)>>)
       /\ sstate' = [sstate EXCEPT ![s] = "Inactive"]
       /\ sgen' = [sgen EXCEPT ![s] = p.tag]
       /\ UNCHANGED sloop

\* The user rejects the stream, or a reply cannot be written and the new stream
\* is deleted again: the deferred reply says so, if it can be written.
CreateFails(p) ==
    /\ Rejects \/ WriteFails
    /\ SendOrFail(<<>>, CreateError(p))
    /\ EndLoop
    /\ UNCHANGED <<sstate, sgen>>

OnCreateStream(p) ==
    /\ NoneFree(p) \/ NewStream(p) \/ CreateFails(p)
    /\ UNCHANGED <<ignored, strays>>

OnDeleteStream(p, s) ==
    /\ \/ /\ Rejects \/ s \in Free \/ s \notin StreamIDs
          /\ EndLoop
          /\ UNCHANGED <<sstate, sgen>>
       \/ /\ s \in StreamIDs \ Free
          /\ sstate' = [sstate EXCEPT ![s] = "none"]
          /\ sgen' = [sgen EXCEPT ![s] = 0]
          /\ UNCHANGED sloop
    /\ UNCHANGED <<down, ignored, strays>>

\* releaseStream, FCPublish and FCUnpublish are the user's affair, and are not
\* answered.
OnAnnounced == UserHandles /\ UNCHANGED <<down, sstate, ignored, sgen, strays>>

\* A message of an earlier stream with this ID.
Stray(p, kind) == strays' = IF p.tag = sgen[p.sid] THEN strays ELSE strays \cup {kind}

\* serverDataInactiveHandler: the client is notified of either outcome, and a
\* rejected publisher or player ends the connection.
OnPublishOrPlay(p, state) ==
    /\ \/ /\ Send(<<NotifyStatus(p, "status")>>)
          /\ sstate' = [sstate EXCEPT ![p.sid] = state]
          /\ UNCHANGED sloop
       \/ /\ \/ Rejects /\ SendOrFail(<<>>, NotifyStatus(p, "error"))
             \/ WriteFails /\ Send(<<>>)
          /\ EndLoop
          /\ UNCHANGED sstate
    /\ Stray(p, "command")
    /\ UNCHANGED <<ignored, sgen>>

\* serverDataPublishHandler gives audio to OnAudio, video to OnVideo and data
\* frames to OnSetDataFrame.
OnMedia(p) ==
    /\ IF p.id = 8 THEN Stray(p, "audio") ELSE UNCHANGED strays
    /\ UserHandles
    /\ UNCHANGED <<down, sstate, ignored, sgen>>

\* What the handler of the state does not know goes to the user's OnUnknown...
\* methods.
PassThrough == UserHandles /\ UNCHANGED <<down, sstate, ignored, sgen, strays>>

\* A body nobody can decode: UnknownDataBodyDecodeError and its like are ignored,
\* another error is not.
UnknownBody == UNCHANGED <<down, svars>>
Fails == EndLoop /\ UNCHANGED <<down, sstate, ignored, sgen, strays>>

-----------------------------------------------------------------------------
\* onCommand of the handler of the state.
HandleBody(p, body) ==
    LET state == sstate[p.sid] IN
    CASE state = "NotConnected" /\ body.type = "NetConnectionConnect" -> OnConnect(p)
      [] state = "Connected" /\ body.type = "NetConnectionCreateStream" ->
            OnCreateStream(p)
      [] state = "Connected" /\ body.type = "NetStreamDeleteStream" ->
            OnDeleteStream(p, body.StreamID)
      [] /\ state = "Connected"
         /\ body.type \in {"NetConnectionReleaseStream", "NetStreamFCPublish",
                          "NetStreamFCUnpublish"} -> OnAnnounced
      [] state = "Inactive" /\ body.type = "NetStreamPublish" ->
            OnPublishOrPlay(p, "Publish")
      [] state = "Inactive" /\ body.type = "NetStreamPlay" ->
            OnPublishOrPlay(p, "Play")
      [] OTHER -> PassThrough

\* streamHandler.handleCommand.  A server has no transactions that could be
\* answered.
HandleCommand(p, name, args) ==
    IF name \in {"_result", "_error"} THEN Fails
    ELSE IF name \notin DOMAIN CmdBodyDecoders THEN UnknownBody
    ELSE IF ~CmdBodyDecodes(name, args) THEN Fails
    ELSE HandleBody(p, CmdBody(name, args))

\* streamHandler.handleData, and onData.
HandleData(p, name) ==
    IF name \notin DataBodyDecoders THEN UnknownBody
    ELSE IF sstate[p.sid] = "Publish" THEN OnMedia(p) ELSE PassThrough

\* StreamControlState: a size beyond the configured maximum is an error.
SetSize(ok) == IF ok THEN UNCHANGED <<down, svars>> ELSE Fails

\* streamHandler.Handle, and onMessage.
Handle(p, m) ==
    CASE m.type = "CommandMessage" -> HandleCommand(p, m.CommandName, m.Body)
      [] m.type = "DataMessage" -> HandleData(p, m.Name)
      [] m.type = "SetChunkSize" ->
            SetSize(Min({m.ChunkSize, ChunkSizeLimit}) <= MaxChunkSize)
      [] m.type = "WinAckSize" -> SetSize(m.Size <= MaxAckWindowSize)
      [] /\ m.type \in {"AudioMessage", "VideoMessage"}
         /\ sstate[p.sid] = "Publish" -> OnMedia(p)
      [] OTHER -> PassThrough

\* Conn.handleMessage for a message stream that is not there.
OnNoStream ==
    /\ IF Ignore /\ ignored < Threshold
       THEN ignored' = ignored + 1 /\ UNCHANGED sloop
       ELSE EndLoop /\ UNCHANGED ignored
    /\ UNCHANGED <<down, sstate, sgen, strays>>

\* One turn of runHandleMessageLoop, for the i-th message on its way.
ServerHandle(i) ==
    /\ sloop = "running"
    /\ i \in Arriving(up)
    /\ up' = RemoveAt(up, i)
    /\ \/ sstate[up[i].sid] # "none" /\ Handle(up[i], Message(up[i]))
       \/ sstate[up[i].sid] = "none" /\ OnNoStream
    /\ UNCHANGED <<workload, closed>>

\* The transport is closed and Read fails, with or without what was in transit.
ServerReadFails ==
    /\ sloop = "running" /\ closed
    /\ EndLoop
    /\ UNCHANGED <<workload, up, down, closed, sstate, ignored, sgen, strays>>

\* Server.handleConn closes the connection when the loop has ended.
ServerCloses ==
    /\ sloop = "ended" /\ ~closed
    /\ closed' = TRUE
    /\ UNCHANGED <<workload, up, down, svars>>

\* A user of the server writes to a player (Conn.Write), whatever has become of
\* the stream by the time the message arrives.  Bound: one such message at a time.
ServerWrites(s, kind) ==
    /\ sstate[s] = "Play" /\ ~closed
    /\ \A i \in DOMAIN down : down[i].sid = ControlStreamID \/ CommandName(down[i]) = "onStatus"
    /\ Send(<<Packet(s, UserMessage(kind), sgen[s])>>)
    /\ UNCHANGED <<workload, up, closed, svars>>

ServerNext == \/ \E i \in DOMAIN up : ServerHandle(i)
              \/ ServerReadFails \/ ServerCloses
              \/ \E s \in StreamIDs, kind \in workload.server : ServerWrites(s, kind)
=============================================================================
