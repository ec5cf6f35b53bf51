----------------------------- MODULE ClientConn -----------------------------
(***************************************************************************)
(* The client's end of a connection (client_conn.go, stream.go,            *)
(* transactions.go).  A user calls Connect, CreateStream and DeleteStream  *)
(* and writes on the streams it has created; calls that expect a reply     *)
(* wait for their transaction.  Another goroutine runs the message loop:   *)
(* it finds the transaction of a reply, gives it the reply and, in a step  *)
(* of its own, removes it.                                                 *)
(***************************************************************************)
EXTENDS SessionMessages

CONSTANTS
    Ignore, Threshold, \* IgnoreMessagesOnNotExistStream and its threshold
    Rejects,           \* may the user's handler return an error?
    WriteFails,        \* may Stream.Write fail (its context expires)?
    ChunkSizeLimit, MaxChunkSize, MaxAckWindowSize, \* as in ServerConn
    None

VARIABLES
    workload, up, down, closed, \* as in ServerConn
    chunkSize,    \* selfState.chunkSize, 0 for the default
    cstreams,     \* message stream -> call that created it, None if it is not there
    transactions, \* the transactions of the control stream
    resolving,    \* the transaction the loop has answered and not yet removed, or 0
    cloop,        \* startHandleMessageLoop: "running" or "ended"
    lastErr,      \* why the loop ended
    cignored,     \* ignoredMessages
    op,           \* the user's call: "idle", "Connect" or "CreateStream"
    tag,          \* history: number of the user's last call
    answer,       \* the reply given to the awaited transaction
    result,       \* what the last call returned
    connected     \* has Connect succeeded?

loopVars == <<resolving, cloop, lastErr, cignored>>
userVars == <<op, tag, result, connected>>
cvars == <<chunkSize, cstreams, transactions, answer, loopVars, userVars>>

ClientInit ==
    /\ chunkSize = 0
    /\ cstreams = [s \in StreamIDs |-> IF s = ControlStreamID THEN 0 ELSE None]
    /\ transactions = {} /\ resolving = 0
    /\ cloop = "running" /\ lastErr = "nil" /\ cignored = 0
    /\ op = "idle" /\ tag = 0 /\ answer = None /\ result = "nil"
    /\ connected = FALSE

-----------------------------------------------------------------------------
(* The user *)

Created == {s \in StreamIDs : cstreams[s] # None}

\* Stream.Write returns when the scheduler has the message.  On a transport
\* that is closed the message is lost, with or without an error.
Writes(packets) == up' = IF closed THEN up ELSE up \o packets
Write(p, ok) == \/ ok /\ Writes(<<p>>)
                \/ ~ok /\ (WriteFails \/ closed) /\ UNCHANGED up

NewCall == tag < workload.calls /\ op = "idle" /\ tag' = tag + 1

\* A call that controllable lets through, or not.
Controllable == lastErr = "nil" /\ ControlStreamID \in Created

\* transactions.Create, and the request after what goes "before" it.  If the
\* request cannot be written the transaction stays.
Ask(call, tid, name, body, before) ==
    \/ /\ ~Controllable
       /\ result' = "error"
       /\ UNCHANGED <<up, transactions, op>>
    \/ /\ Controllable /\ tid \in transactions
       /\ result' = "exists"
       /\ Writes(before)
       /\ UNCHANGED <<transactions, op>>
    \/ /\ Controllable /\ tid \notin transactions
       /\ transactions' = transactions \cup {tid}
       /\ \/ /\ Writes(Append(before, Command(ControlStreamID, name, tid,
                                            [type |-> body, Command |-> "preset"],
                                            tag')))
             /\ op' = call /\ result' = "nil"
          \/ /\ WriteFails \/ closed
             /\ Writes(before)
             /\ result' = "error" /\ UNCHANGED op

\* Users connect first and go on when the server has accepted: it answers no
\* other call before, and no second connect.
Connect ==
    /\ NewCall /\ ~connected
    /\ Ask("Connect", ConnectTransaction, "connect", "NetConnectionConnect", <<>>)
    /\ UNCHANGED <<workload, down, closed, chunkSize, cstreams, answer, loopVars,
                   connected>>

\* A new chunk size n is in use before it is announced, and stays in use if it
\* cannot be; n = 0 asks for no other size.
Announcement(n) == [type |-> "SetChunkSize", ChunkSize |-> n]
Changes(n) == Controllable /\ n \notin {0, chunkSize}

CreateStream(n) ==
    /\ NewCall /\ connected
    /\ chunkSize' = IF Changes(n) THEN n ELSE chunkSize
    /\ \/ /\ Changes(n) => Encodable(Announcement(n))
          /\ Ask("CreateStream", CreateStreamTransaction, "createStream",
                 "NetConnectionCreateStream",
                 IF Changes(n) THEN <<Packet(ControlStreamID, Announcement(n), 0)>>
                 ELSE <<>>)
       \/ /\ Changes(n) /\ (WriteFails \/ closed \/ ~Encodable(Announcement(n)))
          /\ result' = "error"
          /\ UNCHANGED <<up, transactions, op>>
    /\ UNCHANGED <<workload, down, closed, cstreams, answer, loopVars, connected>>

\* The reply has come: Connect is done, CreateStream adds the new stream.
Return ==
    /\ op # "idle" /\ answer # None
    /\ op' = "idle" /\ answer' = None
    /\ LET accepted == CommandName(answer) = "_result"
           args == Message(answer).Body
           s == DecodeBodyCreateStreamResult(args).StreamID
           added == /\ op = "CreateStream" /\ accepted
                    /\ CreateStreamResultDecodes(args) /\ s \notin Created
           agreed == op = "Connect" /\ ConnectResultDecodes(args) /\ accepted
       IN  /\ connected' = (connected \/ agreed)
           /\ cstreams' = IF added THEN [cstreams EXCEPT ![s] = answer.tag]
                          ELSE cstreams
           /\ result' = IF added \/ agreed THEN "nil" ELSE "rejected"
    /\ UNCHANGED <<workload, up, down, closed, chunkSize, transactions, loopVars, tag>>

DeleteCommand(s) ==
    Command(ControlStreamID, "deleteStream", 0,
            [type |-> "NetStreamDeleteStream", StreamID |-> s], tag')

\* Mutant: the stream is removed before the request is written.
DeleteStream_Early(s) ==
    /\ NewCall /\ connected /\ Controllable /\ s \in Created
    /\ \E ok \in BOOLEAN :
         /\ Write(DeleteCommand(s), ok)
         /\ result' = IF ok THEN "nil" ELSE "error"
    /\ cstreams' = [cstreams EXCEPT ![s] = None]
    /\ UNCHANGED <<workload, down, closed, chunkSize, transactions, answer, loopVars,
                   op, connected>>

\* The stream is removed only if the request has been written.
DeleteStream(s) ==
    /\ NewCall /\ connected /\ Controllable /\ s \in Created
    /\ \E ok \in BOOLEAN :
         /\ Write(DeleteCommand(s), ok)
         /\ cstreams' = IF ok THEN [cstreams EXCEPT ![s] = None] ELSE cstreams
         /\ result' = IF ok THEN "nil" ELSE "error"
    /\ UNCHANGED <<workload, down, closed, chunkSize, transactions, answer, loopVars,
                   op, connected>>

\* Stream.Publish, Stream.WriteDataMessage and Stream.Write.
WriteOn(s, kind) ==
    /\ NewCall /\ s \in Created
    /\ \E ok \in BOOLEAN :
         /\ Write(Packet(s, UserMessage(kind), cstreams[s]), ok)
         /\ result' = IF ok THEN "nil" ELSE "error"
    /\ UNCHANGED <<workload, down, closed, chunkSize, cstreams, transactions, answer,
                   loopVars, op, connected>>

\* Users write on the streams they have created.  The control stream is not given
\* to users of this library; other clients announce their streams on it.
UserWrites == \E s \in StreamIDs :
    \E kind \in IF s = ControlStreamID THEN workload.control ELSE workload.kinds :
       WriteOn(s, kind)

\* ClientConn.Close, by any goroutine.
Close ==
    /\ ~closed /\ closed' = TRUE
    /\ UNCHANGED <<workload, up, down, cvars>>

-----------------------------------------------------------------------------
(* The message loop *)

EndLoop(why) == cloop' = "ended" /\ lastErr' = why
Fails(why) == EndLoop(why) /\ UNCHANGED <<answer, resolving, cignored>>

\* Conn.handleMessage for a message stream that is not there.
OnNoStream ==
    IF Ignore /\ cignored < Threshold
    THEN cignored' = cignored + 1 /\ UNCHANGED <<answer, resolving, cloop, lastErr>>
    ELSE Fails("no stream")

\* handleCommand finds the transaction of the stream, and Reply wakes the caller
\* up.  Only the control stream has transactions.
OnReply(p, tid) ==
    IF p.sid = ControlStreamID /\ tid \in transactions
    THEN answer' = p /\ resolving' = tid /\ UNCHANGED <<cloop, lastErr, cignored>>
    ELSE Fails("unexpected reply")

\* UnknownDataBodyDecodeError and its like are ignored; onStatus is one.
UnknownBody == UNCHANGED <<answer, loopVars>>

\* StreamControlState: a size beyond the configured maximum is an error.
SetSize(ok) == IF ok THEN UNCHANGED <<answer, loopVars>> ELSE Fails("size")

\* clientControlNotConnectedHandler knows no message: it goes to the user.
PassThrough == UNCHANGED <<answer, loopVars>> \/ (Rejects /\ Fails("handler"))

\* The streams a client has created have no state handler: the call of its
\* method panics, and handleMessageLoop recovers.
NoHandler == Fails("panic")

\* streamHandler.Handle
Handle(p, m) ==
    CASE m.type = "CommandMessage" /\ m.CommandName \in {"_result", "_error"} ->
            OnReply(p, m.TransactionID)
      [] \/ m.type = "CommandMessage"
            /\ m.CommandName \notin DOMAIN CmdBodyDecoders \cup {"_result", "_error"}
         \/ m.type = "DataMessage" /\ m.Name \notin DataBodyDecoders -> UnknownBody
      [] /\ m.type = "CommandMessage" /\ m.CommandName \in DOMAIN CmdBodyDecoders
         /\ ~CmdBodyDecodes(m.CommandName, m.Body) -> Fails("body")
      [] m.type = "SetChunkSize" ->
            SetSize(Min({m.ChunkSize, ChunkSizeLimit}) <= MaxChunkSize)
      [] m.type = "WinAckSize" -> SetSize(m.Size <= MaxAckWindowSize)
      [] OTHER -> IF p.sid = ControlStreamID THEN PassThrough ELSE NoHandler

\* One turn of runHandleMessageLoop, for the i-th message on its way.
ClientHandle(i) ==
    /\ cloop = "running" /\ resolving = 0
    /\ i \in Arriving(down)
    /\ down' = RemoveAt(down, i)
    /\ \/ down[i].sid \in Created /\ Handle(down[i], Message(down[i]))
       \/ down[i].sid \notin Created /\ OnNoStream
    /\ UNCHANGED <<workload, up, closed, chunkSize, cstreams, transactions, userVars>>

\* transactions.Delete
Resolve ==
    /\ resolving # 0
    /\ transactions' = transactions \ {resolving} /\ resolving' = 0
    /\ UNCHANGED <<workload, up, down, closed, chunkSize, cstreams, answer, cloop,
                   lastErr, cignored, userVars>>

\* The transport is closed and Read fails.  After Close the loop may also find
\* the scheduler done and end without an error.
ClientReadFails ==
    /\ cloop = "running" /\ resolving = 0 /\ closed
    /\ EndLoop("closed") \/ EndLoop("nil")
    /\ UNCHANGED <<workload, up, down, closed, chunkSize, cstreams, transactions,
                   answer, resolving, cignored, userVars>>

ClientNext ==
    \/ Connect \/ Return \/ Close
    \/ \E n \in workload.sizes \cup {0} : CreateStream(n)
    \/ \E s \in StreamIDs : DeleteStream(s)
    \/ UserWrites \/ (\E i \in DOMAIN down : ClientHandle(i)) \/ Resolve \/ ClientReadFails
=============================================================================
