------------------------------- MODULE Session -------------------------------
(***************************************************************************)
(* A connection between a client and a server of this library: which       *)
(* message streams exist on either side, and whose reply a call gets.      *)
(***************************************************************************)
EXTENDS SessionMessages

CONSTANTS
    ClientIgnores, ServerIgnores, Threshold, Rejects,
    ClientWriteFails, ServerWriteFails,
    ChunkSizeLimit, MaxChunkSize, MaxAckWindowSize, None

\* What replies are made of: None is something else.
ReplyWords == {"null", "number", "string", "object", "_result", "_error", "preset",
               "Success", "Failed"}
ReplyPackets == [sid : Nat, id : Nat, data : Seq(Seq(ReplyWords \cup Nat)), tag : Nat]

ASSUME SwitchesAssumption ==
    /\ {ClientIgnores, ServerIgnores, Rejects} \subseteq BOOLEAN
    /\ {ClientWriteFails, ServerWriteFails} \subseteq BOOLEAN
    /\ {Threshold, ChunkSizeLimit, MaxChunkSize, MaxAckWindowSize} \subseteq Nat
    /\ MaxAckWindowSize <= Huge
    /\ None \notin Nat
    /\ None \notin ReplyPackets

VARIABLES workload, up, down, closed,
          sstate, sloop, ignored, sgen, strays,
          chunkSize, cstreams, transactions, resolving, cloop, lastErr, cignored, op,
          tag, answer, result, connected

Server == INSTANCE ServerConn WITH Ignore <- ServerIgnores,
                                   WriteFails <- ServerWriteFails
Client == INSTANCE ClientConn WITH Ignore <- ClientIgnores,
                                   WriteFails <- ClientWriteFails

svars == <<sstate, sloop, ignored, sgen, strays>>
cvars == <<chunkSize, cstreams, transactions, resolving, cloop, lastErr, cignored,
           op, tag, answer, result, connected>>
vars == <<workload, up, down, closed, svars, cvars>>

Init ==
    /\ workload \in Workloads
    /\ up = <<>> /\ down = <<>> /\ closed = FALSE
    /\ Server!ServerInit
    /\ Client!ClientInit

Next == \/ Server!ServerNext /\ UNCHANGED cvars
        \/ Client!ClientNext /\ UNCHANGED svars

Spec == Init /\ [][Next]_vars

\* Go runs every goroutine that can run: the two message loops and a caller
\* whose transaction is done; and the schedulers take turns, so that what was
\* sent first cannot be overtaken for ever.  Nothing makes users call or close.
Fairness ==
    /\ WF_vars(Server!ServerHandle(1) /\ UNCHANGED cvars)
    /\ WF_vars(Server!ServerReadFails /\ UNCHANGED cvars)
    /\ WF_vars(Server!ServerCloses /\ UNCHANGED cvars)
    /\ WF_vars(Client!ClientHandle(1) /\ UNCHANGED svars)
    /\ WF_vars(Client!Resolve /\ UNCHANGED svars)
    /\ WF_vars(Client!ClientReadFails /\ UNCHANGED svars)
    /\ WF_vars(Client!Return /\ UNCHANGED svars)

LiveSpec == Spec /\ Fairness

-----------------------------------------------------------------------------
States == {"none", "NotConnected", "Connected", "Inactive", "Publish", "Play"}

\* A packet either end can read, between streams that may exist.
WellFormed(p) == /\ p.sid \in StreamIDs /\ p.tag \in 0..workload.calls
                 /\ Decodable(p.id, p.data)

\* Every variable keeps its type and every message on its way can be decoded; the
\* control stream is either gone or in one of the two states of a control
\* stream, and no other stream ever is.
TypeOK ==
    /\ workload \in Workloads
    /\ \A i \in DOMAIN up : WellFormed(up[i])
    /\ \A i \in DOMAIN down : WellFormed(down[i])
    /\ sstate \in [StreamIDs -> States]
    /\ sstate[ControlStreamID] \in {"none", "NotConnected", "Connected"}
    /\ \A s \in StreamIDs \ {ControlStreamID} :
          sstate[s] \in {"none", "Inactive", "Publish", "Play"}
    /\ sloop \in {"running", "ended"} /\ cloop \in {"running", "ended"}
    /\ chunkSize \in workload.sizes \cup {0}
    /\ tag \in 0..workload.calls
    /\ cstreams \in [StreamIDs -> 0..workload.calls \cup {None}]
    /\ transactions \subseteq Transactions
    /\ resolving \in transactions \cup {0}
    /\ op \in {"idle", "Connect", "CreateStream"}
    /\ answer # None => WellFormed(answer)
    /\ strays \subseteq {"audio", "command"}
    /\ {closed, connected} \subseteq BOOLEAN

\* No request, reply or deletion is on its way.
Quiet ==
    /\ op = "idle" /\ ~closed
    /\ \A i \in DOMAIN up :
          CommandName(up[i]) \notin {"connect", "createStream", "deleteStream"}
    /\ \A i \in DOMAIN down : CommandName(down[i]) \notin {"_result", "_error"}

\* When nothing is under way the two ends have the same message streams, and a
\* stream of the client is the very one the server created for it: whatever
\* writes have failed, requests been rejected or IDs been used again.
StreamsAgree ==
    Quiet /\ sloop = "running" /\ cloop = "running" =>
       \A s \in StreamIDs :
          /\ sstate[s] # "none" <=> cstreams[s] # None
          /\ sstate[s] # "none" => sgen[s] = cstreams[s]

\* Connect and CreateStream use the same transaction IDs again and again, and
\* still nobody is given the reply to an earlier call.
OwnReply == answer # None => op # "idle" /\ answer.tag = tag

\* The client's message loop never ends on a reply nobody waits for.
RepliesExpected == lastErr # "unexpected reply"

\* Audio reaches OnAudio only on the published stream it was written for, never
\* on a later stream with the same ID: single chunks do not overtake each other.
NoStrayAudio == "audio" \notin strays

\* A publish or play command reaches the stream it was written for or none: it
\* can neither overtake the createStream nor follow the deleteStream that changes
\* whose ID it bears, because all commands share one chunk stream.
NoStrayCommand == "command" \notin strays

\* A call that waits for its reply gets it as long as the connection lives.
CallsReturn == op # "idle" ~> (op = "idle" \/ cloop = "ended")

\* CreateStream called again by the one user who has just got its reply finds
\* the transaction of the earlier call gone, if all writes have succeeded.
TransactionFree == ~closed => result # "exists"
=============================================================================
