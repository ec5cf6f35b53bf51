------------------------------ MODULE Accepting ------------------------------
(***************************************************************************)
(* A server that accepts connections and is closed (server.go), and the    *)
(* handshake every connection starts with, on the server's side            *)
(* (serverConn.Serve, HandshakeWithClient) and on the client's             *)
(* (newClientConnWithSetup, HandshakeWithServer).                          *)
(*                                                                         *)
(* A program counter names the packet its side deals with next.  The       *)
(* transport holds a few packets in either direction; a Write blocks while *)
(* it is full, and both sides write before they read.                      *)
(***************************************************************************)
EXTENDS HandshakePackets, Sequences

CONSTANTS
    Conns,             \* connections clients may open
    Listeners,         \* listeners, each with a goroutine that calls Serve
    None,              \* no listener
    Sums,              \* sums of four bytes, at the start of a block
    Buffer,            \* packets the transport holds in one direction
    SkipClient,        \* SkipHandshakeVerification of library clients
    SkipServer         \* SkipHandshakeVerification of the server

ASSUME SumsAssumption == Sums \subseteq 0..1020 /\ Sums # {}
ASSUME BufferAssumption == Buffer \in Nat \ {0}
ASSUME SkipAssumption == {SkipClient, SkipServer} \subseteq BOOLEAN
ASSUME NamesAssumption == None \notin Listeners /\ NoScheme \notin Schemes

VARIABLES
    listener,          \* Server.listener
    closed,            \* doneCh is closed
    listening,         \* the listeners that are open
    serve,             \* listener -> where its Serve is
    backlog,           \* connection -> the listener that has it, or None
    open,              \* connection -> its transport is open
    toServer, toClient,\* connection -> packets in transit
    client,            \* connection -> where the client is
    server,            \* connection -> where handleConn is
    hello,             \* connection -> the client's kind and its C1
    got,               \* connection -> packets the client has read
    had,               \* connection -> packets the server has read
    s1                 \* connection -> the server's S1 and its scheme

listenVars == <<listener, closed, listening, serve>>
connVars == <<backlog, open, toServer, toClient, client, server, hello, got, had, s1>>
vars == <<listenVars, connVars>>

AnySums == [Schemes -> Sums]

Init ==
    /\ listener = None /\ closed = FALSE /\ listening = Listeners
    /\ serve = [l \in Listeners |-> "idle"]
    /\ backlog = [c \in Conns |-> None]
    /\ open = [c \in Conns |-> FALSE]
    /\ toServer = [c \in Conns |-> <<>>] /\ toClient = [c \in Conns |-> <<>>]
    /\ client = [c \in Conns |-> "idle"] /\ server = [c \in Conns |-> "none"]
    /\ hello = [c \in Conns |-> None]
    /\ got = [c \in Conns |-> <<>>] /\ had = [c \in Conns |-> <<>>]
    /\ s1 = [c \in Conns |-> None]

-----------------------------------------------------------------------------
(* Server.Serve and Server.Close *)

\* registerListener: one listener, once.
Register(l) ==
    /\ serve[l] = "idle"
    /\ IF listener = None
       THEN listener' = l /\ serve' = [serve EXCEPT ![l] = "accept"]
       ELSE serve' = [serve EXCEPT ![l] = "Already served"] /\ UNCHANGED listener
    /\ UNCHANGED <<closed, listening, connVars>>

\* Accept, and the goroutine for handleConn.
Accept(l, c) ==
    /\ serve[l] = "accept" /\ l \in listening /\ backlog[c] = l
    /\ backlog' = [backlog EXCEPT ![c] = None]
    /\ server' = [server EXCEPT ![c] = "C0"]
    /\ UNCHANGED <<listenVars, open, toServer, toClient, client, hello, got, had, s1>>

\* Accept fails, for a moment or because the listener is closed.
AcceptFails(l) ==
    /\ serve[l] = "accept"
    /\ serve' = [serve EXCEPT ![l] = "check"]
    /\ UNCHANGED <<listener, closed, listening, connVars>>

\* What is left in a listener's backlog is reset with it.
CloseListener(l) ==
    /\ listening' = listening \ {l}
    /\ open' = [c \in Conns |-> open[c] /\ backlog[c] # l]

\* Mutant: every failure of Accept is taken for a passing one.
CheckDone_Continues(l) ==
    /\ serve[l] = "check"
    /\ serve' = [serve EXCEPT ![l] = "accept"]
    /\ UNCHANGED <<listener, closed, listening, connVars>>

\* Serve asks whether the server is closed, and its deferred l.Close().
CheckDone(l) ==
    /\ serve[l] = "check"
    /\ \/ /\ closed
          /\ serve' = [serve EXCEPT ![l] = "ErrClosed"]
          /\ CloseListener(l)
       \/ /\ ~closed
          /\ serve' = [serve EXCEPT ![l] = "accept"]
          /\ UNCHANGED <<listening, open>>
    /\ UNCHANGED <<listener, closed, backlog, toServer, toClient, client, server,
                   hello, got, had, s1>>

Close ==
    /\ ~closed /\ closed' = TRUE
    /\ IF listener = None THEN UNCHANGED <<listening, open>> ELSE CloseListener(listener)
    /\ UNCHANGED <<listener, serve, backlog, toServer, toClient, client, server,
                   hello, got, had, s1>>

-----------------------------------------------------------------------------
(* The client *)

ClientGoes(c, to) == client' = [client EXCEPT ![c] = to]

\* Dial: the transport is there as soon as the listener has it.
Dial(c) ==
    /\ client[c] = "idle"
    /\ \E l \in listening : backlog' = [backlog EXCEPT ![c] = l]
    /\ \E who \in ClientKinds : \E c1 \in HellosOf(who, AnySums) :
          hello' = [hello EXCEPT ![c] = [who |-> who, c1 |-> c1]]
    /\ open' = [open EXCEPT ![c] = TRUE]
    /\ ClientGoes(c, "C0")
    /\ UNCHANGED <<listenVars, toServer, toClient, server, got, had, s1>>

ClientSends(c, p) ==
    /\ open[c] /\ Len(toServer[c]) < Buffer
    /\ toServer' = [toServer EXCEPT ![c] = Append(@, p)]

\* C0 and C1
ClientGreets(c) ==
    /\ \/ client[c] = "C0" /\ ClientSends(c, Plain("C0")) /\ ClientGoes(c, "C1")
       \/ client[c] = "C1" /\ ClientSends(c, hello[c].c1) /\ ClientGoes(c, "S0")
    /\ UNCHANGED <<listenVars, backlog, open, toClient, server, hello, got, had, s1>>

\* S0, S1 and S2
ClientReads(c) ==
    /\ toClient[c] # <<>>
    /\ got' = [got EXCEPT ![c] = Append(@, Head(toClient[c]))]
    /\ toClient' = [toClient EXCEPT ![c] = Tail(@)]
    /\ \/ client[c] = "S0" /\ ClientGoes(c, "S1")
       \/ client[c] = "S1" /\ ClientGoes(c, "S2")
       \/ client[c] = "S2" /\ ClientGoes(c, "C2")
    /\ UNCHANGED <<listenVars, backlog, open, toServer, server, hello, had, s1>>

\* C2, and only then the check of S2.
ClientVerifies(c) ==
    /\ client[c] = "C2"
    /\ LET h == hello[c] IN
       /\ ClientSends(c, MadeC2(h.who, h.c1, got[c][2]))
       /\ ClientGoes(c, IF \/ SkipClient /\ h.who = "library"
                           \/ AcceptsS2(h.who, h.c1, got[c][2], got[c][3])
                        THEN "running" ELSE "rejected")
    /\ UNCHANGED <<listenVars, backlog, open, toClient, server, hello, got, had, s1>>

\* The first chunk of the session, bound to one.
ClientWrites(c) ==
    /\ client[c] = "running"
    /\ ClientSends(c, Plain("chunk"))
    /\ ClientGoes(c, "written")
    /\ UNCHANGED <<listenVars, backlog, open, toClient, server, hello, got, had, s1>>

ClientActive(c) == client[c] \notin {"idle", "closed"}

\* The transport has failed; or the user closes, or the client is gone.
ClientCloses(c) ==
    /\ ClientActive(c)
    /\ ClientGoes(c, "closed")
    /\ open' = [open EXCEPT ![c] = FALSE]
    /\ UNCHANGED <<listenVars, backlog, toServer, toClient, server, hello, got, had, s1>>

-----------------------------------------------------------------------------
(* Server.handleConn and serverConn.Serve *)

ServerGoes(c, to) == server' = [server EXCEPT ![c] = to]

ServerTakes(c) ==
    /\ toServer[c] # <<>>
    /\ had' = [had EXCEPT ![c] = Append(@, Head(toServer[c]))]
    /\ toServer' = [toServer EXCEPT ![c] = Tail(@)]

ServerSends(c, p) ==
    /\ open[c] /\ Len(toClient[c]) < Buffer
    /\ toClient' = [toClient EXCEPT ![c] = Append(@, p)]

\* C0 and C1; C1 decides on the form of the handshake.
ServerReads(c) ==
    /\ ServerTakes(c)
    /\ \/ /\ server[c] = "C0"
          /\ ServerGoes(c, "C1")
          /\ UNCHANGED s1
       \/ /\ server[c] = "C1"
          /\ LET scheme == SchemeOf(Head(toServer[c])) IN
             \E sums \in AnySums :
                s1' = [s1 EXCEPT ![c] = [scheme |-> scheme,
                                         packet |-> MadeS1(scheme, sums)]]
          /\ ServerGoes(c, "S0")
    /\ UNCHANGED <<listenVars, backlog, open, toClient, client, hello, got>>

\* Mutant: S2 is put before S1.
ServerAnswers_Swapped(c) ==
    /\ \/ server[c] = "S0" /\ ServerSends(c, Plain("S0")) /\ ServerGoes(c, "S1")
       \/ server[c] = "S1" /\ ServerSends(c, MadeS2(s1[c].scheme)) /\ ServerGoes(c, "S2")
       \/ server[c] = "S2" /\ ServerSends(c, s1[c].packet) /\ ServerGoes(c, "C2")
    /\ UNCHANGED <<listenVars, backlog, open, toServer, client, hello, got, had, s1>>

\* Mutant: S2 is forgotten.
ServerAnswers_Short(c) ==
    /\ \/ server[c] = "S0" /\ ServerSends(c, Plain("S0")) /\ ServerGoes(c, "S1")
       \/ server[c] = "S1" /\ ServerSends(c, s1[c].packet) /\ ServerGoes(c, "C2")
    /\ UNCHANGED <<listenVars, backlog, open, toServer, client, hello, got, had, s1>>

\* S0, S1 and S2, in one Write.
ServerAnswers(c) ==
    /\ \/ server[c] = "S0" /\ ServerSends(c, Plain("S0")) /\ ServerGoes(c, "S1")
       \/ server[c] = "S1" /\ ServerSends(c, s1[c].packet) /\ ServerGoes(c, "S2")
       \/ server[c] = "S2" /\ ServerSends(c, MadeS2(s1[c].scheme)) /\ ServerGoes(c, "C2")
    /\ UNCHANGED <<listenVars, backlog, open, toServer, client, hello, got, had, s1>>

\* C2 ends the handshake; what follows is the message loop's.
ServerVerifies(c) ==
    /\ server[c] = "C2"
    /\ ServerTakes(c)
    /\ ServerGoes(c, IF SkipServer \/ AcceptsC2(s1[c].scheme, Head(toServer[c]))
                     THEN "serving" ELSE "rejected")
    /\ UNCHANGED <<listenVars, backlog, open, toClient, client, hello, got, s1>>

ServerHandles(c) ==
    /\ server[c] = "serving" /\ ServerTakes(c)
    /\ UNCHANGED <<listenVars, backlog, open, toClient, client, server, hello, got, s1>>

\* Mutant: a failed transport is noticed by the message loop only.
ServerBreaks_Late(c) ==
    /\ server[c] = "serving"
    /\ ~open[c]
    /\ ServerGoes(c, "broken")
    /\ UNCHANGED <<listenVars, backlog, open, toServer, toClient, client, hello,
                   got, had, s1>>

\* A read or a write fails.
ServerBreaks(c) ==
    /\ server[c] \in {"C0", "C1", "S0", "S1", "S2", "C2", "serving"}
    /\ ~open[c]
    /\ ServerGoes(c, "broken")
    /\ UNCHANGED <<listenVars, backlog, open, toServer, toClient, client, hello,
                   got, had, s1>>

\* The deferred sc.Close() of handleConn.
ServerCloses(c) ==
    /\ server[c] \in {"broken", "rejected"}
    /\ ServerGoes(c, "closed")
    /\ open' = [open EXCEPT ![c] = FALSE]
    /\ UNCHANGED <<listenVars, backlog, toServer, toClient, client, hello, got, had, s1>>

-----------------------------------------------------------------------------
ServeStep(l) == Register(l) \/ (\E c \in Conns : Accept(l, c)) \/ AcceptFails(l)
                  \/ CheckDone(l)

ClientStep(c) == ClientGreets(c) \/ ClientReads(c) \/ ClientVerifies(c)

ServerStep(c) == ServerReads(c) \/ ServerAnswers(c) \/ ServerVerifies(c)
                   \/ ServerHandles(c) \/ ServerBreaks(c) \/ ServerCloses(c)

Next ==
    \/ Close
    \/ \E l \in Listeners : ServeStep(l)
    \/ \E c \in Conns : \/ Dial(c) \/ ClientStep(c) \/ ClientWrites(c)
                        \/ ClientCloses(c) \/ ServerStep(c)

Spec == Init /\ [][Next]_vars

\* Goroutines run; Accept on a closed listener fails.  A client of this library
\* goes on with its handshake, others may fall silent.
Fairness ==
    /\ \A l \in Listeners : WF_vars(CheckDone(l))
                              /\ WF_vars(l \notin listening /\ AcceptFails(l))
    /\ \A c \in Conns : /\ WF_vars(ServerStep(c))
                        /\ WF_vars(hello[c] # None /\ hello[c].who = "library"
                                     /\ ClientStep(c))

LiveSpec == Spec /\ Fairness

-----------------------------------------------------------------------------
InHandshake == {"C0", "C1", "S0", "S1", "S2", "C2"}

\* A digest lies in the data of one of the two blocks.
Placed(packet) == packet.signedBy = "nobody" \/ \E s \in Schemes : InBlock(packet.signedAt, s)

\* Every variable keeps its type, at most one Serve is in its accept loop, and
\* the digest of every packet lies within a block of the packet.
TypeOK ==
    /\ listener \in Listeners \cup {None} /\ closed \in BOOLEAN
    /\ listening \subseteq Listeners
    /\ \A l \in Listeners :
         /\ serve[l] \in {"idle", "accept", "check", "ErrClosed", "Already served"}
         /\ serve[l] \in {"accept", "check", "ErrClosed"} => l = listener
    /\ \A c \in Conns :
         /\ backlog[c] \in Listeners \cup {None} /\ open[c] \in BOOLEAN
         /\ client[c] \in InHandshake \cup {"idle", "running", "written", "rejected", "closed"}
         /\ server[c] \in InHandshake \cup {"none", "serving", "rejected", "broken", "closed"}
         /\ Len(toServer[c]) <= Buffer /\ Len(toClient[c]) <= Buffer
         /\ hello[c] # None => Placed(hello[c].c1)
         /\ s1[c] # None => Placed(s1[c].packet)

\* Both sides read the packets in the order they expect, and the handshake leaves
\* what follows it to the message loop.
InStep ==
    \A c \in Conns :
       /\ \A i \in DOMAIN had[c] : had[c][i].kind = <<"C0", "C1", "C2", "chunk">>[i]
       /\ \A i \in DOMAIN got[c] : got[c][i].kind = <<"S0", "S1", "S2">>[i]

\* A client that follows the protocol, simple or complex and under either scheme,
\* wherever its digest lies, is never rejected and never rejects the server; one
\* that does not echo is never served, unless verification is off.
HandshakesSucceed ==
    \A c \in Conns : hello[c] # None =>
       /\ hello[c].who # "wrong" => server[c] # "rejected" /\ client[c] # "rejected"
       /\ hello[c].who = "wrong" /\ server[c] = "serving" => SkipServer

\* A handler ends when its connection does, wherever the handshake was.
HandlersEnd ==
    \A c \in Conns : server[c] # "none" /\ ~open[c] ~> server[c] = "closed"

\* A handshake with a client of this library ends, however little the transport
\* holds: neither side waits for a packet the other sends only after its own.
HandshakesEnd ==
    \A c \in Conns :
       server[c] = "C0" /\ hello[c].who = "library" ~> server[c] \notin InHandshake

\* Serve returns once Close has closed its listener.
ServeReturns ==
    \A l \in Listeners :
       closed /\ l \notin listening ~> serve[l] \in {"ErrClosed", "Already served"}
=============================================================================
