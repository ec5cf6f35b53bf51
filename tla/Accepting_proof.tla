--------------------------- MODULE Accepting_proof ---------------------------
(***************************************************************************)
(* Theorems about Accepting, for every number of connections and           *)
(* listeners, every capacity of the transport and every sums.              *)
(*                                                                         *)
(* What a side has read, followed by what is in transit to it, is what the *)
(* other side has sent.  The inductive invariant says that this is always  *)
(* a prefix of the packets the sender has to send, and how long the prefix *)
(* is at every place of the sender's code.                                 *)
(*                                                                         *)
(* Before that, where the digests of a complex handshake lie, for every    *)
(* sum of four bytes: digestPos indexes c1[pos:pos+32] without a check,    *)
(* and the digest must not lie over the bytes that say where it is.        *)
(***************************************************************************)
EXTENDS Accepting, TLAPS

-----------------------------------------------------------------------------
(* The place of the digests *)

Sum == 0..1020   \* four bytes

\* The two schemes differ in where the digest block starts.
LEMMA SchemeCases ==
    \A s \in Schemes : \/ s = 0 /\ DigestBlockStart(s) = 8
                       \/ s = 1 /\ DigestBlockStart(s) = 772
  BY DEF Schemes, DigestBlockStart

\* The offset leaves room for a digest behind it.
LEMMA OffsetRange ==
    \A sum \in Sum : (sum % (760 - DigestLength)) \in 0..727
  BY DEF Sum, DigestLength

\* digestPos is a number.
LEMMA DigestPosType ==
    \A sum \in Sum, s \in Schemes : DigestPos(sum, s) \in Int
<1> TAKE sum \in Sum, s \in Schemes
<1> DEFINE off == sum % (760 - DigestLength)
<1>1. off \in 0..727
  BY OffsetRange
<1>2. DigestPos(sum, s) = DigestBlockStart(s) + 4 + off
  BY DEF DigestPos
<1>3. DigestBlockStart(s) \in Int
  BY SchemeCases
<1> HIDE DEF off
<1>4. QED
  BY <1>1, <1>2, <1>3

\* digestPos never leads out of the data of its block, whatever the client put
\* into the block's first four bytes.
THEOREM DigestStaysInBlock ==
    \A sum \in Sum, s \in Schemes : InBlock(DigestPos(sum, s), s)
<1> SUFFICES ASSUME NEW sum \in Sum, NEW s \in Schemes
             PROVE  InBlock(DigestPos(sum, s), s)
  OBVIOUS
<1> DEFINE off == sum % (760 - DigestLength)
<1>1. off \in 0..727
  BY OffsetRange
<1>2. DigestPos(sum, s) = DigestBlockStart(s) + 4 + off
  BY DEF DigestPos
<1> HIDE DEF off
<1>3. QED
  BY <1>1, <1>2, SchemeCases DEF InBlock, DigestLength, BlockLength

\* A digest within its block lies within the packet, and over none of the bytes
\* that give the place of a digest, in either block: to write it, as
\* buildComplexS1 does after it has chosen the place, moves no digest.
THEOREM DigestMovesNone ==
    ASSUME NEW at \in Int, NEW s \in Schemes, InBlock(at, s)
    PROVE  /\ 0 <= at /\ at + DigestLength <= PacketLength
           /\ \A t \in Schemes : \/ at + DigestLength <= DigestBlockStart(t)
                                 \/ DigestBlockStart(t) + 4 <= at
<1>1. 0 <= at /\ at + DigestLength <= PacketLength
  BY SchemeCases DEF InBlock, DigestLength, BlockLength, PacketLength
<1>2. ASSUME NEW t \in Schemes
      PROVE  \/ at + DigestLength <= DigestBlockStart(t)
             \/ DigestBlockStart(t) + 4 <= at
  BY SchemeCases DEF InBlock, DigestLength, BlockLength
<1>3. QED
  BY <1>1, <1>2

\* The server's S1 can be read: whichever scheme the server answers in, and
\* whatever its random bytes, its digest lies where digestPos looks for it.
THEOREM S1DigestFound ==
    ASSUME NEW sums \in [Schemes -> Sum], NEW s \in Schemes, s # NoScheme
    PROVE  LET x == MadeS1(s, sums) IN x.signedAt = DigestPos(x.sums[s], s)
<1> DEFINE x == MadeS1(s, sums)
<1>1. x.sums = [sums EXCEPT ![s] = 0] /\ x.signedAt = DigestBlockStart(s) + 4
  BY DEF MadeS1, Hello
<1>2. x.sums[s] = 0
  BY <1>1
<1>3. DigestPos(0, s) = DigestBlockStart(s) + 4
  <2>1. 0 % (760 - DigestLength) = 0
    BY DEF DigestLength
  <2>2. DigestBlockStart(s) \in Int
    BY SchemeCases
  <2>3. QED
    BY <2>1, <2>2 DEF DigestPos
<1>4. QED
  BY <1>1, <1>2, <1>3

\* A client that signs under a scheme is answered under it: the first scheme is
\* taken for the second only if the digest lies where both look for it, and no
\* place does.
THEOREM SignedSchemeIsFound ==
    ASSUME NEW sums \in [Schemes -> Sum], NEW s \in Schemes, NEW kind, NEW version,
           version # 0
    PROVE  SchemeOf(Hello(kind, version, sums, "fp", DigestPos(sums[s], s))) = s
<1> DEFINE c1 == Hello(kind, version, sums, "fp", DigestPos(sums[s], s))
<1>1. c1.version = version /\ c1.sums = sums /\ c1.signedBy = "fp"
        /\ c1.signedAt = DigestPos(sums[s], s)
  BY DEF Hello
<1>2. ValidC1(c1, s)
  BY <1>1 DEF ValidC1
<1>3. ASSUME s = 1 PROVE ~ValidC1(c1, 0)
  <2>1. InBlock(DigestPos(sums[0], 0), 0) /\ InBlock(DigestPos(sums[1], 1), 1)
    BY DigestStaysInBlock DEF Schemes
  <2>2. DigestBlockStart(0) = 8 /\ DigestBlockStart(1) = 772
    BY DEF DigestBlockStart
  <2>3. /\ DigestPos(sums[0], 0) \in Int
        /\ DigestPos(sums[1], 1) \in Int
    <3>1. sums[0] \in Sum /\ sums[1] \in Sum
      BY DEF Schemes
    <3>2. QED
      BY <3>1, DigestPosType DEF Schemes
  <2>4. DigestPos(sums[0], 0) # DigestPos(sums[1], 1)
    BY <2>1, <2>2, <2>3 DEF InBlock, DigestLength, BlockLength
  <2>5. QED
    BY <1>1, <1>3, <2>4 DEF ValidC1
<1>4. s = 0 \/ s = 1
  BY DEF Schemes
<1>5. QED
  BY <1>1, <1>2, <1>3, <1>4 DEF SchemeOf

-----------------------------------------------------------------------------
(* The inductive invariant *)

ToServerPacket ==
    {Plain("C0"), Plain("chunk"), Echo("C2", "S1"), Proof("C2", "S1"),
     Echo("C2", "nothing")}
      \cup UNION {HellosOf(who, AnySums) : who \in ClientKinds}

ToClientPacket ==
    {Plain("S0"), Echo("S2", "C1"), Proof("S2", "C1")}
      \cup {MadeS1(scheme, sums) : scheme \in Schemes \cup {NoScheme}, sums \in AnySums}

ClientPlace == InHandshake \cup {"idle", "running", "written", "rejected", "closed"}
ServerPlace == InHandshake \cup {"none", "serving", "rejected", "broken", "closed"}

\* At most one Serve accepts.
Listening ==
    /\ listener \in Listeners \cup {None} /\ closed \in BOOLEAN
    /\ listening \subseteq Listeners
    /\ serve \in [Listeners -> {"idle", "accept", "check", "ErrClosed", "Already served"}]
    /\ \A l \in Listeners :
         serve[l] \in {"accept", "check", "ErrClosed"} => l = listener

\* The other variables are functions on the connections.
Shape ==
    /\ backlog \in [Conns -> Listeners \cup {None}]
    /\ open \in [Conns -> BOOLEAN]
    /\ toServer \in [Conns -> Seq(ToServerPacket)]
    /\ toClient \in [Conns -> Seq(ToClientPacket)]
    /\ had \in [Conns -> Seq(ToServerPacket)]
    /\ got \in [Conns -> Seq(ToClientPacket)]
    /\ client \in [Conns -> ClientPlace] /\ server \in [Conns -> ServerPlace]
    /\ hello = [c \in Conns |-> hello[c]]
    /\ s1 = [c \in Conns |-> s1[c]]

\* All the client has sent, and all the server has.
Sent(c) == had[c] \o toServer[c]
Answered(c) == got[c] \o toClient[c]

\* The packets either side has to send.
ClientPacket(c, i) ==
    IF i = 1 THEN Plain("C0")
    ELSE IF i = 2 THEN hello[c].c1
    ELSE IF i = 3 THEN MadeC2(hello[c].who, hello[c].c1, s1[c].packet)
    ELSE Plain("chunk")

ServerPacket(c, i) ==
    IF i = 1 THEN Plain("S0") ELSE IF i = 2 THEN s1[c].packet ELSE MadeS2(s1[c].scheme)

\* Before it dials a client has done nothing, and nobody knows of it.
Dialled(c) ==
    IF client[c] = "idle"
    THEN server[c] = "none" /\ backlog[c] = None /\ hello[c] = None
    ELSE /\ hello[c].who \in ClientKinds
         /\ hello[c].c1 \in HellosOf(hello[c].who, AnySums)

\* A handler starts once, when Accept takes the connection off the backlog.
Waiting(c) == backlog[c] # None => server[c] = "none"

\* The client is where its code is after that many packets.
ClientAt(c, sent, read) ==
    /\ sent <= 4 /\ read <= 3 /\ (sent >= 3 => read = 3)
    /\ client[c] \in {"idle", "C0"} => sent = 0 /\ read = 0
    /\ client[c] = "C1" => sent = 1 /\ read = 0
    /\ client[c] = "S0" => sent = 2 /\ read = 0
    /\ client[c] = "S1" => sent = 2 /\ read = 1
    /\ client[c] = "S2" => sent = 2 /\ read = 2
    /\ client[c] = "C2" => sent = 2 /\ read = 3
    /\ client[c] \in {"running", "rejected"} => sent = 3
    /\ client[c] = "written" => sent = 4

\* And so is the handler.
ServerAt(c, read, sent) ==
    /\ sent <= 3 /\ (sent > 0 => read >= 2)
    /\ server[c] \in {"none", "C0"} => read = 0 /\ sent = 0
    /\ server[c] = "C1" => read = 1 /\ sent = 0
    /\ server[c] = "S0" => read = 2 /\ sent = 0
    /\ server[c] = "S1" => read = 2 /\ sent = 1
    /\ server[c] = "S2" => read = 2 /\ sent = 2
    /\ server[c] = "C2" => read = 2 /\ sent = 3
    /\ server[c] = "serving" => read >= 3
    /\ server[c] = "rejected" => read = 3

AtPlace(c) ==
    /\ ClientAt(c, Len(Sent(c)), Len(got[c]))
    /\ ServerAt(c, Len(had[c]), Len(Answered(c)))

\* Either side has sent a prefix of its packets.
InOrder(c) ==
    /\ \A i \in 1..Len(Sent(c)) : Sent(c)[i] = ClientPacket(c, i)
    /\ \A i \in 1..Len(Answered(c)) : Answered(c)[i] = ServerPacket(c, i)

\* S1 answers C1, in the scheme C1 is signed under.
AnswersC1(c) ==
    IF Len(had[c]) < 2
    THEN s1[c] = None
    ELSE /\ s1[c].scheme = SchemeOf(hello[c].c1)
         /\ \E sums \in AnySums : s1[c].packet = MadeS1(s1[c].scheme, sums)

\* The transport holds no more than it can, and the outcome is the right one.
Bounded(c) == Len(toServer[c]) <= Buffer /\ Len(toClient[c]) <= Buffer

Succeeds(c) ==
    hello[c] # None =>
       /\ hello[c].who # "wrong" => server[c] # "rejected" /\ client[c] # "rejected"
       /\ hello[c].who = "wrong" /\ server[c] = "serving" => SkipServer

ConnInv(c) ==
    /\ Dialled(c) /\ Waiting(c) /\ AtPlace(c) /\ InOrder(c) /\ AnswersC1(c)
    /\ Bounded(c) /\ Succeeds(c)

IInv == Listening /\ Shape /\ \A c \in Conns : ConnInv(c)

-----------------------------------------------------------------------------
(* The transport *)

\* A packet moves from the transport to the packets read, and those sent stay
\* what they are.
LEMMA ReadOne ==
    ASSUME NEW S, NEW s \in Seq(S), NEW t \in Seq(S), t # <<>>
    PROVE  /\ Append(s, Head(t)) \in Seq(S) /\ Tail(t) \in Seq(S)
           /\ Append(s, Head(t)) \o Tail(t) = s \o t
           /\ Len(Append(s, Head(t))) = Len(s) + 1
           /\ Len(Tail(t)) = Len(t) - 1
           /\ Head(t) = (s \o t)[Len(s) + 1]
           /\ Head(t) \in S
           /\ Len(s) + 1 <= Len(s \o t)
<1>1. Head(t) = t[1] /\ Len(t) \in Nat \ {0} /\ Len(s) \in Nat /\ Head(t) \in S
  OBVIOUS
<1>2. /\ Append(s, Head(t)) \in Seq(S) /\ Tail(t) \in Seq(S)
      /\ Len(Append(s, Head(t))) = Len(s) + 1 /\ Len(Tail(t)) = Len(t) - 1
  BY <1>1
<1>3. Append(s, Head(t)) \o Tail(t) = s \o t
  <2> DEFINE a == Append(s, Head(t)) \o Tail(t)
             b == s \o t
  <2>1. a \in Seq(S) /\ b \in Seq(S) /\ Len(a) = Len(s) + Len(t) /\ Len(b) = Len(s) + Len(t)
    BY <1>1, <1>2
  <2>2. ASSUME NEW i \in 1..Len(s) + Len(t) PROVE a[i] = b[i]
    <3>1. CASE i <= Len(s)
      BY <1>1, <1>2, <3>1
    <3>2. CASE i = Len(s) + 1
      BY <1>1, <1>2, <3>2
    <3>3. CASE i > Len(s) + 1
      BY <1>1, <1>2, <3>3
    <3>4. QED
      BY <1>1, <3>1, <3>2, <3>3
  <2> HIDE DEF a, b
  <2>3. a = b
    BY <1>1, <2>1, <2>2
  <2>4. QED
    BY <2>3 DEF a, b
<1>4. Head(t) = (s \o t)[Len(s) + 1] /\ Len(s) + 1 <= Len(s \o t)
  BY <1>1
<1>5. QED
  BY <1>1, <1>2, <1>3, <1>4

\* A packet that is written follows those sent before.
LEMMA SendOne ==
    ASSUME NEW S, NEW s \in Seq(S), NEW t \in Seq(S), NEW x \in S
    PROVE  /\ Append(t, x) \in Seq(S)
           /\ Len(Append(t, x)) = Len(t) + 1
           /\ Len(s \o Append(t, x)) = Len(s \o t) + 1
           /\ (s \o Append(t, x))[Len(s \o t) + 1] = x
           /\ \A i \in 1..Len(s \o t) : (s \o Append(t, x))[i] = (s \o t)[i]
<1>1. Len(s) \in Nat /\ Len(t) \in Nat
  OBVIOUS
<1>2. /\ Append(t, x) \in Seq(S) /\ Len(Append(t, x)) = Len(t) + 1
      /\ Append(t, x)[Len(t) + 1] = x
  BY <1>1
<1>3. \A i \in 1..Len(t) : Append(t, x)[i] = t[i]
  BY <1>1
<1> DEFINE u == Append(t, x)
<1> HIDE DEF u
<1>4. u \in Seq(S) /\ Len(u) = Len(t) + 1 /\ u[Len(t) + 1] = x
  BY <1>2 DEF u
<1>5. \A i \in 1..Len(t) : u[i] = t[i]
  BY <1>3 DEF u
<1>6. Len(s \o t) = Len(s) + Len(t) /\ Len(s \o u) = Len(s) + Len(t) + 1
  BY <1>1, <1>4
<1>7. (s \o u)[Len(s) + Len(t) + 1] = x
  BY <1>1, <1>4
<1>8. ASSUME NEW i \in 1..Len(s) + Len(t) PROVE (s \o u)[i] = (s \o t)[i]
  <2>1. CASE i <= Len(s)
    BY <1>1, <1>4, <2>1
  <2>2. CASE i > Len(s)
    <3>1. (s \o t)[i] = t[i - Len(s)] /\ (s \o u)[i] = u[i - Len(s)]
      BY <1>1, <1>4, <2>2
    <3>2. i - Len(s) \in 1..Len(t)
      BY <1>1, <2>2
    <3> QED
      BY <1>5, <3>1, <3>2
  <2>3. i <= Len(s) \/ i > Len(s)
    BY <1>1
  <2> QED
    BY <2>1, <2>2, <2>3, Zenon
<1>9. \A i \in 1..Len(s \o t) : (s \o u)[i] = (s \o t)[i]
  BY <1>6, <1>8, Zenon
<1>10. Len(s \o u) = Len(s \o t) + 1 /\ (s \o u)[Len(s \o t) + 1] = x
  BY <1>6, <1>7, Zenon
<1>11. QED
  BY <1>2, <1>9, <1>10, Zenon DEF u

-----------------------------------------------------------------------------
(* The packets *)

\* The sums the model draws from are sums of four bytes.
LEMMA AnySumsAreSums == \A sums \in AnySums : sums \in [Schemes -> Sum]
<1>1. \A x \in Sums : x \in Sum
  BY SumsAssumption DEF Sum
<1>2. \A S, T : (\A x \in S : x \in T) => [Schemes -> S] \subseteq [Schemes -> T]
  OBVIOUS
<1> QED
  BY <1>1, <1>2, Zenon DEF AnySums

\* The cases of MadeC2 and AcceptsS2.
LEMMA ClientCases ==
    /\ \A c1, p : MadeC2("library", c1, p) = Echo("C2", "S1")
    /\ \A c1, p : MadeC2("flash", c1, p) =
                    IF FindsDigest(c1, p) THEN Proof("C2", "S1") ELSE Echo("C2", "S1")
    /\ \A c1, p : MadeC2("wrong", c1, p) = Echo("C2", "nothing")
    /\ \A c1, p, q : AcceptsS2("library", c1, p, q) <=> q.echoes = "C1"
    /\ \A c1, p, q : AcceptsS2("flash", c1, p, q) <=>
                       IF p.version = 0 THEN q.echoes = "C1"
                       ELSE FindsDigest(c1, p) /\ q.proves = "C1"
<1>1. \A c1, p : MadeC2("library", c1, p) = Echo("C2", "S1")
  BY Zenon DEF MadeC2
<1>2. \A c1, p : MadeC2("flash", c1, p) =
                   IF FindsDigest(c1, p) THEN Proof("C2", "S1") ELSE Echo("C2", "S1")
  BY Zenon DEF MadeC2
<1>3. \A c1, p : MadeC2("wrong", c1, p) = Echo("C2", "nothing")
  BY Zenon DEF MadeC2
<1>4. \A c1, p, q : AcceptsS2("library", c1, p, q) <=> q.echoes = "C1"
  BY Zenon DEF AcceptsS2
<1>5. \A c1, p, q : AcceptsS2("flash", c1, p, q) <=>
                      IF p.version = 0 THEN q.echoes = "C1"
                      ELSE FindsDigest(c1, p) /\ q.proves = "C1"
  BY Zenon DEF AcceptsS2
<1> QED
  BY <1>1, <1>2, <1>3, <1>4, <1>5

\* Every C1 is in the form its client gives it, and is taken for a C1 in the
\* scheme it is signed under.
LEMMA HelloForms ==
    ASSUME NEW who \in ClientKinds, NEW c1 \in HellosOf(who, AnySums)
    PROVE  /\ who = "flash" =>
                \E sums \in AnySums, s \in Schemes :
                   /\ c1 = Hello("C1", 1, sums, "fp", DigestPos(sums[s], s))
                   /\ SchemeOf(c1) = s /\ ValidC1(c1, s)
           /\ who # "flash" => SchemeOf(c1) = NoScheme /\ c1.signedBy = "nobody"
           /\ c1.kind = "C1"
           /\ SchemeOf(c1) \in Schemes \cup {NoScheme}
<1>1. CASE who = "flash"
  <2>1. PICK sums \in AnySums, s \in Schemes :
          c1 = Hello("C1", 1, sums, "fp", DigestPos(sums[s], s))
    BY <1>1 DEF HellosOf
  <2>2. SchemeOf(c1) = s
    <3>1. sums \in [Schemes -> Sum]
      BY AnySumsAreSums
    <3>2. SchemeOf(Hello("C1", 1, sums, "fp", DigestPos(sums[s], s))) = s
      BY <3>1, SignedSchemeIsFound
    <3> QED
      BY <2>1, <3>2
  <2>3. ValidC1(c1, s) /\ c1.kind = "C1"
    BY <2>1 DEF ValidC1, Hello
  <2> QED
    BY <1>1, <2>1, <2>2, <2>3
<1>2. CASE who # "flash"
  <2>1. c1.signedBy = "nobody" /\ c1.kind = "C1"
    BY <1>2 DEF HellosOf, Hello, ClientKinds
  <2>2. ~ValidC1(c1, 0) /\ ~ValidC1(c1, 1)
    BY <2>1 DEF ValidC1
  <2> QED
    BY <1>2, <2>1, <2>2 DEF SchemeOf
<1> QED
  BY <1>1, <1>2

\* The digest of every C1 and S1 lies in the data of one of its blocks.
LEMMA PacketsPlaced ==
    /\ \A who \in ClientKinds : \A c1 \in HellosOf(who, AnySums) : Placed(c1)
    /\ \A scheme \in Schemes \cup {NoScheme}, sums \in AnySums :
         Placed(MadeS1(scheme, sums))
<1>1. ASSUME NEW who \in ClientKinds, NEW c1 \in HellosOf(who, AnySums)
      PROVE  Placed(c1)
  <2>1. CASE who = "flash"
    <3>1. PICK sums \in AnySums, s \in Schemes :
            c1 = Hello("C1", 1, sums, "fp", DigestPos(sums[s], s))
      BY <2>1, HelloForms
    <3>2. sums[s] \in Sum
      BY AnySumsAreSums
    <3>3. InBlock(c1.signedAt, s)
      BY <3>1, <3>2, DigestStaysInBlock DEF Hello
    <3> QED
      BY <3>3 DEF Placed
  <2>2. CASE who # "flash"
    BY <2>2, HelloForms DEF Placed
  <2> QED
    BY <2>1, <2>2
<1>2. ASSUME NEW scheme \in Schemes \cup {NoScheme}, NEW sums \in AnySums
      PROVE  Placed(MadeS1(scheme, sums))
  <2>1. CASE scheme = NoScheme
    BY <2>1 DEF MadeS1, Hello, Placed
  <2>2. CASE scheme # NoScheme
    <3>1. MadeS1(scheme, sums).signedAt = DigestBlockStart(scheme) + 4
      BY <2>2 DEF MadeS1, Hello
    <3>2. InBlock(DigestBlockStart(scheme) + 4, scheme)
      BY <2>2, SchemeCases DEF InBlock, DigestLength, BlockLength
    <3> QED
      BY <2>2, <3>1, <3>2 DEF Placed
  <2> QED
    BY <2>1, <2>2
<1> QED
  BY <1>1, <1>2

\* The two checks at the end of a handshake: whatever the form and the random
\* bytes, the packets of a client that follows the protocol and those of the
\* server pass each other's check, and the C2 that echoes nothing does not.
THEOREM ChecksPass ==
    ASSUME NEW who \in ClientKinds, NEW c1 \in HellosOf(who, AnySums),
           NEW sums \in AnySums
    PROVE  LET scheme == SchemeOf(c1)
               packet == MadeS1(scheme, sums)
           IN  /\ who # "wrong" =>
                    /\ AcceptsC2(scheme, MadeC2(who, c1, packet))
                    /\ AcceptsS2(who, c1, packet, MadeS2(scheme))
               /\ who = "wrong" => ~AcceptsC2(scheme, MadeC2(who, c1, packet))
<1> DEFINE scheme == SchemeOf(c1)
           packet == MadeS1(scheme, sums)
<1>1. CASE who = "library"
  <2>1. MadeC2(who, c1, packet).echoes = "S1" /\ MadeS2(scheme).echoes = "C1"
    BY <1>1, HelloForms, ClientCases DEF MadeS2, Echo
  <2> QED
    BY <1>1, <2>1, ClientCases DEF AcceptsC2
<1>2. CASE who = "flash"
  <2>1. PICK s \in Schemes : scheme = s /\ ValidC1(c1, s)
    BY <1>2, HelloForms
  <2>2. s # NoScheme
    BY NamesAssumption
  <2>3. packet.signedAt = DigestPos(packet.sums[s], s)
    BY <2>1, <2>2, AnySumsAreSums, S1DigestFound
  <2>4. packet.signedBy = "fms" /\ packet.version = 1
    BY <2>1, <2>2 DEF MadeS1, Hello
  <2>5. FindsDigest(c1, packet)
    BY <2>1, <2>3, <2>4 DEF FindsDigest
  <2>6. MadeC2(who, c1, packet).proves = "S1" /\ MadeS2(scheme).proves = "C1"
    BY <1>2, <2>1, <2>2, <2>5, ClientCases DEF MadeS2, Proof
  <2> QED
    BY <1>2, <2>1, <2>2, <2>4, <2>5, <2>6, ClientCases DEF AcceptsC2
<1>3. CASE who = "wrong"
  <2>1. /\ MadeC2(who, c1, packet).echoes = "nothing"
        /\ MadeC2(who, c1, packet).proves = "nothing"
    BY <1>3, ClientCases DEF Echo
  <2> QED
    BY <1>3, <2>1 DEF AcceptsC2
<1> QED
  BY <1>1, <1>2, <1>3 DEF ClientKinds

\* Every packet that is sent is one of those the types name, of the kind its
\* reader expects.
LEMMA PacketTypes ==
    /\ \A who \in ClientKinds : \A c1 \in HellosOf(who, AnySums) :
         c1 \in ToServerPacket /\ c1.kind = "C1"
    /\ \A who \in ClientKinds : \A c1, p :
         MadeC2(who, c1, p) \in ToServerPacket /\ MadeC2(who, c1, p).kind = "C2"
    /\ \A scheme :
         MadeS2(scheme) \in ToClientPacket /\ MadeS2(scheme).kind = "S2"
    /\ \A scheme \in Schemes \cup {NoScheme}, sums \in AnySums :
         MadeS1(scheme, sums) \in ToClientPacket /\ MadeS1(scheme, sums).kind = "S1"
    /\ Plain("C0") \in ToServerPacket /\ Plain("chunk") \in ToServerPacket
    /\ Plain("S0") \in ToClientPacket
    /\ \A kind : Plain(kind).kind = kind
<1>1. \A who \in ClientKinds : \A c1 \in HellosOf(who, AnySums) :
        c1 \in ToServerPacket /\ c1.kind = "C1"
  BY HelloForms DEF ToServerPacket
<1>2. ASSUME NEW who \in ClientKinds, NEW c1, NEW p
      PROVE  MadeC2(who, c1, p) \in ToServerPacket /\ MadeC2(who, c1, p).kind = "C2"
  <2>1. MadeC2(who, c1, p) \in {Echo("C2", "S1"), Proof("C2", "S1"), Echo("C2", "nothing")}
    BY ClientCases DEF ClientKinds
  <2> QED
    BY <2>1 DEF ToServerPacket, Echo, Proof
<1>3. \A scheme :
        MadeS2(scheme) \in ToClientPacket /\ MadeS2(scheme).kind = "S2"
  BY DEF MadeS2, ToClientPacket, Echo, Proof
<1>4. \A scheme \in Schemes \cup {NoScheme}, sums \in AnySums :
        MadeS1(scheme, sums) \in ToClientPacket /\ MadeS1(scheme, sums).kind = "S1"
  <2>1. \A scheme, sums : MadeS1(scheme, sums).kind = "S1"
    BY DEF MadeS1, Hello
  <2> QED
    BY <2>1 DEF ToClientPacket
<1>5. /\ Plain("C0") \in ToServerPacket /\ Plain("chunk") \in ToServerPacket
      /\ Plain("S0") \in ToClientPacket
      /\ \A kind : Plain(kind).kind = kind
  BY DEF ToServerPacket, ToClientPacket, Plain
<1> QED
  BY <1>1, <1>2, <1>3, <1>4, <1>5

-----------------------------------------------------------------------------
(* One step of one connection *)

\* Nothing happens to connection d.
Unmoved(d) ==
    UNCHANGED <<backlog[d], toServer[d], toClient[d], client[d], server[d],
                hello[d], got[d], had[d], s1[d]>>

OthersUnmoved(c) == \A d \in Conns \ {c} : Unmoved(d)

\* What holds of a connection to which nothing happens goes on to hold.
LEMMA UnmovedKeeps ==
    ASSUME NEW d, ConnInv(d), Unmoved(d)
    PROVE  ConnInv(d)'
<1>1. Dialled(d)' /\ Waiting(d)'
  BY DEF ConnInv, Unmoved, Dialled, Waiting
<1>2. Sent(d)' = Sent(d) /\ Answered(d)' = Answered(d)
  BY DEF Unmoved, Sent, Answered
<1>3. AtPlace(d)'
  BY <1>2 DEF ConnInv, Unmoved, AtPlace, ClientAt, ServerAt
<1>4. InOrder(d)'
  BY <1>2 DEF ConnInv, Unmoved, InOrder, ClientPacket, ServerPacket
<1>5. AnswersC1(d)' /\ Bounded(d)' /\ Succeeds(d)'
  BY DEF ConnInv, Unmoved, AnswersC1, Bounded, Succeeds
<1> QED
  BY <1>1, <1>3, <1>4, <1>5 DEF ConnInv

\* Dial chooses a listener and what the client is.
LEMMA DialKeeps ==
    ASSUME Listening, Shape, NEW c \in Conns, ConnInv(c), Dial(c)
    PROVE  Shape' /\ ConnInv(c)' /\ OthersUnmoved(c)
<1>1. PICK l \in listening : backlog' = [backlog EXCEPT ![c] = l]
  BY DEF Dial
<1>2. PICK who \in ClientKinds : \E c1 \in HellosOf(who, AnySums) :
        hello' = [hello EXCEPT ![c] = [who |-> who, c1 |-> c1]]
  BY DEF Dial
<1> PICK c1 \in HellosOf(who, AnySums) :
        hello' = [hello EXCEPT ![c] = [who |-> who, c1 |-> c1]]
  BY <1>2
<1>3. /\ UNCHANGED <<toServer, toClient, server, got, had, s1>>
      /\ client' = [client EXCEPT ![c] = "C0"] /\ open' = [open EXCEPT ![c] = TRUE]
      /\ client[c] = "idle"
  BY DEF Dial, ClientGoes
<1>4. Shape'
  BY <1>1, <1>2, <1>3 DEF Shape, Listening, ClientPlace, InHandshake
<1>5. /\ client'[c] = "C0" /\ hello'[c] = [who |-> who, c1 |-> c1]
      /\ server[c] = "none"
  BY <1>2, <1>3 DEF Shape, ConnInv, Dialled
<1>6. /\ Len(Sent(c)) = 0 /\ Len(Answered(c)) = 0 /\ Len(had[c]) = 0 /\ Len(got[c]) = 0
  BY <1>3, <1>5 DEF ConnInv, AtPlace, ClientAt, ServerAt
<1>7. Dialled(c)' /\ Waiting(c)'
  BY <1>1, <1>3, <1>5 DEF Dialled, Waiting
<1>8. /\ Sent(c)' = Sent(c) /\ Answered(c)' = Answered(c)
  BY <1>3 DEF Sent, Answered
<1>9. AtPlace(c)' /\ InOrder(c)'
  BY <1>3, <1>5, <1>6, <1>8 DEF AtPlace, ClientAt, ServerAt, InOrder
<1>10. AnswersC1(c)' /\ Bounded(c)' /\ Succeeds(c)'
  BY <1>3, <1>5, <1>6 DEF ConnInv, AnswersC1, Bounded, Succeeds
<1>11. OthersUnmoved(c)
  BY <1>1, <1>2, <1>3 DEF Shape, OthersUnmoved, Unmoved
<1> QED
  BY <1>4, <1>7, <1>9, <1>10, <1>11 DEF ConnInv

\* Accept starts the handler of a connection.
LEMMA AcceptKeeps ==
    ASSUME Listening, Shape, NEW c \in Conns, ConnInv(c),
           NEW l \in Listeners, Accept(l, c)
    PROVE  Shape' /\ ConnInv(c)' /\ OthersUnmoved(c)
<1>1. /\ UNCHANGED <<open, toServer, toClient, client, hello, got, had, s1>>
      /\ server' = [server EXCEPT ![c] = "C0"]
      /\ backlog' = [backlog EXCEPT ![c] = None]
      /\ backlog[c] # None
  BY NamesAssumption DEF Accept
<1>2. Shape' /\ server'[c] = "C0" /\ backlog'[c] = None
  BY <1>1 DEF Shape, ServerPlace, InHandshake
<1>3. server[c] = "none" /\ client[c] # "idle"
  BY <1>1 DEF ConnInv, Waiting, Dialled
<1>4. Dialled(c)' /\ Waiting(c)' /\ AnswersC1(c)' /\ Bounded(c)' /\ Succeeds(c)'
  BY <1>1, <1>2, <1>3
  DEF ConnInv, Dialled, Waiting, AnswersC1, Bounded, Succeeds
<1>5. /\ Sent(c)' = Sent(c) /\ Answered(c)' = Answered(c)
      /\ \A i : ClientPacket(c, i)' = ClientPacket(c, i)
      /\ \A i : ServerPacket(c, i)' = ServerPacket(c, i)
  BY <1>1 DEF Sent, Answered, ClientPacket, ServerPacket
<1>6. AtPlace(c)'
  BY <1>1, <1>2, <1>3, <1>5 DEF ConnInv, AtPlace, ClientAt, ServerAt
<1>7. InOrder(c)'
  BY <1>5 DEF ConnInv, InOrder
<1>8. OthersUnmoved(c)
  BY <1>1 DEF Shape, OthersUnmoved, Unmoved
<1> QED
  BY <1>2, <1>4, <1>6, <1>7, <1>8 DEF ConnInv

\* What the client has written adds the packet that is due.
LEMMA ClientSendsKeeps ==
    ASSUME Shape, NEW c \in Conns, ConnInv(c),
           NEW p \in ToServerPacket, ClientSends(c, p),
           p = ClientPacket(c, Len(Sent(c)) + 1),
           UNCHANGED <<hello, s1, had, got, toClient>>
    PROVE  /\ toServer' \in [Conns -> Seq(ToServerPacket)]
           /\ \A d \in Conns \ {c} : toServer'[d] = toServer[d]
           /\ Len(Sent(c)') = Len(Sent(c)) + 1
           /\ Answered(c)' = Answered(c)
           /\ InOrder(c)' /\ Bounded(c)' /\ AnswersC1(c)'
<1>1. toServer' = [toServer EXCEPT ![c] = Append(toServer[c], p)]
  BY DEF ClientSends
<1>2. /\ had[c] \in Seq(ToServerPacket) /\ toServer[c] \in Seq(ToServerPacket)
      /\ toServer'[c] = Append(toServer[c], p)
  BY <1>1 DEF Shape
<1>3. /\ Append(toServer[c], p) \in Seq(ToServerPacket)
      /\ Len(Append(toServer[c], p)) = Len(toServer[c]) + 1
      /\ Len(had[c] \o Append(toServer[c], p)) = Len(Sent(c)) + 1
      /\ (had[c] \o Append(toServer[c], p))[Len(Sent(c)) + 1] = p
      /\ \A i \in 1..Len(Sent(c)) : (had[c] \o Append(toServer[c], p))[i] = Sent(c)[i]
  <2> DEFINE h == had[c]
             t == toServer[c]
  <2>1. h \in Seq(ToServerPacket) /\ t \in Seq(ToServerPacket)
    BY <1>2
  <2>2. Sent(c) = h \o t
    BY DEF Sent
  <2> HIDE DEF h, t
  <2>3. /\ Append(t, p) \in Seq(ToServerPacket)
        /\ Len(Append(t, p)) = Len(t) + 1
        /\ Len(h \o Append(t, p)) = Len(h \o t) + 1
        /\ (h \o Append(t, p))[Len(h \o t) + 1] = p
        /\ \A i \in 1..Len(h \o t) : (h \o Append(t, p))[i] = (h \o t)[i]
    BY <2>1, SendOne
  <2> QED
    BY <2>2, <2>3 DEF h, t
<1>4. Sent(c)' = had[c] \o Append(toServer[c], p) /\ Answered(c)' = Answered(c)
  BY <1>2 DEF Sent, Answered
<1>5. Len(Sent(c)) \in Nat /\ Len(toServer[c]) \in Nat
  <2>1. Sent(c) \in Seq(ToServerPacket)
    BY <1>2 DEF Sent
  <2> QED
    BY <1>2, <2>1
<1>6. InOrder(c)'
  <2>1. \A i : ClientPacket(c, i)' = ClientPacket(c, i)
               /\ ServerPacket(c, i)' = ServerPacket(c, i)
    BY DEF ClientPacket, ServerPacket
  <2>2. ASSUME NEW i \in 1..Len(Sent(c)') PROVE Sent(c)'[i] = ClientPacket(c, i)
    <3>1. Len(Sent(c)') = Len(Sent(c)) + 1
      BY <1>3, <1>4
    <3>2. i \in 1..Len(Sent(c)) \/ i = Len(Sent(c)) + 1
      BY <1>5, <3>1
    <3> QED
      BY <1>3, <1>4, <3>2 DEF ConnInv, InOrder
  <2> QED
    BY <1>4, <2>1, <2>2 DEF ConnInv, InOrder
<1>7. Bounded(c)'
  BY <1>2, <1>3, <1>5, BufferAssumption DEF ConnInv, Bounded, ClientSends
<1>8. AnswersC1(c)'
  BY DEF ConnInv, AnswersC1
<1>9. /\ toServer' \in [Conns -> Seq(ToServerPacket)]
      /\ \A d \in Conns \ {c} : toServer'[d] = toServer[d]
  BY <1>1, <1>3 DEF Shape
<1> QED
  BY <1>3, <1>4, <1>6, <1>7, <1>8, <1>9

\* What the server has written adds the packet that is due.
LEMMA ServerSendsKeeps ==
    ASSUME Shape, NEW c \in Conns, ConnInv(c),
           NEW p \in ToClientPacket, ServerSends(c, p),
           p = ServerPacket(c, Len(Answered(c)) + 1),
           UNCHANGED <<hello, s1, had, got, toServer>>
    PROVE  /\ toClient' \in [Conns -> Seq(ToClientPacket)]
           /\ \A d \in Conns \ {c} : toClient'[d] = toClient[d]
           /\ Len(Answered(c)') = Len(Answered(c)) + 1
           /\ Sent(c)' = Sent(c)
           /\ InOrder(c)' /\ Bounded(c)' /\ AnswersC1(c)'
<1>1. toClient' = [toClient EXCEPT ![c] = Append(toClient[c], p)]
  BY DEF ServerSends
<1>2. /\ got[c] \in Seq(ToClientPacket) /\ toClient[c] \in Seq(ToClientPacket)
      /\ toClient'[c] = Append(toClient[c], p)
  BY <1>1 DEF Shape
<1>3. /\ Append(toClient[c], p) \in Seq(ToClientPacket)
      /\ Len(Append(toClient[c], p)) = Len(toClient[c]) + 1
      /\ Len(got[c] \o Append(toClient[c], p)) = Len(Answered(c)) + 1
      /\ (got[c] \o Append(toClient[c], p))[Len(Answered(c)) + 1] = p
      /\ \A i \in 1..Len(Answered(c)) :
           (got[c] \o Append(toClient[c], p))[i] = Answered(c)[i]
  <2> DEFINE h == got[c]
             t == toClient[c]
  <2>1. h \in Seq(ToClientPacket) /\ t \in Seq(ToClientPacket)
    BY <1>2
  <2>2. Answered(c) = h \o t
    BY DEF Answered
  <2> HIDE DEF h, t
  <2>3. /\ Append(t, p) \in Seq(ToClientPacket)
        /\ Len(Append(t, p)) = Len(t) + 1
        /\ Len(h \o Append(t, p)) = Len(h \o t) + 1
        /\ (h \o Append(t, p))[Len(h \o t) + 1] = p
        /\ \A i \in 1..Len(h \o t) : (h \o Append(t, p))[i] = (h \o t)[i]
    BY <2>1, SendOne
  <2> QED
    BY <2>2, <2>3 DEF h, t
<1>4. Answered(c)' = got[c] \o Append(toClient[c], p) /\ Sent(c)' = Sent(c)
  BY <1>2 DEF Sent, Answered
<1>5. Len(Answered(c)) \in Nat /\ Len(toClient[c]) \in Nat
  <2>1. Answered(c) \in Seq(ToClientPacket)
    BY <1>2 DEF Answered
  <2> QED
    BY <1>2, <2>1
<1>6. InOrder(c)'
  <2>1. \A i : ClientPacket(c, i)' = ClientPacket(c, i)
               /\ ServerPacket(c, i)' = ServerPacket(c, i)
    BY DEF ClientPacket, ServerPacket
  <2>2. ASSUME NEW i \in 1..Len(Answered(c)')
        PROVE  Answered(c)'[i] = ServerPacket(c, i)
    <3>1. Len(Answered(c)') = Len(Answered(c)) + 1
      BY <1>3, <1>4
    <3>2. i \in 1..Len(Answered(c)) \/ i = Len(Answered(c)) + 1
      BY <1>5, <3>1
    <3> QED
      BY <1>3, <1>4, <3>2 DEF ConnInv, InOrder
  <2> QED
    BY <1>4, <2>1, <2>2 DEF ConnInv, InOrder
<1>7. Bounded(c)'
  BY <1>2, <1>3, <1>5, BufferAssumption DEF ConnInv, Bounded, ServerSends
<1>8. AnswersC1(c)'
  BY DEF ConnInv, AnswersC1
<1>9. /\ toClient' \in [Conns -> Seq(ToClientPacket)]
      /\ \A d \in Conns \ {c} : toClient'[d] = toClient[d]
  BY <1>1, <1>3 DEF Shape
<1> QED
  BY <1>3, <1>4, <1>6, <1>7, <1>8, <1>9

\* Where a program counter is not "idle" the client has said who it is.
LEMMA WhoDialled ==
    ASSUME NEW c, ConnInv(c), client[c] # "idle"
    PROVE  hello[c].who \in ClientKinds /\ hello[c].c1 \in HellosOf(hello[c].who, AnySums)
BY DEF ConnInv, Dialled

\* A side that neither moves nor reads stays where it is, whatever the other
\* side reads.
LEMMA ServerStays ==
    ASSUME NEW c, ConnInv(c), server'[c] = server[c], had'[c] = had[c],
           Len(Answered(c)') = Len(Answered(c))
    PROVE  ServerAt(c, Len(had[c]), Len(Answered(c)))'
<1>1. ServerAt(c, Len(had[c]), Len(Answered(c)))
  BY DEF ConnInv, AtPlace
<1> QED
  BY <1>1 DEF ServerAt

\* A step of somebody else leaves the client of c where it is.
LEMMA ClientStays ==
    ASSUME NEW c, ConnInv(c), client'[c] = client[c], got'[c] = got[c],
           Len(Sent(c)') = Len(Sent(c))
    PROVE  ClientAt(c, Len(Sent(c)), Len(got[c]))'
<1>1. ClientAt(c, Len(Sent(c)), Len(got[c]))
  BY DEF ConnInv, AtPlace
<1> QED
  BY <1>1 DEF ClientAt

\* C0 and C1.
LEMMA ClientGreetsKeeps ==
    ASSUME Shape, NEW c \in Conns, ConnInv(c), ClientGreets(c)
    PROVE  Shape' /\ ConnInv(c)' /\ OthersUnmoved(c)
<1>1. UNCHANGED <<backlog, open, toClient, server, hello, got, had, s1>>
  BY DEF ClientGreets
<1>2. client[c] # "idle"
  BY DEF ClientGreets
<1>3. PICK p \in ToServerPacket, to \in {"C1", "S0"} :
        /\ ClientSends(c, p) /\ client' = [client EXCEPT ![c] = to]
        /\ p = ClientPacket(c, Len(Sent(c)) + 1)
        /\ to = "C1" => client[c] = "C0"
        /\ to = "S0" => client[c] = "C1"
  <2>1. CASE client[c] = "C0" /\ ClientSends(c, Plain("C0")) /\ ClientGoes(c, "C1")
    <3>1. Len(Sent(c)) = 0
      BY <2>1 DEF ConnInv, AtPlace, ClientAt
    <3>2. Plain("C0") = ClientPacket(c, Len(Sent(c)) + 1)
      BY <3>1 DEF ClientPacket
    <3> QED
      BY <2>1, <3>2, PacketTypes DEF ClientGoes
  <2>2. CASE client[c] = "C1" /\ ClientSends(c, hello[c].c1) /\ ClientGoes(c, "S0")
    <3>1. Len(Sent(c)) = 1
      BY <2>2 DEF ConnInv, AtPlace, ClientAt
    <3>2. hello[c].c1 = ClientPacket(c, Len(Sent(c)) + 1)
      BY <3>1 DEF ClientPacket
    <3>3. hello[c].c1 \in ToServerPacket
      BY <1>2, WhoDialled, PacketTypes
    <3> QED
      BY <2>2, <3>2, <3>3 DEF ClientGoes
  <2> QED
    BY <2>1, <2>2 DEF ClientGreets
<1>4. /\ toServer' \in [Conns -> Seq(ToServerPacket)]
      /\ \A d \in Conns \ {c} : toServer'[d] = toServer[d]
      /\ Len(Sent(c)') = Len(Sent(c)) + 1
      /\ Answered(c)' = Answered(c)
      /\ InOrder(c)' /\ Bounded(c)' /\ AnswersC1(c)'
  BY <1>1, <1>3, ClientSendsKeeps
<1>5. client'[c] = to
  BY <1>3 DEF Shape
<1>6. Shape' /\ OthersUnmoved(c)
  BY <1>1, <1>3, <1>4 DEF Shape, ClientPlace, InHandshake, OthersUnmoved, Unmoved
<1>7. Dialled(c)' /\ Waiting(c)'
  BY <1>1, <1>2, <1>5 DEF ConnInv, Dialled, Waiting
<1>8. AtPlace(c)'
  <2>1. server'[c] = server[c] /\ had'[c] = had[c] /\ Answered(c)' = Answered(c)
    BY <1>1, <1>4
  <2>2. ServerAt(c, Len(had[c]), Len(Answered(c)))'
    BY <2>1, ServerStays
  <2>3. Len(Sent(c)) = (IF to = "C1" THEN 0 ELSE 1) /\ Len(got[c]) = 0
    BY <1>3 DEF ConnInv, AtPlace, ClientAt
  <2>4. Len(Sent(c)') = Len(Sent(c)) + 1 /\ got' = got
    BY <1>1, <1>4
  <2>5. ClientAt(c, Len(Sent(c)), Len(got[c]))'
    BY <1>5, <2>3, <2>4 DEF ClientAt
  <2> QED
    BY <2>2, <2>5 DEF AtPlace
<1>9. Succeeds(c)'
  BY <1>1, <1>5 DEF ConnInv, Succeeds
<1> QED
  BY <1>4, <1>6, <1>7, <1>8, <1>9 DEF ConnInv

\* What the client reads is in order, and the client reads no more than there is.
LEMMA ClientTakesKeeps ==
    ASSUME Shape, NEW c \in Conns, ConnInv(c), toClient[c] # <<>>,
           got' = [got EXCEPT ![c] = Append(got[c], Head(toClient[c]))],
           toClient' = [toClient EXCEPT ![c] = Tail(toClient[c])],
           UNCHANGED <<hello, s1, had, toServer>>
    PROVE  /\ got' \in [Conns -> Seq(ToClientPacket)]
           /\ toClient' \in [Conns -> Seq(ToClientPacket)]
           /\ \A d \in Conns \ {c} : got'[d] = got[d] /\ toClient'[d] = toClient[d]
           /\ Len(got'[c]) = Len(got[c]) + 1
           /\ Answered(c)' = Answered(c) /\ Sent(c)' = Sent(c)
           /\ InOrder(c)' /\ Bounded(c)' /\ AnswersC1(c)'
<1>1. got[c] \in Seq(ToClientPacket) /\ toClient[c] \in Seq(ToClientPacket)
  BY DEF Shape
<1>2. /\ Append(got[c], Head(toClient[c])) \in Seq(ToClientPacket)
      /\ Tail(toClient[c]) \in Seq(ToClientPacket)
      /\ Append(got[c], Head(toClient[c])) \o Tail(toClient[c]) = got[c] \o toClient[c]
      /\ Len(Append(got[c], Head(toClient[c]))) = Len(got[c]) + 1
      /\ Len(Tail(toClient[c])) = Len(toClient[c]) - 1
  <2> DEFINE h == got[c]
             t == toClient[c]
  <2>1. h \in Seq(ToClientPacket) /\ t \in Seq(ToClientPacket) /\ t # <<>>
    BY <1>1
  <2> HIDE DEF h, t
  <2>2. /\ Append(h, Head(t)) \in Seq(ToClientPacket)
        /\ Tail(t) \in Seq(ToClientPacket)
        /\ Append(h, Head(t)) \o Tail(t) = h \o t
        /\ Len(Append(h, Head(t))) = Len(h) + 1
        /\ Len(Tail(t)) = Len(t) - 1
    BY <2>1, ReadOne
  <2> QED
    BY <2>2 DEF h, t
<1>3. /\ got' \in [Conns -> Seq(ToClientPacket)]
      /\ toClient' \in [Conns -> Seq(ToClientPacket)]
      /\ \A d \in Conns \ {c} : got'[d] = got[d] /\ toClient'[d] = toClient[d]
      /\ got'[c] = Append(got[c], Head(toClient[c]))
      /\ toClient'[c] = Tail(toClient[c])
  BY <1>2 DEF Shape
<1>4. Answered(c)' = Answered(c) /\ Sent(c)' = Sent(c)
  BY <1>2, <1>3 DEF Answered, Sent
<1>5. InOrder(c)'
  <2>1. \A i : ClientPacket(c, i)' = ClientPacket(c, i)
               /\ ServerPacket(c, i)' = ServerPacket(c, i)
    BY DEF ClientPacket, ServerPacket
  <2> QED
    BY <1>4, <2>1 DEF ConnInv, InOrder
<1>6. Bounded(c)' /\ AnswersC1(c)'
  <2>1. Len(toClient[c]) \in Nat /\ Len(toClient'[c]) = Len(toClient[c]) - 1
    BY <1>1, <1>2, <1>3
  <2> QED
    BY <2>1, BufferAssumption DEF ConnInv, Bounded, AnswersC1
<1>7. Len(got'[c]) = Len(got[c]) + 1
  BY <1>2, <1>3
<1> QED
  BY <1>3, <1>4, <1>5, <1>6, <1>7

\* What the server reads is the packet it waits for.
LEMMA ServerTakesNext ==
    ASSUME Shape, NEW c \in Conns, ConnInv(c), ServerTakes(c),
           UNCHANGED <<got, toClient>>
    PROVE  /\ had' \in [Conns -> Seq(ToServerPacket)]
           /\ toServer' \in [Conns -> Seq(ToServerPacket)]
           /\ \A d \in Conns \ {c} : had'[d] = had[d] /\ toServer'[d] = toServer[d]
           /\ Len(had'[c]) = Len(had[c]) + 1
           /\ Answered(c)' = Answered(c) /\ Sent(c)' = Sent(c)
           /\ Len(had[c]) \in Nat /\ Len(had[c]) < Len(Sent(c))
           /\ Head(toServer[c]) = ClientPacket(c, Len(had[c]) + 1)
           /\ Bounded(c)'
<1>1. had[c] \in Seq(ToServerPacket) /\ toServer[c] \in Seq(ToServerPacket)
  BY DEF Shape
<1>2. /\ Append(had[c], Head(toServer[c])) \in Seq(ToServerPacket)
      /\ Tail(toServer[c]) \in Seq(ToServerPacket)
      /\ Append(had[c], Head(toServer[c])) \o Tail(toServer[c]) = Sent(c)
      /\ Len(Append(had[c], Head(toServer[c]))) = Len(had[c]) + 1
      /\ Len(Tail(toServer[c])) = Len(toServer[c]) - 1
      /\ Head(toServer[c]) = Sent(c)[Len(had[c]) + 1]
      /\ Len(had[c]) + 1 <= Len(Sent(c))
  <2> DEFINE h == had[c]
             t == toServer[c]
  <2>1. /\ h \in Seq(ToServerPacket) /\ t \in Seq(ToServerPacket) /\ t # <<>>
        /\ Sent(c) = h \o t
    BY <1>1 DEF ServerTakes, Sent
  <2> HIDE DEF h, t
  <2>2. /\ Append(h, Head(t)) \in Seq(ToServerPacket)
        /\ Tail(t) \in Seq(ToServerPacket)
        /\ Append(h, Head(t)) \o Tail(t) = h \o t
        /\ Len(Append(h, Head(t))) = Len(h) + 1
        /\ Len(Tail(t)) = Len(t) - 1
        /\ Head(t) = (h \o t)[Len(h) + 1]
        /\ Len(h) + 1 <= Len(h \o t)
    BY <2>1, ReadOne
  <2> QED
    BY <2>1, <2>2 DEF h, t
<1>3. /\ had' \in [Conns -> Seq(ToServerPacket)]
      /\ toServer' \in [Conns -> Seq(ToServerPacket)]
      /\ \A d \in Conns \ {c} : had'[d] = had[d] /\ toServer'[d] = toServer[d]
      /\ had'[c] = Append(had[c], Head(toServer[c]))
      /\ toServer'[c] = Tail(toServer[c])
  BY <1>2 DEF Shape, ServerTakes
<1>4. Answered(c)' = Answered(c) /\ Sent(c)' = Sent(c)
  BY <1>2, <1>3 DEF Answered, Sent
<1>5. Bounded(c)'
  <2>1. Len(toServer[c]) \in Nat /\ Len(toServer'[c]) = Len(toServer[c]) - 1
    BY <1>1, <1>2, <1>3
  <2> QED
    BY <2>1, BufferAssumption DEF ConnInv, Bounded
<1>6. /\ Len(had'[c]) = Len(had[c]) + 1 /\ Len(had[c]) \in Nat
      /\ Len(Sent(c)) \in Nat /\ Len(had[c]) < Len(Sent(c))
  <2>1. Sent(c) \in Seq(ToServerPacket)
    BY <1>1 DEF Sent
  <2> QED
    BY <1>1, <1>2, <1>3, <2>1
<1>7. Head(toServer[c]) = ClientPacket(c, Len(had[c]) + 1)
  <2>1. Len(had[c]) + 1 \in 1..Len(Sent(c))
    BY <1>6
  <2> QED
    BY <1>2, <2>1 DEF ConnInv, InOrder
<1> QED
  BY <1>3, <1>4, <1>5, <1>6, <1>7

\* What either side has read is what the other had to send.
LEMMA ReadInOrder ==
    ASSUME Shape, NEW c \in Conns, ConnInv(c)
    PROVE  /\ \A i \in 1..Len(got[c]) : got[c][i] = ServerPacket(c, i)
           /\ \A i \in 1..Len(had[c]) : had[c][i] = ClientPacket(c, i)
           /\ Len(got[c]) \in Nat /\ Len(had[c]) \in Nat
           /\ Len(Answered(c)) \in Nat /\ Len(Sent(c)) \in Nat
           /\ Len(got[c]) <= Len(Answered(c)) /\ Len(had[c]) <= Len(Sent(c))
<1>1. /\ got[c] \in Seq(ToClientPacket) /\ toClient[c] \in Seq(ToClientPacket)
      /\ had[c] \in Seq(ToServerPacket) /\ toServer[c] \in Seq(ToServerPacket)
  BY DEF Shape
<1>2. ASSUME NEW S, NEW s \in Seq(S), NEW t \in Seq(S)
      PROVE  /\ Len(s) \in Nat /\ Len(s \o t) \in Nat /\ Len(s) <= Len(s \o t)
             /\ \A i \in 1..Len(s) : s[i] = (s \o t)[i] /\ i \in 1..Len(s \o t)
  OBVIOUS
<1>3. /\ Len(got[c]) \in Nat /\ Len(Answered(c)) \in Nat
      /\ Len(got[c]) <= Len(Answered(c))
      /\ \A i \in 1..Len(got[c]) :
           got[c][i] = Answered(c)[i] /\ i \in 1..Len(Answered(c))
  BY <1>1, <1>2 DEF Answered
<1>4. /\ Len(had[c]) \in Nat /\ Len(Sent(c)) \in Nat
      /\ Len(had[c]) <= Len(Sent(c))
      /\ \A i \in 1..Len(had[c]) : had[c][i] = Sent(c)[i] /\ i \in 1..Len(Sent(c))
  BY <1>1, <1>2 DEF Sent
<1> QED
  BY <1>3, <1>4 DEF ConnInv, InOrder

\* Once the server has sent something its S1 answers C1.
LEMMA AnswerForm ==
    ASSUME Shape, NEW c \in Conns, ConnInv(c), Len(had[c]) >= 2
    PROVE  /\ client[c] # "idle" /\ hello[c].who \in ClientKinds
           /\ hello[c].c1 \in HellosOf(hello[c].who, AnySums)
           /\ s1[c].scheme = SchemeOf(hello[c].c1)
           /\ s1[c].scheme \in Schemes \cup {NoScheme}
           /\ \E sums \in AnySums : s1[c].packet = MadeS1(s1[c].scheme, sums)
<1>1. client[c] # "idle"
  BY ReadInOrder DEF ConnInv, AtPlace, ClientAt
<1>2. /\ hello[c].who \in ClientKinds
      /\ hello[c].c1 \in HellosOf(hello[c].who, AnySums)
  BY <1>1, WhoDialled
<1>3. ~(Len(had[c]) < 2)
  BY ReadInOrder
<1>4. /\ s1[c].scheme = SchemeOf(hello[c].c1)
      /\ \E sums \in AnySums : s1[c].packet = MadeS1(s1[c].scheme, sums)
  BY <1>3 DEF ConnInv, AnswersC1
<1> QED
  BY <1>1, <1>2, <1>4, HelloForms

\* S0, S1 and S2 at the client.
LEMMA ClientReadsKeeps ==
    ASSUME Shape, NEW c \in Conns, ConnInv(c), ClientReads(c)
    PROVE  Shape' /\ ConnInv(c)' /\ OthersUnmoved(c)
<1>1. UNCHANGED <<backlog, open, toServer, server, hello, had, s1>>
  BY DEF ClientReads
<1>2. PICK to \in {"S1", "S2", "C2"} :
        /\ client' = [client EXCEPT ![c] = to] /\ client[c] # "idle"
        /\ Len(Sent(c)) = 2
        /\ Len(got[c]) = IF to = "S1" THEN 0 ELSE IF to = "S2" THEN 1 ELSE 2
  BY DEF ClientReads, ClientGoes, ConnInv, AtPlace, ClientAt
<1>3. /\ got' \in [Conns -> Seq(ToClientPacket)]
      /\ toClient' \in [Conns -> Seq(ToClientPacket)]
      /\ \A d \in Conns \ {c} : got'[d] = got[d] /\ toClient'[d] = toClient[d]
      /\ Len(got'[c]) = Len(got[c]) + 1
      /\ Answered(c)' = Answered(c) /\ Sent(c)' = Sent(c)
      /\ InOrder(c)' /\ Bounded(c)' /\ AnswersC1(c)'
  BY <1>1, ClientTakesKeeps DEF ClientReads
<1>4. client'[c] = to
  BY <1>2 DEF Shape
<1>5. Shape' /\ OthersUnmoved(c)
  BY <1>1, <1>2, <1>3 DEF Shape, ClientPlace, InHandshake, OthersUnmoved, Unmoved
<1>6. Dialled(c)' /\ Waiting(c)'
  BY <1>1, <1>2, <1>4 DEF ConnInv, Dialled, Waiting
<1>7. AtPlace(c)'
  <2>1. ServerAt(c, Len(had[c]), Len(Answered(c)))'
    BY <1>1, <1>3, ServerStays
  <2>2. /\ Len(Sent(c)') = 2
        /\ Len(got'[c]) = IF to = "S1" THEN 1 ELSE IF to = "S2" THEN 2 ELSE 3
    <3>1. Sent(c)' = Sent(c) /\ Len(got'[c]) = Len(got[c]) + 1
      BY <1>3
    <3> QED
      BY <1>2, <3>1
  <2>3. ClientAt(c, Len(Sent(c)), Len(got[c]))'
    BY <1>2, <1>4, <2>2 DEF ClientAt
  <2> QED
    BY <2>1, <2>3 DEF AtPlace
<1>8. Succeeds(c)'
  BY <1>1, <1>4 DEF ConnInv, Succeeds
<1> QED
  BY <1>3, <1>5, <1>6, <1>7, <1>8 DEF ConnInv

\* C2, and the check of S2, which a client that follows the protocol never fails.
LEMMA ClientVerifiesKeeps ==
    ASSUME Shape, NEW c \in Conns, ConnInv(c), ClientVerifies(c)
    PROVE  Shape' /\ ConnInv(c)' /\ OthersUnmoved(c)
<1>1. /\ UNCHANGED <<backlog, open, toClient, server, hello, got, had, s1>>
      /\ client[c] = "C2"
  BY DEF ClientVerifies
<1>2. Len(Sent(c)) = 2 /\ Len(got[c]) = 3
  BY <1>1 DEF ConnInv, AtPlace, ClientAt
<1>3. Len(had[c]) >= 2
  <2>1. Len(got[c]) <= Len(Answered(c)) /\ Len(Answered(c)) \in Nat
    BY ReadInOrder
  <2>2. Len(Answered(c)) > 0
    BY <1>2, <2>1
  <2> QED
    BY <2>2 DEF ConnInv, AtPlace, ServerAt
<1>4. got[c][2] = s1[c].packet /\ got[c][3] = MadeS2(s1[c].scheme)
  BY <1>2, ReadInOrder DEF ServerPacket
<1>5. PICK sums \in AnySums : s1[c].packet = MadeS1(SchemeOf(hello[c].c1), sums)
  BY <1>3, AnswerForm
<1>6. /\ hello[c].who \in ClientKinds
      /\ hello[c].c1 \in HellosOf(hello[c].who, AnySums)
      /\ s1[c].scheme = SchemeOf(hello[c].c1)
  BY <1>3, AnswerForm
<1>7. hello[c].who # "wrong" =>
        AcceptsS2(hello[c].who, hello[c].c1, got[c][2], got[c][3])
  BY <1>4, <1>5, <1>6, ChecksPass
<1>8. PICK to \in {"running", "rejected"} :
        /\ client' = [client EXCEPT ![c] = to]
        /\ hello[c].who # "wrong" => to = "running"
  BY <1>7 DEF ClientVerifies, ClientGoes
<1>9. client'[c] = to
  BY <1>8 DEF Shape
<1> DEFINE p == MadeC2(hello[c].who, hello[c].c1, s1[c].packet)
<1>10. p \in ToServerPacket /\ p = ClientPacket(c, Len(Sent(c)) + 1)
  BY <1>2, <1>6, PacketTypes DEF ClientPacket
<1>11. ClientSends(c, p)
  BY <1>4 DEF ClientVerifies
<1>12. /\ toServer' \in [Conns -> Seq(ToServerPacket)]
       /\ \A d \in Conns \ {c} : toServer'[d] = toServer[d]
       /\ Len(Sent(c)') = Len(Sent(c)) + 1
       /\ Answered(c)' = Answered(c)
       /\ InOrder(c)' /\ Bounded(c)' /\ AnswersC1(c)'
  <2> HIDE DEF p
  <2> QED
    BY <1>1, <1>10, <1>11, ClientSendsKeeps
<1>13. Shape' /\ OthersUnmoved(c)
  BY <1>1, <1>8, <1>12 DEF Shape, ClientPlace, InHandshake, OthersUnmoved, Unmoved
<1>14. Dialled(c)' /\ Waiting(c)'
  BY <1>1, <1>9 DEF ConnInv, Dialled, Waiting
<1>15. AtPlace(c)'
  <2>1. ServerAt(c, Len(had[c]), Len(Answered(c)))'
    BY <1>1, <1>12, ServerStays
  <2>2. Len(Sent(c)') = 3 /\ Len(got'[c]) = 3
    BY <1>1, <1>2, <1>12
  <2>3. ClientAt(c, Len(Sent(c)), Len(got[c]))'
    BY <1>9, <2>2 DEF ClientAt
  <2> QED
    BY <2>1, <2>3 DEF AtPlace
<1>16. Succeeds(c)'
  BY <1>1, <1>8, <1>9 DEF ConnInv, Succeeds
<1> QED
  BY <1>12, <1>13, <1>14, <1>15, <1>16 DEF ConnInv

\* The first chunk of the session.
LEMMA ClientWritesKeeps ==
    ASSUME Shape, NEW c \in Conns, ConnInv(c), ClientWrites(c)
    PROVE  Shape' /\ ConnInv(c)' /\ OthersUnmoved(c)
<1>1. /\ UNCHANGED <<backlog, open, toClient, server, hello, got, had, s1>>
      /\ client[c] = "running" /\ client' = [client EXCEPT ![c] = "written"]
      /\ ClientSends(c, Plain("chunk"))
  BY DEF ClientWrites, ClientGoes
<1>2. Len(Sent(c)) = 3 /\ Len(got[c]) = 3
  <2>1. ClientAt(c, Len(Sent(c)), Len(got[c]))
    BY DEF ConnInv, AtPlace
  <2>2. Len(Sent(c)) = 3
    BY <1>1, <2>1 DEF ClientAt
  <2>3. Len(Sent(c)) >= 3 => Len(got[c]) = 3
    BY <2>1 DEF ClientAt
  <2> QED
    BY <2>2, <2>3
<1>3. /\ Plain("chunk") \in ToServerPacket
      /\ Plain("chunk") = ClientPacket(c, Len(Sent(c)) + 1)
  BY <1>2, PacketTypes DEF ClientPacket
<1>4. /\ toServer' \in [Conns -> Seq(ToServerPacket)]
      /\ \A d \in Conns \ {c} : toServer'[d] = toServer[d]
      /\ Len(Sent(c)') = Len(Sent(c)) + 1
      /\ Answered(c)' = Answered(c)
      /\ InOrder(c)' /\ Bounded(c)' /\ AnswersC1(c)'
  BY <1>1, <1>3, ClientSendsKeeps
<1>5. client'[c] = "written"
  BY <1>1 DEF Shape
<1>6. Shape' /\ OthersUnmoved(c)
  BY <1>1, <1>4 DEF Shape, ClientPlace, OthersUnmoved, Unmoved
<1>7. Dialled(c)' /\ Waiting(c)' /\ Succeeds(c)'
  BY <1>1, <1>5 DEF ConnInv, Dialled, Waiting, Succeeds
<1>8. AtPlace(c)'
  <2>1. ServerAt(c, Len(had[c]), Len(Answered(c)))'
    BY <1>1, <1>4, ServerStays
  <2>2. Len(Sent(c)') = 4 /\ Len(got'[c]) = 3
    BY <1>1, <1>2, <1>4
  <2>3. ClientAt(c, Len(Sent(c)), Len(got[c]))'
    BY <1>5, <2>2 DEF ClientAt
  <2> QED
    BY <2>1, <2>3 DEF AtPlace
<1> QED
  BY <1>4, <1>6, <1>7, <1>8 DEF ConnInv

\* The client closes, wherever it is.
LEMMA ClientClosesKeeps ==
    ASSUME Shape, NEW c \in Conns, ConnInv(c), ClientCloses(c)
    PROVE  Shape' /\ ConnInv(c)' /\ OthersUnmoved(c)
<1>1. /\ UNCHANGED <<backlog, toServer, toClient, server, hello, got, had, s1>>
      /\ client[c] # "idle" /\ client' = [client EXCEPT ![c] = "closed"]
      /\ open' = [open EXCEPT ![c] = FALSE]
  BY DEF ClientCloses, ClientGoes, ClientActive
<1>2. client'[c] = "closed"
  BY <1>1 DEF Shape
<1>3. Shape' /\ OthersUnmoved(c)
  BY <1>1 DEF Shape, ClientPlace, OthersUnmoved, Unmoved
<1>4. Dialled(c)' /\ Waiting(c)' /\ Bounded(c)' /\ AnswersC1(c)' /\ Succeeds(c)'
  BY <1>1, <1>2
  DEF ConnInv, Dialled, Waiting, Bounded, AnswersC1, Succeeds
<1>5. Sent(c)' = Sent(c) /\ Answered(c)' = Answered(c)
  BY <1>1 DEF Sent, Answered
<1>6. InOrder(c)'
  BY <1>1, <1>5 DEF ConnInv, InOrder, ClientPacket, ServerPacket
<1>7. AtPlace(c)'
  <2>1. ServerAt(c, Len(had[c]), Len(Answered(c)))'
    BY <1>1, <1>5, ServerStays
  <2>2. ClientAt(c, Len(Sent(c)), Len(got[c]))'
    BY <1>1, <1>2, <1>5 DEF ConnInv, AtPlace, ClientAt
  <2> QED
    BY <2>1, <2>2 DEF AtPlace
<1> QED
  BY <1>3, <1>4, <1>6, <1>7 DEF ConnInv

\* C0 and C1 at the server, which answers C1 in the scheme it is signed under.
LEMMA ServerReadsKeeps ==
    ASSUME Shape, NEW c \in Conns, ConnInv(c), ServerReads(c)
    PROVE  Shape' /\ ConnInv(c)' /\ OthersUnmoved(c)
<1>1. /\ UNCHANGED <<backlog, open, toClient, client, hello, got>>
      /\ ServerTakes(c)
  BY DEF ServerReads
<1>2. /\ had' \in [Conns -> Seq(ToServerPacket)]
      /\ toServer' \in [Conns -> Seq(ToServerPacket)]
      /\ \A d \in Conns \ {c} : had'[d] = had[d] /\ toServer'[d] = toServer[d]
      /\ Bounded(c)'
  BY <1>1, ServerTakesNext
<1>3. /\ Len(had'[c]) = Len(had[c]) + 1
      /\ Answered(c)' = Answered(c) /\ Sent(c)' = Sent(c)
      /\ Len(had[c]) < Len(Sent(c))
      /\ Head(toServer[c]) = ClientPacket(c, Len(had[c]) + 1)
  BY <1>1, ServerTakesNext
<1>4. Len(Answered(c)) = 0 /\ server[c] \in {"C0", "C1"}
  BY DEF ServerReads, ConnInv, AtPlace, ServerAt
<1>5. ~(Len(Sent(c)) >= 3)
  BY <1>4, ReadInOrder DEF ConnInv, AtPlace, ClientAt
<1>6. client[c] # "idle"
  BY <1>4 DEF ConnInv, Dialled
<1>7. InOrder(c)'
  <2>1. \A i \in 1..Len(Sent(c)) : ClientPacket(c, i)' = ClientPacket(c, i)
    BY <1>1, <1>5, ReadInOrder DEF ClientPacket
  <2>2. \A i \in 1..Len(Answered(c)) : FALSE
    BY <1>4
  <2> QED
    BY <1>3, <2>1, <2>2 DEF ConnInv, InOrder
<1>8. ClientAt(c, Len(Sent(c)), Len(got[c]))'
  BY <1>1, <1>3, ClientStays
<1>9. CASE server[c] = "C0" /\ ServerGoes(c, "C1") /\ UNCHANGED s1
  <2>1. server' = [server EXCEPT ![c] = "C1"] /\ server'[c] = "C1"
    BY <1>9 DEF ServerGoes, Shape
  <2>2. Shape' /\ OthersUnmoved(c)
    BY <1>1, <1>2, <1>9, <2>1
    DEF Shape, ServerPlace, InHandshake, OthersUnmoved, Unmoved
  <2>3. Len(had[c]) = 0
    BY <1>9 DEF ConnInv, AtPlace, ServerAt
  <2>4. Len(had'[c]) = 1 /\ Len(Answered(c)') = 0
    BY <1>3, <1>4, <2>3
  <2>5. AtPlace(c)'
    BY <1>8, <2>1, <2>4 DEF AtPlace, ServerAt
  <2>6. Dialled(c)' /\ Waiting(c)' /\ Succeeds(c)'
    BY <1>1, <1>6, <1>9, <2>1 DEF ConnInv, Dialled, Waiting, Succeeds
  <2>7. AnswersC1(c)'
    BY <1>9, <2>3, <2>4 DEF ConnInv, AnswersC1
  <2> QED
    BY <1>2, <1>7, <2>2, <2>5, <2>6, <2>7 DEF ConnInv
<1>10. CASE server[c] = "C1" /\ ServerGoes(c, "S0")
  <2>1. server' = [server EXCEPT ![c] = "S0"] /\ server'[c] = "S0"
    BY <1>10 DEF ServerGoes, Shape
  <2>2. Len(had[c]) = 1
    BY <1>10 DEF ConnInv, AtPlace, ServerAt
  <2>3. Head(toServer[c]) = hello[c].c1
    BY <1>3, <2>2 DEF ClientPacket
  <2>4. PICK sums \in AnySums :
          s1' = [s1 EXCEPT ![c] =
                   [scheme |-> SchemeOf(hello[c].c1),
                    packet |-> MadeS1(SchemeOf(hello[c].c1), sums)]]
    BY <1>10, <2>3 DEF ServerReads
  <2>5. /\ s1'[c].scheme = SchemeOf(hello[c].c1)
        /\ s1'[c].packet = MadeS1(SchemeOf(hello[c].c1), sums)
    BY <2>4 DEF Shape
  <2>6. Shape' /\ OthersUnmoved(c)
    BY <1>1, <1>2, <2>1, <2>4
    DEF Shape, ServerPlace, InHandshake, OthersUnmoved, Unmoved
  <2>7. Len(had'[c]) = 2 /\ Len(Answered(c)') = 0
    BY <1>3, <1>4, <2>2
  <2>8. AtPlace(c)'
    BY <1>8, <2>1, <2>7 DEF AtPlace, ServerAt
  <2>9. Dialled(c)' /\ Waiting(c)' /\ Succeeds(c)'
    BY <1>1, <1>6, <1>10, <2>1 DEF ConnInv, Dialled, Waiting, Succeeds
  <2>10. AnswersC1(c)'
    BY <1>1, <2>5, <2>7 DEF AnswersC1
  <2> QED
    BY <1>2, <1>7, <2>6, <2>8, <2>9, <2>10 DEF ConnInv
<1> QED
  BY <1>9, <1>10 DEF ServerReads

\* S0, S1 and S2 at the server.
LEMMA ServerAnswersKeeps ==
    ASSUME Shape, NEW c \in Conns, ConnInv(c), ServerAnswers(c)
    PROVE  Shape' /\ ConnInv(c)' /\ OthersUnmoved(c)
<1>1. UNCHANGED <<backlog, open, toServer, client, hello, got, had, s1>>
  BY DEF ServerAnswers
<1>2. Len(had[c]) = 2
  BY DEF ServerAnswers, ConnInv, AtPlace, ServerAt
<1>3. /\ s1[c].scheme \in Schemes \cup {NoScheme} /\ client[c] # "idle"
      /\ \E sums \in AnySums : s1[c].packet = MadeS1(s1[c].scheme, sums)
  BY <1>2, AnswerForm
<1>4. PICK p \in ToClientPacket, to \in {"S1", "S2", "C2"} :
        /\ ServerSends(c, p) /\ server' = [server EXCEPT ![c] = to]
        /\ p = ServerPacket(c, Len(Answered(c)) + 1)
        /\ server[c] \in {"S0", "S1", "S2"}
        /\ Len(Answered(c)) = IF to = "S1" THEN 0 ELSE IF to = "S2" THEN 1 ELSE 2
  <2>1. CASE server[c] = "S0" /\ ServerSends(c, Plain("S0")) /\ ServerGoes(c, "S1")
    <3>1. Len(Answered(c)) = 0
      BY <2>1 DEF ConnInv, AtPlace, ServerAt
    <3>2. Plain("S0") = ServerPacket(c, Len(Answered(c)) + 1)
      BY <3>1 DEF ServerPacket
    <3> QED
      BY <2>1, <3>1, <3>2, PacketTypes DEF ServerGoes
  <2>2. CASE server[c] = "S1" /\ ServerSends(c, s1[c].packet) /\ ServerGoes(c, "S2")
    <3>1. Len(Answered(c)) = 1
      BY <2>2 DEF ConnInv, AtPlace, ServerAt
    <3>2. s1[c].packet = ServerPacket(c, Len(Answered(c)) + 1)
      BY <3>1 DEF ServerPacket
    <3>3. s1[c].packet \in ToClientPacket
      BY <1>3, PacketTypes
    <3> QED
      BY <2>2, <3>1, <3>2, <3>3 DEF ServerGoes
  <2>3. CASE /\ server[c] = "S2" /\ ServerSends(c, MadeS2(s1[c].scheme))
             /\ ServerGoes(c, "C2")
    <3>1. Len(Answered(c)) = 2
      BY <2>3 DEF ConnInv, AtPlace, ServerAt
    <3>2. MadeS2(s1[c].scheme) = ServerPacket(c, Len(Answered(c)) + 1)
      BY <3>1 DEF ServerPacket
    <3>3. MadeS2(s1[c].scheme) \in ToClientPacket
      BY PacketTypes
    <3> QED
      BY <2>3, <3>1, <3>2, <3>3 DEF ServerGoes
  <2> QED
    BY <2>1, <2>2, <2>3 DEF ServerAnswers
<1>5. /\ toClient' \in [Conns -> Seq(ToClientPacket)]
      /\ \A d \in Conns \ {c} : toClient'[d] = toClient[d]
      /\ Len(Answered(c)') = Len(Answered(c)) + 1
      /\ Sent(c)' = Sent(c)
      /\ InOrder(c)' /\ Bounded(c)' /\ AnswersC1(c)'
  BY <1>1, <1>4, ServerSendsKeeps
<1>6. server'[c] = to
  BY <1>4 DEF Shape
<1>7. Shape' /\ OthersUnmoved(c)
  BY <1>1, <1>4, <1>5 DEF Shape, ServerPlace, InHandshake, OthersUnmoved, Unmoved
<1>8. backlog[c] = None
  BY <1>4 DEF ConnInv, Waiting
<1>9. Dialled(c)' /\ Waiting(c)' /\ Succeeds(c)'
  BY <1>1, <1>3, <1>6, <1>8 DEF ConnInv, Dialled, Waiting, Succeeds
<1>10. AtPlace(c)'
  <2>1. ClientAt(c, Len(Sent(c)), Len(got[c]))'
    BY <1>1, <1>5, ClientStays
  <2>2. /\ Len(had'[c]) = 2
        /\ Len(Answered(c)') = IF to = "S1" THEN 1 ELSE IF to = "S2" THEN 2 ELSE 3
    <3>1. Len(Answered(c)') = Len(Answered(c)) + 1
      BY <1>5
    <3> QED
      BY <1>1, <1>2, <1>4, <3>1
  <2>3. ServerAt(c, Len(had[c]), Len(Answered(c)))'
    BY <1>6, <2>2 DEF ServerAt
  <2> QED
    BY <2>1, <2>3 DEF AtPlace
<1> QED
  BY <1>5, <1>7, <1>9, <1>10 DEF ConnInv

\* After C1 the packets are fixed, and reading one changes none.
LEMMA ServerTakesLater ==
    ASSUME Shape, NEW c \in Conns, ConnInv(c), Len(had[c]) >= 2, ServerTakes(c),
           UNCHANGED <<got, toClient, hello, s1>>
    PROVE  InOrder(c)' /\ AnswersC1(c)'
<1>1. /\ Answered(c)' = Answered(c) /\ Sent(c)' = Sent(c)
      /\ Len(had'[c]) = Len(had[c]) + 1 /\ Len(had[c]) \in Nat
  BY ServerTakesNext
<1>2. \A i : ClientPacket(c, i)' = ClientPacket(c, i)
             /\ ServerPacket(c, i)' = ServerPacket(c, i)
  BY DEF ClientPacket, ServerPacket
<1>3. InOrder(c)'
  BY <1>1, <1>2 DEF ConnInv, InOrder
<1>4. ~(Len(had[c]) < 2) /\ ~(Len(had'[c]) < 2)
  BY <1>1
<1> QED
  BY <1>3, <1>4 DEF ConnInv, AnswersC1

\* C2, which is as it should be exactly if the client follows the protocol.
LEMMA ServerVerifiesKeeps ==
    ASSUME Shape, NEW c \in Conns, ConnInv(c), ServerVerifies(c)
    PROVE  Shape' /\ ConnInv(c)' /\ OthersUnmoved(c)
<1>1. /\ UNCHANGED <<backlog, open, toClient, client, hello, got, s1>>
      /\ ServerTakes(c) /\ server[c] = "C2"
  BY DEF ServerVerifies
<1>2. Len(had[c]) = 2 /\ Len(Answered(c)) = 3
  BY <1>1 DEF ConnInv, AtPlace, ServerAt
<1>3. /\ had' \in [Conns -> Seq(ToServerPacket)]
      /\ toServer' \in [Conns -> Seq(ToServerPacket)]
      /\ \A d \in Conns \ {c} : had'[d] = had[d] /\ toServer'[d] = toServer[d]
      /\ Bounded(c)'
  BY <1>1, ServerTakesNext
<1>4. /\ Len(had'[c]) = Len(had[c]) + 1
      /\ Answered(c)' = Answered(c) /\ Sent(c)' = Sent(c)
      /\ Head(toServer[c]) = ClientPacket(c, Len(had[c]) + 1)
  BY <1>1, ServerTakesNext
<1>5. InOrder(c)' /\ AnswersC1(c)'
  BY <1>1, <1>2, ServerTakesLater
<1>6. PICK sums \in AnySums : s1[c].packet = MadeS1(SchemeOf(hello[c].c1), sums)
  BY <1>2, AnswerForm
<1>7. /\ hello[c].who \in ClientKinds
      /\ hello[c].c1 \in HellosOf(hello[c].who, AnySums)
      /\ s1[c].scheme = SchemeOf(hello[c].c1) /\ client[c] # "idle"
  <2>1. Len(had[c]) >= 2
    BY <1>2
  <2> QED
    BY <2>1, AnswerForm
<1>8. Head(toServer[c]) = MadeC2(hello[c].who, hello[c].c1, s1[c].packet)
  BY <1>2, <1>4 DEF ClientPacket
<1>9. /\ hello[c].who # "wrong" => AcceptsC2(s1[c].scheme, Head(toServer[c]))
      /\ hello[c].who = "wrong" => ~AcceptsC2(s1[c].scheme, Head(toServer[c]))
  BY <1>6, <1>7, <1>8, ChecksPass
<1>10. PICK to \in {"serving", "rejected"} :
         /\ server' = [server EXCEPT ![c] = to]
         /\ hello[c].who # "wrong" => to = "serving"
         /\ hello[c].who = "wrong" /\ to = "serving" => SkipServer
  BY <1>9 DEF ServerVerifies, ServerGoes
<1>11. server'[c] = to
  BY <1>10 DEF Shape
<1>12. Shape' /\ OthersUnmoved(c)
  BY <1>1, <1>3, <1>10 DEF Shape, ServerPlace, OthersUnmoved, Unmoved
<1>13. Dialled(c)' /\ Waiting(c)'
  BY <1>1, <1>7, <1>11 DEF ConnInv, Dialled, Waiting
<1>14. Succeeds(c)'
  BY <1>1, <1>10, <1>11 DEF ConnInv, Succeeds
<1>15. AtPlace(c)'
  <2>1. ClientAt(c, Len(Sent(c)), Len(got[c]))'
    BY <1>1, <1>4, ClientStays
  <2>2. Len(had'[c]) = 3 /\ Len(Answered(c)') = 3
    BY <1>2, <1>4
  <2>3. ServerAt(c, Len(had[c]), Len(Answered(c)))'
    BY <1>11, <2>2 DEF ServerAt
  <2> QED
    BY <2>1, <2>3 DEF AtPlace
<1> QED
  BY <1>3, <1>5, <1>12, <1>13, <1>14, <1>15 DEF ConnInv

\* What follows C2 is read by the message loop.
LEMMA ServerHandlesKeeps ==
    ASSUME Shape, NEW c \in Conns, ConnInv(c), ServerHandles(c)
    PROVE  Shape' /\ ConnInv(c)' /\ OthersUnmoved(c)
<1>1. /\ UNCHANGED <<backlog, open, toClient, client, server, hello, got, s1>>
      /\ ServerTakes(c) /\ server[c] = "serving"
  BY DEF ServerHandles
<1>2. Len(had[c]) >= 3 /\ Len(Answered(c)) <= 3
  BY <1>1 DEF ConnInv, AtPlace, ServerAt
<1>3. /\ had' \in [Conns -> Seq(ToServerPacket)]
      /\ toServer' \in [Conns -> Seq(ToServerPacket)]
      /\ \A d \in Conns \ {c} : had'[d] = had[d] /\ toServer'[d] = toServer[d]
      /\ Bounded(c)'
  BY <1>1, ServerTakesNext
<1>4. /\ Len(had'[c]) = Len(had[c]) + 1 /\ Len(had[c]) \in Nat
      /\ Answered(c)' = Answered(c) /\ Sent(c)' = Sent(c)
  BY <1>1, ServerTakesNext
<1>5. Len(had[c]) >= 2
  BY <1>2, <1>4
<1>6. InOrder(c)' /\ AnswersC1(c)'
  BY <1>1, <1>5, ServerTakesLater
<1>7. Shape' /\ OthersUnmoved(c)
  BY <1>1, <1>3 DEF Shape, OthersUnmoved, Unmoved
<1>8. Dialled(c)' /\ Waiting(c)' /\ Succeeds(c)'
  BY <1>1 DEF ConnInv, Dialled, Waiting, Succeeds
<1>9. AtPlace(c)'
  <2>1. ClientAt(c, Len(Sent(c)), Len(got[c]))'
    BY <1>1, <1>4, ClientStays
  <2>2. Len(had'[c]) >= 3 /\ Len(Answered(c)') <= 3 /\ server'[c] = "serving"
    BY <1>1, <1>2, <1>4
  <2>3. ServerAt(c, Len(had[c]), Len(Answered(c)))'
    BY <2>2 DEF ServerAt
  <2> QED
    BY <2>1, <2>3 DEF AtPlace
<1> QED
  BY <1>3, <1>6, <1>7, <1>8, <1>9 DEF ConnInv

\* A handler that ends has been started, and is past checking.
LEMMA ServerEndsKeeps ==
    ASSUME Shape, NEW c \in Conns, ConnInv(c), ServerBreaks(c) \/ ServerCloses(c)
    PROVE  Shape' /\ ConnInv(c)' /\ OthersUnmoved(c)
<1>1. /\ UNCHANGED <<backlog, toServer, toClient, client, hello, got, had, s1>>
      /\ server[c] # "none"
  BY DEF ServerBreaks, ServerCloses
<1>2. PICK to \in {"broken", "closed"} : server' = [server EXCEPT ![c] = to]
  BY DEF ServerBreaks, ServerCloses, ServerGoes
<1>3. open' \in [Conns -> BOOLEAN]
  BY DEF ServerBreaks, ServerCloses, Shape
<1>4. server'[c] = to
  BY <1>2 DEF Shape
<1>5. Shape' /\ OthersUnmoved(c)
  BY <1>1, <1>2, <1>3 DEF Shape, ServerPlace, OthersUnmoved, Unmoved
<1>6. client[c] # "idle" /\ backlog[c] = None
  BY <1>1 DEF ConnInv, Dialled, Waiting
<1>7. Dialled(c)' /\ Waiting(c)' /\ Bounded(c)' /\ AnswersC1(c)' /\ Succeeds(c)'
  BY <1>1, <1>4, <1>6
  DEF ConnInv, Dialled, Waiting, Bounded, AnswersC1, Succeeds
<1>8. Sent(c)' = Sent(c) /\ Answered(c)' = Answered(c)
  BY <1>1 DEF Sent, Answered
<1>9. InOrder(c)'
  BY <1>1, <1>8 DEF ConnInv, InOrder, ClientPacket, ServerPacket
<1>10. AtPlace(c)'
  <2>1. ClientAt(c, Len(Sent(c)), Len(got[c]))'
    BY <1>1, <1>8, ClientStays
  <2>2. ServerAt(c, Len(had[c]), Len(Answered(c)))'
    BY <1>1, <1>4, <1>8 DEF ConnInv, AtPlace, ServerAt
  <2> QED
    BY <2>1, <2>2 DEF AtPlace
<1> QED
  BY <1>5, <1>7, <1>9, <1>10 DEF ConnInv

-----------------------------------------------------------------------------
(* The inductive invariant is inductive *)

\* A step of the listener or of Server.Close touches transports, and no packet.
LEMMA ListenKeeps ==
    ASSUME IInv, Close \/ \E l \in Listeners :
                            Register(l) \/ AcceptFails(l) \/ CheckDone(l)
    PROVE  IInv'
<1>1. UNCHANGED <<backlog, toServer, toClient, client, server, hello, got, had, s1>>
  BY DEF Close, Register, AcceptFails, CheckDone, connVars
<1>2. open' \in [Conns -> BOOLEAN]
  <2>1. ASSUME NEW l, CloseListener(l) PROVE open' \in [Conns -> BOOLEAN]
    BY <2>1 DEF IInv, Shape, CloseListener
  <2>2. CASE Close
    <3>1. CASE UNCHANGED <<listening, open>>
      BY <3>1 DEF IInv, Shape
    <3> QED
      BY <2>1, <2>2, <3>1 DEF Close
  <2>3. CASE \E l \in Listeners : Register(l) \/ AcceptFails(l)
    BY <2>3 DEF IInv, Shape, Register, AcceptFails, connVars
  <2>4. CASE \E l \in Listeners : CheckDone(l)
    <3>1. PICK l \in Listeners : CheckDone(l)
      BY <2>4
    <3>2. CASE UNCHANGED <<listening, open>>
      BY <3>2 DEF IInv, Shape
    <3> QED
      BY <2>1, <3>1, <3>2 DEF CheckDone
  <2> QED
    BY <2>2, <2>3, <2>4
<1>3. Shape'
  BY <1>1, <1>2 DEF IInv, Shape
<1>4. \A c \in Conns : ConnInv(c)'
  <2> TAKE c \in Conns
  <2>1. Unmoved(c)
    BY <1>1 DEF Unmoved
  <2> QED
    BY <2>1, UnmovedKeeps DEF IInv
<1>5. Listening'
  <2>1. CASE Close
    <3>1. closed' = TRUE /\ listening' \subseteq listening
          /\ UNCHANGED <<listener, serve>>
      BY <2>1 DEF Close, CloseListener
    <3> QED
      BY <3>1 DEF IInv, Listening
  <2>2. ASSUME NEW l \in Listeners, Register(l) PROVE Listening'
    <3>1. CASE /\ listener = None /\ listener' = l
               /\ serve' = [serve EXCEPT ![l] = "accept"]
      BY <2>2, <3>1, NamesAssumption DEF Register, IInv, Listening
    <3>2. CASE /\ listener' = listener
               /\ serve' = [serve EXCEPT ![l] = "Already served"]
      BY <2>2, <3>2 DEF Register, IInv, Listening
    <3> QED
      BY <2>2, <3>1, <3>2 DEF Register
  <2>3. ASSUME NEW l \in Listeners, AcceptFails(l) PROVE Listening'
    BY <2>3 DEF AcceptFails, IInv, Listening
  <2>4. ASSUME NEW l \in Listeners, CheckDone(l) PROVE Listening'
    <3>1. PICK to \in {"accept", "ErrClosed"} : serve' = [serve EXCEPT ![l] = to]
      BY <2>4 DEF CheckDone
    <3>2. listening' \subseteq listening /\ UNCHANGED <<listener, closed>>
      BY <2>4 DEF CheckDone, CloseListener
    <3>3. serve[l] = "check"
      BY <2>4 DEF CheckDone
    <3> QED
      BY <3>1, <3>2, <3>3 DEF IInv, Listening
  <2> QED
    BY <2>1, <2>2, <2>3, <2>4
<1> QED
  BY <1>3, <1>4, <1>5 DEF IInv

\* A step of a connection leaves the others alone.
LEMMA ConnKeeps ==
    ASSUME IInv, NEW c \in Conns,
           \/ Dial(c) \/ ClientStep(c) \/ ClientWrites(c) \/ ClientCloses(c)
           \/ ServerStep(c) \/ \E l \in Listeners : Accept(l, c)
    PROVE  IInv'
<1>1. UNCHANGED listenVars
  <2>1. CASE Dial(c) \/ ClientWrites(c) \/ ClientCloses(c)
    BY <2>1 DEF Dial, ClientWrites, ClientCloses
  <2>2. CASE ClientStep(c)
    BY <2>2 DEF ClientStep, ClientGreets, ClientReads, ClientVerifies
  <2>3. CASE ServerStep(c)
    BY <2>3 DEF ServerStep, ServerReads, ServerAnswers, ServerVerifies,
                ServerHandles, ServerBreaks, ServerCloses
  <2>4. CASE \E l \in Listeners : Accept(l, c)
    BY <2>4 DEF Accept
  <2> QED
    BY <2>1, <2>2, <2>3, <2>4
<1>2. Listening'
  BY <1>1 DEF IInv, Listening, listenVars
<1>3. Listening /\ Shape /\ ConnInv(c)
  BY DEF IInv
<1>4. Shape' /\ ConnInv(c)' /\ OthersUnmoved(c)
  <2>1. CASE Dial(c) \/ \E l \in Listeners : Accept(l, c)
    BY <1>3, <2>1, DialKeeps, AcceptKeeps
  <2>2. CASE ClientStep(c)
    BY <1>3, <2>2, ClientGreetsKeeps, ClientReadsKeeps, ClientVerifiesKeeps
    DEF ClientStep
  <2>3. CASE ClientWrites(c) \/ ClientCloses(c)
    BY <1>3, <2>3, ClientWritesKeeps, ClientClosesKeeps
  <2>4. CASE ServerStep(c)
    BY <1>3, <2>4, ServerReadsKeeps, ServerAnswersKeeps, ServerVerifiesKeeps,
       ServerHandlesKeeps, ServerEndsKeeps DEF ServerStep
  <2> QED
    BY <2>1, <2>2, <2>3, <2>4
<1>5. \A d \in Conns : ConnInv(d)'
  <2> TAKE d \in Conns
  <2>1. CASE d = c
    BY <1>4, <2>1
  <2>2. CASE d # c
    BY <1>4, <2>2, UnmovedKeeps DEF IInv, OthersUnmoved
  <2> QED
    BY <2>1, <2>2
<1> QED
  BY <1>2, <1>4, <1>5 DEF IInv

\* At first nobody has dialled.
LEMMA InitIInv == Init => IInv
<1> SUFFICES ASSUME Init PROVE IInv
  OBVIOUS
<1>1. Listening /\ Shape
  <2>1. Listening
    BY NamesAssumption DEF Init, Listening
  <2>2. /\ <<>> \in Seq(ToServerPacket) /\ <<>> \in Seq(ToClientPacket)
        /\ "idle" \in ClientPlace /\ "none" \in ServerPlace
    BY DEF ClientPlace, ServerPlace
  <2>3. /\ toServer \in [Conns -> Seq(ToServerPacket)]
        /\ toClient \in [Conns -> Seq(ToClientPacket)]
        /\ had \in [Conns -> Seq(ToServerPacket)]
        /\ got \in [Conns -> Seq(ToClientPacket)]
        /\ client \in [Conns -> ClientPlace] /\ server \in [Conns -> ServerPlace]
    BY <2>2 DEF Init
  <2>4. /\ backlog \in [Conns -> Listeners \cup {None}]
        /\ open \in [Conns -> BOOLEAN]
        /\ hello = [c \in Conns |-> hello[c]]
        /\ s1 = [c \in Conns |-> s1[c]]
    BY DEF Init
  <2> QED
    BY <2>1, <2>3, <2>4 DEF Shape
<1>2. ASSUME NEW c \in Conns PROVE ConnInv(c)
  <2>1. /\ client[c] = "idle" /\ server[c] = "none" /\ backlog[c] = None
        /\ hello[c] = None /\ s1[c] = None
        /\ had[c] = <<>> /\ got[c] = <<>> /\ toServer[c] = <<>> /\ toClient[c] = <<>>
    BY DEF Init
  <2>2. Sent(c) = <<>> /\ Answered(c) = <<>>
    BY <2>1 DEF Sent, Answered
  <2>3. Dialled(c) /\ Waiting(c) /\ Succeeds(c)
    BY <2>1 DEF Dialled, Waiting, Succeeds
  <2>4. AtPlace(c) /\ InOrder(c)
    BY <2>1, <2>2 DEF AtPlace, ClientAt, ServerAt, InOrder
  <2>5. AnswersC1(c) /\ Bounded(c)
    BY <2>1, BufferAssumption DEF AnswersC1, Bounded
  <2> QED
    BY <2>3, <2>4, <2>5 DEF ConnInv
<1> QED
  BY <1>1, <1>2 DEF IInv

\* Every step keeps the inductive invariant.
LEMMA NextIInv == IInv /\ [Next]_vars => IInv'
<1> SUFFICES ASSUME IInv, [Next]_vars PROVE IInv'
  OBVIOUS
<1>1. CASE Next
  BY <1>1, ListenKeeps, ConnKeeps DEF Next, ServeStep
<1>2. CASE UNCHANGED vars
  <2>1. UNCHANGED listenVars /\ UNCHANGED connVars
    BY <1>2 DEF vars
  <2>2. Listening' /\ Shape'
    BY <2>1 DEF IInv, Listening, Shape, listenVars, connVars
  <2>3. \A c \in Conns : Unmoved(c)
    BY <2>1 DEF Unmoved, connVars
  <2> QED
    BY <2>2, <2>3, UnmovedKeeps DEF IInv
<1> QED
  BY <1>1, <1>2

\* The inductive invariant holds throughout.
LEMMA Invariance == Spec => []IInv
BY InitIInv, NextIInv, PTL DEF Spec

-----------------------------------------------------------------------------
(* What follows from it *)

\* Every variable keeps its type, the transport holds no more than it can, and
\* the digest of every packet lies within a block of the packet.
THEOREM TypeCorrect == Spec => []TypeOK
<1>1. IInv => TypeOK
  <2> SUFFICES ASSUME IInv PROVE TypeOK
    OBVIOUS
  <2>1. ASSUME NEW c \in Conns
        PROVE  /\ hello[c] # None => Placed(hello[c].c1)
               /\ s1[c] # None => Placed(s1[c].packet)
    <3>1. Shape /\ ConnInv(c)
      BY DEF IInv
    <3>2. hello[c] # None => Placed(hello[c].c1)
      BY <3>1, PacketsPlaced DEF ConnInv, Dialled
    <3>3. s1[c] # None => Len(had[c]) >= 2
      BY <3>1, ReadInOrder DEF ConnInv, AnswersC1
    <3>4. s1[c] # None => Placed(s1[c].packet)
      BY <3>1, <3>3, AnswerForm, PacketsPlaced
    <3> QED
      BY <3>2, <3>4
  <2>2. ASSUME NEW c \in Conns
        PROVE  /\ backlog[c] \in Listeners \cup {None} /\ open[c] \in BOOLEAN
               /\ client[c] \in ClientPlace /\ server[c] \in ServerPlace
               /\ Bounded(c)
    BY DEF IInv, Shape, ConnInv
  <2>3. Listening
    BY DEF IInv
  <2> QED
    BY <2>1, <2>2, <2>3 DEF TypeOK, Listening, ClientPlace, ServerPlace, Bounded
<1> QED
  BY Invariance, <1>1, PTL

\* Both sides read the packets in the order they expect, however the transport
\* cuts the handshake up.
THEOREM ReadsInStep == Spec => []InStep
<1>1. IInv => InStep
  <2> SUFFICES ASSUME IInv, NEW c \in Conns
               PROVE  /\ \A i \in DOMAIN had[c] :
                           had[c][i].kind = <<"C0", "C1", "C2", "chunk">>[i]
                      /\ \A i \in DOMAIN got[c] :
                           got[c][i].kind = <<"S0", "S1", "S2">>[i]
    BY DEF InStep
  <2>1. Shape /\ ConnInv(c)
    BY DEF IInv
  <2>2. /\ Len(had[c]) <= 4 /\ Len(got[c]) <= 3
        /\ Len(had[c]) \in Nat /\ Len(got[c]) \in Nat
    <3>1. Len(Sent(c)) <= 4 /\ Len(got[c]) <= 3
      BY <2>1 DEF ConnInv, AtPlace, ClientAt
    <3> QED
      BY <2>1, <3>1, ReadInOrder
  <2>3. ASSUME NEW i \in DOMAIN had[c]
        PROVE  had[c][i].kind = <<"C0", "C1", "C2", "chunk">>[i]
    <3>1. i \in 1..Len(had[c]) /\ i \in 1..4
      <4>1. had[c] \in Seq(ToServerPacket)
        BY <2>1 DEF Shape
      <4>2. DOMAIN had[c] = 1..Len(had[c])
        BY <4>1
      <4> QED
        BY <2>2, <4>2
    <3>2. had[c][i] = ClientPacket(c, i)
      BY <2>1, <3>1, ReadInOrder
    <3>3. client[c] # "idle"
      BY <2>1, <2>2, <3>1 DEF ConnInv, Dialled, AtPlace, ServerAt
    <3>4. /\ hello[c].who \in ClientKinds
          /\ hello[c].c1 \in HellosOf(hello[c].who, AnySums)
      BY <2>1, <3>3, WhoDialled
    <3>5. /\ i = 1 => ClientPacket(c, i).kind = "C0"
          /\ i = 2 => ClientPacket(c, i).kind = "C1"
          /\ i = 3 => ClientPacket(c, i).kind = "C2"
          /\ i = 4 => ClientPacket(c, i).kind = "chunk"
      BY <3>4, PacketTypes DEF ClientPacket
    <3> QED
      BY <3>1, <3>2, <3>5
  <2>4. ASSUME NEW i \in DOMAIN got[c]
        PROVE  got[c][i].kind = <<"S0", "S1", "S2">>[i]
    <3>1. i \in 1..Len(got[c]) /\ i \in 1..3
      <4>1. got[c] \in Seq(ToClientPacket)
        BY <2>1 DEF Shape
      <4>2. DOMAIN got[c] = 1..Len(got[c])
        BY <4>1
      <4> QED
        BY <2>2, <4>2
    <3>2. got[c][i] = ServerPacket(c, i)
      BY <2>1, <3>1, ReadInOrder
    <3>3. Len(had[c]) >= 2
      <4>1. Len(got[c]) <= Len(Answered(c)) /\ Len(Answered(c)) \in Nat
        BY <2>1, ReadInOrder
      <4>2. Len(Answered(c)) > 0
        BY <2>2, <3>1, <4>1
      <4> QED
        BY <2>1, <4>2 DEF ConnInv, AtPlace, ServerAt
    <3>4. s1[c].packet.kind = "S1"
      <4>1. s1[c].scheme \in Schemes \cup {NoScheme}
        BY <2>1, <3>3, AnswerForm
      <4>2. PICK sums \in AnySums : s1[c].packet = MadeS1(s1[c].scheme, sums)
        BY <2>1, <3>3, AnswerForm
      <4> QED
        BY <4>1, <4>2, PacketTypes
    <3>5. /\ i = 1 => ServerPacket(c, i).kind = "S0"
          /\ i = 2 => ServerPacket(c, i).kind = "S1"
          /\ i = 3 => ServerPacket(c, i).kind = "S2"
      BY <3>4, PacketTypes DEF ServerPacket
    <3> QED
      BY <3>1, <3>2, <3>5
  <2> QED
    BY <2>3, <2>4
<1> QED
  BY Invariance, <1>1, PTL

\* Whatever the random bytes, a client that follows the protocol is never
\* rejected and never rejects the server, and one that does not echo is never
\* served unless verification is off.
THEOREM HonestSucceed == Spec => []HandshakesSucceed
<1>1. IInv => HandshakesSucceed
  BY DEF IInv, ConnInv, Succeeds, HandshakesSucceed
<1> QED
  BY Invariance, <1>1, PTL
=============================================================================
