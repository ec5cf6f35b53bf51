-------------------------- MODULE HandshakePackets --------------------------
(***************************************************************************)
(* What the packets of a handshake say (handshake.go, complex.go), as far  *)
(* as the two sides look at it: which packet's random bytes a packet       *)
(* echoes, which packet's digest it proves to know, and where in a packet  *)
(* of 1536 bytes its digest lies.                                          *)
(***************************************************************************)
EXTENDS Integers

CONSTANT NoScheme    \* the simple handshake

Schemes == {0, 1}    \* digest block first, or key block first

PacketLength == 1536
BlockLength == 764
DigestLength == 32

\* digestBlockStart
DigestBlockStart(scheme) == IF scheme = 0 THEN 8 ELSE 772

\* Mutant: the offset may be any in the block's data.
DigestPos_Unbounded(sum, scheme) == DigestBlockStart(scheme) + 4 + (sum % 760)

\* digestPos: sum is the sum of the four bytes at the start of the block.
DigestPos(sum, scheme) == DigestBlockStart(scheme) + 4 + (sum % (760 - DigestLength))

\* Where a digest may lie: in the data of its block.
InBlock(at, scheme) ==
    /\ DigestBlockStart(scheme) + 4 <= at
    /\ at + DigestLength <= DigestBlockStart(scheme) + BlockLength

\* C1 and S1: version is zero or not, sums are the sums of the first four bytes
\* of either block, and signedAt is where a digest made with signedBy lies.
Hello(kind, version, sums, signedBy, at) ==
    [kind |-> kind, version |-> version, sums |-> sums, signedBy |-> signedBy,
     signedAt |-> at]

\* S2 and C2
Echo(kind, of) == [kind |-> kind, echoes |-> of, proves |-> "nothing"]
Proof(kind, of) == [kind |-> kind, echoes |-> "nothing", proves |-> of]

\* S0 and C0, which nobody looks at, and what follows a handshake.
Plain(kind) == [kind |-> kind]

\* validateC1FP9
ValidC1(c1, scheme) ==
    c1.signedBy = "fp" /\ c1.signedAt = DigestPos(c1.sums[scheme], scheme)

\* HandshakeWithClient takes the first scheme that validates.
SchemeOf(c1) ==
    IF c1.version = 0 THEN NoScheme
    ELSE IF ValidC1(c1, 0) THEN 0
    ELSE IF ValidC1(c1, 1) THEN 1
    ELSE NoScheme

\* Mutant: the digest always goes to the first block.
MadeS1_First(scheme, sums) ==
    IF scheme = NoScheme THEN Hello("S1", 0, sums, "nobody", -1)
    ELSE Hello("S1", 1, [sums EXCEPT ![0] = 0], "fms", DigestBlockStart(0) + 4)

\* buildComplexS1 puts zero into the first four bytes of its block, and the
\* digest where zero points to.  sums are those of the random bytes.
MadeS1(scheme, sums) ==
    IF scheme = NoScheme THEN Hello("S1", 0, sums, "nobody", -1)
    ELSE Hello("S1", 1, [sums EXCEPT ![scheme] = 0], "fms",
               DigestBlockStart(scheme) + 4)

\* buildComplexS2, or an echo.
MadeS2(scheme) == IF scheme = NoScheme THEN Echo("S2", "C1") ELSE Proof("S2", "C1")

\* The server's last check: an echo is good enough for a complex handshake too.
AcceptsC2(scheme, c2) == (scheme # NoScheme /\ c2.proves = "S1") \/ c2.echoes = "S1"

-----------------------------------------------------------------------------
(* Clients.  A "library" client is HandshakeWithServer.  A "flash" client,   *)
(* outside this library, signs its C1 under a scheme and looks for the       *)
(* server's digest under the same one; a "wrong" client echoes nothing.      *)

ClientKinds == {"library", "flash", "wrong"}

HellosOf(who, sumsSet) ==
    IF who = "flash"
    THEN {Hello("C1", 1, sums, "fp", DigestPos(sums[s], s)) :
            sums \in sumsSet, s \in Schemes}
    ELSE {Hello("C1", IF who = "library" THEN 0 ELSE 1, sums, "nobody", -1) :
            sums \in sumsSet}

\* The flash client finds the digest of S1 under the scheme of its C1.
FindsDigest(c1, s1) ==
    \E s \in Schemes : /\ ValidC1(c1, s) /\ s1.signedBy = "fms"
                       /\ s1.signedAt = DigestPos(s1.sums[s], s)

MadeC2(who, c1, s1) ==
    CASE who = "library" -> Echo("C2", "S1")
      [] who = "flash" -> IF FindsDigest(c1, s1) THEN Proof("C2", "S1")
                          ELSE Echo("C2", "S1")
      [] who = "wrong" -> Echo("C2", "nothing")

AcceptsS2(who, c1, s1, s2) ==
    CASE who = "library" -> s2.echoes = "C1"
      [] who = "flash" -> IF s1.version = 0 THEN s2.echoes = "C1"
                          ELSE FindsDigest(c1, s1) /\ s2.proves = "C1"
      [] who = "wrong" -> TRUE
=============================================================================
