-------------------------- MODULE ChunkDelivery_proof --------------------------
(***************************************************************************)
(* Theorems about ChunkDelivery, for every value of its constants.         *)
(*                                                                         *)
(* All users encode through one encoder, and what the peer reads is what   *)
(* was accepted only as long as nobody points it to another writer between *)
(* a user's Reset and its Encode.  The theorems say so: they hold of every *)
(* behaviour in which at most one user at a time is between the two, and   *)
(* of every behaviour if there is only one user.                           *)
(***************************************************************************)
EXTENDS ChunkDelivery, ChunkWriters_proof, SequenceTheorems

-----------------------------------------------------------------------------
(* The inductive invariant *)

\* At most one user at a time is between Reset and Encode.
OneEncodes ==
    \A u, v \in Users : upc[u] = "encode" /\ upc[v] = "encode" => u = v

\* The encoder points to the writer of the user that is about to encode.
EncoderMine == \A u \in Users : upc[u] = "encode" => msgEnc = ucs[u]

\* Run has not returned and is not about to.
Running == spc \in {"select", "write", "requeue"}

\* The scheduler has something of chunk stream c to write.
UnderWay(c) == Queued(c) \/ InHand(c)

\* The peer has read a prefix of what was accepted.
ReadsPrefix(c) ==
    /\ ~peer[c].broken
    /\ Len(peer[c].read) <= Len(accepted[c])
    /\ \A i \in DOMAIN peer[c].read : peer[c].read[i] = Pieces(accepted[c][i])

\* The scheduler has nothing of the chunk stream: the peer has read all that
\* was accepted, and the buffer is empty or has the message of the user that
\* is about to hand it over.
AtRest(c) ==
    /\ Len(peer[c].read) = Len(accepted[c])
    /\ peer[c].got = <<>>
    /\ (\A u \in Users : Owns(u, c) => upc[u] \in {"reset", "encode"})
         => buf[c] = <<>>
    /\ \A u \in Users : Owns(u, c) /\ upc[u] \in {"header", "sched"} =>
         /\ buf[c] = Pieces(msg[u])
         /\ upc[u] = "sched" => messageLength[c] = msg[u].size

\* The scheduler has something: the message accepted last, of which the peer
\* has the pieces that the buffer has no longer.
Halfway(c) ==
    LET m == accepted[c][Len(accepted[c])]
    IN  /\ Len(accepted[c]) = Len(peer[c].read) + 1
        /\ buf[c] # <<>>
        /\ peer[c].got \o buf[c] = Pieces(m)
        /\ messageLength[c] = m.size

StreamInStep(c) ==
    /\ ReadsPrefix(c)
    /\ Running => IF UnderWay(c) THEN Halfway(c) ELSE AtRest(c)

ReaderType == [got : Seq(Piece), read : Seq(Seq(Piece)), broken : BOOLEAN]

PeerType == peer \in [ChunkStreams -> ReaderType]

DInv ==
    /\ IInv
    /\ PeerType
    /\ EncoderMine
    /\ \A c \in ChunkStreams : StreamInStep(c)

\* The writers that Conn.Close need not wait for it has waited for.
Waited ==
    /\ cpc \in {"next", "lock", "select"} /\ ~ctxExpired /\ ~err =>
         writers \subseteq drained \cup pending \cup {cw}
    /\ \A w \in ChunkStreams : lastErr[w] \/ closeCh[w] => err
    /\ spc = "force" => err
    /\ spc = "done" => err \/ stopped
    /\ stopped => cpc \in {"rwc", "closed"}

-----------------------------------------------------------------------------
(* Pieces *)

\* A message is cut into as many pieces as its size says.
LEMMA PiecesLength ==
    ASSUME NEW m \in Message
    PROVE  /\ Pieces(m) \in Seq(Piece) /\ Len(Pieces(m)) = m.size /\ m.size \in Nat
           /\ m.size >= 1 /\ Pieces(m) # <<>> /\ Pieces(m)[1].msg = m
<1>1. m.size \in Nat /\ m.size >= 1
  BY BoundsAssumption DEF Message
<1>2. Len(Pieces(m)) = m.size
  BY <1>1 DEF Pieces
<1>3. Pieces(m)[1].msg = m
  <2>1. 1 \in 1..m.size
    BY <1>1
  <2> QED
    BY <2>1 DEF Pieces
<1>4. Pieces(m) \in Seq(Piece)
  BY PiecesType
<1>5. Pieces(m) # <<>>
  BY <1>1, <1>2, <1>4
<1> QED
  BY <1>1, <1>2, <1>3, <1>4, <1>5

\* The parts of a message are as long as the message.
LEMMA PartsLength ==
    ASSUME NEW m \in Message, NEW g \in Seq(Piece), NEW b \in Seq(Piece),
           g \o b = Pieces(m)
    PROVE  m.size = Len(g) + Len(b)
<1>1. Len(g \o b) = Len(g) + Len(b)
  OBVIOUS
<1>2. Len(Pieces(m)) = m.size
  BY PiecesLength
<1> QED
  BY <1>1, <1>2

\* One piece passes from the buffer to the reader.
LEMMA PassOne ==
    ASSUME NEW g \in Seq(Piece), NEW b \in Seq(Piece), b # <<>>
    PROVE  (g \o <<b[1]>>) \o Tail(b) = g \o b
<1>1. b[1] \in Piece /\ Len(b) \in Nat /\ Len(b) >= 1
  OBVIOUS
<1> DEFINE l == (g \o <<b[1]>>) \o Tail(b)
           r == g \o b
<1>2. l \in Seq(Piece) /\ r \in Seq(Piece)
  BY <1>1
<1>3. Len(l) = Len(g) + Len(b) /\ Len(r) = Len(g) + Len(b)
  BY <1>1
<1>4. \A i \in 1..(Len(g) + Len(b)) : l[i] = r[i]
  BY <1>1
<1> QED
  BY <1>2, <1>3, <1>4

\* The last piece of a buffer.
LEMMA SingleOne ==
    ASSUME NEW b \in Seq(Piece), b # <<>>, Tail(b) = <<>>
    PROVE  b = <<b[1]>> /\ Len(b) = 1
<1> DEFINE t == Tail(b)
<1>1. t \in Seq(Piece) /\ Len(b) \in Nat /\ Len(b) >= 1 /\ Len(t) = Len(b) - 1
  OBVIOUS
<1>2. Len(b) = 1
  <2>1. t = <<>>
    OBVIOUS
  <2> HIDE DEF t
  <2> QED
    BY <1>1, <2>1
<1>3. b = SubSeq(b, 1, Len(b))
  OBVIOUS
<1>4. SubSeq(b, 1, 1) = <<b[1]>>
  BY FirstOne
<1> QED
  BY <1>2, <1>3, <1>4

-----------------------------------------------------------------------------
(* Readers *)

\* A chunk with a piece that does not complete its message.
LEMMA ReadMiddle ==
    ASSUME NEW r \in ReaderType, NEW m \in Message, NEW b \in Seq(Piece), b # <<>>,
           ~r.broken, r.got \o b = Pieces(m), Tail(b) # <<>>
    PROVE  /\ ReadChunk(r, [len |-> m.size, body |-> <<b[1]>>]) =
                [r EXCEPT !.got = r.got \o <<b[1]>>]
           /\ (r.got \o <<b[1]>>) \o Tail(b) = Pieces(m)
<1> DEFINE x == [len |-> m.size, body |-> <<b[1]>>]
           g == r.got
           h == r.got \o <<b[1]>>
<1>1. g \in Seq(Piece) /\ b[1] \in Piece /\ Len(b) \in Nat /\ Len(g) \in Nat
  BY FirstOne DEF ReaderType
<1>2. h \in Seq(Piece) /\ Len(h) = Len(g) + 1
  BY <1>1
<1>3. Len(b) >= 2
  BY <1>1
<1>4. m.size = Len(g) + Len(b)
  BY <1>1, PartsLength
<1>5. h \o Tail(b) = g \o b
  BY <1>1, PassOne
<1>6. x.body # <<>> /\ x.len = m.size /\ r.got \o x.body = h
  OBVIOUS
<1> HIDE DEF g, h
<1>7. ~(x.len - Len(g) <= 0) /\ Len(h) # x.len
  BY <1>1, <1>2, <1>3, <1>4, <1>6
<1>8. ReadChunk(r, x) = [r EXCEPT !.got = h]
  BY <1>6, <1>7 DEF ReadChunk, g
<1> QED
  BY <1>5, <1>8 DEF g, h

\* The chunk that does.
LEMMA ReadLast ==
    ASSUME NEW r \in ReaderType, NEW m \in Message, NEW b \in Seq(Piece), b # <<>>,
           ~r.broken, r.got \o b = Pieces(m), Tail(b) = <<>>
    PROVE  ReadChunk(r, [len |-> m.size, body |-> <<b[1]>>]) =
             [r EXCEPT !.got = <<>>, !.read = Append(r.read, Pieces(m))]
<1> DEFINE x == [len |-> m.size, body |-> <<b[1]>>]
<1>1. r.got \in Seq(Piece) /\ Len(b) \in Nat /\ Len(r.got) \in Nat
  BY DEF ReaderType
<1>2. b = <<b[1]>> /\ Len(b) = 1
  BY SingleOne
<1>3. m.size = Len(r.got) + 1
  <2> DEFINE g == r.got
  <2>1. g \in Seq(Piece) /\ g \o b = Pieces(m)
    BY <1>1
  <2> HIDE DEF g
  <2>2. m.size = Len(g) + Len(b)
    BY <2>1, PartsLength
  <2> QED
    BY <1>2, <2>2 DEF g
<1>4. r.got \o x.body = Pieces(m) /\ Len(Pieces(m)) = m.size
  BY <1>2, PiecesLength
<1>5. x.len = m.size /\ x.body # <<>> /\ ~(x.len - Len(r.got) <= 0)
  BY <1>1, <1>3
<1> QED
  BY <1>4, <1>5 DEF ReadChunk

\* A chunk given to a reader leaves a reader.
LEMMA ReadType ==
    ASSUME NEW r \in ReaderType, NEW x \in Chunk
    PROVE  ReadChunk(r, x) \in ReaderType
<1>1. r.got \in Seq(Piece) /\ r.read \in Seq(Seq(Piece)) /\ r.broken \in BOOLEAN
        /\ x.body \in Seq(Piece)
  BY DEF ReaderType, Chunk
<1> DEFINE g == r.got \o x.body
<1>2. g \in Seq(Piece) /\ Append(r.read, g) \in Seq(Seq(Piece))
  BY <1>1
<1> HIDE DEF g
<1>3. [r EXCEPT !.broken = TRUE] \in ReaderType
  BY DEF ReaderType
<1>4. ASSUME NEW e \in Seq(Piece), NEW d \in Seq(Seq(Piece))
      PROVE  [r EXCEPT !.got = e, !.read = d] \in ReaderType
  BY DEF ReaderType
<1>5. [r EXCEPT !.got = g] \in ReaderType
  BY <1>2 DEF ReaderType
<1>6. [r EXCEPT !.got = <<>>, !.read = Append(r.read, g)] \in ReaderType
  <2> DEFINE e == <<>>
             d == Append(r.read, g)
  <2>1. e \in Seq(Piece) /\ d \in Seq(Seq(Piece))
    BY <1>2
  <2> HIDE DEF e, d
  <2>2. [r EXCEPT !.got = e, !.read = d] \in ReaderType
    BY <1>4, <2>1
  <2> QED
    BY <2>2 DEF e, d
<1> QED
  BY <1>3, <1>5, <1>6 DEF ReadChunk, g

\* WriteChunk alone writes to the wire.
LEMMA OnlyWriteChunk == Next /\ ~WriteChunk => wire' = wire
<1>1. ASSUME NEW u \in Users, UserNext(u) PROVE wire' = wire
  BY <1>1 DEF UserNext, Call, Prepare, LockWriter, WaitDone, WaitClosed, WaitExpired,
       ResetEncoder, Encode, EncodeFail, SetHeader, Sched, schedVars
<1>2. ASSUME SchedNext, ~WriteChunk PROVE wire' = wire
  BY <1>2 DEF SchedNext, Take, WriteFail, Requeue, RunStops, ForceClose
<1>3. ASSUME CloseNextStep PROVE wire' = wire
  BY <1>3 DEF CloseNextStep, CloseCall, CloseLocksMu, CloseExpires, CloseNext,
       CloseLocksWriter, CloseWaits, CloseWaited, CloseStops, CloseTransport,
       CloseUnchanged, schedVars
<1> QED
  BY <1>1, <1>2, <1>3 DEF Next

\* The readers go with the wire: they change in WriteChunk only, and then only
\* the one of the writer that is written.
LEMMA PeerStep ==
    ASSUME TypeOK, PeerType, PeerReads
    PROVE  /\ wire' = wire => peer' = peer
           /\ WriteChunk =>
                LET x == [len |-> messageLength[sw], body |-> NextBody(sw)]
                IN  /\ x \in Chunk
                    /\ peer' = [peer EXCEPT ![sw] = ReadChunk(peer[sw], x)]
<1>1. ASSUME wire' = wire PROVE peer' = peer
  BY <1>1 DEF PeerReads, PeerType
<1>2. ASSUME WriteChunk
      PROVE  LET x == [len |-> messageLength[sw], body |-> NextBody(sw)]
             IN  /\ x \in Chunk
                 /\ peer' = [peer EXCEPT ![sw] = ReadChunk(peer[sw], x)]
  <2> DEFINE x == [len |-> messageLength[sw], body |-> NextBody(sw)]
             s == wire[sw]
  <2>1. sw \in ChunkStreams /\ s \in Seq(Chunk) /\ messageLength[sw] \in Nat
          /\ buf[sw] \in Seq(Piece)
    BY <1>2 DEF WriteChunk, TypeOK
  <2>2. NextBody(sw) \in Seq(Piece)
    <3>1. CASE buf[sw] = <<>>
      BY <2>1, <3>1 DEF NextBody
    <3>2. CASE buf[sw] # <<>>
      <4>1. buf[sw][1] \in Piece /\ SubSeq(buf[sw], 1, 1) = <<buf[sw][1]>>
        BY <2>1, <3>2, FirstOne
      <4> QED
        BY <3>2, <4>1 DEF NextBody
    <3> QED
      BY <3>1, <3>2
  <2>3. x \in Chunk
    BY <2>1, <2>2 DEF Chunk
  <2>4. wire' = [wire EXCEPT ![sw] = Append(s, x)]
    BY <1>2 DEF WriteChunk
  <2>5. wire'[sw] = Append(s, x)
    BY <2>1, <2>4 DEF TypeOK
  <2> HIDE DEF x, s
  <2>6. Append(s, x) # s /\ Last(Append(s, x)) = x
    BY <2>1, <2>3, AppendIndices DEF Last
  <2>7. peer'[sw] = ReadChunk(peer[sw], x)
    BY <2>1, <2>5, <2>6 DEF PeerReads, s
  <2>8. \A c \in ChunkStreams : c # sw => peer'[c] = peer[c]
    BY <2>4 DEF PeerReads, TypeOK
  <2>9. peer' = [peer EXCEPT ![sw] = ReadChunk(peer[sw], x)]
    <3>1. peer' = [c \in ChunkStreams |-> peer'[c]]
      BY DEF PeerReads
    <3> QED
      BY <2>1, <2>7, <2>8, <3>1 DEF PeerType
  <2> QED
    BY <2>3, <2>9 DEF x
<1> QED
  BY <1>1, <1>2

\* The readers stay readers.
LEMMA PeerTyped ==
    ASSUME TypeOK, PeerType, Next, PeerReads
    PROVE  PeerType'
<1>1. CASE WriteChunk
  <2> DEFINE x == [len |-> messageLength[sw], body |-> NextBody(sw)]
  <2>1. x \in Chunk /\ peer' = [peer EXCEPT ![sw] = ReadChunk(peer[sw], x)]
    BY <1>1, PeerStep
  <2>2. sw \in ChunkStreams
    BY <1>1 DEF WriteChunk, TypeOK
  <2> HIDE DEF x
  <2>3. ReadChunk(peer[sw], x) \in ReaderType
    BY <2>1, <2>2, ReadType DEF PeerType
  <2> QED
    BY <2>1, <2>3 DEF PeerType
<1>2. CASE ~WriteChunk
  <2>1. wire' = wire
    BY <1>2, OnlyWriteChunk
  <2> QED
    BY <2>1, PeerStep DEF PeerType
<1> QED
  BY <1>1, <1>2

\* Reset points the encoder to its own caller's writer, and nobody else is
\* between Reset and Encode.
LEMMA EncoderStep ==
    ASSUME TypeOK, EncoderMine, Next, OneEncodes'
    PROVE  EncoderMine'
<1>1. CASE \E u \in Users : UserNext(u)
  <2> PICK u \in Users : UserNext(u)
    BY <1>1
  <2>1. CASE ResetEncoder(u)
    <3>1. msgEnc' = ucs[u] /\ ucs' = ucs /\ upc' = [upc EXCEPT ![u] = "encode"]
      BY <2>1 DEF ResetEncoder, GoTo
    <3>2. \A v \in Users : upc'[v] = "encode" => v = u
      BY <3>1 DEF OneEncodes, TypeOK
    <3> QED
      BY <3>1, <3>2 DEF EncoderMine
  <2>2. CASE ~ResetEncoder(u)
    <3>1. msgEnc' = msgEnc
      BY <2>2 DEF UserNext, Call, Prepare, LockWriter, WaitDone, WaitClosed,
           WaitExpired, Encode, EncodeFail, SetHeader, Sched, dataVars
    <3>2. \A v \in Users : upc'[v] = "encode" => upc[v] = "encode" /\ ucs'[v] = ucs[v]
      BY <2>2 DEF UserNext, Call, Prepare, LockWriter, WaitDone, WaitClosed,
           WaitExpired, Encode, EncodeFail, SetHeader, Sched, GoTo, Return, TypeOK
    <3> QED
      BY <3>1, <3>2 DEF EncoderMine
  <2> QED
    BY <2>1, <2>2
<1>2. CASE SchedNext
  BY <1>2 DEF SchedNext, Take, WriteChunk, WriteFail, Requeue, RunStops, ForceClose,
       userVars, dataVars, EncoderMine
<1>3. CASE CloseNextStep
  BY <1>3 DEF CloseNextStep, CloseCall, CloseLocksMu, CloseExpires, CloseNext,
       CloseLocksWriter, CloseWaits, CloseWaited, CloseStops, CloseTransport,
       CloseUnchanged, userVars, dataVars, EncoderMine
<1> QED
  BY <1>1, <1>2, <1>3 DEF Next

-----------------------------------------------------------------------------
(* The invariant and the steps of users *)

\* While Run lives a writer is in one pair of hands.
LEMMA OneOwner ==
    ASSUME IInv, Running, NEW c \in ChunkStreams
    PROVE  /\ ~closeCh[c]
           /\ \A u, v \in Users : Owns(u, c) /\ Owns(v, c) => u = v
           /\ \A u \in Users : Owns(u, c) => ~UnderWay(c)
           /\ Queued(c) => ~InHand(c)
           /\ c \in drained => ~UnderWay(c) /\ \A u \in Users : ~Owns(u, c)
           /\ doneCh[c] => ~UnderWay(c) /\ \A u \in Users : ~Owns(u, c)
<1>1. ~closeCh[c]
  BY DEF IInv, WritersKnown, Running
<1> QED
  BY <1>1 DEF IInv, OneHolder, UnderWay

\* What a user does to a buffer and a header it does to its own, which the
\* scheduler does not have.
LEMMA UserLeavesData ==
    ASSUME IInv, EncoderMine, Running, NEW u \in Users, UserNext(u),
           NEW c \in ChunkStreams, buf'[c] # buf[c] \/ messageLength'[c] # messageLength[c]
    PROVE  Owns(u, c) /\ (Encode(u) \/ SetHeader(u))
<1> USE DEF dataVars
<1>1. CASE Encode(u)
  <2>1. msgEnc = c
    BY <1>1 DEF Encode, IInv, TypeOK
  <2> QED
    BY <1>1, <2>1 DEF Encode, EncoderMine, Owns
<1>2. CASE SetHeader(u)
  BY <1>2 DEF SetHeader, IInv, TypeOK, Owns
<1>3. CASE ~Encode(u) /\ ~SetHeader(u)
  BY <1>3 DEF UserNext, Call, Prepare, LockWriter, WaitDone, WaitClosed,
       WaitExpired, ResetEncoder, EncodeFail, Sched
<1> QED
  BY <1>1, <1>2, <1>3

\* A step before the encoder is reset, or one that gives the call up.
LEMMA UserRests ==
    ASSUME IInv, Running, NEW u \in Users, NEW c \in ChunkStreams, AtRest(c),
           UNCHANGED <<peer, accepted, buf, messageLength>>,
           \A v \in Users : v # u =>
             upc'[v] = upc[v] /\ ucs'[v] = ucs[v] /\ msg'[v] = msg[v],
           Owns(u, c)' => upc'[u] \in {"reset", "encode"},
           Owns(u, c) => upc[u] \in {"reset", "encode"}
    PROVE  AtRest(c)'
<1>1. \A v \in Users : v # u =>
        (Owns(v, c)' <=> Owns(v, c)) /\ upc'[v] = upc[v] /\ msg'[v] = msg[v]
  BY DEF Owns
<1>2. ASSUME \A v \in Users : Owns(v, c)' => upc'[v] \in {"reset", "encode"}
      PROVE  buf[c] = <<>>
  <2>1. \A v \in Users : Owns(v, c) => upc[v] \in {"reset", "encode"}
    BY <1>1, <1>2
  <2> QED
    BY <2>1 DEF AtRest
<1>3. ASSUME NEW v \in Users, Owns(v, c)', upc'[v] \in {"header", "sched"}
      PROVE  /\ buf[c] = Pieces(msg'[v])
             /\ upc'[v] = "sched" => messageLength[c] = msg'[v].size
  <2>1. v # u
    BY <1>3
  <2> QED
    BY <1>1, <1>3, <2>1 DEF AtRest
<1> QED
  BY <1>2, <1>3 DEF AtRest

\* A chunk stream at rest stays at rest until a message is handed over.
LEMMA UserAtRest ==
    ASSUME IInv, EncoderMine, Running, NEW u \in Users, UserNext(u), ~Sched(u),
           peer' = peer, NEW c \in ChunkStreams, AtRest(c)
    PROVE  AtRest(c)'
<1> USE DEF dataVars
<1> DEFINE Others == \A v \in Users : v # u =>
                       upc'[v] = upc[v] /\ ucs'[v] = ucs[v] /\ msg'[v] = msg[v]
<1>1. Others /\ accepted' = accepted
  BY DEF UserNext, Call, Prepare, LockWriter, WaitDone, WaitClosed, WaitExpired,
     ResetEncoder, Encode, EncodeFail, SetHeader, GoTo, Return, IInv, TypeOK
<1>2. CASE Encode(u)
  <2>1. /\ upc[u] = "encode" /\ msgEnc = ucs[u] /\ ucs[u] \in ChunkStreams
        /\ upc' = [upc EXCEPT ![u] = "header"] /\ UNCHANGED <<ucs, msg, messageLength>>
        /\ buf' = [buf EXCEPT ![msgEnc] = buf[msgEnc] \o Pieces(msg[u])]
    BY <1>2 DEF Encode, EncoderMine, GoTo, IInv, TypeOK
  <2>2. CASE c = ucs[u]
    <3>1. Owns(u, c)
      BY <2>1, <2>2 DEF Owns
    <3>2. \A v \in Users : Owns(v, c) => v = u
      BY <3>1, OneOwner
    <3>3. buf[c] = <<>>
      BY <2>1, <3>2 DEF AtRest
    <3>4. <<>> \o Pieces(msg[u]) = Pieces(msg[u])
      <4>1. Pieces(msg[u]) \in Seq(Piece)
        BY PiecesType DEF IInv, TypeOK
      <4> QED
        BY <4>1
    <3>5. buf'[c] = Pieces(msg[u])
      BY <2>1, <2>2, <3>3, <3>4 DEF IInv, TypeOK
    <3>6. \A v \in Users : Owns(v, c)' => v = u
      BY <2>1, <3>2 DEF Owns
    <3>7. Owns(u, c)' /\ upc'[u] = "header" /\ msg'[u] = msg[u]
      BY <2>1, <2>2 DEF Owns, IInv, TypeOK
    <3> QED
      BY <1>1, <3>5, <3>6, <3>7 DEF AtRest
  <2>3. CASE c # ucs[u]
    <3>1. buf'[c] = buf[c]
      BY <2>1, <2>3 DEF IInv, TypeOK
    <3>2. ~Owns(u, c) /\ ~Owns(u, c)'
      BY <2>1, <2>3 DEF Owns
    <3>3. \A v \in Users : (Owns(v, c)' <=> Owns(v, c)) /\ (v # u => upc'[v] = upc[v])
      BY <2>1, <3>2 DEF Owns
    <3> QED
      BY <1>1, <2>1, <3>1, <3>2, <3>3 DEF AtRest
  <2> QED
    BY <2>2, <2>3
<1>3. CASE SetHeader(u)
  <2>1. /\ upc[u] = "header" /\ ucs[u] \in ChunkStreams
        /\ upc' = [upc EXCEPT ![u] = "sched"] /\ UNCHANGED <<ucs, msg, buf>>
        /\ messageLength' = [messageLength EXCEPT ![ucs[u]] = Len(buf[ucs[u]])]
    BY <1>3 DEF SetHeader, GoTo, IInv, TypeOK
  <2>2. CASE c = ucs[u]
    <3>1. Owns(u, c)
      BY <2>1, <2>2 DEF Owns
    <3>2. \A v \in Users : Owns(v, c) => v = u
      BY <3>1, OneOwner
    <3>3. buf[c] = Pieces(msg[u])
      BY <2>1, <3>1 DEF AtRest
    <3>4. messageLength'[c] = msg[u].size
      <4>1. Len(Pieces(msg[u])) = msg[u].size
        BY PiecesLength DEF IInv, TypeOK
      <4> QED
        BY <2>1, <2>2, <3>3, <4>1 DEF IInv, TypeOK
    <3>5. \A v \in Users : Owns(v, c)' => v = u
      BY <2>1, <3>2 DEF Owns
    <3>6. Owns(u, c)' /\ upc'[u] = "sched" /\ msg'[u] = msg[u]
      BY <2>1, <2>2 DEF Owns, IInv, TypeOK
    <3> QED
      BY <1>1, <2>1, <3>3, <3>4, <3>5, <3>6 DEF AtRest
  <2>3. CASE c # ucs[u]
    <3>1. messageLength'[c] = messageLength[c]
      BY <2>1, <2>3 DEF IInv, TypeOK
    <3>2. ~Owns(u, c) /\ ~Owns(u, c)'
      BY <2>1, <2>3 DEF Owns
    <3>3. \A v \in Users : (Owns(v, c)' <=> Owns(v, c)) /\ (v # u => upc'[v] = upc[v])
      BY <2>1, <3>2 DEF Owns
    <3> QED
      BY <1>1, <2>1, <3>1, <3>2, <3>3 DEF AtRest
  <2> QED
    BY <2>2, <2>3
<1>4. CASE ~Encode(u) /\ ~SetHeader(u)
  <2>1. UNCHANGED <<buf, messageLength>>
    BY <1>4 DEF UserNext, Call, Prepare, LockWriter, WaitDone, WaitClosed,
         WaitExpired, ResetEncoder, EncodeFail
  <2>2. upc[u] \notin {"header", "sched"}
    BY <1>4 DEF UserNext, Call, Prepare, LockWriter, WaitDone, WaitClosed,
         WaitExpired, ResetEncoder, EncodeFail
  <2>3. upc'[u] \notin {"header", "sched"}
    BY <1>4 DEF UserNext, Call, Prepare, LockWriter, WaitDone, WaitClosed,
         WaitExpired, ResetEncoder, EncodeFail, GoTo, Return, IInv, TypeOK
  <2>4. /\ Owns(u, c)' => upc'[u] \in {"reset", "encode"}
        /\ Owns(u, c) => upc[u] \in {"reset", "encode"}
    BY <2>2, <2>3 DEF Owns
  <2> QED
    BY <1>1, <2>1, <2>4, UserRests
<1> QED
  BY <1>2, <1>3, <1>4

\* Sched hands over the message the buffer has.
LEMMA UserHandsOver ==
    ASSUME IInv, PeerType, NEW u \in Users, Sched(u), peer' = peer,
           NEW c \in ChunkStreams, StreamInStep(c)
    PROVE  StreamInStep(c)'
<1> USE DEF dataVars, schedVars
<1>1. /\ upc[u] = "sched" /\ ucs[u] \in ChunkStreams
      /\ queue' = Append(queue, ucs[u]) /\ queue \in Seq(ChunkStreams)
      /\ accepted' = [accepted EXCEPT ![ucs[u]] = Append(accepted[ucs[u]], msg[u])]
      /\ msg[u] \in Message
      /\ UNCHANGED <<buf, messageLength, spc, sw, msg>>
      /\ upc' = [upc EXCEPT ![u] = "idle"] /\ ucs' = [ucs EXCEPT ![u] = None]
  BY DEF Sched, Return, IInv, TypeOK
<1>2. \A w \in ChunkStreams : Queued(w)' <=> Queued(w) \/ w = ucs[u]
  <2> DEFINE q == queue
             d == ucs[u]
  <2>1. /\ DOMAIN Append(q, d) = DOMAIN q \cup {Len(q) + 1}
        /\ \A i \in DOMAIN q : Append(q, d)[i] = q[i]
        /\ Append(q, d)[Len(q) + 1] = d
    BY <1>1, AppendIndices
  <2>2. queue' = Append(q, d)
    BY <1>1
  <2> QED
    BY <2>1, <2>2 DEF Queued
<1>3. (Running' <=> Running) /\ (InHand(c)' <=> InHand(c))
  BY <1>1 DEF Running, InHand
<1>4. accepted[c] \in Seq(Message) /\ peer[c].read \in Seq(Seq(Piece))
        /\ peer[c].got \in Seq(Piece)
  BY DEF IInv, TypeOK, PeerType, ReaderType
<1>5. CASE c = ucs[u]
  <2> DEFINE s == accepted[c]
             m == msg[u]
  <2>1. accepted'[c] = Append(s, m)
    BY <1>1, <1>5 DEF IInv, TypeOK
  <2>2. /\ Append(s, m) \in Seq(Message) /\ Len(Append(s, m)) = Len(s) + 1
        /\ \A i \in DOMAIN s : Append(s, m)[i] = s[i]
        /\ Append(s, m)[Len(s) + 1] = m
    BY <1>1, <1>4, AppendIndices
  <2> DEFINE t == Append(s, m)
             r == peer[c].read
  <2>3. ReadsPrefix(c)'
    <3>1. ~peer[c].broken /\ Len(r) <= Len(s) /\ \A i \in DOMAIN r : r[i] = Pieces(s[i])
      BY DEF StreamInStep, ReadsPrefix
    <3>2. Len(s) \in Nat /\ Len(r) \in Nat /\ DOMAIN r = 1..Len(r) /\ DOMAIN s = 1..Len(s)
      BY <1>4
    <3>3. peer'[c].read = r /\ peer'[c].broken = peer[c].broken /\ accepted'[c] = t
      BY <2>1
    <3> HIDE DEF s, t, r
    <3>4. \A i \in DOMAIN r : t[i] = s[i]
      BY <2>2, <3>1, <3>2 DEF t
    <3>5. Len(r) <= Len(t)
      BY <2>2, <3>1, <3>2 DEF t
    <3> QED
      BY <3>1, <3>3, <3>4, <3>5 DEF ReadsPrefix
  <2>4. ASSUME Running PROVE Halfway(c)'
    <3>1. Owns(u, c)
      BY <1>1, <1>5 DEF Owns
    <3>2. AtRest(c)
      BY <2>4, <3>1, OneOwner DEF StreamInStep
    <3>3. /\ Len(r) = Len(s) /\ peer[c].got = <<>>
          /\ buf[c] = Pieces(m) /\ messageLength[c] = m.size
      BY <1>1, <3>1, <3>2 DEF AtRest
    <3>4. Pieces(m) \in Seq(Piece) /\ Pieces(m) # <<>>
      BY <1>1, PiecesLength
    <3>5. <<>> \o Pieces(m) = Pieces(m)
      BY <3>4
    <3>6. accepted'[c][Len(accepted'[c])] = m /\ Len(accepted'[c]) = Len(r) + 1
      BY <2>1, <2>2, <3>3
    <3> HIDE DEF m, r, s
    <3>7. peer'[c].read = r /\ peer'[c].got = <<>> /\ buf'[c] = Pieces(m)
            /\ messageLength'[c] = m.size
      BY <1>1, <3>3 DEF r
    <3> QED
      BY <3>4, <3>5, <3>6, <3>7 DEF Halfway
  <2> QED
    BY <1>2, <1>3, <1>5, <2>3, <2>4 DEF StreamInStep, UnderWay
<1>6. CASE c # ucs[u]
  <2>1. accepted'[c] = accepted[c]
    BY <1>1, <1>6 DEF IInv, TypeOK
  <2>2. ReadsPrefix(c) => ReadsPrefix(c)'
    BY <2>1 DEF ReadsPrefix
  <2>3. Halfway(c) => Halfway(c)'
    BY <1>1, <2>1 DEF Halfway
  <2>4. AtRest(c) => AtRest(c)'
    <3>1. ~Owns(u, c)
      BY <1>6 DEF Owns
    <3>2. upc'[u] = "idle" /\ \A v \in Users : v # u => upc'[v] = upc[v] /\ ucs'[v] = ucs[v]
      BY <1>1 DEF IInv, TypeOK
    <3>3. \A v \in Users : (Owns(v, c)' <=> Owns(v, c)) /\ (v # u => upc'[v] = upc[v])
      BY <3>1, <3>2 DEF Owns
    <3> QED
      BY <1>1, <2>1, <3>1, <3>3 DEF AtRest
  <2>5. UnderWay(c)' <=> UnderWay(c)
    BY <1>2, <1>3, <1>6 DEF UnderWay
  <2> QED
    BY <1>3, <2>2, <2>3, <2>4, <2>5 DEF StreamInStep
<1> QED
  BY <1>5, <1>6

\* Every step of a user keeps the reader in step with the writer.
LEMMA UserInStep ==
    ASSUME IInv, PeerType, EncoderMine, NEW u \in Users, UserNext(u), peer' = peer,
           NEW c \in ChunkStreams, StreamInStep(c)
    PROVE  StreamInStep(c)'
<1>1. CASE Sched(u)
  BY <1>1, UserHandsOver
<1>2. CASE ~Sched(u)
  <2>1. UNCHANGED <<queue, accepted, spc, sw>>
    BY <1>2 DEF UserNext, Call, Prepare, LockWriter, WaitDone, WaitClosed,
         WaitExpired, ResetEncoder, Encode, EncodeFail, SetHeader, schedVars
  <2>2. /\ Running' <=> Running
        /\ UnderWay(c)' <=> UnderWay(c)
        /\ ReadsPrefix(c) => ReadsPrefix(c)'
    BY <2>1 DEF Running, UnderWay, Queued, InHand, ReadsPrefix
  <2>3. ASSUME Running, UnderWay(c), Halfway(c) PROVE Halfway(c)'
    <3>1. ~Owns(u, c)
      BY <2>3, OneOwner
    <3>2. buf'[c] = buf[c] /\ messageLength'[c] = messageLength[c]
      BY <2>3, <3>1, UserLeavesData
    <3> QED
      BY <2>1, <2>3, <3>2 DEF Halfway
  <2>4. ASSUME Running, AtRest(c) PROVE AtRest(c)'
    BY <1>2, <2>4, UserAtRest
  <2> QED
    BY <2>2, <2>3, <2>4 DEF StreamInStep
<1> QED
  BY <1>1, <1>2

-----------------------------------------------------------------------------
(* The invariant and the steps of the scheduler and of Close *)

\* A chunk written is a chunk read, and the last one completes the message.
LEMMA WriteInStep ==
    ASSUME IInv, PeerType, WriteChunk, PeerReads, NEW c \in ChunkStreams, c = sw,
           StreamInStep(c)
    PROVE  /\ StreamInStep(c)'
           /\ Len(accepted[c]) = Len(peer[c].read) + 1
           /\ IF Rest(c) = <<>> THEN Len(peer'[c].read) = Len(peer[c].read) + 1
                                ELSE peer'[c].read = peer[c].read
<1> USE DEF userVars
<1> DEFINE r == peer[c]
           s == accepted[c]
           m == s[Len(s)]
           b == buf[c]
           x == [len |-> messageLength[c], body |-> NextBody(c)]
<1>1. spc = "write" /\ Running /\ InHand(c) /\ UnderWay(c)
  BY DEF WriteChunk, Running, InHand, UnderWay
<1>2. Halfway(c) /\ ReadsPrefix(c)
  BY <1>1 DEF StreamInStep
<1>3. r \in ReaderType /\ s \in Seq(Message) /\ b \in Seq(Piece) /\ r.read \in Seq(Seq(Piece))
  BY DEF IInv, TypeOK, PeerType, ReaderType
<1>4. /\ Len(s) = Len(r.read) + 1 /\ b # <<>> /\ r.got \o b = Pieces(m)
      /\ messageLength[c] = m.size /\ ~r.broken
      /\ \A i \in DOMAIN r.read : r.read[i] = Pieces(s[i])
  BY <1>2 DEF Halfway, ReadsPrefix
<1>5. m \in Message /\ Len(s) \in Nat /\ Len(r.read) \in Nat
  <2>1. Len(s) \in DOMAIN s
    BY <1>3, <1>4
  <2> QED
    BY <1>3, <2>1
<1>6. NextBody(c) = <<b[1]>> /\ Rest(c) = Tail(b)
  BY <1>3, <1>4, FirstOne DEF NextBody, Rest
<1>7. x = [len |-> m.size, body |-> <<b[1]>>]
  BY <1>4, <1>6
<1>8. peer'[c] = ReadChunk(r, x)
  BY PeerStep DEF PeerType, IInv
<1>9. /\ buf'[c] = Tail(b)
      /\ UNCHANGED <<queue, accepted, messageLength, upc, ucs, msg>>
      /\ IF Tail(b) = <<>> THEN spc' = "select" /\ sw' = None
                           ELSE spc' = "requeue" /\ sw' = sw
  BY <1>6 DEF WriteChunk, IInv, TypeOK
<1>10. ~Queued(c) /\ \A u \in Users : ~Owns(u, c)
  BY <1>1, OneOwner
<1>11. ~Queued(c)' /\ \A u \in Users : ~Owns(u, c)'
  BY <1>9, <1>10 DEF Queued, Owns
<1>12. Len(s) = Len(r.read) + 1
  BY <1>4
<1>13. CASE Tail(b) # <<>>
  <2>1. /\ peer'[c] = [r EXCEPT !.got = r.got \o <<b[1]>>]
        /\ (r.got \o <<b[1]>>) \o Tail(b) = Pieces(m)
    <3> HIDE DEF m, r, b, x
    <3> QED
      BY <1>3, <1>4, <1>5, <1>7, <1>8, <1>13, ReadMiddle
  <2>2. /\ peer'[c].read = r.read /\ peer'[c].broken = r.broken
        /\ peer'[c].got = r.got \o <<b[1]>>
    BY <1>3, <2>1 DEF ReaderType
  <2>3. ReadsPrefix(c)'
    BY <1>2, <1>9, <2>2 DEF ReadsPrefix
  <2>4. Halfway(c)'
    BY <1>4, <1>9, <1>13, <2>1, <2>2 DEF Halfway
  <2>5. InHand(c)'
    BY <1>9, <1>13 DEF InHand
  <2> QED
    BY <1>6, <1>12, <1>13, <2>2, <2>3, <2>4, <2>5 DEF StreamInStep, UnderWay
<1>14. CASE Tail(b) = <<>>
  <2> DEFINE t == Append(r.read, Pieces(m))
  <2>1. peer'[c] = [r EXCEPT !.got = <<>>, !.read = t]
    <3> HIDE DEF m, r, b, x
    <3> QED
      BY <1>3, <1>4, <1>5, <1>7, <1>8, <1>14, ReadLast
  <2>2. /\ peer'[c].read = t /\ peer'[c].broken = r.broken /\ peer'[c].got = <<>>
    BY <1>3, <2>1 DEF ReaderType
  <2>3. /\ Len(t) = Len(r.read) + 1 /\ DOMAIN t = DOMAIN r.read \cup {Len(r.read) + 1}
        /\ \A i \in DOMAIN r.read : t[i] = r.read[i]
        /\ t[Len(r.read) + 1] = Pieces(m)
    <3>1. Pieces(m) \in Seq(Piece)
      BY <1>5, PiecesLength
    <3> QED
      BY <1>3, <3>1, AppendIndices
  <2> HIDE DEF t
  <2>4. \A i \in DOMAIN t : t[i] = Pieces(s[i])
    BY <1>4, <2>3
  <2>5. Len(t) = Len(s)
    BY <1>4, <2>3
  <2>6. accepted'[c] = s
    BY <1>9
  <2> HIDE DEF m, r, s
  <2>7. ReadsPrefix(c)'
    <3>1. Len(t) <= Len(s)
      BY <1>5, <2>5
    <3> QED
      BY <1>4, <2>2, <2>4, <2>6, <3>1 DEF ReadsPrefix
  <2>8. AtRest(c)'
    BY <1>9, <1>11, <1>14, <2>2, <2>5, <2>6 DEF AtRest
  <2>9. ~InHand(c)'
    BY <1>9, <1>14, NamesAssumption DEF InHand
  <2>10. Len(peer'[c].read) = Len(peer[c].read) + 1
    BY <2>2, <2>3 DEF r
  <2> QED
    BY <1>6, <1>11, <1>12, <1>14, <2>7, <2>8, <2>9, <2>10 DEF StreamInStep, UnderWay, r, s
<1> QED
  BY <1>13, <1>14

\* Every step of the scheduler keeps the reader in step with the writer.
LEMMA SchedInStep ==
    ASSUME IInv, PeerType, SchedNext, PeerReads, NEW c \in ChunkStreams, StreamInStep(c)
    PROVE  StreamInStep(c)'
<1> USE DEF userVars, dataVars
<1>1. ASSUME WriteChunk, c # sw PROVE StreamInStep(c)'
  <2>1. peer'[c] = peer[c] /\ buf'[c] = buf[c]
    BY <1>1, PeerStep DEF WriteChunk, PeerType, IInv, TypeOK
  <2>2. UNCHANGED <<queue, accepted, messageLength, upc, ucs, msg>>
    BY <1>1 DEF WriteChunk
  <2>3. spc = "write" /\ (sw' = sw \/ sw' = None) /\ spc' \in {"select", "requeue"}
    BY <1>1 DEF WriteChunk
  <2>4. ~InHand(c) /\ ~InHand(c)' /\ Running
    BY <1>1, <2>3, NamesAssumption DEF InHand, Running
  <2>5. UnderWay(c)' <=> UnderWay(c)
    BY <2>2, <2>4 DEF UnderWay, Queued
  <2>6. /\ ReadsPrefix(c) => ReadsPrefix(c)'
        /\ Halfway(c) => Halfway(c)'
        /\ AtRest(c) => AtRest(c)'
    BY <2>1, <2>2 DEF ReadsPrefix, Halfway, AtRest, Owns
  <2> QED
    BY <2>4, <2>5, <2>6 DEF StreamInStep
<1>2. ASSUME WriteChunk, c = sw PROVE StreamInStep(c)'
  BY <1>2, WriteInStep
<1>3. ASSUME ~WriteChunk
      PROVE  /\ UNCHANGED <<peer, accepted, buf, messageLength, upc, ucs, msg>>
             /\ ReadsPrefix(c) => ReadsPrefix(c)'
             /\ Halfway(c) => Halfway(c)'
             /\ AtRest(c) => AtRest(c)'
  <2>1. UNCHANGED <<accepted, buf, messageLength, upc, ucs, msg, wire>>
    BY <1>3 DEF SchedNext, Take, WriteFail, Requeue, RunStops, ForceClose
  <2>2. peer' = peer
    BY <2>1, PeerStep DEF IInv
  <2> QED
    BY <2>1, <2>2 DEF ReadsPrefix, Halfway, AtRest, Owns
<1>4. ASSUME Take PROVE StreamInStep(c)'
  <2>1. /\ queue \in Seq(ChunkStreams) /\ queue # <<>> /\ queue' = Tail(queue)
        /\ spc = "select" /\ spc' = "write" /\ sw' = Head(queue)
    BY <1>4 DEF Take, IInv, TypeOK
  <2>2. Running /\ ~InHand(c) /\ (InHand(c)' <=> c = Head(queue))
    BY <2>1 DEF Running, InHand
  <2>3. Queued(c) <=> c = Head(queue) \/ Queued(c)'
    <3> DEFINE q == queue
    <3>1. \A i \in DOMAIN q : i = 1 \/ (i - 1 \in DOMAIN Tail(q) /\ Tail(q)[i - 1] = q[i])
      BY <2>1
    <3>2. /\ Head(q) = q[1] /\ 1 \in DOMAIN q
          /\ \A i \in DOMAIN Tail(q) : i + 1 \in DOMAIN q /\ Tail(q)[i] = q[i + 1]
      BY <2>1, TailIndices
    <3>3. queue' = Tail(q)
      BY <2>1
    <3> QED
      BY <3>1, <3>2, <3>3 DEF Queued
  <2>4. UnderWay(c)' <=> UnderWay(c)
    BY <2>2, <2>3 DEF UnderWay
  <2>5. ~WriteChunk
    BY <2>1 DEF WriteChunk
  <2> QED
    BY <1>3, <2>2, <2>4, <2>5 DEF StreamInStep
<1>5. ASSUME Requeue PROVE StreamInStep(c)'
  <2>1. /\ queue \in Seq(ChunkStreams) /\ queue' = Append(queue, sw)
        /\ spc = "requeue" /\ spc' = "select" /\ sw \in ChunkStreams
    BY <1>5 DEF Requeue, IInv, TypeOK
  <2>2. Running /\ ~InHand(c)' /\ (InHand(c) <=> c = sw)
    BY <2>1 DEF Running, InHand
  <2>3. Queued(c)' <=> c = sw \/ Queued(c)
    <3> DEFINE q == queue
               d == sw
    <3>1. /\ DOMAIN Append(q, d) = DOMAIN q \cup {Len(q) + 1}
          /\ \A i \in DOMAIN q : Append(q, d)[i] = q[i]
          /\ Append(q, d)[Len(q) + 1] = d
      BY <2>1, AppendIndices
    <3>2. queue' = Append(q, d)
      BY <2>1
    <3> QED
      BY <3>1, <3>2 DEF Queued
  <2>4. UnderWay(c)' <=> UnderWay(c)
    BY <2>2, <2>3 DEF UnderWay
  <2>5. ~WriteChunk
    BY <2>1 DEF WriteChunk
  <2> QED
    BY <1>3, <2>2, <2>4, <2>5 DEF StreamInStep
<1>6. ASSUME WriteFail \/ RunStops \/ ForceClose PROVE StreamInStep(c)'
  <2>1. spc' \in {"force", "done"}
    BY <1>6 DEF WriteFail, RunStops, ForceClose
  <2>2. ~Running' /\ ~WriteChunk
    BY <2>1 DEF Running, WriteChunk
  <2> QED
    BY <1>3, <2>2 DEF StreamInStep
<1> QED
  BY <1>1, <1>2, <1>4, <1>5, <1>6 DEF SchedNext

\* Conn.Close touches nothing that the invariant speaks of.
LEMMA CloseInStep ==
    ASSUME IInv, PeerType, CloseNextStep, PeerReads, NEW c \in ChunkStreams,
           StreamInStep(c)
    PROVE  StreamInStep(c)'
<1>1. UNCHANGED <<queue, accepted, upc, ucs, msg, spc, sw, wire, buf, messageLength>>
  BY DEF CloseNextStep, CloseCall, CloseLocksMu, CloseExpires, CloseNext,
     CloseLocksWriter, CloseWaits, CloseWaited, CloseStops, CloseTransport,
     CloseUnchanged, userVars, schedVars, dataVars
<1>2. peer' = peer
  BY <1>1, PeerStep DEF IInv
<1> QED
  BY <1>1, <1>2 DEF StreamInStep, ReadsPrefix, Halfway, AtRest, Running, UnderWay,
     Queued, InHand, Owns

\* The invariant holds at first.
LEMMA InitDInv == Init /\ peer = [c \in ChunkStreams |-> Reader] => DInv
<1> SUFFICES ASSUME Init, peer = [c \in ChunkStreams |-> Reader] PROVE DInv
  OBVIOUS
<1>1. IInv
  BY InitIInv
<1>2. PeerType
  <2>1. <<>> \in Seq(Piece) /\ <<>> \in Seq(Seq(Piece)) /\ FALSE \in BOOLEAN
    OBVIOUS
  <2> QED
    BY <2>1 DEF PeerType, ReaderType, Reader
<1>3. EncoderMine
  BY DEF Init, EncoderMine
<1>4. ASSUME NEW c \in ChunkStreams PROVE StreamInStep(c)
  <2>1. /\ peer[c] = Reader /\ accepted[c] = <<>> /\ buf[c] = <<>>
        /\ \A u \in Users : ~Owns(u, c)
    BY DEF Init, Owns
  <2>2. ~UnderWay(c)
    BY NamesAssumption DEF Init, UnderWay, Queued, InHand
  <2>3. AtRest(c) /\ ReadsPrefix(c)
    BY <2>1 DEF AtRest, ReadsPrefix, Reader
  <2> QED
    BY <2>2, <2>3 DEF StreamInStep
<1> QED
  BY <1>1, <1>2, <1>3, <1>4 DEF DInv

\* The invariant is kept by every step that lets no second user to the encoder.
LEMMA NextDInv == DInv /\ [Next /\ PeerReads]_<<vars, peer>> /\ OneEncodes' => DInv'
<1> SUFFICES ASSUME DInv, [Next /\ PeerReads]_<<vars, peer>>, OneEncodes' PROVE DInv'
  OBVIOUS
<1>1. CASE Next /\ PeerReads
  <2>1. IInv' /\ IInv /\ TypeOK /\ PeerType /\ EncoderMine
    BY <1>1, NextIInv DEF DInv, IInv
  <2>2. PeerType'
    BY <1>1, <2>1, PeerTyped
  <2>3. EncoderMine'
    BY <1>1, <2>1, EncoderStep
  <2>4. ASSUME NEW c \in ChunkStreams PROVE StreamInStep(c)'
    <3>1. StreamInStep(c)
      BY DEF DInv
    <3>2. ASSUME NEW u \in Users, UserNext(u) PROVE StreamInStep(c)'
      <4>1. wire' = wire
        BY <3>2 DEF UserNext, Call, Prepare, LockWriter, WaitDone, WaitClosed,
           WaitExpired, ResetEncoder, Encode, EncodeFail, SetHeader, Sched, schedVars
      <4>2. peer' = peer
        BY <1>1, <2>1, <4>1, PeerStep
      <4> QED
        BY <2>1, <3>1, <3>2, <4>2, UserInStep
    <3> QED
      BY <1>1, <2>1, <3>1, <3>2, SchedInStep, CloseInStep DEF Next
  <2> QED
    BY <2>1, <2>2, <2>3, <2>4 DEF DInv
<1>2. CASE UNCHANGED <<vars, peer>>
  <2>1. IInv'
    BY <1>2, NextIInv DEF DInv
  <2>2. UNCHANGED <<peer, queue, accepted, upc, ucs, msg, spc, sw, buf, messageLength, msgEnc>>
    BY <1>2 DEF vars, userVars, schedVars, dataVars
  <2>3. PeerType' /\ EncoderMine'
    BY <2>2 DEF DInv, PeerType, EncoderMine
  <2>4. ASSUME NEW c \in ChunkStreams PROVE StreamInStep(c)'
    <3>1. StreamInStep(c)
      BY DEF DInv
    <3>2. /\ ReadsPrefix(c)' = ReadsPrefix(c) /\ Running' = Running
          /\ UnderWay(c)' = UnderWay(c)
      BY <2>2 DEF ReadsPrefix, Running, UnderWay, Queued, InHand
    <3>3. Halfway(c)' = Halfway(c)
      BY <2>2 DEF Halfway
    <3>4. AtRest(c)' = AtRest(c)
      BY <2>2 DEF AtRest, Owns
    <3> QED
      BY <3>1, <3>2, <3>3, <3>4 DEF StreamInStep
  <2> QED
    BY <2>1, <2>3, <2>4 DEF DInv
<1> QED
  BY <1>1, <1>2

-----------------------------------------------------------------------------
(* The refinement *)

\* A message is what a complete buffer of its pieces is taken for.
LEMMA MessageOfPieces ==
    ASSUME NEW m \in Message
    PROVE  MessageOf(Pieces(m)) = m
BY PiecesLength DEF MessageOf

\* What the peer has read is the part of the accepted messages it has read.
LEMMA ReceivedPrefix ==
    ASSUME TypeOK, PeerType, NEW c \in ChunkStreams, ReadsPrefix(c)
    PROVE  /\ Received(c) \in Seq(Message)
           /\ Len(Received(c)) = Len(peer[c].read)
           /\ \A i \in 1..Len(peer[c].read) : Received(c)[i] = accepted[c][i]
<1> DEFINE r == peer[c].read
           s == accepted[c]
           f == [i \in DOMAIN r |-> MessageOf(r[i])]
<1>1. /\ r \in Seq(Seq(Piece)) /\ s \in Seq(Message) /\ ~peer[c].broken
      /\ Len(r) <= Len(s) /\ \A i \in DOMAIN r : r[i] = Pieces(s[i])
  BY DEF TypeOK, PeerType, ReaderType, ReadsPrefix
<1>2. /\ DOMAIN r = 1..Len(r) /\ Len(r) \in Nat /\ Len(s) \in Nat
      /\ \A i \in 1..Len(r) : s[i] \in Message
  BY <1>1
<1>3. \A i \in 1..Len(r) : MessageOf(r[i]) = s[i]
  BY <1>1, <1>2, MessageOfPieces
<1>4. Received(c) = f \o <<>>
  BY <1>1 DEF Received
<1> HIDE DEF r, s
<1>5. f \in Seq(Message) /\ Len(f) = Len(r) /\ \A i \in 1..Len(r) : f[i] = s[i]
  BY <1>2, <1>3
<1> HIDE DEF f
<1>6. f \o <<>> = f
  BY <1>5
<1> QED
  BY <1>4, <1>5, <1>6 DEF r, s

\* The refinement mapping in terms of what has been accepted.
Mapped ==
    /\ InPipe = [c \in ChunkStreams |->
                   SubSeq(accepted[c], Len(peer[c].read) + 1, Len(accepted[c]))]
    /\ LastRead = [c \in ChunkStreams |->
                     IF Len(peer[c].read) = 0 THEN None
                                              ELSE accepted[c][Len(peer[c].read)]]

\* As long as the invariant holds, the mapping is this.
LEMMA Mapping == DInv => Mapped
<1> SUFFICES ASSUME DInv PROVE Mapped
  OBVIOUS
<1>1. ASSUME NEW c \in ChunkStreams
      PROVE  /\ Unread(c, Len(Received(c)))
                  = SubSeq(accepted[c], Len(peer[c].read) + 1, Len(accepted[c]))
             /\ (IF Received(c) = <<>> THEN None ELSE Last(Received(c)))
                  = IF Len(peer[c].read) = 0 THEN None
                                             ELSE accepted[c][Len(peer[c].read)]
  <2> DEFINE t == Received(c)
             n == Len(peer[c].read)
  <2>1. TypeOK /\ PeerType /\ ReadsPrefix(c)
    BY DEF DInv, IInv, StreamInStep
  <2>2. t \in Seq(Message) /\ Len(t) = n /\ \A i \in 1..n : t[i] = accepted[c][i]
    BY <2>1, ReceivedPrefix
  <2>3. Unread(c, Len(t)) = SubSeq(accepted[c], n + 1, Len(accepted[c]))
    BY <2>2 DEF Unread
  <2> HIDE DEF t, n
  <2>4. n \in Nat /\ (t = <<>> <=> n = 0)
    BY <2>2
  <2>5. n # 0 => Last(t) = accepted[c][n]
    <3>1. n # 0 => n \in 1..n
      BY <2>4
    <3> QED
      BY <2>2, <3>1 DEF Last
  <2> QED
    BY <2>3, <2>4, <2>5 DEF t, n
<1> QED
  BY <1>1 DEF Mapped, InPipe, LastRead

\* What Sched does to the unread part of what has been accepted.
LEMMA UnreadGrows ==
    ASSUME NEW s \in Seq(Message), NEW n \in Nat, n <= Len(s), NEW m \in Message
    PROVE  SubSeq(Append(s, m), n + 1, Len(Append(s, m)))
             = Append(SubSeq(s, n + 1, Len(s)), m)
<1> DEFINE t == Append(s, m)
           a == SubSeq(t, n + 1, Len(t))
           u == SubSeq(s, n + 1, Len(s))
           b == Append(u, m)
<1>1. /\ t \in Seq(Message) /\ Len(t) = Len(s) + 1 /\ Len(s) \in Nat
      /\ (\A i \in 1..Len(s) : t[i] = s[i]) /\ t[Len(s) + 1] = m
  OBVIOUS
<1>2. /\ u \in Seq(Message) /\ Len(u) = Len(s) - n
      /\ \A i \in 1..(Len(s) - n) : u[i] = s[n + i]
  BY <1>1
<1> HIDE DEF t, u
<1>3. /\ b \in Seq(Message) /\ Len(b) = Len(u) + 1
      /\ (\A i \in 1..Len(u) : b[i] = u[i]) /\ b[Len(u) + 1] = m
  BY <1>2, AppendProperties
<1>4. /\ a \in Seq(Message) /\ Len(a) = Len(t) - n
      /\ \A i \in 1..(Len(t) - n) : a[i] = t[n + i]
  BY <1>1
<1> HIDE DEF a, b
<1>5. Len(a) = Len(b)
  BY <1>1, <1>2, <1>3, <1>4
<1>6. ASSUME NEW i \in 1..Len(a) PROVE a[i] = b[i]
  <2>1. CASE i = Len(u) + 1
    BY <1>1, <1>2, <1>3, <1>4, <2>1
  <2>2. CASE i \in 1..Len(u)
    BY <1>1, <1>2, <1>3, <1>4, <2>2
  <2> QED
    BY <1>2, <1>3, <1>5, <2>1, <2>2
<1> QED
  BY <1>3, <1>4, <1>5, <1>6, SeqEqual DEF a, b, u, t

\* What the last chunk of a message does to it.
LEMMA UnreadShrinks ==
    ASSUME NEW s \in Seq(Message), NEW n \in Nat, n + 1 = Len(s)
    PROVE  LET t == SubSeq(s, n + 1, Len(s))
           IN  t # <<>> /\ Head(t) = s[n + 1] /\ Tail(t) = SubSeq(s, n + 2, Len(s))
<1> DEFINE k == n + 1
           t == SubSeq(s, k, Len(s))
<1>1. k \in 1..Len(s) /\ Len(s) \in k..Len(s) /\ k + 1 = n + 2
  OBVIOUS
<1>2. t \in Seq(Message) /\ Len(t) = 1
  BY <1>1
<1> HIDE DEF k
<1>3. Head(t) = s[k] /\ Tail(t) = SubSeq(s, k + 1, Len(s))
  BY <1>1, HeadTailOfSubSeq
<1>4. t # <<>>
  <2>1. SUFFICES ASSUME t = <<>> PROVE FALSE
    OBVIOUS
  <2>2. Len(t) = 0
    BY <2>1
  <2> HIDE DEF t
  <2> QED
    BY <1>2, <2>2
<1> QED
  BY <1>1, <1>3, <1>4 DEF k

\* A step is Accept, Deliver or nothing to the pipes.
LEMMA StepRefines ==
    ASSUME DInv, DInv', [Next /\ PeerReads]_<<vars, peer>>
    PROVE  Pipe!Next \/ UNCHANGED <<InPipe, LastRead>>
<1>1. Mapped /\ Mapped'
  BY Mapping, PTL
<1>2. /\ TypeOK /\ IInv /\ PeerType
      /\ accepted \in [ChunkStreams -> Seq(Message)]
      /\ \A c \in ChunkStreams : StreamInStep(c)
  BY DEF DInv, IInv, TypeOK
<1>3. \A c \in ChunkStreams : Len(peer[c].read) \in Nat
  BY <1>2 DEF PeerType, ReaderType
<1>4. /\ InPipe = [d \in ChunkStreams |-> InPipe[d]]
      /\ InPipe' = [d \in ChunkStreams |-> InPipe'[d]]
  BY <1>1 DEF Mapped
<1>5. ASSUME accepted' = accepted,
             \A c \in ChunkStreams : Len(peer'[c].read) = Len(peer[c].read)
      PROVE  UNCHANGED <<InPipe, LastRead>>
  BY <1>1, <1>5 DEF Mapped
<1>6. ASSUME NEW u \in Users, Sched(u), peer' = peer
      PROVE  Pipe!Next
  <2> DEFINE c == ucs[u]
             m == msg[u]
  <2>1. /\ c \in ChunkStreams /\ m \in Message
        /\ accepted' = [accepted EXCEPT ![c] = Append(accepted[c], m)]
    BY <1>2, <1>6 DEF Sched, TypeOK
  <2> HIDE DEF c, m
  <2> DEFINE s == accepted[c]
             n == Len(peer[c].read)
  <2>2. s \in Seq(Message) /\ n \in Nat /\ n <= Len(s)
    BY <1>2, <1>3, <2>1 DEF StreamInStep, ReadsPrefix
  <2>3. accepted'[c] = Append(s, m) /\ \A d \in ChunkStreams : d # c => accepted'[d] = accepted[d]
    BY <1>2, <2>1
  <2>4. n # 0 => Append(s, m)[n] = s[n]
    <3>1. n # 0 => n \in 1..Len(s)
      BY <2>2
    <3> HIDE DEF s, n
    <3> QED
      BY <2>1, <2>2, <3>1, AppendProperties
  <2>5. LastRead' = LastRead
    BY <1>1, <1>6, <2>3, <2>4 DEF Mapped
  <2>6. SubSeq(accepted'[c], n + 1, Len(accepted'[c]))
          = Append(SubSeq(s, n + 1, Len(s)), m)
    BY <2>1, <2>2, <2>3, UnreadGrows
  <2>7. InPipe' = [InPipe EXCEPT ![c] = Append(InPipe[c], m)]
    <3>1. InPipe'[c] = Append(InPipe[c], m)
      BY <1>1, <1>6, <2>1, <2>6 DEF Mapped
    <3>2. \A d \in ChunkStreams : d # c => InPipe'[d] = InPipe[d]
      BY <1>1, <1>6, <2>3 DEF Mapped
    <3> QED
      BY <1>4, <2>1, <3>1, <3>2
  <2> QED
    BY <2>1, <2>5, <2>7 DEF Pipe!Next, Pipe!Accept
<1>7. ASSUME WriteChunk, PeerReads PROVE Pipe!Next \/ UNCHANGED <<InPipe, LastRead>>
  <2> DEFINE c == sw
  <2>1. c \in ChunkStreams /\ accepted' = accepted
    BY <1>2, <1>7 DEF WriteChunk, TypeOK
  <2>2. \A d \in ChunkStreams : d # c => peer'[d] = peer[d]
    BY <1>2, <1>7, PeerStep DEF PeerType
  <2>3. /\ Len(accepted[c]) = Len(peer[c].read) + 1
        /\ IF Rest(c) = <<>> THEN Len(peer'[c].read) = Len(peer[c].read) + 1
                             ELSE peer'[c].read = peer[c].read
    BY <1>2, <1>7, <2>1, WriteInStep
  <2>4. CASE Rest(c) # <<>>
    BY <1>5, <2>1, <2>2, <2>3, <2>4
  <2>5. CASE Rest(c) = <<>>
    <3> DEFINE s == accepted[c]
               n == Len(peer[c].read)
               t == SubSeq(s, n + 1, Len(s))
    <3>1. s \in Seq(Message) /\ n \in Nat /\ n + 1 = Len(s)
      BY <1>2, <1>3, <2>1, <2>3
    <3>2. t # <<>> /\ Head(t) = s[n + 1] /\ Tail(t) = SubSeq(s, n + 2, Len(s))
      BY <3>1, UnreadShrinks
    <3>3. Len(peer'[c].read) = n + 1 /\ n + 1 # 0 /\ (n + 1) + 1 = n + 2
      BY <2>3, <2>5, <3>1
    <3>4. InPipe[c] = t
      BY <1>1, <2>1 DEF Mapped
    <3>5. InPipe' = [InPipe EXCEPT ![c] = Tail(InPipe[c])]
      <4>1. InPipe'[c] = SubSeq(s, n + 2, Len(s))
        BY <1>1, <2>1, <3>3 DEF Mapped
      <4>2. \A d \in ChunkStreams : d # c => InPipe'[d] = InPipe[d]
        BY <1>1, <2>1, <2>2 DEF Mapped
      <4> HIDE DEF c
      <4> QED
        BY <1>4, <2>1, <3>2, <3>4, <4>1, <4>2
    <3>6. LastRead' = [LastRead EXCEPT ![c] = Head(InPipe[c])]
      BY <1>1, <2>1, <2>2, <3>2, <3>3, <3>4 DEF Mapped
    <3> QED
      BY <2>1, <3>2, <3>4, <3>5, <3>6 DEF Pipe!Next, Pipe!Deliver
  <2> QED
    BY <2>4, <2>5
<1>8. CASE Next /\ PeerReads /\ ~WriteChunk
  <2>1. peer' = peer
    BY <1>2, <1>8, OnlyWriteChunk, PeerStep
  <2>2. CASE \E u \in Users : Sched(u)
    BY <1>6, <2>1, <2>2
  <2>3. CASE ~\E u \in Users : Sched(u)
    <3>1. ASSUME NEW u \in Users, UserNext(u) PROVE accepted' = accepted
      BY <2>3, <3>1 DEF UserNext, Call, Prepare, LockWriter, WaitDone, WaitClosed,
         WaitExpired, ResetEncoder, Encode, EncodeFail, SetHeader
    <3>2. ASSUME SchedNext PROVE accepted' = accepted
      BY <3>2 DEF SchedNext, Take, WriteChunk, WriteFail, Requeue, RunStops, ForceClose
    <3>3. ASSUME CloseNextStep PROVE accepted' = accepted
      BY <3>3 DEF CloseNextStep, CloseCall, CloseLocksMu, CloseExpires, CloseNext,
         CloseLocksWriter, CloseWaits, CloseWaited, CloseStops, CloseTransport,
         CloseUnchanged
    <3> QED
      BY <1>5, <1>8, <2>1, <3>1, <3>2, <3>3 DEF Next
  <2> QED
    BY <2>2, <2>3
<1>9. CASE UNCHANGED <<vars, peer>>
  BY <1>5, <1>9 DEF vars
<1> QED
  BY <1>7, <1>8, <1>9

\* At first the pipes are empty.
LEMMA InitRefines == Init /\ peer = [c \in ChunkStreams |-> Reader] => Pipe!Init
<1> SUFFICES ASSUME Init, peer = [c \in ChunkStreams |-> Reader] PROVE Pipe!Init
  OBVIOUS
<1>1. Mapped
  BY InitDInv, Mapping
<1>2. \A c \in ChunkStreams : accepted[c] = <<>> /\ peer[c].read = <<>>
  BY DEF Init, Reader
<1>3. SubSeq(<<>>, 0 + 1, 0) = <<>> /\ Len(<<>>) = 0
  OBVIOUS
<1> QED
  BY <1>1, <1>2, <1>3 DEF Mapped, Pipe!Init

\* If no two users are between Reset and Encode at the same time, the scheduler,
\* the shared encoder and the headers implement the pipes for any number of
\* users, through failures and Close.
THEOREM LockedEncoderPipes == DeliverySpec /\ []OneEncodes => ImplementsPipe
<1>1. DeliverySpec /\ []OneEncodes => []DInv
  BY InitDInv, NextDInv, PTL DEF DeliverySpec
<1>2. DInv /\ DInv' /\ [Next /\ PeerReads]_<<vars, peer>>
        => [Pipe!Next]_<<InPipe, LastRead>>
  BY StepRefines
<1> QED
  BY <1>1, <1>2, InitRefines, PTL DEF DeliverySpec, ImplementsPipe, Pipe!Spec

\* With one user there is nobody to point the encoder elsewhere: the hypothesis
\* goes, and the refinement holds of the specification as it stands.
THEOREM OneUserPipes ==
    ASSUME \A u, v \in Users : u = v
    PROVE  DeliverySpec => ImplementsPipe
<1>1. OneEncodes
  BY DEF OneEncodes
<1> QED
  BY <1>1, LockedEncoderPipes, PTL

-----------------------------------------------------------------------------
(* Conn.Close *)

\* Users get writers from cs.writers, which they cannot change while
\* waitWriters holds cs.mu.
LEMMA UserWaited ==
    ASSUME Waited, NEW u \in Users, UserNext(u)
    PROVE  Waited'
<1>1. UNCHANGED <<schedVars, closeVars, closeCh, lastErr>>
  BY DEF UserNext, Call, Prepare, LockWriter, WaitDone, WaitClosed, WaitExpired,
     ResetEncoder, Encode, EncodeFail, SetHeader, Sched, chanVars
<1>2. cpc \in {"next", "lock", "select"} => writers' = writers
  BY DEF UserNext, Call, Prepare, LockWriter, WaitDone, WaitClosed, WaitExpired,
     ResetEncoder, Encode, EncodeFail, SetHeader, Sched, MuFree
<1> QED
  BY <1>1, <1>2 DEF Waited, schedVars, closeVars

\* Run marks a writer as failed only when it fails itself.
LEMMA SchedWaited ==
    ASSUME TypeOK, Waited, SchedNext
    PROVE  Waited'
<1>1. CASE Take \/ WriteChunk \/ Requeue
  BY <1>1 DEF Take, WriteChunk, Requeue, Waited, closeVars, chanVars
<1>2. CASE WriteFail
  BY <1>2 DEF WriteFail, Waited, closeVars
<1>3. CASE RunStops
  BY <1>3 DEF RunStops, Waited, closeVars, chanVars
<1>4. CASE ForceClose
  BY <1>4 DEF ForceClose, Waited, closeVars
<1> QED
  BY <1>1, <1>2, <1>3, <1>4 DEF SchedNext

\* While neither its context nor the streamer has ended, waitWriters leaves a
\* writer only once it has acquired it.
LEMMA CloseWaitedFor ==
    ASSUME TypeOK, Waited, CloseNextStep
    PROVE  Waited'
<1>1. UNCHANGED <<writers, spc, err, closeCh, lastErr>>
  BY DEF CloseNextStep, CloseCall, CloseLocksMu, CloseExpires, CloseNext,
     CloseLocksWriter, CloseWaits, CloseWaited, CloseStops, CloseTransport,
     CloseUnchanged, schedVars
<1>2. CASE CloseCall \/ CloseLocksMu \/ CloseExpires
  BY <1>1, <1>2 DEF CloseCall, CloseLocksMu, CloseExpires, Waited, MuFree
<1>3. CASE CloseNext
  <2>1. /\ cpc = "next" /\ cpc' = "lock" /\ cw' \in pending
        /\ pending' = pending \ {cw'}
        /\ UNCHANGED <<ctxExpired, drained, stopped>>
    BY <1>3 DEF CloseNext
  <2>2. cw \notin writers
    BY <2>1, NamesAssumption DEF TypeOK
  <2> QED
    BY <1>1, <2>1, <2>2 DEF Waited
<1>4. CASE CloseWaits
  BY <1>1, <1>4 DEF CloseWaits, Waited, TypeOK
<1>5. CASE CloseLocksWriter \/ CloseWaited \/ CloseStops \/ CloseTransport
  BY <1>1, <1>5 DEF CloseLocksWriter, CloseWaited, CloseStops, CloseTransport, Waited
<1> QED
  BY <1>2, <1>3, <1>4, <1>5 DEF CloseNextStep

\* Waited is inductive.
LEMMA NextWaited == TypeOK /\ Waited /\ [Next]_vars => Waited'
<1> SUFFICES ASSUME TypeOK, Waited, [Next]_vars PROVE Waited'
  OBVIOUS
<1>1. CASE UNCHANGED vars
  BY <1>1 DEF vars, Waited, schedVars, closeVars, chanVars
<1> QED
  BY <1>1, UserWaited, SchedWaited, CloseWaitedFor DEF Next

\* When waitWriters is through in time, it has every writer: nothing of any is
\* queued, in the scheduler's hands or a user's, so the peer has read it all.
LEMMA NothingLeft ==
    ASSUME DInv, Waited, cpc = "next", pending = {}, ~ctxExpired, ~err,
           NEW c \in writers
    PROVE  Received(c) = accepted[c]
<1>1. TypeOK /\ OneHolder /\ PeerType /\ StreamInStep(c) /\ c \in ChunkStreams
  BY DEF DInv, IInv, TypeOK
<1>2. c \in drained /\ ~closeCh[c] /\ Running
  <2>1. cw = None /\ c # None
    BY <1>1, NamesAssumption DEF TypeOK
  <2>2. c \in drained
    BY <2>1 DEF Waited
  <2>3. spc # "force" /\ spc # "done"
    BY DEF Waited
  <2> QED
    BY <1>1, <2>2, <2>3 DEF Waited, Running, TypeOK, SchedPC
<1>3. ~Queued(c) /\ ~InHand(c) /\ \A u \in Users : ~Owns(u, c)
  BY <1>1, <1>2 DEF OneHolder
<1>4. ReadsPrefix(c) /\ Len(peer[c].read) = Len(accepted[c])
  BY <1>1, <1>2, <1>3 DEF StreamInStep, UnderWay, AtRest
<1> DEFINE r == Received(c)
           s == accepted[c]
<1>5. /\ r \in Seq(Message) /\ s \in Seq(Message) /\ Len(r) = Len(s)
      /\ \A i \in 1..Len(r) : r[i] = s[i]
  BY <1>1, <1>4, ReceivedPrefix DEF TypeOK
<1> HIDE DEF r, s
<1>6. r = s
  BY <1>5, SeqEqual
<1> QED
  BY <1>6 DEF r, s

\* Under the same hypothesis, a Conn.Close whose wait is through in time loses
\* nothing of what was accepted for any chunk stream.
THEOREM LockedCloseIsClean == DeliverySpec /\ []OneEncodes => CleanClose
<1>1. DeliverySpec /\ []OneEncodes => []DInv
  BY InitDInv, NextDInv, PTL DEF DeliverySpec
<1>2. Init => Waited
  BY DEF Init, Waited
<1>3. DInv /\ Waited /\ [Next /\ PeerReads]_<<vars, peer>> => Waited'
  BY NextWaited DEF DInv, IInv
<1>4. DInv /\ Waited => (CloseWaited /\ ~ctxExpired /\ ~err =>
                           \A c \in writers : Received(c) = accepted[c])
  BY NothingLeft DEF CloseWaited
<1> QED
  BY <1>1, <1>2, <1>3, <1>4, PTL DEF DeliverySpec, CleanClose

\* With one user, every such Close.
THEOREM OneUserCloseIsClean ==
    ASSUME \A u, v \in Users : u = v
    PROVE  DeliverySpec => CleanClose
<1>1. OneEncodes
  BY DEF OneEncodes
<1> QED
  BY <1>1, LockedCloseIsClean, PTL
=============================================================================
