------------------------- MODULE ChunkWriters_proof -------------------------
(* Theorems about ChunkWriters, for every value of its constants. *)
EXTENDS ChunkWriters, FiniteSetTheorems, TLAPS

\* A message cut into chunks is a sequence of pieces, and is not empty.
LEMMA PiecesType ==
    ASSUME NEW m \in Message
    PROVE  Pieces(m) \in Seq(Piece)
<1>1. m.size \in Nat /\ m.size <= MaxChunks
  BY BoundsAssumption DEF Message
<1>2. \A k \in 1..m.size : [msg |-> m, part |-> k] \in Piece
  BY <1>1, BoundsAssumption DEF Piece
<1> QED
  BY <1>1, <1>2 DEF Pieces

\* NewChunkStreamer leaves every variable in its type.
LEMMA InitType == Init => TypeOK
<1> SUFFICES ASSUME Init PROVE TypeOK
  OBVIOUS
<1>1. msg \in [Users -> Message]
  BY BoundsAssumption DEF Init, Message
<1>2. /\ buf \in [ChunkStreams -> Seq(Piece)]
      /\ wire \in [ChunkStreams -> Seq(Chunk)]
      /\ accepted \in [ChunkStreams -> Seq(Message)]
      /\ queue \in Seq(ChunkStreams)
  BY DEF Init
<1> QED
  BY <1>1, <1>2, NamesAssumption DEF Init, TypeOK, UserPC, SchedPC, ClosePC

\* Every step of a caller of Write keeps the types.
LEMMA UserType ==
    ASSUME TypeOK, NEW u \in Users, UserNext(u)
    PROVE  TypeOK'
<1> USE NamesAssumption DEF userVars, schedVars, closeVars, chanVars, dataVars
<1>1. CASE Call(u)
  <2> PICK w \in ChunkStreams, n \in 1..MaxChunks :
        /\ ucs' = [ucs EXCEPT ![u] = w]
        /\ msg' = [msg EXCEPT ![u] =
                     [user |-> u, seq |-> msg[u].seq + 1, size |-> n]]
    BY <1>1 DEF Call
  <2>1. msg'[u] \in Message
    BY <1>1, BoundsAssumption DEF Call, TypeOK, Message
  <2> QED
    BY <1>1, <2>1 DEF Call, TypeOK, UserPC
<1>2. CASE Prepare(u)
  <2>1. ucs[u] \in ChunkStreams
    BY <1>2 DEF Prepare, TypeOK
  <2>2. writers' \subseteq ChunkStreams
    BY <1>2, <2>1 DEF Prepare, TypeOK
  <2>3. CASE GoTo(u, "lock")
    BY <1>2, <2>2, <2>3 DEF Prepare, GoTo, TypeOK, UserPC
  <2>4. CASE Return(u)
    BY <1>2, <2>2, <2>4 DEF Prepare, Return, TypeOK, UserPC
  <2> QED
    BY <1>2, <2>3, <2>4 DEF Prepare
<1>3. CASE LockWriter(u)
  BY <1>3 DEF LockWriter, GoTo, TypeOK, UserPC
<1>4. CASE WaitDone(u)
  <2>1. ucs[u] \in ChunkStreams
    BY <1>4 DEF WaitDone, TypeOK
  <2>2. aqM' \in [ChunkStreams -> Users \cup {Closer, None}]
    BY <1>4, <2>1 DEF WaitDone, TypeOK
  <2>3. CASE lastErr[ucs[u]] /\ Return(u) /\ UNCHANGED doneCh
    BY <1>4, <2>2, <2>3 DEF WaitDone, Return, TypeOK, UserPC
  <2>4. CASE /\ ~lastErr[ucs[u]] /\ GoTo(u, "reset")
             /\ doneCh' = [doneCh EXCEPT ![ucs[u]] = FALSE]
    BY <1>4, <2>1, <2>2, <2>4 DEF WaitDone, GoTo, TypeOK, UserPC
  <2> QED
    BY <1>4, <2>3, <2>4 DEF WaitDone
<1>5. CASE WaitClosed(u)
  <2>1. aqM' \in [ChunkStreams -> Users \cup {Closer, None}]
    BY <1>5 DEF WaitClosed, TypeOK
  <2>2. CASE Return(u)
    BY <1>5, <2>1, <2>2 DEF WaitClosed, Return, TypeOK, UserPC
  <2>3. CASE GoTo(u, "reset")
    BY <1>5, <2>1, <2>3 DEF WaitClosed, GoTo, TypeOK, UserPC
  <2> QED
    BY <1>5, <2>2, <2>3 DEF WaitClosed
<1>6. CASE WaitExpired(u)
  BY <1>6 DEF WaitExpired, Return, TypeOK, UserPC
<1>7. CASE ResetEncoder(u)
  BY <1>7 DEF ResetEncoder, GoTo, TypeOK, UserPC
<1>8. CASE Encode(u)
  <2>1. Pieces(msg[u]) \in Seq(Piece)
    BY PiecesType DEF TypeOK
  <2>2. msgEnc \in ChunkStreams
    BY <1>8 DEF Encode, TypeOK
  <2>3. buf' \in [ChunkStreams -> Seq(Piece)]
    BY <1>8, <2>1, <2>2 DEF Encode, TypeOK
  <2> QED
    BY <1>8, <2>3 DEF Encode, GoTo, TypeOK, UserPC
<1>9. CASE EncodeFail(u)
  BY <1>9 DEF EncodeFail, Return, TypeOK, UserPC
<1>10. CASE SetHeader(u)
  <2>1. messageLength' \in [ChunkStreams -> Nat]
    BY <1>10 DEF SetHeader, TypeOK
  <2> QED
    BY <1>10, <2>1 DEF SetHeader, GoTo, TypeOK, UserPC
<1>11. CASE Sched(u)
  <2>1. ucs[u] \in ChunkStreams
    BY <1>11 DEF Sched, TypeOK
  <2>2. queue' \in Seq(ChunkStreams)
    BY <1>11, <2>1 DEF Sched, TypeOK
  <2>3. accepted' \in [ChunkStreams -> Seq(Message)]
    BY <1>11, <2>1 DEF Sched, TypeOK
  <2> QED
    BY <1>11, <2>2, <2>3 DEF Sched, Return, TypeOK, UserPC
<1> QED
  BY <1>1, <1>2, <1>3, <1>4, <1>5, <1>6, <1>7, <1>8, <1>9, <1>10, <1>11
  DEF UserNext

\* Every step of the scheduler keeps the types.
LEMMA SchedType ==
    ASSUME TypeOK, SchedNext
    PROVE  TypeOK'
<1> USE NamesAssumption DEF userVars, schedVars, closeVars, chanVars, dataVars
<1>1. CASE Take
  <2>1. Head(queue) \in ChunkStreams /\ Tail(queue) \in Seq(ChunkStreams)
    BY <1>1 DEF Take, TypeOK
  <2> QED
    BY <1>1, <2>1 DEF Take, TypeOK, SchedPC
<1>2. CASE WriteChunk
  <2>1. sw \in ChunkStreams
    BY <1>2 DEF WriteChunk, TypeOK
  <2>2. buf[sw] \in Seq(Piece) /\ messageLength[sw] \in Nat
    BY <2>1 DEF TypeOK
  <2>3. Rest(sw) \in Seq(Piece)
    BY <2>2 DEF Rest
  <2>4. NextBody(sw) \in Seq(Piece)
    <3>1. CASE buf[sw] = <<>>
      BY <2>2, <3>1 DEF NextBody
    <3>2. CASE buf[sw] # <<>>
      <4>1. Len(buf[sw]) \in Nat /\ Len(buf[sw]) >= 1
        BY <2>2, <3>2
      <4> QED
        BY <2>2, <3>2, <4>1 DEF NextBody
    <3> QED
      BY <3>1, <3>2
  <2>5. [len |-> messageLength[sw], body |-> NextBody(sw)] \in Chunk
    BY <2>2, <2>4 DEF Chunk
  <2>6. wire' \in [ChunkStreams -> Seq(Chunk)]
    BY <1>2, <2>1, <2>5 DEF WriteChunk, TypeOK
  <2>7. buf' \in [ChunkStreams -> Seq(Piece)]
    BY <1>2, <2>1, <2>3 DEF WriteChunk, TypeOK
  <2> QED
    BY <1>2, <2>1, <2>6, <2>7 DEF WriteChunk, TypeOK, SchedPC
<1>3. CASE WriteFail
  BY <1>3 DEF WriteFail, TypeOK, SchedPC
<1>4. CASE Requeue
  <2>1. queue' \in Seq(ChunkStreams)
    BY <1>4 DEF Requeue, TypeOK
  <2> QED
    BY <1>4, <2>1 DEF Requeue, TypeOK, SchedPC
<1>5. CASE RunStops
  BY <1>5 DEF RunStops, TypeOK, SchedPC
<1>6. CASE ForceClose
  <2>1. closeCh' \in [ChunkStreams -> BOOLEAN]
    BY <1>6 DEF ForceClose
  <2> QED
    BY <1>6, <2>1 DEF ForceClose, TypeOK, SchedPC
<1> QED
  BY <1>1, <1>2, <1>3, <1>4, <1>5, <1>6 DEF SchedNext

\* Every step of Conn.Close keeps the types.
LEMMA CloseType ==
    ASSUME TypeOK, CloseNextStep
    PROVE  TypeOK'
<1> USE NamesAssumption
    DEF userVars, schedVars, closeVars, chanVars, dataVars, CloseUnchanged,
        ClosePC
<1>1. CASE CloseCall
  BY <1>1 DEF CloseCall, TypeOK
<1>2. CASE CloseLocksMu
  BY <1>2 DEF CloseLocksMu, TypeOK
<1>3. CASE CloseExpires
  BY <1>3 DEF CloseExpires, TypeOK
<1>4. CASE CloseNext
  BY <1>4 DEF CloseNext, TypeOK
<1>5. CASE CloseLocksWriter
  BY <1>5 DEF CloseLocksWriter, TypeOK
<1>6. CASE CloseWaits
  BY <1>6 DEF CloseWaits, TypeOK
<1>7. CASE CloseWaited
  BY <1>7 DEF CloseWaited, TypeOK
<1>8. CASE CloseStops
  BY <1>8 DEF CloseStops, TypeOK
<1>9. CASE CloseTransport
  BY <1>9 DEF CloseTransport, TypeOK
<1> QED
  BY <1>1, <1>2, <1>3, <1>4, <1>5, <1>6, <1>7, <1>8, <1>9 DEF CloseNextStep

\* Every step keeps the types.
LEMMA NextType == TypeOK /\ [Next]_vars => TypeOK'
<1> SUFFICES ASSUME TypeOK, [Next]_vars PROVE TypeOK'
  OBVIOUS
<1>1. CASE Next
  BY <1>1, UserType, SchedType, CloseType DEF Next
<1>2. CASE UNCHANGED vars
  BY <1>2 DEF vars, userVars, schedVars, closeVars, chanVars, dataVars, TypeOK
<1> QED
  BY <1>1, <1>2

\* Every variable keeps its type, and each goroutine's locals are set exactly
\* where the code has them set.
THEOREM TypeCorrect == Spec => []TypeOK
BY InitType, NextType, PTL DEF Spec

-----------------------------------------------------------------------------
(* One holder of each writer *)

\* What a send to the channel does to its entries.
LEMMA AppendIndices ==
    ASSUME NEW S, NEW s \in Seq(S), NEW x \in S
    PROVE  /\ Append(s, x) \in Seq(S)
           /\ Len(Append(s, x)) = Len(s) + 1
           /\ DOMAIN Append(s, x) = DOMAIN s \cup {Len(s) + 1}
           /\ Len(s) + 1 \notin DOMAIN s
           /\ \A i \in DOMAIN s : Append(s, x)[i] = s[i]
           /\ Append(s, x)[Len(s) + 1] = x
OBVIOUS

\* What a receive from the channel does to its entries.
LEMMA TailIndices ==
    ASSUME NEW S, NEW s \in Seq(S), s # <<>>
    PROVE  /\ Head(s) = s[1] /\ 1 \in DOMAIN s
           /\ \A i \in DOMAIN Tail(s) :
                /\ i + 1 \in DOMAIN s /\ i + 1 # 1
                /\ Tail(s)[i] = s[i + 1]
           /\ \A i, j \in DOMAIN Tail(s) : i + 1 = j + 1 => i = j
OBVIOUS

\* At first nobody holds a writer.
LEMMA InitHolder == Init => OneHolder
BY DEF Init, OneHolder, Owns, Queued, InHand

\* A step that moves nothing but a program counter and takes nothing up.
LEMMA NoNewHolder ==
    ASSUME OneHolder, UNCHANGED <<doneCh, closeCh, queue, drained, spc, sw>>,
           \A v \in Users, w \in ChunkStreams : Owns(v, w)' => Owns(v, w)
    PROVE  OneHolder'
BY DEF OneHolder, Queued, InHand

\* A caller takes a writer only from Wait and gives it to the scheduler in Sched.
LEMMA UserHolder ==
    ASSUME TypeOK, OneHolder, WritersKnown, NEW u \in Users, UserNext(u)
    PROVE  OneHolder'
<1> USE NamesAssumption DEF userVars, schedVars, closeVars, chanVars, dataVars
<1>1. CASE Call(u)
  BY <1>1 DEF Call, TypeOK, OneHolder, Owns, Queued, InHand
<1>2. CASE Prepare(u)
  <2>1. UNCHANGED <<doneCh, closeCh, queue, drained, spc, sw>>
    BY <1>2 DEF Prepare
  <2>2. \A v \in Users, w \in ChunkStreams : Owns(v, w)' => Owns(v, w)
    <3>1. CASE GoTo(u, "lock")
      BY <3>1 DEF GoTo, TypeOK, Owns
    <3>2. CASE Return(u)
      BY <3>2 DEF Return, TypeOK, Owns
    <3> QED
      BY <1>2, <3>1, <3>2 DEF Prepare
  <2> QED
    BY <2>1, <2>2 DEF OneHolder, Queued, InHand
<1>3. CASE LockWriter(u)
  BY <1>3 DEF LockWriter, GoTo, TypeOK, OneHolder, Owns, Queued, InHand
<1>4. CASE WaitDone(u)
  <2>1. UNCHANGED <<closeCh, queue, drained, spc, sw>> /\ ucs[u] \in ChunkStreams
    BY <1>4 DEF WaitDone, TypeOK
  <2>2. CASE lastErr[ucs[u]] /\ Return(u) /\ UNCHANGED doneCh
    <3>1. \A v \in Users, w \in ChunkStreams : Owns(v, w)' => Owns(v, w)
      BY <2>2 DEF Return, TypeOK, Owns
    <3> QED
      BY <2>1, <2>2, <3>1 DEF OneHolder, Queued, InHand
  <2>3. CASE /\ ~lastErr[ucs[u]] /\ GoTo(u, "reset")
             /\ doneCh' = [doneCh EXCEPT ![ucs[u]] = FALSE]
    <3>1. \A v \in Users, w \in ChunkStreams :
            Owns(v, w)' => Owns(v, w) \/ (v = u /\ w = ucs[u])
      BY <2>3 DEF GoTo, TypeOK, Owns
    <3>2. doneCh[ucs[u]] /\ ~doneCh'[ucs[u]]
      BY <1>4, <2>1, <2>3 DEF WaitDone, TypeOK
    <3>3. \A w \in ChunkStreams : w # ucs[u] => doneCh'[w] = doneCh[w]
      BY <2>1, <2>3 DEF TypeOK
    <3> QED
      BY <2>1, <3>1, <3>2, <3>3 DEF OneHolder, Queued, InHand
  <2> QED
    BY <1>4, <2>2, <2>3 DEF WaitDone
<1>5. CASE WaitClosed(u)
  <2>1. /\ UNCHANGED <<doneCh, closeCh, queue, drained, spc, sw>>
        /\ closeCh[ucs[u]]
    BY <1>5 DEF WaitClosed
  <2>2. \A v \in Users, w \in ChunkStreams :
          Owns(v, w)' => Owns(v, w) \/ w = ucs[u]
    <3>1. CASE GoTo(u, "reset")
      BY <3>1 DEF GoTo, TypeOK, Owns
    <3>2. CASE Return(u)
      BY <3>2 DEF Return, TypeOK, Owns
    <3> QED
      BY <1>5, <3>1, <3>2 DEF WaitClosed
  <2> QED
    BY <2>1, <2>2 DEF OneHolder, Queued, InHand
<1>6. CASE WaitExpired(u)
  <2>1. UNCHANGED <<doneCh, closeCh, queue, drained, spc, sw>> /\ Return(u)
    BY <1>6 DEF WaitExpired
  <2>2. \A v \in Users, w \in ChunkStreams : Owns(v, w)' => Owns(v, w)
    BY <2>1 DEF Return, TypeOK, Owns
  <2> QED
    BY <2>1, <2>2, NoNewHolder
<1>7. CASE ResetEncoder(u)
  <2>1. /\ UNCHANGED <<doneCh, closeCh, queue, drained, spc, sw>>
        /\ upc[u] = "reset" /\ GoTo(u, "encode")
    BY <1>7 DEF ResetEncoder
  <2>2. \A v \in Users, w \in ChunkStreams : Owns(v, w)' => Owns(v, w)
    BY <2>1 DEF GoTo, TypeOK, Owns
  <2> QED
    BY <2>1, <2>2, NoNewHolder
<1>8. CASE Encode(u)
  <2>1. /\ UNCHANGED <<doneCh, closeCh, queue, drained, spc, sw>>
        /\ upc[u] = "encode" /\ GoTo(u, "header")
    BY <1>8 DEF Encode
  <2>2. \A v \in Users, w \in ChunkStreams : Owns(v, w)' => Owns(v, w)
    BY <2>1 DEF GoTo, TypeOK, Owns
  <2> QED
    BY <2>1, <2>2, NoNewHolder
<1>9. CASE EncodeFail(u)
  <2>1. UNCHANGED <<doneCh, closeCh, queue, drained, spc, sw>> /\ Return(u)
    BY <1>9 DEF EncodeFail
  <2>2. \A v \in Users, w \in ChunkStreams : Owns(v, w)' => Owns(v, w)
    BY <2>1 DEF Return, TypeOK, Owns
  <2> QED
    BY <2>1, <2>2, NoNewHolder
<1>10. CASE SetHeader(u)
  <2>1. /\ UNCHANGED <<doneCh, closeCh, queue, drained, spc, sw>>
        /\ upc[u] = "header" /\ GoTo(u, "sched")
    BY <1>10 DEF SetHeader
  <2>2. \A v \in Users, w \in ChunkStreams : Owns(v, w)' => Owns(v, w)
    BY <2>1 DEF GoTo, TypeOK, Owns
  <2> QED
    BY <2>1, <2>2, NoNewHolder
<1>11. CASE Sched(u)
  <2>1. ucs[u] \in ChunkStreams /\ queue \in Seq(ChunkStreams)
    BY <1>11 DEF Sched, TypeOK
  <2>2. /\ DOMAIN queue' = DOMAIN queue \cup {Len(queue) + 1}
        /\ Len(queue) + 1 \notin DOMAIN queue
        /\ \A i \in DOMAIN queue : queue'[i] = queue[i]
        /\ queue'[Len(queue) + 1] = ucs[u]
    BY <1>11, <2>1, AppendIndices DEF Sched
  <2>3. UNCHANGED <<doneCh, closeCh, drained>> /\ Owns(u, ucs[u])
    BY <1>11 DEF Sched, Owns
  <2>4. \A v \in Users, w \in ChunkStreams : Owns(v, w)' => Owns(v, w) /\ v # u
    BY <1>11 DEF Sched, Return, TypeOK, Owns
  <2>5. \A w \in ChunkStreams : Queued(w)' => Queued(w) \/ w = ucs[u]
    BY <2>2 DEF Queued
  <2>6. \A w \in ChunkStreams : InHand(w)' => InHand(w)
    BY <1>11 DEF Sched, InHand
  <2>7. \A v \in Users, w \in ChunkStreams : ~closeCh[w] /\ Owns(v, w)' => w # ucs[u]
    BY <2>1, <2>3, <2>4 DEF OneHolder
  <2>8. \A w \in ChunkStreams, i, j \in DOMAIN queue' :
          ~closeCh[w] /\ queue'[i] = w /\ queue'[j] = w => i = j
    BY <2>1, <2>2, <2>3 DEF OneHolder, Queued
  <2> QED
    BY <2>1, <2>3, <2>4, <2>5, <2>6, <2>7, <2>8 DEF OneHolder
<1> QED
  BY <1>1, <1>2, <1>3, <1>4, <1>5, <1>6, <1>7, <1>8, <1>9, <1>10, <1>11
  DEF UserNext

\* The scheduler gives a writer back to its channel or, by doneCh, to one caller.
LEMMA SchedHolder ==
    ASSUME TypeOK, OneHolder, WritersKnown, SchedNext
    PROVE  OneHolder'
<1> USE NamesAssumption DEF userVars, schedVars, closeVars, chanVars, dataVars
<1>1. CASE Take
  <2>1. queue \in Seq(ChunkStreams) /\ queue # <<>>
    BY <1>1 DEF Take, TypeOK
  <2>2. /\ sw' = queue[1] /\ 1 \in DOMAIN queue
        /\ \A i \in DOMAIN queue' :
             /\ i + 1 \in DOMAIN queue /\ i + 1 # 1
             /\ queue'[i] = queue[i + 1]
        /\ \A i, j \in DOMAIN queue' : i + 1 = j + 1 => i = j
    BY <1>1, <2>1, TailIndices DEF Take
  <2> QED
    BY <1>1, <2>2 DEF Take, TypeOK, OneHolder, Owns, Queued, InHand
<1>2. CASE WriteChunk
  <2>1. /\ UNCHANGED <<closeCh, queue, drained>> /\ spc = "write"
        /\ \A v \in Users, w \in ChunkStreams : Owns(v, w)' <=> Owns(v, w)
    BY <1>2 DEF WriteChunk, Owns
  <2>2. CASE /\ doneCh' = [doneCh EXCEPT ![sw] = TRUE]
             /\ spc' = "select" /\ sw' = None
    <3>1. /\ \A w \in ChunkStreams : doneCh'[w] => doneCh[w] \/ InHand(w)
          /\ \A w \in ChunkStreams : ~InHand(w)'
          /\ \A w \in ChunkStreams : Queued(w)' <=> Queued(w)
      BY <2>1, <2>2 DEF TypeOK, InHand, Queued
    <3> QED
      BY <2>1, <3>1 DEF OneHolder
  <2>3. CASE spc' = "requeue" /\ UNCHANGED <<doneCh, sw>>
    <3>1. /\ \A w \in ChunkStreams : InHand(w)' <=> InHand(w)
          /\ \A w \in ChunkStreams : Queued(w)' <=> Queued(w)
      BY <2>1, <2>3 DEF InHand, Queued
    <3> QED
      BY <2>1, <2>3, <3>1 DEF OneHolder
  <2> QED
    BY <1>2, <2>2, <2>3 DEF WriteChunk
<1>3. CASE WriteFail
  BY <1>3 DEF WriteFail, TypeOK, OneHolder, Owns, Queued, InHand
<1>4. CASE Requeue
  <2>1. sw \in ChunkStreams /\ queue \in Seq(ChunkStreams)
    BY <1>4 DEF Requeue, TypeOK
  <2>2. /\ DOMAIN queue' = DOMAIN queue \cup {Len(queue) + 1}
        /\ Len(queue) + 1 \notin DOMAIN queue
        /\ \A i \in DOMAIN queue : queue'[i] = queue[i]
        /\ queue'[Len(queue) + 1] = sw
    BY <1>4, <2>1, AppendIndices DEF Requeue
  <2>3. /\ \A w \in ChunkStreams : InHand(w) <=> w = sw
        /\ \A w \in ChunkStreams : ~InHand(w)'
        /\ \A w \in ChunkStreams : Queued(w)' <=> Queued(w) \/ w = sw
    BY <1>4, <2>1, <2>2 DEF Requeue, InHand, Queued
  <2>4. /\ UNCHANGED <<doneCh, closeCh, drained>>
        /\ \A u \in Users, w \in ChunkStreams : Owns(u, w)' <=> Owns(u, w)
    BY <1>4 DEF Requeue, Owns
  <2>5. ASSUME NEW w \in ChunkStreams, ~closeCh[w]
        PROVE  \A i, j \in DOMAIN queue' :
                 queue'[i] = w /\ queue'[j] = w => i = j
    BY <2>2, <2>3, <2>5 DEF OneHolder, Queued
  <2> QED
    BY <2>3, <2>4, <2>5 DEF OneHolder
<1>5. CASE RunStops
  BY <1>5 DEF RunStops, TypeOK, OneHolder, Owns, Queued, InHand
<1>6. CASE ForceClose
  BY <1>6
  DEF ForceClose, TypeOK, OneHolder, WritersKnown, Owns, Queued, InHand
<1> QED
  BY <1>1, <1>2, <1>3, <1>4, <1>5, <1>6 DEF SchedNext

\* Conn.Close takes no writer away from anybody.
LEMMA CloseHolder ==
    ASSUME TypeOK, OneHolder, CloseNextStep
    PROVE  OneHolder'
<1> USE NamesAssumption
    DEF userVars, schedVars, closeVars, chanVars, dataVars, CloseUnchanged
<1>1. CASE CloseWaits
  <2>1. /\ UNCHANGED <<closeCh, queue, spc, sw>>
        /\ \A v \in Users, w \in ChunkStreams : Owns(v, w)' <=> Owns(v, w)
        /\ \A w \in ChunkStreams : Queued(w)' <=> Queued(w)
        /\ \A w \in ChunkStreams : InHand(w)' <=> InHand(w)
    BY <1>1 DEF CloseWaits, Owns, Queued, InHand
  <2>2. CASE /\ doneCh[cw] /\ doneCh' = [doneCh EXCEPT ![cw] = FALSE]
             /\ drained' = drained \cup {cw}
    <3>1. /\ \A w \in ChunkStreams : doneCh'[w] => doneCh[w] /\ w # cw
          /\ \A w \in ChunkStreams : w \in drained' => w \in drained \/ doneCh[w]
      BY <2>2 DEF TypeOK
    <3>2. \A w \in ChunkStreams : doneCh'[w] => w \notin drained' \/ w \in drained
      BY <2>2, <3>1
    <3> QED
      BY <2>1, <3>1, <3>2 DEF OneHolder
  <2>3. CASE UNCHANGED <<doneCh, drained>>
    BY <2>1, <2>3 DEF OneHolder
  <2> QED
    BY <1>1, <2>2, <2>3 DEF CloseWaits
<1>2. ASSUME UNCHANGED <<doneCh, closeCh, queue, drained, spc, sw, upc, ucs>>
      PROVE  OneHolder'
  <2>1. /\ doneCh' = doneCh /\ closeCh' = closeCh /\ queue' = queue
        /\ drained' = drained
    BY <1>2
  <2>2. /\ \A u \in Users, w \in ChunkStreams : Owns(u, w)' = Owns(u, w)
        /\ \A w \in ChunkStreams : InHand(w)' = InHand(w)
    BY <1>2 DEF Owns, InHand
  <2> QED
    BY <2>1, <2>2 DEF OneHolder, Queued
<1>3. CASE CloseCall \/ CloseLocksMu \/ CloseExpires
  BY <1>2, <1>3 DEF CloseCall, CloseLocksMu, CloseExpires
<1>4. CASE CloseNext \/ CloseLocksWriter \/ CloseWaited
  BY <1>2, <1>4 DEF CloseNext, CloseLocksWriter, CloseWaited
<1>5. CASE CloseStops \/ CloseTransport
  BY <1>2, <1>5 DEF CloseStops, CloseTransport
<1> QED
  BY <1>1, <1>3, <1>4, <1>5 DEF CloseNextStep

-----------------------------------------------------------------------------
(* Where writers come from *)

\* A caller adds writers within the limit and uses only those.
LEMMA UserKnown ==
    ASSUME TypeOK, WritersKnown, NEW u \in Users, UserNext(u)
    PROVE  WritersKnown'
<1> USE NamesAssumption DEF userVars, schedVars, closeVars, chanVars, dataVars
<1>1. ASSUME UNCHANGED <<writers, queue, sw, spc, closeCh>>,
             \A v \in Users : upc'[v] \notin {"idle", "prepare"} =>
                                /\ upc[v] \notin {"idle", "prepare"}
                                /\ ucs'[v] = ucs[v]
      PROVE  WritersKnown'
  BY <1>1 DEF WritersKnown
<1>2. CASE Call(u)
  BY <1>1, <1>2 DEF Call, TypeOK
<1>3. CASE Prepare(u)
  <2>1. ucs[u] \in ChunkStreams /\ IsFiniteSet(writers)
    BY <1>3, StreamsAssumption, FS_Subset DEF Prepare, TypeOK
  <2>2. CASE /\ ucs[u] \in writers \/ Cardinality(writers) < MaxChunkStreams
             /\ writers' = writers \cup {ucs[u]}
             /\ GoTo(u, "lock")
    <3>1. /\ Cardinality(writers) \in Nat
          /\ ucs[u] \in writers => writers' = writers
          /\ ucs[u] \notin writers =>
               Cardinality(writers') = Cardinality(writers) + 1
      <4>1. Cardinality(writers) \in Nat
        BY <2>1, FS_CardinalityType
      <4>2. ucs[u] \in writers => writers \cup {ucs[u]} = writers
        OBVIOUS
      <4>3. ucs[u] \notin writers =>
              Cardinality(writers \cup {ucs[u]}) = Cardinality(writers) + 1
        BY <2>1, FS_AddElement
      <4> QED
        BY <2>2, <4>1, <4>2, <4>3
    <3>2. Cardinality(writers') <= MaxChunkStreams
      BY <2>2, <3>1, BoundsAssumption DEF WritersKnown
    <3>3. \A v \in Users : upc'[v] \notin {"idle", "prepare"} =>
                             ucs'[v] \in writers'
      BY <1>3, <2>2 DEF Prepare, GoTo, TypeOK, WritersKnown
    <3> QED
      BY <1>3, <2>2, <3>2, <3>3 DEF Prepare, WritersKnown
  <2>3. CASE Return(u) /\ UNCHANGED writers
    BY <1>1, <1>3, <2>3 DEF Prepare, Return, TypeOK
  <2> QED
    BY <1>3, <2>2, <2>3 DEF Prepare
<1>4. CASE LockWriter(u)
  BY <1>1, <1>4 DEF LockWriter, GoTo, TypeOK
<1>5. CASE WaitDone(u)
  <2>1. CASE Return(u)
    BY <1>1, <1>5, <2>1 DEF WaitDone, Return, TypeOK
  <2>2. CASE GoTo(u, "reset")
    BY <1>1, <1>5, <2>2 DEF WaitDone, GoTo, TypeOK
  <2> QED
    BY <1>5, <2>1, <2>2 DEF WaitDone
<1>6. CASE WaitClosed(u)
  <2>1. CASE Return(u)
    BY <1>1, <1>6, <2>1 DEF WaitClosed, Return, TypeOK
  <2>2. CASE GoTo(u, "reset")
    BY <1>1, <1>6, <2>2 DEF WaitClosed, GoTo, TypeOK
  <2> QED
    BY <1>6, <2>1, <2>2 DEF WaitClosed
<1>7. CASE WaitExpired(u)
  BY <1>1, <1>7 DEF WaitExpired, Return, TypeOK
<1>8. CASE ResetEncoder(u)
  BY <1>1, <1>8 DEF ResetEncoder, GoTo, TypeOK
<1>9. CASE Encode(u)
  BY <1>1, <1>9 DEF Encode, GoTo, TypeOK
<1>10. CASE EncodeFail(u)
  BY <1>1, <1>10 DEF EncodeFail, Return, TypeOK
<1>11. CASE SetHeader(u)
  BY <1>1, <1>11 DEF SetHeader, GoTo, TypeOK
<1>12. CASE Sched(u)
  <2>1. ucs[u] \in ChunkStreams /\ queue \in Seq(ChunkStreams)
    BY <1>12 DEF Sched, TypeOK
  <2>2. ucs[u] \in writers
    BY <1>12 DEF Sched, WritersKnown
  <2>3. \A i \in DOMAIN queue' : queue'[i] \in writers
    BY <1>12, <2>1, <2>2, AppendIndices DEF Sched, WritersKnown
  <2> QED
    BY <1>12, <2>3 DEF Sched, Return, TypeOK, WritersKnown
<1> QED
  BY <1>2, <1>3, <1>4, <1>5, <1>6, <1>7, <1>8, <1>9, <1>10, <1>11, <1>12
  DEF UserNext

\* The scheduler only handles writers that are in cs.writers.
LEMMA SchedKnown ==
    ASSUME TypeOK, WritersKnown, SchedNext
    PROVE  WritersKnown'
<1> USE NamesAssumption DEF userVars, schedVars, closeVars, chanVars, dataVars
<1>1. CASE Take
  <2>1. queue \in Seq(ChunkStreams) /\ queue # <<>>
    BY <1>1 DEF Take, TypeOK
  <2>2. sw' \in writers /\ \A i \in DOMAIN queue' : queue'[i] \in writers
    BY <1>1, <2>1, TailIndices DEF Take, WritersKnown
  <2> QED
    BY <1>1, <2>2 DEF Take, WritersKnown
<1>2. CASE WriteChunk
  BY <1>2 DEF WriteChunk, WritersKnown
<1>3. CASE WriteFail
  BY <1>3 DEF WriteFail, WritersKnown
<1>4. CASE Requeue
  <2>1. sw \in ChunkStreams /\ sw \in writers /\ queue \in Seq(ChunkStreams)
    BY <1>4 DEF Requeue, TypeOK, WritersKnown
  <2>2. \A i \in DOMAIN queue' : queue'[i] \in writers
    BY <1>4, <2>1, AppendIndices DEF Requeue, WritersKnown
  <2> QED
    BY <1>4, <2>2 DEF Requeue, WritersKnown
<1>5. CASE RunStops
  BY <1>5 DEF RunStops, WritersKnown
<1>6. CASE ForceClose
  BY <1>6 DEF ForceClose, WritersKnown
<1> QED
  BY <1>1, <1>2, <1>3, <1>4, <1>5, <1>6 DEF SchedNext

\* Conn.Close adds no writers.
LEMMA CloseKnown ==
    ASSUME WritersKnown, CloseNextStep
    PROVE  WritersKnown'
<1> USE DEF userVars, schedVars, CloseUnchanged
<1>1. UNCHANGED <<writers, queue, sw, spc, closeCh, upc, ucs>>
  <2>1. CASE CloseCall \/ CloseLocksMu \/ CloseExpires
    BY <2>1 DEF CloseCall, CloseLocksMu, CloseExpires
  <2>2. CASE CloseNext \/ CloseLocksWriter \/ CloseWaits
    BY <2>2 DEF CloseNext, CloseLocksWriter, CloseWaits
  <2>3. CASE CloseWaited \/ CloseStops \/ CloseTransport
    BY <2>3 DEF CloseWaited, CloseStops, CloseTransport
  <2> QED
    BY <2>1, <2>2, <2>3 DEF CloseNextStep
<1> QED
  BY <1>1 DEF WritersKnown

-----------------------------------------------------------------------------
(* The inductive invariant *)

IInv == TypeOK /\ OneHolder /\ WritersKnown

\* The inductive invariant holds at first.
LEMMA InitIInv == Init => IInv
<1>1. Init => WritersKnown
  BY FS_EmptySet, BoundsAssumption DEF Init, WritersKnown
<1> QED
  BY <1>1, InitType, InitHolder DEF IInv

\* The inductive invariant is kept by every step.
LEMMA NextIInv == IInv /\ [Next]_vars => IInv'
<1> SUFFICES ASSUME IInv, [Next]_vars PROVE IInv'
  OBVIOUS
<1>1. TypeOK'
  BY NextType DEF IInv
<1>2. CASE Next
  <2>1. CASE \E u \in Users : UserNext(u)
    BY <1>1, <2>1, UserHolder, UserKnown DEF IInv
  <2>2. CASE SchedNext
    BY <1>1, <2>2, SchedHolder, SchedKnown DEF IInv
  <2>3. CASE CloseNextStep
    BY <1>1, <2>3, CloseHolder, CloseKnown DEF IInv
  <2> QED
    BY <1>2, <2>1, <2>2, <2>3 DEF Next
<1>3. CASE UNCHANGED vars
  <2>1. UNCHANGED <<doneCh, closeCh, queue, drained, spc, sw, upc, ucs, writers>>
    BY <1>3 DEF vars, userVars, schedVars, closeVars, chanVars
  <2>2. OneHolder'
    BY <2>1 DEF IInv, OneHolder, Owns, Queued, InHand
  <2>3. WritersKnown'
    BY <2>1 DEF IInv, WritersKnown
  <2> QED
    BY <1>1, <2>2, <2>3 DEF IInv
<1> QED
  BY <1>2, <1>3

\* A writer is in one pair of hands at a time until its closeCh is closed, so
\* that Run never closes a doneCh twice and no two messages share a writer.
THEOREM HolderUnique == Spec => []OneHolder
<1>1. IInv => OneHolder
  BY DEF IInv
<1> QED
  BY InitIInv, NextIInv, <1>1, PTL DEF Spec

\* The configured number of chunk streams bounds the writers there are, and
\* every writer in use is one of them.
THEOREM WritersBounded == Spec => []WritersKnown
<1>1. IInv => WritersKnown
  BY DEF IInv
<1> QED
  BY InitIInv, NextIInv, <1>1, PTL DEF Spec

-----------------------------------------------------------------------------
(* The channel never fills *)

\* A sequence without repetition is no longer than the set it takes from.
LEMMA DistinctLength ==
    ASSUME NEW T, NEW s \in Seq(T), NEW S, IsFiniteSet(S),
           \A i \in DOMAIN s : s[i] \in S,
           \A i, j \in DOMAIN s : s[i] = s[j] => i = j
    PROVE  Len(s) <= Cardinality(S)
<1>1. Len(s) \in Nat /\ DOMAIN s = 1..Len(s)
  OBVIOUS
<1>2. s \in Injection(1..Len(s), S)
  BY <1>1 DEF Injection, IsInjective
<1>3. Cardinality(1..Len(s)) <= Cardinality(S)
  BY <1>2, FS_Injection
<1>4. Cardinality(1..Len(s)) = IF 1 > Len(s) THEN 0 ELSE Len(s) - 1 + 1
  BY <1>1, FS_Interval
<1> QED
  BY <1>1, <1>3, <1>4

\* A writer outside the channel leaves a place for it.
LEMMA RoomForOne ==
    ASSUME IInv, MaxChunkStreams <= QueueSize,
           \A w \in ChunkStreams : ~closeCh[w],
           NEW x \in writers, ~Queued(x)
    PROVE  Len(queue) < QueueSize
<1>1. IsFiniteSet(writers) /\ queue \in Seq(ChunkStreams)
  BY StreamsAssumption, FS_Subset DEF IInv, TypeOK
<1>2. /\ IsFiniteSet(writers \ {x})
      /\ Cardinality(writers \ {x}) = Cardinality(writers) - 1
      /\ Cardinality(writers) \in Nat
  BY <1>1, FS_RemoveElement, FS_CardinalityType
<1>3. \A i \in DOMAIN queue : queue[i] \in writers \ {x}
  BY DEF IInv, WritersKnown, Queued
<1>4. \A i, j \in DOMAIN queue : queue[i] = queue[j] => i = j
  <2> SUFFICES ASSUME NEW i \in DOMAIN queue, NEW j \in DOMAIN queue,
                      queue[i] = queue[j]
               PROVE  i = j
    OBVIOUS
  <2>1. queue[i] \in ChunkStreams
    BY <1>1
  <2> QED
    BY <2>1 DEF IInv, OneHolder
<1>5. Len(queue) <= Cardinality(writers \ {x})
  BY <1>1, <1>2, <1>3, <1>4, DistinctLength
<1>6. Len(queue) \in Nat /\ Cardinality(writers) <= MaxChunkStreams
  BY <1>1 DEF IInv, WritersKnown
<1> QED
  BY <1>2, <1>5, <1>6, BoundsAssumption

\* With at most as many chunk streams as the channel has places, the scheduler
\* never blocks on its own channel, and Sched never blocks a user while Run is
\* alive.
THEOREM ChannelNeverFull ==
    ASSUME MaxChunkStreams <= QueueSize
    PROVE  Spec => []NoSelfBlock
<1>1. IInv => NoSelfBlock
  <2> SUFFICES ASSUME IInv, \A w \in ChunkStreams : ~closeCh[w]
               PROVE  /\ spc = "requeue" => Len(queue) < QueueSize
                      /\ \A u \in Users :
                           upc[u] = "sched" => Len(queue) < QueueSize
    BY DEF NoSelfBlock
  <2>1. ASSUME spc = "requeue" PROVE Len(queue) < QueueSize
    <3>1. sw \in ChunkStreams /\ sw \in writers
      BY <2>1 DEF IInv, TypeOK, WritersKnown
    <3>2. ~Queued(sw)
      BY <2>1, <3>1 DEF IInv, OneHolder, InHand
    <3> QED
      BY <3>1, <3>2, RoomForOne
  <2>2. ASSUME NEW u \in Users, upc[u] = "sched" PROVE Len(queue) < QueueSize
    <3>1. ucs[u] \in ChunkStreams /\ ucs[u] \in writers
      BY <2>2 DEF IInv, TypeOK, WritersKnown
    <3>2. ~Queued(ucs[u])
      BY <2>2, <3>1 DEF IInv, OneHolder, Owns
    <3> QED
      BY <3>1, <3>2, RoomForOne
  <2> QED
    BY <2>1, <2>2
<1> QED
  BY InitIInv, NextIInv, <1>1, PTL DEF Spec

-----------------------------------------------------------------------------
(* A busy writer is running *)

\* A caller that makes a writer busy hands it to the scheduler.
LEMMA UserBusy ==
    ASSUME ~EncodeErrors, TypeOK, BusyMeansRunning, NEW u \in Users, UserNext(u)
    PROVE  BusyMeansRunning'
<1> USE NamesAssumption DEF userVars, schedVars, closeVars, chanVars, dataVars
<1>1. ASSUME UNCHANGED <<closeCh, queue, drained, sw, spc>>,
             \A w \in ChunkStreams : ~doneCh'[w] /\ ~closeCh[w] =>
                                       ~doneCh[w] \/ Owns(u, w)',
             \A v \in Users, w \in ChunkStreams :
                Owns(v, w) => Owns(v, w)' \/ closeCh[w]
      PROVE  BusyMeansRunning'
  BY <1>1 DEF BusyMeansRunning, Queued, InHand
<1>2. CASE Call(u)
  BY <1>1, <1>2 DEF Call, TypeOK, Owns
<1>3. CASE Prepare(u)
  <2>1. CASE GoTo(u, "lock")
    BY <1>1, <1>3, <2>1 DEF Prepare, GoTo, TypeOK, Owns
  <2>2. CASE Return(u)
    BY <1>1, <1>3, <2>2 DEF Prepare, Return, TypeOK, Owns
  <2> QED
    BY <1>3, <2>1, <2>2 DEF Prepare
<1>4. CASE LockWriter(u)
  BY <1>1, <1>4 DEF LockWriter, GoTo, TypeOK, Owns
<1>5. CASE WaitDone(u)
  <2>1. CASE Return(u) /\ UNCHANGED doneCh
    BY <1>1, <1>5, <2>1 DEF WaitDone, Return, TypeOK, Owns
  <2>2. CASE GoTo(u, "reset") /\ doneCh' = [doneCh EXCEPT ![ucs[u]] = FALSE]
    <3>1. \A w \in ChunkStreams : w # ucs[u] => doneCh'[w] = doneCh[w]
      BY <2>2 DEF TypeOK
    <3>2. \A w \in ChunkStreams : w = ucs[u] => Owns(u, w)'
      BY <2>2 DEF GoTo, TypeOK, Owns
    <3>3. \A v \in Users, w \in ChunkStreams : Owns(v, w) => Owns(v, w)'
      BY <1>5, <2>2 DEF WaitDone, GoTo, TypeOK, Owns
    <3>4. \A w \in ChunkStreams :
            ~doneCh'[w] /\ ~closeCh[w] => ~doneCh[w] \/ Owns(u, w)'
      <4> SUFFICES ASSUME NEW w \in ChunkStreams, ~doneCh'[w]
                   PROVE  ~doneCh[w] \/ Owns(u, w)'
        OBVIOUS
      <4>1. CASE w = ucs[u]
        BY <3>2, <4>1
      <4>2. CASE w # ucs[u]
        BY <3>1, <4>2
      <4> QED
        BY <4>1, <4>2
    <3>5. UNCHANGED <<closeCh, queue, drained, sw, spc>>
      BY <1>5 DEF WaitDone
    <3> QED
      BY <1>1, <3>3, <3>4, <3>5
  <2> QED
    BY <1>5, <2>1, <2>2 DEF WaitDone
<1>6. CASE WaitClosed(u)
  <2>1. CASE Return(u)
    BY <1>1, <1>6, <2>1 DEF WaitClosed, Return, TypeOK, Owns
  <2>2. CASE GoTo(u, "reset")
    BY <1>1, <1>6, <2>2 DEF WaitClosed, GoTo, TypeOK, Owns
  <2> QED
    BY <1>6, <2>1, <2>2 DEF WaitClosed
<1>7. CASE WaitExpired(u)
  BY <1>1, <1>7 DEF WaitExpired, Return, TypeOK, Owns
<1>8. CASE ResetEncoder(u)
  BY <1>1, <1>8 DEF ResetEncoder, GoTo, TypeOK, Owns
<1>9. CASE Encode(u)
  BY <1>1, <1>9 DEF Encode, GoTo, TypeOK, Owns
<1>10. CASE EncodeFail(u)
  BY <1>10 DEF EncodeFail
<1>11. CASE SetHeader(u)
  BY <1>1, <1>11 DEF SetHeader, GoTo, TypeOK, Owns
<1>12. CASE Sched(u)
  <2>1. ucs[u] \in ChunkStreams /\ queue \in Seq(ChunkStreams)
    BY <1>12 DEF Sched, TypeOK
  <2>2. \A w \in ChunkStreams : Queued(w) \/ w = ucs[u] => Queued(w)'
    BY <1>12, <2>1, AppendIndices DEF Sched, Queued
  <2>3. \A v \in Users, w \in ChunkStreams :
          Owns(v, w) => Owns(v, w)' \/ w = ucs[u]
    BY <1>12 DEF Sched, Return, TypeOK, Owns
  <2> QED
    BY <1>12, <2>2, <2>3 DEF Sched, BusyMeansRunning, InHand
<1> QED
  BY <1>2, <1>3, <1>4, <1>5, <1>6, <1>7, <1>8, <1>9, <1>10, <1>11, <1>12
  DEF UserNext

\* The scheduler does not forget a writer that is not finished.
LEMMA SchedBusy ==
    ASSUME TypeOK, WritersKnown, BusyMeansRunning, SchedNext
    PROVE  BusyMeansRunning'
<1> USE NamesAssumption DEF userVars, schedVars, closeVars, chanVars, dataVars
<1>1. ASSUME UNCHANGED <<upc, ucs, drained>>
      PROVE  \A u \in Users, w \in ChunkStreams : Owns(u, w)' <=> Owns(u, w)
  BY <1>1 DEF Owns
<1>2. CASE Take
  <2>1. queue \in Seq(ChunkStreams) /\ queue # <<>>
    BY <1>2 DEF Take, TypeOK
  <2>2. \A w \in ChunkStreams : Queued(w) => Queued(w)' \/ InHand(w)'
    <3> SUFFICES ASSUME NEW w \in ChunkStreams, NEW i \in DOMAIN queue,
                        queue[i] = w
                 PROVE  Queued(w)' \/ InHand(w)'
      BY DEF Queued
    <3>1. CASE i = 1
      BY <1>2, <2>1, <3>1, TailIndices DEF Take, InHand
    <3>2. CASE i # 1
      <4>1. i - 1 \in DOMAIN Tail(queue) /\ Tail(queue)[i - 1] = w
        BY <2>1, <3>2
      <4> QED
        BY <1>2, <4>1 DEF Take, Queued
    <3> QED
      BY <3>1, <3>2
  <2>3. \A w \in ChunkStreams : ~InHand(w)
    BY <1>2 DEF Take, InHand
  <2> QED
    BY <1>1, <1>2, <2>2, <2>3 DEF Take, BusyMeansRunning
<1>3. CASE WriteChunk
  <2>1. CASE doneCh' = [doneCh EXCEPT ![sw] = TRUE] /\ sw' = None
    <3>1. \A w \in ChunkStreams : ~doneCh'[w] => ~doneCh[w] /\ w # sw
      BY <2>1 DEF TypeOK
    <3> QED
      BY <1>1, <1>3, <3>1 DEF WriteChunk, BusyMeansRunning, Queued, InHand
  <2>2. CASE spc' = "requeue" /\ UNCHANGED <<doneCh, sw>>
    BY <1>1, <1>3, <2>2 DEF WriteChunk, BusyMeansRunning, Queued, InHand
  <2> QED
    BY <1>3, <2>1, <2>2 DEF WriteChunk
<1>4. CASE WriteFail
  <2>1. \A w \in ChunkStreams : ~doneCh'[w] => ~doneCh[w] /\ w # sw
    BY <1>4 DEF WriteFail, TypeOK
  <2> QED
    BY <1>1, <1>4, <2>1 DEF WriteFail, BusyMeansRunning, Queued, InHand
<1>5. CASE Requeue
  <2>1. sw \in ChunkStreams /\ queue \in Seq(ChunkStreams)
    BY <1>5 DEF Requeue, TypeOK
  <2>2. \A w \in ChunkStreams : Queued(w) \/ InHand(w) => Queued(w)'
    BY <1>5, <2>1, AppendIndices DEF Requeue, Queued, InHand
  <2> QED
    BY <1>1, <1>5, <2>2 DEF Requeue, BusyMeansRunning
<1>6. CASE RunStops
  BY <1>1, <1>6 DEF RunStops, BusyMeansRunning, Queued, InHand
<1>7. CASE ForceClose
  <2>1. \A w \in ChunkStreams : ~closeCh[w] /\ ~InHand(w)
    BY <1>7 DEF ForceClose, WritersKnown, InHand
  <2> QED
    BY <1>1, <1>7, <2>1 DEF ForceClose, BusyMeansRunning, Queued
<1> QED
  BY <1>2, <1>3, <1>4, <1>5, <1>6, <1>7 DEF SchedNext

\* Conn.Close neither makes writers busy nor loses one.
LEMMA CloseBusy ==
    ASSUME TypeOK, BusyMeansRunning, CloseNextStep
    PROVE  BusyMeansRunning'
<1> USE DEF userVars, schedVars, CloseUnchanged
<1>1. ASSUME UNCHANGED <<closeCh, queue, sw, spc, upc, ucs>>,
             \A w \in ChunkStreams :
               ~doneCh'[w] => ~doneCh[w] \/ w \in drained',
             drained \subseteq drained'
      PROVE  BusyMeansRunning'
  <2>1. \A u \in Users, w \in ChunkStreams : Owns(u, w)' <=> Owns(u, w)
    BY <1>1 DEF Owns
  <2> QED
    BY <1>1, <2>1 DEF BusyMeansRunning, Queued, InHand
<1>2. CASE CloseWaits
  <2>1. CASE /\ doneCh' = [doneCh EXCEPT ![cw] = FALSE]
             /\ drained' = drained \cup {cw}
    <3>1. \A w \in ChunkStreams : w # cw => doneCh'[w] = doneCh[w]
      BY <2>1 DEF TypeOK
    <3> QED
      BY <1>1, <1>2, <2>1, <3>1 DEF CloseWaits
  <2>2. CASE UNCHANGED <<doneCh, drained>>
    BY <1>1, <1>2, <2>2 DEF CloseWaits
  <2> QED
    BY <1>2, <2>1, <2>2 DEF CloseWaits
<1>3. CASE CloseCall \/ CloseLocksMu \/ CloseExpires
  BY <1>1, <1>3 DEF CloseCall, CloseLocksMu, CloseExpires
<1>4. CASE CloseNext \/ CloseLocksWriter \/ CloseWaited
  BY <1>1, <1>4 DEF CloseNext, CloseLocksWriter, CloseWaited
<1>5. CASE CloseStops \/ CloseTransport
  BY <1>1, <1>5 DEF CloseStops, CloseTransport
<1> QED
  BY <1>2, <1>3, <1>4, <1>5 DEF CloseNextStep

\* As long as every message can be encoded, no writer is lost: whoever waits
\* for a writer waits for somebody who has it.
THEOREM NoWriterLost ==
    ASSUME ~EncodeErrors
    PROVE  Spec => []BusyMeansRunning
<1>1. Init => BusyMeansRunning
  BY DEF Init, BusyMeansRunning
<1>2. IInv /\ BusyMeansRunning /\ [Next]_vars => BusyMeansRunning'
  <2> SUFFICES ASSUME IInv, BusyMeansRunning, [Next]_vars
               PROVE  BusyMeansRunning'
    OBVIOUS
  <2>1. CASE \E u \in Users : UserNext(u)
    BY <2>1, UserBusy DEF IInv
  <2>2. CASE SchedNext
    BY <2>2, SchedBusy DEF IInv
  <2>3. CASE CloseNextStep
    BY <2>3, CloseBusy DEF IInv
  <2>4. CASE UNCHANGED vars
    <3>1. UNCHANGED <<doneCh, closeCh, queue, drained, spc, sw, upc, ucs>>
      BY <2>4 DEF vars, userVars, schedVars, closeVars, chanVars
    <3> QED
      BY <3>1 DEF BusyMeansRunning, Owns, Queued, InHand
  <2> QED
    BY <2>1, <2>2, <2>3, <2>4 DEF Next
<1> QED
  BY InitIInv, NextIInv, <1>1, <1>2, PTL DEF Spec

-----------------------------------------------------------------------------
(* The mutex of a writer *)

\* A caller that leaves the select of Wait, to Write's end or to the encoder,
\* leaves no mutex behind.
LEMMA LeaveSelect ==
    ASSUME TypeOK, MutexHeldInSelect, NEW u \in Users, upc[u] = "select",
           aqM' = [aqM EXCEPT ![ucs[u]] = None],
           Return(u) \/ GoTo(u, "reset"), UNCHANGED <<cpc, cw>>
    PROVE  MutexHeldInSelect'
<1> USE NamesAssumption
<1>1. ucs[u] \in ChunkStreams /\ aqM[ucs[u]] = u
  BY DEF TypeOK, MutexHeldInSelect
<1>2. /\ aqM'[ucs[u]] = None
      /\ \A w \in ChunkStreams \ {ucs[u]} : aqM'[w] = aqM[w]
  BY <1>1 DEF TypeOK
<1>3. /\ upc'[u] # "select"
      /\ \A v \in Users \ {u} : upc'[v] = upc[v] /\ ucs'[v] = ucs[v]
  BY DEF Return, GoTo, TypeOK
<1>4. \A v \in Users, w \in ChunkStreams :
        aqM'[w] = v <=> ucs'[v] = w /\ upc'[v] = "select"
  <2> SUFFICES ASSUME NEW v \in Users, NEW w \in ChunkStreams
               PROVE  aqM'[w] = v <=> ucs'[v] = w /\ upc'[v] = "select"
    OBVIOUS
  <2>1. CASE v = u
    <3>1. w # ucs[u] => aqM[w] # u
      BY DEF MutexHeldInSelect
    <3> QED
      BY <1>2, <1>3, <2>1, <3>1
  <2>2. CASE v # u
    <3>1. ~(ucs[v] = ucs[u] /\ upc[v] = "select")
      BY <1>1, <2>2 DEF MutexHeldInSelect
    <3> QED
      BY <1>2, <1>3, <2>2, <3>1 DEF MutexHeldInSelect
  <2> QED
    BY <2>1, <2>2
<1>5. \A w \in ChunkStreams : aqM'[w] = Closer <=> cw' = w /\ cpc' = "select"
  <2>1. ~(cw = ucs[u] /\ cpc = "select")
    BY <1>1 DEF MutexHeldInSelect
  <2> QED
    BY <1>2, <2>1 DEF MutexHeldInSelect
<1> QED
  BY <1>4, <1>5 DEF MutexHeldInSelect

\* A caller of Write locks a mutex only to enter the select of Wait, and unlocks
\* it on each of its ways out.
LEMMA UserMutex ==
    ASSUME TypeOK, MutexHeldInSelect, NEW u \in Users, UserNext(u)
    PROVE  MutexHeldInSelect'
<1> USE NamesAssumption DEF userVars, schedVars, closeVars, chanVars, dataVars
<1>1. ASSUME UNCHANGED <<aqM, cpc, cw>>,
             \A v \in Users : (upc'[v] = "select" <=> upc[v] = "select")
                              /\ (upc[v] = "select" => ucs'[v] = ucs[v])
      PROVE  MutexHeldInSelect'
  BY <1>1 DEF MutexHeldInSelect
<1>2. CASE Call(u)
  BY <1>1, <1>2 DEF Call, TypeOK
<1>3. CASE Prepare(u)
  <2>1. CASE GoTo(u, "lock")
    BY <1>1, <1>3, <2>1 DEF Prepare, GoTo, TypeOK
  <2>2. CASE Return(u)
    BY <1>1, <1>3, <2>2 DEF Prepare, Return, TypeOK
  <2> QED
    BY <1>3, <2>1, <2>2 DEF Prepare
<1>4. CASE LockWriter(u)
  <2>1. ucs[u] \in ChunkStreams /\ aqM[ucs[u]] = None /\ upc[u] = "lock"
    BY <1>4 DEF LockWriter, TypeOK
  <2>2. /\ aqM'[ucs[u]] = u
        /\ \A w \in ChunkStreams \ {ucs[u]} : aqM'[w] = aqM[w]
    BY <1>4, <2>1 DEF LockWriter, TypeOK
  <2>3. /\ upc'[u] = "select" /\ ucs' = ucs
        /\ \A v \in Users \ {u} : upc'[v] = upc[v]
    BY <1>4 DEF LockWriter, GoTo, TypeOK
  <2>4. \A v \in Users : ~(ucs[v] = ucs[u] /\ upc[v] = "select")
    BY <2>1 DEF MutexHeldInSelect
  <2>5. ~(cw = ucs[u] /\ cpc = "select")
    BY <2>1 DEF MutexHeldInSelect
  <2>6. \A w \in ChunkStreams : aqM[w] # u
    BY <2>1 DEF MutexHeldInSelect
  <2>7. cpc' = cpc /\ cw' = cw
    BY <1>4 DEF LockWriter
  <2> QED
    BY <2>2, <2>3, <2>4, <2>5, <2>6, <2>7 DEF MutexHeldInSelect
<1>5. CASE WaitDone(u)
  <2>1. UNCHANGED <<cpc, cw>> /\ (Return(u) \/ GoTo(u, "reset"))
    BY <1>5 DEF WaitDone
  <2> QED
    BY <1>5, <2>1, LeaveSelect DEF WaitDone
<1>6. CASE WaitClosed(u)
  <2>1. UNCHANGED <<cpc, cw>> /\ (Return(u) \/ GoTo(u, "reset"))
    BY <1>6 DEF WaitClosed
  <2> QED
    BY <1>6, <2>1, LeaveSelect DEF WaitClosed
<1>7. CASE WaitExpired(u)
  <2>1. UNCHANGED <<cpc, cw>>
    BY <1>7 DEF WaitExpired
  <2> QED
    BY <1>7, <2>1, LeaveSelect DEF WaitExpired
<1>8. CASE ResetEncoder(u)
  BY <1>1, <1>8 DEF ResetEncoder, GoTo, TypeOK
<1>9. CASE Encode(u)
  BY <1>1, <1>9 DEF Encode, GoTo, TypeOK
<1>10. CASE EncodeFail(u)
  BY <1>1, <1>10 DEF EncodeFail, Return, TypeOK
<1>11. CASE SetHeader(u)
  BY <1>1, <1>11 DEF SetHeader, GoTo, TypeOK
<1>12. CASE Sched(u)
  BY <1>1, <1>12 DEF Sched, Return, TypeOK
<1> QED
  BY <1>2, <1>3, <1>4, <1>5, <1>6, <1>7, <1>8, <1>9, <1>10, <1>11, <1>12
  DEF UserNext

\* The scheduler neither locks nor unlocks a writer.
LEMMA SchedMutex ==
    ASSUME MutexHeldInSelect, SchedNext
    PROVE  MutexHeldInSelect'
<1>1. UNCHANGED <<aqM, upc, ucs, cpc, cw>>
  <2> USE DEF userVars, schedVars, closeVars, chanVars, dataVars
  <2>1. CASE Take \/ WriteChunk \/ WriteFail
    BY <2>1 DEF Take, WriteChunk, WriteFail
  <2>2. CASE Requeue \/ RunStops \/ ForceClose
    BY <2>2 DEF Requeue, RunStops, ForceClose
  <2> QED
    BY <2>1, <2>2 DEF SchedNext
<1> QED
  BY <1>1 DEF MutexHeldInSelect

\* Conn.Close holds the mutex of the writer it waits for, until its Wait returns.
LEMMA CloseMutex ==
    ASSUME TypeOK, MutexHeldInSelect, CloseNextStep
    PROVE  MutexHeldInSelect'
<1> USE NamesAssumption DEF userVars, schedVars, CloseUnchanged
<1>1. ASSUME UNCHANGED <<aqM, upc, ucs>>, cpc # "select", cpc' # "select"
      PROVE  MutexHeldInSelect'
  BY <1>1 DEF MutexHeldInSelect
<1>2. CASE CloseCall \/ CloseLocksMu \/ CloseNext
  BY <1>1, <1>2 DEF CloseCall, CloseLocksMu, CloseNext
<1>3. CASE CloseExpires
  BY <1>3 DEF CloseExpires, MutexHeldInSelect
<1>4. CASE CloseLocksWriter
  <2>1. cw \in ChunkStreams /\ aqM[cw] = None /\ cpc = "lock"
    BY <1>4 DEF CloseLocksWriter, TypeOK
  <2>2. /\ aqM'[cw] = Closer
        /\ \A w \in ChunkStreams \ {cw} : aqM'[w] = aqM[w]
    BY <1>4, <2>1 DEF CloseLocksWriter, TypeOK
  <2>3. /\ upc' = upc /\ ucs' = ucs /\ cpc' = "select" /\ cw' = cw
    BY <1>4 DEF CloseLocksWriter
  <2>4. \A v \in Users : ~(ucs[v] = cw /\ upc[v] = "select")
    BY <2>1 DEF MutexHeldInSelect
  <2> QED
    BY <2>1, <2>2, <2>3, <2>4 DEF MutexHeldInSelect
<1>5. CASE CloseWaits
  <2>1. cw \in ChunkStreams /\ aqM[cw] = Closer
    BY <1>5 DEF CloseWaits, TypeOK, MutexHeldInSelect
  <2>2. /\ aqM'[cw] = None
        /\ \A w \in ChunkStreams \ {cw} : aqM'[w] = aqM[w]
    BY <1>5, <2>1 DEF CloseWaits, TypeOK
  <2>3. /\ upc' = upc /\ ucs' = ucs /\ cpc' # "select"
    BY <1>5 DEF CloseWaits
  <2>4. \A v \in Users : ~(ucs[v] = cw /\ upc[v] = "select")
    BY <2>1 DEF MutexHeldInSelect
  <2> QED
    BY <2>1, <2>2, <2>3, <2>4 DEF MutexHeldInSelect
<1>6. CASE CloseWaited \/ CloseStops \/ CloseTransport
  BY <1>1, <1>6 DEF CloseWaited, CloseStops, CloseTransport
<1> QED
  BY <1>2, <1>3, <1>4, <1>5, <1>6 DEF CloseNextStep

\* The mutex of a writer is held by the goroutine in the select of Wait and by
\* no other, so that every return path of Wait unlocks it.
THEOREM MutexHeld == Spec => []MutexHeldInSelect
<1>1. Init => MutexHeldInSelect
  BY NamesAssumption DEF Init, MutexHeldInSelect
<1>2. TypeOK /\ MutexHeldInSelect /\ [Next]_vars => MutexHeldInSelect'
  <2> SUFFICES ASSUME TypeOK, MutexHeldInSelect, [Next]_vars
               PROVE  MutexHeldInSelect'
    OBVIOUS
  <2>1. CASE UNCHANGED vars
    BY <2>1 DEF vars, userVars, chanVars, closeVars, MutexHeldInSelect
  <2> QED
    BY <2>1, UserMutex, SchedMutex, CloseMutex DEF Next
<1> QED
  BY TypeCorrect, <1>1, <1>2, PTL DEF Spec

-----------------------------------------------------------------------------
(* Messages do not mix within a chunk stream *)

\* Nothing on the wire s of a chunk stream carries a piece, or its i-th chunk is
\* the last that does.
Silent(s) == \A k \in DOMAIN s : s[k].body = <<>>

IsLast(s, i) ==
    /\ i \in DOMAIN s /\ s[i].body # <<>>
    /\ \A k \in DOMAIN s : i < k => s[k].body = <<>>

\* NoInterleaving of one chunk stream.
Ordered(s) ==
    LET Between(i, j) == {k \in DOMAIN s : i < k /\ k < j /\ s[k].body # <<>>}
    IN  \A j \in DOMAIN s : s[j].body # <<>> =>
          /\ Len(s[j].body) = 1
          /\ Between(0, j) = {} => s[j].body[1].part = 1
          /\ \A i \in Between(0, j) :
               Between(i, j) = {} => Follows(s[j].body[1], s[i].body[1])

\* Piece p may be the next on the wire, or the wire may stop where it is.
MayFollow(s, p) ==
    /\ Silent(s) => p.part = 1
    /\ \A i \in DOMAIN s : IsLast(s, i) => Follows(p, s[i].body[1])

MayStop(s) ==
    \A i \in DOMAIN s : IsLast(s, i) => s[i].body[1].part = s[i].body[1].msg.size

\* The pieces of a buffer are whole messages one after the other, of which the
\* first lacks what has been written.
Lined(b) ==
    /\ \A k \in DOMAIN b : k + 1 \in DOMAIN b => Follows(b[k + 1], b[k])
    /\ b # <<>> => b[Len(b)].part = b[Len(b)].msg.size

\* A writer's buffer goes on where the wire stops.
StreamOrdered(w) ==
    /\ Ordered(wire[w])
    /\ Lined(buf[w])
    /\ buf[w] = <<>> => MayStop(wire[w])
    /\ buf[w] # <<>> => MayFollow(wire[w], buf[w][1])

\* A chunk that carries nothing changes nothing.
LEMMA EmptyChunk ==
    ASSUME NEW s \in Seq(Chunk), NEW x \in Chunk, x.body = <<>>, Ordered(s)
    PROVE  /\ Ordered(Append(s, x))
           /\ MayStop(s) => MayStop(Append(s, x))
<1> DEFINE t == Append(s, x)
<1>1. /\ t \in Seq(Chunk) /\ DOMAIN t = DOMAIN s \cup {Len(s) + 1}
      /\ \A i \in DOMAIN s : t[i] = s[i]
      /\ t[Len(s) + 1] = x
  BY AppendIndices
<1>2. \A i \in DOMAIN s : i \in Nat /\ i < Len(s) + 1
  OBVIOUS
<1> HIDE DEF t
<1>3. \A i, j \in DOMAIN t : j \in DOMAIN s =>
        {k \in DOMAIN t : i < k /\ k < j /\ t[k].body # <<>>}
          = {k \in DOMAIN s : i < k /\ k < j /\ s[k].body # <<>>}
  BY <1>1
<1>4. \A j \in DOMAIN s :
        {k \in DOMAIN t : 0 < k /\ k < j /\ t[k].body # <<>>}
          = {k \in DOMAIN s : 0 < k /\ k < j /\ s[k].body # <<>>}
  BY <1>1
<1>5. Ordered(t)
  <2> DEFINE Between(i, j) == {k \in DOMAIN t : i < k /\ k < j /\ t[k].body # <<>>}
  <2> SUFFICES ASSUME NEW j \in DOMAIN t, t[j].body # <<>>
               PROVE  /\ Len(t[j].body) = 1
                      /\ Between(0, j) = {} => t[j].body[1].part = 1
                      /\ \A i \in Between(0, j) :
                           Between(i, j) = {} => Follows(t[j].body[1], t[i].body[1])
    BY DEF Ordered
  <2>1. j \in DOMAIN s
    BY <1>1
  <2>2. \A i \in Between(0, j) : i \in DOMAIN s
    BY <1>1
  <2> QED
    BY <1>1, <1>3, <1>4, <2>1, <2>2 DEF Ordered
<1>6. MayStop(s) => MayStop(t)
  BY <1>1, <1>2 DEF MayStop, IsLast
<1> QED
  BY <1>5, <1>6 DEF t

\* A chunk that carries a piece that may follow keeps the order, and is the last
\* that carries one.
LEMMA FullChunk ==
    ASSUME NEW s \in Seq(Chunk), NEW p \in Piece, NEW x \in Chunk, x.body = <<p>>,
           Ordered(s), MayFollow(s, p)
    PROVE  /\ Ordered(Append(s, x))
           /\ ~Silent(Append(s, x))
           /\ \A i : IsLast(Append(s, x), i) => Append(s, x)[i].body[1] = p
<1> DEFINE t == Append(s, x)
           n == Len(s) + 1
<1>1. /\ t \in Seq(Chunk) /\ DOMAIN t = DOMAIN s \cup {n}
      /\ \A i \in DOMAIN s : t[i] = s[i]
      /\ t[n] = x
  BY AppendIndices
<1>2. n \in Nat /\ \A i \in DOMAIN s : i \in Nat /\ 0 < i /\ i < n
  OBVIOUS
<1>3. x.body # <<>> /\ Len(x.body) = 1 /\ x.body[1] = p
  OBVIOUS
<1> HIDE DEF t, n
<1>4. Ordered(t)
  <2> DEFINE Between(i, j) == {k \in DOMAIN t : i < k /\ k < j /\ t[k].body # <<>>}
  <2> SUFFICES ASSUME NEW j \in DOMAIN t, t[j].body # <<>>
               PROVE  /\ Len(t[j].body) = 1
                      /\ Between(0, j) = {} => t[j].body[1].part = 1
                      /\ \A i \in Between(0, j) :
                           Between(i, j) = {} => Follows(t[j].body[1], t[i].body[1])
    BY DEF Ordered
  <2>1. CASE j = n
    <3>1. ASSUME Between(0, j) = {} PROVE t[j].body[1].part = 1
      <4>1. Silent(s)
        BY <1>1, <1>2, <2>1, <3>1 DEF Silent
      <4> QED
        BY <1>1, <1>3, <2>1, <4>1 DEF MayFollow
    <3>2. ASSUME NEW i \in Between(0, j), Between(i, j) = {}
          PROVE  Follows(t[j].body[1], t[i].body[1])
      <4>1. i \in DOMAIN s /\ t[i] = s[i]
        BY <1>1, <1>2, <2>1, <3>2
      <4>2. IsLast(s, i)
        BY <1>1, <1>2, <2>1, <3>2, <4>1 DEF IsLast
      <4> QED
        BY <1>1, <1>3, <2>1, <4>1, <4>2 DEF MayFollow
    <3> QED
      BY <1>1, <1>3, <2>1, <3>1, <3>2
  <2>2. CASE j # n
    <3>1. j \in DOMAIN s /\ t[j] = s[j]
      BY <1>1, <2>2
    <3>2. \A i : Between(i, j) = {k \in DOMAIN s : i < k /\ k < j /\ s[k].body # <<>>}
      BY <1>1, <1>2, <3>1
    <3>3. \A i \in Between(0, j) : i \in DOMAIN s /\ t[i] = s[i]
      BY <1>1, <3>2
    <3> HIDE DEF Between
    <3> QED
      BY <3>1, <3>2, <3>3 DEF Ordered
  <2> QED
    BY <2>1, <2>2
<1>5. ~Silent(t)
  BY <1>1, <1>3 DEF Silent
<1>6. ASSUME NEW i, IsLast(t, i) PROVE t[i].body[1] = p
  <2>1. i = n
    BY <1>1, <1>2, <1>3, <1>6 DEF IsLast
  <2> QED
    BY <1>1, <1>3, <2>1
<1> QED
  BY <1>4, <1>5, <1>6 DEF t

\* A message put behind what a buffer holds.
LEMMA LinedAppends ==
    ASSUME NEW b \in Seq(Piece), Lined(b), NEW m \in Message
    PROVE  /\ b \o Pieces(m) \in Seq(Piece) /\ b \o Pieces(m) # <<>>
           /\ Lined(b \o Pieces(m))
           /\ (b \o Pieces(m))[1] = IF b = <<>> THEN Pieces(m)[1] ELSE b[1]
           /\ Pieces(m)[1].part = 1
<1> DEFINE n == Len(b)
           t == b \o Pieces(m)
<1>1. m.size \in Nat /\ m.size >= 1
  BY BoundsAssumption DEF Message
<1>2. Pieces(m) \in Seq(Piece)
  BY PiecesType
<1>3. Len(Pieces(m)) = m.size
  BY <1>1 DEF Pieces
<1>4. \A k \in 1..m.size : Pieces(m)[k].msg = m /\ Pieces(m)[k].part = k
  BY DEF Pieces
<1>5. n \in Nat /\ DOMAIN b = 1..n
  OBVIOUS
<1>6. t \in Seq(Piece) /\ Len(t) = n + m.size /\ DOMAIN t = 1..(n + m.size)
  BY <1>1, <1>2, <1>3
<1>7. \A k \in 1..n : t[k] = b[k]
  BY <1>2
<1>8. \A k \in 1..m.size : t[n + k] = Pieces(m)[k]
  BY <1>1, <1>2, <1>3
<1> HIDE DEF t, n
<1>9. \A k \in 1..m.size : t[n + k].msg = m /\ t[n + k].part = k
  BY <1>4, <1>8
<1>10. ASSUME NEW k \in DOMAIN t, k + 1 \in DOMAIN t
       PROVE  Follows(t[k + 1], t[k])
  <2>1. CASE k < n
    <3>1. k \in DOMAIN b /\ k + 1 \in DOMAIN b
      BY <1>5, <1>6, <2>1
    <3> QED
      BY <1>5, <1>7, <3>1 DEF Lined
  <2>2. CASE k = n
    <3>1. b # <<>> /\ t[k] = b[Len(b)]
      BY <1>5, <1>6, <1>7, <2>2 DEF n
    <3>2. t[k + 1].part = 1
      BY <1>1, <1>9, <2>2
    <3> QED
      BY <3>1, <3>2 DEF Lined, Follows
  <2>3. CASE k > n
    <3>1. k - n \in 1..m.size /\ k - n + 1 \in 1..m.size
      BY <1>1, <1>5, <1>6, <1>10, <2>3
    <3>2. n + (k - n) = k /\ n + (k - n + 1) = k + 1
      BY <1>5, <1>6
    <3>3. t[k].msg = m /\ t[k].part = k - n /\ t[k + 1].msg = m
            /\ t[k + 1].part = k - n + 1
      BY <1>9, <3>1, <3>2
    <3> QED
      BY <3>3 DEF Follows
  <2> QED
    BY <1>5, <1>6, <2>1, <2>2, <2>3
<1>11. t[Len(t)].part = t[Len(t)].msg.size
  BY <1>1, <1>6, <1>9
<1>12. t # <<>>
  BY <1>1, <1>5, <1>6
<1>13. t[1] = IF b = <<>> THEN Pieces(m)[1] ELSE b[1]
  <2>1. CASE b = <<>>
    <3>1. n = 0
      BY <2>1 DEF n
    <3> QED
      BY <1>1, <1>8, <2>1, <3>1
  <2>2. CASE b # <<>>
    <3>1. 1 \in 1..n
      BY <2>2 DEF n
    <3> QED
      BY <1>7, <2>2, <3>1
  <2> QED
    BY <2>1, <2>2
<1>14. Pieces(m)[1].part = 1
  <2>1. 1 \in 1..m.size
    BY <1>1
  <2> QED
    BY <1>4, <2>1
<1> QED
  BY <1>6, <1>10, <1>11, <1>12, <1>13, <1>14 DEF Lined, t

\* A buffer without its first piece.
LEMMA LinedTail ==
    ASSUME NEW b \in Seq(Piece), b # <<>>, Lined(b)
    PROVE  /\ Lined(Tail(b))
           /\ Tail(b) # <<>> => Follows(Tail(b)[1], b[1])
           /\ Tail(b) = <<>> => b[1].part = b[1].msg.size
<1> DEFINE t == Tail(b)
<1>1. /\ t \in Seq(Piece) /\ Len(b) \in Nat /\ Len(t) = Len(b) - 1 /\ DOMAIN b = 1..Len(b)
      /\ Len(b) >= 1 /\ DOMAIN t = 1..Len(t)
  OBVIOUS
<1>2. \A k \in DOMAIN t : t[k] = b[k + 1] /\ k + 1 \in DOMAIN b
  OBVIOUS
<1>3. t = <<>> <=> Len(b) = 1
  BY <1>1
<1> HIDE DEF t
<1>4. \A k \in DOMAIN t : k + 1 \in DOMAIN t => Follows(t[k + 1], t[k])
  BY <1>1, <1>2 DEF Lined
<1>5. ASSUME t # <<>> PROVE t[Len(t)] = b[Len(b)] /\ 1 \in DOMAIN t
  BY <1>1, <1>2, <1>3, <1>5
<1>6. ASSUME t # <<>> PROVE Follows(t[1], b[1])
  <2>1. t[1] = b[2] /\ 1 \in DOMAIN b /\ 2 \in DOMAIN b
    BY <1>1, <1>2, <1>5, <1>6
  <2>2. b[1 + 1] = b[2] /\ 1 + 1 \in DOMAIN b
    BY <2>1
  <2> QED
    BY <2>1, <2>2 DEF Lined
<1>7. ASSUME t = <<>> PROVE b[1].part = b[1].msg.size
  BY <1>3, <1>7 DEF Lined
<1> QED
  BY <1>4, <1>5, <1>6, <1>7 DEF Lined, t

\* The body of a chunk taken from a buffer that is not empty.
LEMMA FirstOne ==
    ASSUME NEW S, NEW b \in Seq(S), b # <<>>
    PROVE  b[1] \in S /\ SubSeq(b, 1, 1) = <<b[1]>>
<1>1. Len(b) \in Nat /\ Len(b) >= 1 /\ b[1] \in S
  OBVIOUS
<1>2. SubSeq(b, 1, 1) = [i \in 1..1 |-> b[i]]
  BY <1>1
<1>3. <<b[1]>> = [i \in 1..1 |-> b[i]]
  OBVIOUS
<1> QED
  BY <1>1, <1>2, <1>3

\* A message appended to a buffer, whoever's message and whichever buffer it is.
LEMMA EncodeOrdered ==
    ASSUME TypeOK, NEW u \in Users, Encode(u), \A w \in ChunkStreams : StreamOrdered(w)
    PROVE  \A w \in ChunkStreams : StreamOrdered(w)'
<1> USE DEF userVars, schedVars, closeVars, chanVars
<1>1. msgEnc \in ChunkStreams /\ msg[u] \in Message /\ buf[msgEnc] \in Seq(Piece)
  BY DEF Encode, TypeOK
<1>2. wire' = wire /\ buf' = [buf EXCEPT ![msgEnc] = buf[msgEnc] \o Pieces(msg[u])]
  BY DEF Encode
<1>3. ASSUME NEW w \in ChunkStreams, w # msgEnc PROVE StreamOrdered(w)'
  <2>1. buf'[w] = buf[w]
    BY <1>2, <1>3 DEF TypeOK
  <2> QED
    BY <1>2, <2>1 DEF StreamOrdered
<1>4. ASSUME NEW w \in ChunkStreams, w = msgEnc PROVE StreamOrdered(w)'
  <2> DEFINE m == msg[u]
             t == buf[w] \o Pieces(m)
  <2>1. buf'[w] = t
    BY <1>2, <1>4 DEF TypeOK
  <2>2. Ordered(wire[w]) /\ Lined(buf[w])
    BY DEF StreamOrdered
  <2>3. /\ t \in Seq(Piece) /\ t # <<>> /\ Lined(t)
        /\ t[1] = IF buf[w] = <<>> THEN Pieces(m)[1] ELSE buf[w][1]
        /\ Pieces(m)[1].part = 1
    BY <1>1, <1>4, <2>2, LinedAppends
  <2> HIDE DEF t
  <2>4. MayFollow(wire[w], t[1])
    <3>1. CASE buf[w] = <<>>
      <4>1. MayStop(wire[w]) /\ t[1].part = 1
        BY <2>3, <3>1 DEF StreamOrdered
      <4> QED
        BY <4>1 DEF MayFollow, MayStop, Follows
    <3>2. CASE buf[w] # <<>>
      BY <2>3, <3>2 DEF StreamOrdered
    <3> QED
      BY <3>1, <3>2
  <2> QED
    <3>1. wire'[w] = wire[w]
      BY <1>2
    <3>2. /\ Ordered(wire'[w]) /\ Lined(buf'[w]) /\ buf'[w] # <<>>
          /\ MayFollow(wire'[w], buf'[w][1])
      BY <2>1, <2>2, <2>3, <2>4, <3>1
    <3> QED
      BY <3>2 DEF StreamOrdered
<1> QED
  BY <1>3, <1>4

\* A chunk taken from a buffer to the wire.
LEMMA WriteOrdered ==
    ASSUME TypeOK, WriteChunk, \A w \in ChunkStreams : StreamOrdered(w)
    PROVE  \A w \in ChunkStreams : StreamOrdered(w)'
<1> DEFINE b == buf[sw]
           s == wire[sw]
           x == [len |-> messageLength[sw], body |-> NextBody(sw)]
<1>1. sw \in ChunkStreams
  BY DEF WriteChunk, TypeOK
<1>2. /\ b \in Seq(Piece) /\ s \in Seq(Chunk) /\ messageLength[sw] \in Nat
      /\ Ordered(s) /\ Lined(b)
      /\ b = <<>> => MayStop(s)
      /\ b # <<>> => MayFollow(s, b[1])
  BY <1>1 DEF TypeOK, StreamOrdered
<1>3. wire' = [wire EXCEPT ![sw] = Append(wire[sw], x)]
        /\ buf' = [buf EXCEPT ![sw] = Rest(sw)]
  BY DEF WriteChunk
<1>4. wire'[sw] = Append(s, x) /\ buf'[sw] = Rest(sw)
  BY <1>1, <1>3 DEF TypeOK
<1>5. ASSUME NEW w \in ChunkStreams, w # sw PROVE StreamOrdered(w)'
  <2>1. buf'[w] = buf[w] /\ wire'[w] = wire[w]
    BY <1>3, <1>5 DEF TypeOK
  <2> QED
    BY <2>1 DEF StreamOrdered
<1> SUFFICES ASSUME NEW w \in ChunkStreams, w = sw PROVE StreamOrdered(w)'
  BY <1>5
<1>6. ASSUME b = <<>> PROVE StreamOrdered(w)'
  <2>1. NextBody(sw) = <<>> /\ Rest(sw) = <<>>
    BY <1>6 DEF NextBody, Rest
  <2>2. x.body = <<>> /\ x \in Chunk
    BY <1>2, <2>1 DEF Chunk
  <2> HIDE DEF x, s, b
  <2>3. Ordered(Append(s, x)) /\ MayStop(Append(s, x))
    BY <1>2, <1>6, <2>2, EmptyChunk
  <2>4. Lined(<<>>)
    BY DEF Lined
  <2> QED
    BY <1>4, <2>1, <2>3, <2>4 DEF StreamOrdered
<1>7. ASSUME b # <<>> PROVE StreamOrdered(w)'
  <2>1. NextBody(sw) = <<b[1]>> /\ Rest(sw) = Tail(b) /\ b[1] \in Piece
    <3>1. b[1] \in Piece /\ SubSeq(b, 1, 1) = <<b[1]>>
      BY <1>2, <1>7, FirstOne
    <3> QED
      BY <1>7, <3>1 DEF NextBody, Rest
  <2>2. x.body = <<b[1]>> /\ x \in Chunk
    BY <1>2, <2>1 DEF Chunk
  <2> DEFINE t == Append(s, x)
             r == Tail(b)
  <2>3. /\ Lined(r)
        /\ r # <<>> => Follows(r[1], b[1])
        /\ r = <<>> => b[1].part = b[1].msg.size
    BY <1>2, <1>7, LinedTail
  <2> HIDE DEF x, s, b
  <2>4. /\ Ordered(t) /\ ~Silent(t)
        /\ \A i : IsLast(t, i) => t[i].body[1] = b[1]
    BY <1>2, <1>7, <2>1, <2>2, FullChunk
  <2> HIDE DEF t, r
  <2>5. r = <<>> => MayStop(t)
    BY <2>3, <2>4 DEF MayStop
  <2>6. r # <<>> => MayFollow(t, r[1])
    BY <2>3, <2>4 DEF MayFollow
  <2>7. wire'[w] = t /\ buf'[w] = r
    BY <1>4, <2>1 DEF t, r
  <2> QED
    BY <2>3, <2>4, <2>5, <2>6, <2>7 DEF StreamOrdered
<1> QED
  BY <1>6, <1>7

\* Whatever the order of steps and whoever encodes into whose buffer, the chunks
\* of two messages do not mix within a chunk stream.
THEOREM MessagesApart == Spec => []NoInterleaving
<1> DEFINE InOrder == \A w \in ChunkStreams : StreamOrdered(w)
<1>1. Init => InOrder
  <2>1. Ordered(<<>>) /\ Lined(<<>>) /\ MayStop(<<>>)
    BY DEF Ordered, Lined, MayStop
  <2> QED
    BY <2>1 DEF Init, StreamOrdered
<1>2. TypeOK /\ InOrder /\ [Next]_vars => InOrder'
  <2> SUFFICES ASSUME TypeOK, InOrder, [Next]_vars PROVE InOrder'
    OBVIOUS
  <2>1. ASSUME UNCHANGED <<wire, buf>> PROVE InOrder'
    BY <2>1 DEF StreamOrdered
  <2>2. ASSUME NEW u \in Users, Encode(u) PROVE InOrder'
    BY <2>2, EncodeOrdered
  <2>3. CASE WriteChunk
    BY <2>3, WriteOrdered
  <2>4. ASSUME NEW u \in Users, UserNext(u), ~Encode(u) PROVE UNCHANGED <<wire, buf>>
    BY <2>4 DEF UserNext, Call, Prepare, LockWriter, WaitDone, WaitClosed,
         WaitExpired, ResetEncoder, EncodeFail, SetHeader, Sched, schedVars, dataVars
  <2>5. ASSUME SchedNext, ~WriteChunk PROVE UNCHANGED <<wire, buf>>
    BY <2>5 DEF SchedNext, Take, WriteFail, Requeue, RunStops, ForceClose, dataVars
  <2>6. ASSUME CloseNextStep PROVE UNCHANGED <<wire, buf>>
    BY <2>6 DEF CloseNextStep, CloseCall, CloseLocksMu, CloseExpires, CloseNext,
         CloseLocksWriter, CloseWaits, CloseWaited, CloseStops, CloseTransport,
         CloseUnchanged, schedVars, dataVars
  <2>7. CASE UNCHANGED vars
    BY <2>1, <2>7 DEF vars, schedVars, dataVars
  <2> QED
    BY <2>1, <2>2, <2>3, <2>4, <2>5, <2>6, <2>7 DEF Next
<1>3. InOrder => NoInterleaving
  BY DEF StreamOrdered, Ordered, NoInterleaving
<1> HIDE DEF InOrder
<1> QED
  BY TypeCorrect, <1>1, <1>2, <1>3, PTL DEF Spec
=============================================================================
