---------------------------- MODULE ChunkWriters ----------------------------
(***************************************************************************)
(* The writing half of a ChunkStreamer (chunk_streamer.go) and the Close   *)
(* of the connection that owns it (conn.go).                               *)
(*                                                                         *)
(* Three kinds of goroutines meet here.  Users call ChunkStreamer.Write:   *)
(* they look the writer of a chunk stream up under cs.mu, acquire it in    *)
(* ChunkStreamWriter.Wait, encode the message into its buffer through the  *)
(* encoder all users share, and send the writer to the scheduler over a    *)
(* bounded channel.  The scheduler goroutine (chunkStreamerWriterSched.Run)*)
(* writes one chunk of a writer at a time and puts the writer back at the  *)
(* end of its own channel while something is left.  Conn.Close waits for   *)
(* the writers, stops the scheduler and closes the transport.              *)
(*                                                                         *)
(* A message is a name and its length in chunks; a buffer is the sequence  *)
(* of the pieces it still holds.  Only the expiry of contexts, the network *)
(* and the order of the goroutines' steps are nondeterministic.            *)
(***************************************************************************)
EXTENDS Integers, Sequences, FiniteSets

CONSTANTS
    ChunkStreams,     \* chunk stream IDs users write to
    Users,            \* goroutines that call Write
    Background,       \* the users whose context never expires
    Closer,           \* the goroutine inside Conn.Close
    None,             \* no chunk stream, or a mutex nobody holds
    QueueSize,        \* maxWriterQueueSize (64 in the code)
    MaxChunkStreams,  \* StreamControlStateConfig.MaxChunkStreams
    MaxChunks,        \* bound: chunks of one message
    MaxWrites,        \* bound: calls of Write by one user
    EncodeErrors,     \* may Encode reject a message?
    NetFails          \* may a write to the transport fail before Close?

ASSUME BackgroundAssumption == Background \subseteq Users
ASSUME NamesAssumption ==
    Closer \notin Users /\ None \notin Users \cup {Closer} \cup ChunkStreams
ASSUME StreamsAssumption == IsFiniteSet(ChunkStreams)
ASSUME BoundsAssumption ==
    /\ QueueSize \in Nat \ {0}
    /\ MaxChunkStreams \in Nat
    /\ MaxChunks \in Nat \ {0}
    /\ MaxWrites \in Nat
ASSUME SwitchesAssumption == EncodeErrors \in BOOLEAN /\ NetFails \in BOOLEAN

VARIABLES
    writers,     \* keys of cs.writers
    doneCh,      \* writer -> its current doneCh is closed
    closeCh,     \* writer -> its closeCh is closed
    lastErr,     \* writer -> lastErr is not nil
    aqM,         \* writer -> holder of aqM
    buf,         \* writer -> pieces left in its buffer
    messageLength, \* writer -> messageLength set by the last Write
    msgEnc,      \* the writer the shared encoder writes to
    queue,       \* writerSched.writers
    stopped,     \* writerSched.stopCh is closed
    spc,         \* where the scheduler goroutine is
    sw,          \* the writer it works on
    err,         \* cs.err is not nil
    wire,        \* chunk stream -> chunks flushed to the peer
    upc,         \* where a user's call of Write is
    ucs,         \* its chunkStreamID
    msg,         \* its message
    accepted,    \* history: chunk stream -> messages handed to the scheduler
    cpc,         \* where Conn.Close is
    pending,     \* writers waitWriters has still to wait for
    cw,          \* the writer it is waiting for
    ctxExpired,  \* its three seconds are over
    drained,     \* history: the writers it has acquired
    rwcOpen      \* the transport is open

userVars  == <<upc, ucs, msg>>
schedVars == <<spc, sw, err, wire>>
closeVars == <<cpc, pending, cw, ctxExpired, drained, stopped, rwcOpen>>
chanVars  == <<doneCh, closeCh, lastErr, aqM>>
dataVars  == <<buf, messageLength, msgEnc>>
vars == <<writers, queue, accepted, userVars, schedVars, closeVars, chanVars,
          dataVars>>

-----------------------------------------------------------------------------
Message == [user : Users, seq : 0..MaxWrites, size : 1..MaxChunks]

\* What one chunk carries of a message.
Piece == [msg : Message, part : 1..MaxChunks]

Pieces(m) == [k \in 1..m.size |-> [msg |-> m, part |-> k]]

\* A chunk on the wire: the length its message header announces, and its body.
Chunk == [len : Nat, body : Seq(Piece)]

UserPC == {"idle", "prepare", "lock", "select", "reset", "encode", "header",
           "sched"}
SchedPC == {"select", "write", "requeue", "force", "done"}
ClosePC == {"open", "mu", "next", "lock", "select", "stop", "rwc", "closed"}

\* prepareChunkWriter and forceCloseWriters hold cs.mu inside one step of the
\* model; waitWriters keeps it while it waits.
MuFree == cpc \notin {"next", "lock", "select"}

\* User u is between the Wait that gave it w and the send to the scheduler.
Owns(u, w) == ucs[u] = w /\ upc[u] \in {"reset", "encode", "header", "sched"}

Queued(w) == \E i \in DOMAIN queue : queue[i] = w

InHand(w) == sw = w /\ spc \in {"write", "requeue"}

Init ==
    /\ writers = {} /\ queue = <<>>
    /\ doneCh = [w \in ChunkStreams |-> TRUE]
    /\ closeCh = [w \in ChunkStreams |-> FALSE]
    /\ lastErr = [w \in ChunkStreams |-> FALSE]
    /\ aqM = [w \in ChunkStreams |-> None]
    /\ buf = [w \in ChunkStreams |-> <<>>]
    /\ messageLength = [w \in ChunkStreams |-> 0]
    /\ msgEnc = None
    /\ spc = "select" /\ sw = None /\ err = FALSE
    /\ wire = [w \in ChunkStreams |-> <<>>]
    /\ accepted = [w \in ChunkStreams |-> <<>>]
    /\ upc = [u \in Users |-> "idle"]
    /\ ucs = [u \in Users |-> None]
    /\ msg = [u \in Users |-> [user |-> u, seq |-> 0, size |-> 1]]
    /\ cpc = "open" /\ pending = {} /\ cw = None /\ ctxExpired = FALSE
    /\ drained = {} /\ stopped = FALSE /\ rwcOpen = TRUE

-----------------------------------------------------------------------------
(* ChunkStreamer.Write *)

GoTo(u, l) == upc' = [upc EXCEPT ![u] = l] /\ UNCHANGED <<ucs, msg>>

\* The call is over; its result and its locals are gone.
Return(u) ==
    /\ upc' = [upc EXCEPT ![u] = "idle"]
    /\ ucs' = [ucs EXCEPT ![u] = None]
    /\ UNCHANGED msg

Call(u) ==
    /\ upc[u] = "idle"
    /\ msg[u].seq < MaxWrites
    /\ \E w \in ChunkStreams, n \in 1..MaxChunks :
        /\ ucs' = [ucs EXCEPT ![u] = w]
        /\ msg' = [msg EXCEPT ![u] =
                     [user |-> u, seq |-> msg[u].seq + 1, size |-> n]]
    /\ upc' = [upc EXCEPT ![u] = "prepare"]
    /\ UNCHANGED <<writers, queue, accepted, schedVars, closeVars, chanVars,
                   dataVars>>

\* Mutant of Prepare: the limit on chunk streams is not enforced.
Prepare_NoLimit(u) ==
    /\ upc[u] = "prepare"
    /\ MuFree
    /\ writers' = writers \cup {ucs[u]}
    /\ GoTo(u, "lock")
    /\ UNCHANGED <<queue, accepted, schedVars, closeVars, chanVars, dataVars>>

\* prepareChunkWriter: a new writer starts with a closed doneCh, which is what
\* Init gives it.
Prepare(u) ==
    /\ upc[u] = "prepare"
    /\ MuFree
    /\ \/ /\ ucs[u] \in writers \/ Cardinality(writers) < MaxChunkStreams
          /\ writers' = writers \cup {ucs[u]}
          /\ GoTo(u, "lock")
       \/ /\ ucs[u] \notin writers /\ Cardinality(writers) >= MaxChunkStreams
          /\ Return(u)
          /\ UNCHANGED writers
    /\ UNCHANGED <<queue, accepted, schedVars, closeVars, chanVars, dataVars>>

\* Wait: w.aqM.Lock() is not bounded by the caller's context.
LockWriter(u) ==
    /\ upc[u] = "lock"
    /\ aqM[ucs[u]] = None
    /\ aqM' = [aqM EXCEPT ![ucs[u]] = u]
    /\ GoTo(u, "select")
    /\ UNCHANGED <<writers, queue, accepted, schedVars, closeVars, doneCh,
                   closeCh, lastErr, dataVars>>

\* Mutant of WaitDone: the doneCh of the last write stays in place.
WaitDone_KeepsDoneCh(u) ==
    LET w == ucs[u] IN
    /\ upc[u] = "select"
    /\ doneCh[w]
    /\ IF lastErr[w] THEN Return(u) ELSE GoTo(u, "reset")
    /\ aqM' = [aqM EXCEPT ![w] = None]
    /\ UNCHANGED <<writers, queue, accepted, schedVars, closeVars, doneCh,
                   closeCh, lastErr, dataVars>>

\* Wait: the writer is free, or its last write failed.
WaitDone(u) ==
    LET w == ucs[u] IN
    /\ upc[u] = "select"
    /\ doneCh[w]
    /\ \/ lastErr[w] /\ Return(u) /\ UNCHANGED doneCh
       \/ ~lastErr[w] /\ GoTo(u, "reset") /\ doneCh' = [doneCh EXCEPT ![w] = FALSE]
    /\ aqM' = [aqM EXCEPT ![w] = None]
    /\ UNCHANGED <<writers, queue, accepted, schedVars, closeVars, closeCh,
                   lastErr, dataVars>>

\* Wait: closeCh is closed.  A nil lastErr sends the caller on with a writer
\* it has not acquired.
WaitClosed(u) ==
    LET w == ucs[u] IN
    /\ upc[u] = "select"
    /\ closeCh[w]
    /\ IF lastErr[w] THEN Return(u) ELSE GoTo(u, "reset")
    /\ aqM' = [aqM EXCEPT ![w] = None]
    /\ UNCHANGED <<writers, queue, accepted, schedVars, closeVars, doneCh,
                   closeCh, lastErr, dataVars>>

\* Mutant of WaitExpired: the error of the context is dropped.
WaitExpired_Proceeds(u) ==
    /\ upc[u] = "select"
    /\ u \notin Background
    /\ GoTo(u, "reset")
    /\ aqM' = [aqM EXCEPT ![ucs[u]] = None]
    /\ UNCHANGED <<writers, queue, accepted, schedVars, closeVars, doneCh,
                   closeCh, lastErr, dataVars>>

\* Mutant of WaitExpired: this return path does not unlock aqM.
WaitExpired_KeepsMutex(u) ==
    /\ upc[u] = "select"
    /\ u \notin Background
    /\ Return(u)
    /\ UNCHANGED <<writers, queue, accepted, schedVars, closeVars, doneCh,
                   closeCh, lastErr, aqM, dataVars>>

\* Wait: the caller's context is done.
WaitExpired(u) ==
    /\ upc[u] = "select"
    /\ u \notin Background
    /\ Return(u)
    /\ aqM' = [aqM EXCEPT ![ucs[u]] = None]
    /\ UNCHANGED <<writers, queue, accepted, schedVars, closeVars, doneCh,
                   closeCh, lastErr, dataVars>>

\* Mutant of ResetEncoder: the encoder is not pointed at the writer.
ResetEncoder_Skipped(u) ==
    /\ upc[u] = "reset"
    /\ GoTo(u, "encode")
    /\ UNCHANGED <<writers, queue, accepted, schedVars, closeVars, chanVars,
                   dataVars>>

\* cs.msgEnc.Reset(writer): one encoder for all users, under no lock.
ResetEncoder(u) ==
    /\ upc[u] = "reset"
    /\ msgEnc' = ucs[u]
    /\ GoTo(u, "encode")
    /\ UNCHANGED <<writers, queue, accepted, schedVars, closeVars, chanVars,
                   buf, messageLength>>

\* Mutant of Encode: the buffer is emptied first.
Encode_ResetsBuffer(u) ==
    /\ upc[u] = "encode"
    /\ buf' = [buf EXCEPT ![msgEnc] = Pieces(msg[u])]
    /\ GoTo(u, "header")
    /\ UNCHANGED <<writers, queue, accepted, schedVars, closeVars, chanVars,
                   messageLength, msgEnc>>

\* cs.msgEnc.Encode appends to the buffer the encoder points to now.
Encode(u) ==
    /\ upc[u] = "encode"
    /\ buf' = [buf EXCEPT ![msgEnc] = @ \o Pieces(msg[u])]
    /\ GoTo(u, "header")
    /\ UNCHANGED <<writers, queue, accepted, schedVars, closeVars, chanVars,
                   messageLength, msgEnc>>

\* Encode fails and Write returns; nothing closes the writer's doneCh again.
EncodeFail(u) ==
    /\ EncodeErrors
    /\ upc[u] = "encode"
    /\ Return(u)
    /\ UNCHANGED <<writers, queue, accepted, schedVars, closeVars, chanVars,
                   dataVars>>

\* Mutant of SetHeader: the length of the stream's previous message stays.
SetHeader_KeepsLength(u) ==
    /\ upc[u] = "header"
    /\ messageLength' = [messageLength EXCEPT ![ucs[u]] =
                           IF @ = 0 THEN Len(buf[ucs[u]]) ELSE @]
    /\ GoTo(u, "sched")
    /\ UNCHANGED <<writers, queue, accepted, schedVars, closeVars, chanVars,
                   buf, msgEnc>>

\* writer.messageLength = uint32(writer.buf.Len()), with the other fields.
SetHeader(u) ==
    /\ upc[u] = "header"
    /\ messageLength' = [messageLength EXCEPT ![ucs[u]] = Len(buf[ucs[u]])]
    /\ GoTo(u, "sched")
    /\ UNCHANGED <<writers, queue, accepted, schedVars, closeVars, chanVars,
                   buf, msgEnc>>

\* Sched: the send blocks while the channel is full, whatever the context.
Sched(u) ==
    /\ upc[u] = "sched"
    /\ Len(queue) < QueueSize
    /\ queue' = Append(queue, ucs[u])
    /\ accepted' = [accepted EXCEPT ![ucs[u]] = Append(@, msg[u])]
    /\ Return(u)
    /\ UNCHANGED <<writers, schedVars, closeVars, chanVars, dataVars>>

-----------------------------------------------------------------------------
(* chunkStreamerWriterSched.Run and schedWriteLoop *)

Take ==
    /\ spc = "select"
    /\ queue # <<>>
    /\ sw' = Head(queue)
    /\ queue' = Tail(queue)
    /\ spc' = "write"
    /\ UNCHANGED <<writers, accepted, userVars, err, wire, closeVars, chanVars,
                   dataVars>>

\* The body of the next chunk: one piece, or nothing if the buffer is empty.
NextBody(w) == SubSeq(buf[w], 1, IF buf[w] = <<>> THEN 0 ELSE 1)

Rest(w) == IF buf[w] = <<>> THEN <<>> ELSE Tail(buf[w])

\* Mutant of WriteChunk: the last chunk does not close doneCh.
WriteChunk_ForgetsDone ==
    /\ spc = "write"
    /\ rwcOpen
    /\ wire' = [wire EXCEPT ![sw] =
                  Append(@, [len |-> messageLength[sw], body |-> NextBody(sw)])]
    /\ buf' = [buf EXCEPT ![sw] = Rest(sw)]
    /\ IF Rest(sw) = <<>> THEN spc' = "select" /\ sw' = None
                          ELSE spc' = "requeue" /\ UNCHANGED sw
    /\ UNCHANGED <<writers, queue, accepted, userVars, err, closeVars, chanVars,
                   messageLength, msgEnc>>

\* writeChunk succeeds: the writer is done, or goes back to the queue.
WriteChunk ==
    /\ spc = "write"
    /\ rwcOpen
    /\ wire' = [wire EXCEPT ![sw] =
                  Append(@, [len |-> messageLength[sw], body |-> NextBody(sw)])]
    /\ buf' = [buf EXCEPT ![sw] = Rest(sw)]
    /\ \/ /\ Rest(sw) = <<>>
          /\ doneCh' = [doneCh EXCEPT ![sw] = TRUE]
          /\ spc' = "select" /\ sw' = None
       \/ /\ Rest(sw) # <<>>
          /\ spc' = "requeue" /\ UNCHANGED <<doneCh, sw>>
    /\ UNCHANGED <<writers, queue, accepted, userVars, err, closeVars, closeCh,
                   lastErr, aqM, messageLength, msgEnc>>

\* writeChunk fails: Run returns the error.
WriteFail ==
    /\ spc = "write"
    /\ NetFails \/ ~rwcOpen
    /\ lastErr' = [lastErr EXCEPT ![sw] = TRUE]
    /\ doneCh' = [doneCh EXCEPT ![sw] = TRUE]
    /\ spc' = "force" /\ sw' = None /\ err' = TRUE
    /\ UNCHANGED <<writers, queue, accepted, userVars, wire, closeVars, closeCh,
                   aqM, dataVars>>

\* Mutant of Requeue: an unfinished writer is not put back.
Requeue_Forgets ==
    /\ spc = "requeue"
    /\ spc' = "select" /\ sw' = None
    /\ UNCHANGED <<writers, queue, accepted, userVars, err, wire, closeVars,
                   chanVars, dataVars>>

\* sched.writers <- writer, by the channel's only receiver.
Requeue ==
    /\ spc = "requeue"
    /\ Len(queue) < QueueSize
    /\ queue' = Append(queue, sw)
    /\ spc' = "select" /\ sw' = None
    /\ UNCHANGED <<writers, accepted, userVars, err, wire, closeVars, chanVars,
                   dataVars>>

\* stopCh is closed: Run returns nil, so that no closeCh is closed.
RunStops ==
    /\ spc = "select"
    /\ stopped
    /\ spc' = "done"
    /\ UNCHANGED <<writers, queue, accepted, userVars, sw, err, wire, closeVars,
                   chanVars, dataVars>>

\* forceCloseWriters, after which schedWriteLoop closes cs.done.
ForceClose ==
    /\ spc = "force"
    /\ MuFree
    /\ closeCh' = [w \in ChunkStreams |-> w \in writers]
    /\ spc' = "done"
    /\ UNCHANGED <<writers, queue, accepted, userVars, sw, err, wire, closeVars,
                   doneCh, lastErr, aqM, dataVars>>

-----------------------------------------------------------------------------
(* Conn.Close *)

CloseUnchanged == UNCHANGED <<writers, queue, accepted, userVars, schedVars,
                              closeCh, lastErr, dataVars>>

CloseCall ==
    /\ cpc = "open"
    /\ cpc' = "mu"
    /\ CloseUnchanged
    /\ UNCHANGED <<pending, cw, ctxExpired, drained, stopped, rwcOpen, doneCh, aqM>>

\* Mutant of CloseLocksMu: no writer is waited for.
CloseLocksMu_NoWriters ==
    /\ cpc = "mu"
    /\ cpc' = "next"
    /\ CloseUnchanged
    /\ UNCHANGED <<pending, cw, ctxExpired, drained, stopped, rwcOpen, doneCh, aqM>>

\* waitWriters takes cs.mu and ranges over the writers there are.
CloseLocksMu ==
    /\ cpc = "mu"
    /\ cpc' = "next"
    /\ pending' = writers
    /\ CloseUnchanged
    /\ UNCHANGED <<cw, ctxExpired, drained, stopped, rwcOpen, doneCh, aqM>>

\* The three seconds of waitWriters' context are over.
CloseExpires ==
    /\ ~MuFree
    /\ ~ctxExpired
    /\ ctxExpired' = TRUE
    /\ CloseUnchanged
    /\ UNCHANGED <<cpc, pending, cw, drained, stopped, rwcOpen, doneCh, aqM>>

CloseNext ==
    /\ cpc = "next"
    /\ \E w \in pending : cw' = w /\ pending' = pending \ {w}
    /\ cpc' = "lock"
    /\ CloseUnchanged
    /\ UNCHANGED <<ctxExpired, drained, stopped, rwcOpen, doneCh, aqM>>

CloseLocksWriter ==
    /\ cpc = "lock"
    /\ aqM[cw] = None
    /\ aqM' = [aqM EXCEPT ![cw] = Closer]
    /\ cpc' = "select"
    /\ CloseUnchanged
    /\ UNCHANGED <<pending, cw, ctxExpired, drained, stopped, rwcOpen, doneCh>>

\* Mutant of CloseWaits: the context of waitWriters has no deadline.
CloseWaits_NoDeadline ==
    /\ cpc = "select"
    /\ \/ /\ doneCh[cw] /\ ~lastErr[cw]
          /\ doneCh' = [doneCh EXCEPT ![cw] = FALSE]
          /\ drained' = drained \cup {cw}
       \/ /\ (doneCh[cw] /\ lastErr[cw]) \/ closeCh[cw]
          /\ UNCHANGED <<doneCh, drained>>
    /\ aqM' = [aqM EXCEPT ![cw] = None]
    /\ cpc' = "next" /\ cw' = None
    /\ CloseUnchanged
    /\ UNCHANGED <<pending, ctxExpired, stopped, rwcOpen>>

\* Wait returns to waitWriters, through one of its three cases.  A nil result
\* by way of doneCh acquires the writer, and nothing gives it back.
CloseWaits ==
    /\ cpc = "select"
    /\ \/ /\ doneCh[cw] /\ ~lastErr[cw]
          /\ doneCh' = [doneCh EXCEPT ![cw] = FALSE]
          /\ drained' = drained \cup {cw}
       \/ /\ (doneCh[cw] /\ lastErr[cw]) \/ closeCh[cw] \/ ctxExpired
          /\ UNCHANGED <<doneCh, drained>>
    /\ aqM' = [aqM EXCEPT ![cw] = None]
    /\ cpc' = "next" /\ cw' = None
    /\ CloseUnchanged
    /\ UNCHANGED <<pending, ctxExpired, stopped, rwcOpen>>

CloseWaited ==
    /\ cpc = "next"
    /\ pending = {}
    /\ cpc' = "stop"
    /\ CloseUnchanged
    /\ UNCHANGED <<pending, cw, ctxExpired, drained, stopped, rwcOpen, doneCh, aqM>>

\* c.streamer.Close() closes stopCh.
CloseStops ==
    /\ cpc = "stop"
    /\ stopped' = TRUE
    /\ cpc' = "rwc"
    /\ CloseUnchanged
    /\ UNCHANGED <<pending, cw, ctxExpired, drained, rwcOpen, doneCh, aqM>>

\* Mutant of CloseTransport: the transport is left open.
CloseTransport_LeavesOpen ==
    /\ cpc = "rwc"
    /\ cpc' = "closed"
    /\ CloseUnchanged
    /\ UNCHANGED <<pending, cw, ctxExpired, drained, stopped, rwcOpen, doneCh, aqM>>

\* c.rwc.Close(), and Conn.Close returns.
CloseTransport ==
    /\ cpc = "rwc"
    /\ rwcOpen' = FALSE
    /\ cpc' = "closed"
    /\ CloseUnchanged
    /\ UNCHANGED <<pending, cw, ctxExpired, drained, stopped, doneCh, aqM>>

-----------------------------------------------------------------------------
UserNext(u) ==
    \/ Call(u) \/ Prepare(u) \/ LockWriter(u)
    \/ WaitDone(u) \/ WaitClosed(u) \/ WaitExpired(u)
    \/ ResetEncoder(u) \/ Encode(u) \/ EncodeFail(u) \/ SetHeader(u) \/ Sched(u)

SchedNext == Take \/ WriteChunk \/ WriteFail \/ Requeue \/ RunStops \/ ForceClose

CloseNextStep ==
    \/ CloseCall \/ CloseLocksMu \/ CloseExpires \/ CloseNext \/ CloseLocksWriter
    \/ CloseWaits \/ CloseWaited \/ CloseStops \/ CloseTransport

Next == (\E u \in Users : UserNext(u)) \/ SchedNext \/ CloseNextStep

Spec == Init /\ [][Next]_vars

(***************************************************************************)
(* Fairness.  A goroutine that can run runs; sync.Mutex hands itself to a  *)
(* waiter that starves and a channel serves its senders in turn, hence     *)
(* strong fairness for both.  Timers fire.  A write on a closed transport  *)
(* fails.  A write on an open one may hang for as long as the peer does    *)
(* not read: StallSpec asks nothing of it, LiveSpec adds that writes end.  *)
(* Nobody has to call Write or Close.                                      *)
(***************************************************************************)
UserFairness(u) ==
    /\ WF_vars(Prepare(u))
    /\ SF_vars(LockWriter(u))
    /\ WF_vars(WaitDone(u) \/ WaitClosed(u) \/ WaitExpired(u))
    /\ WF_vars(ResetEncoder(u))
    /\ WF_vars(Encode(u) \/ EncodeFail(u))
    /\ WF_vars(SetHeader(u))
    /\ SF_vars(Sched(u))

SchedFairness ==
    /\ WF_vars(Take \/ RunStops)
    /\ WF_vars(~rwcOpen /\ WriteFail)
    /\ WF_vars(Requeue)
    /\ WF_vars(ForceClose)

CloseFairness ==
    /\ WF_vars(CloseLocksMu)
    /\ WF_vars(CloseExpires)
    /\ WF_vars(CloseNext)
    /\ SF_vars(CloseLocksWriter)
    /\ WF_vars(CloseWaits \/ CloseWaited)
    /\ WF_vars(CloseStops)
    /\ WF_vars(CloseTransport)

WritesEnd == WF_vars(WriteChunk \/ WriteFail)

Fairness == (\A u \in Users : UserFairness(u)) /\ SchedFairness /\ CloseFairness

StallSpec == Spec /\ Fairness

LiveSpec == StallSpec /\ WritesEnd

-----------------------------------------------------------------------------
(* Safety *)

\* The type of every variable, and where each goroutine's locals are set.
TypeOK ==
    /\ writers \subseteq ChunkStreams
    /\ queue \in Seq(ChunkStreams)
    /\ doneCh \in [ChunkStreams -> BOOLEAN]
    /\ closeCh \in [ChunkStreams -> BOOLEAN]
    /\ lastErr \in [ChunkStreams -> BOOLEAN]
    /\ aqM \in [ChunkStreams -> Users \cup {Closer, None}]
    /\ buf \in [ChunkStreams -> Seq(Piece)]
    /\ messageLength \in [ChunkStreams -> Nat]
    /\ msgEnc \in ChunkStreams \cup {None}
    /\ wire \in [ChunkStreams -> Seq(Chunk)]
    /\ accepted \in [ChunkStreams -> Seq(Message)]
    /\ spc \in SchedPC /\ err \in BOOLEAN
    /\ sw \in ChunkStreams \cup {None}
    /\ spc \in {"write", "requeue"} <=> sw # None
    /\ upc \in [Users -> UserPC]
    /\ ucs \in [Users -> ChunkStreams \cup {None}]
    /\ \A u \in Users : upc[u] # "idle" <=> ucs[u] # None
    /\ \A u \in Users : upc[u] = "encode" => msgEnc # None
    /\ msg \in [Users -> Message]
    /\ cpc \in ClosePC
    /\ pending \subseteq ChunkStreams
    /\ cw \in ChunkStreams \cup {None}
    /\ cpc \in {"lock", "select"} <=> cw # None
    /\ ctxExpired \in BOOLEAN /\ stopped \in BOOLEAN /\ rwcOpen \in BOOLEAN
    /\ drained \subseteq ChunkStreams

\* doneCh is the lock of a writer: as long as its closeCh is open, at most one
\* of the users between Wait and Sched, the queue, the scheduler's hands and
\* Conn.Close has it, and the queue has it once.  Were it not so, two messages
\* would share a buffer, and closing doneCh twice would panic in Run.
OneHolder ==
    \A w \in ChunkStreams : ~closeCh[w] =>
        /\ \A u, v \in Users : Owns(u, w) /\ Owns(v, w) => u = v
        /\ \A i, j \in DOMAIN queue : queue[i] = w /\ queue[j] = w => i = j
        /\ Queued(w) => ~InHand(w)
        /\ \A u \in Users : Owns(u, w) => ~Queued(w) /\ ~InHand(w)
        /\ w \in drained => ~Queued(w) /\ ~InHand(w) /\ \A u \in Users : ~Owns(u, w)
        /\ doneCh[w] => /\ w \notin drained
                        /\ ~Queued(w) /\ ~InHand(w)
                        /\ \A u \in Users : ~Owns(u, w)

\* Whoever works with a writer got it from cs.writers, of which there are never
\* more than the configuration allows, and closeCh is closed only once Run has
\* returned.  With OneHolder this bounds the channel.
WritersKnown ==
    /\ Cardinality(writers) <= MaxChunkStreams
    /\ \A u \in Users : upc[u] \notin {"idle", "prepare"} => ucs[u] \in writers
    /\ \A i \in DOMAIN queue : queue[i] \in writers
    /\ sw \in writers \cup {None}
    /\ spc # "done" => \A w \in ChunkStreams : ~closeCh[w]

\* Run never blocks on the channel only it receives from, and no user blocks
\* in Sched while Run lives, provided that the channel has room for every chunk
\* stream.
NoSelfBlock ==
    (\A w \in ChunkStreams : ~closeCh[w]) =>
        /\ spc = "requeue" => Len(queue) < QueueSize
        /\ \A u \in Users : upc[u] = "sched" => Len(queue) < QueueSize

\* "Wait until writing have been finished if the writer is running": a writer
\* whose doneCh is open is running, that is, somebody is going to write it.
BusyMeansRunning ==
    \A w \in ChunkStreams :
        ~doneCh[w] /\ ~closeCh[w] =>
            \/ \E u \in Users : Owns(u, w)
            \/ Queued(w) \/ InHand(w) \/ w \in drained

\* aqM is held by the goroutine that waits in the select of Wait, and by no
\* other: whoever leaves Wait, by any of its cases, has unlocked it.
MutexHeldInSelect ==
    \A w \in ChunkStreams :
        /\ \A u \in Users : aqM[w] = u <=> ucs[u] = w /\ upc[u] = "select"
        /\ aqM[w] = Closer <=> cw = w /\ cpc = "select"

\* Piece q may come after piece p: it is the next of its message, or p ends a
\* message and q begins one.
Follows(q, p) ==
    \/ q.msg = p.msg /\ q.part = p.part + 1
    \/ p.part = p.msg.size /\ q.part = 1

\* Within a chunk stream the chunks of two messages never mix, although the
\* scheduler interleaves chunk streams and users may encode into each other's
\* buffers: a chunk carries one piece, which follows the last one before it or,
\* if it is the first, begins a message.
NoInterleaving ==
    \A c \in ChunkStreams :
        LET body(i) == wire[c][i].body
            Between(i, j) == {k \in DOMAIN wire[c] : i < k /\ k < j /\ body(k) # <<>>}
        IN  \A j \in DOMAIN wire[c] : body(j) # <<>> =>
              /\ Len(body(j)) = 1
              /\ Between(0, j) = {} => body(j)[1].part = 1
              /\ \A i \in Between(0, j) :
                   Between(i, j) = {} => Follows(body(j)[1], body(i)[1])

-----------------------------------------------------------------------------
(* Liveness *)

\* Conn.Close returns, even if the peer stops reading, as long as every user's
\* context expires.
CloseReturns == cpc = "mu" ~> cpc = "closed"

\* Write returns to a caller whose context expires, even if the peer stops
\* reading and other users' messages fail to encode, until the transport fails.
\* After that the exception is real: writers whose closeCh is closed are handed
\* out unacquired, are sent to a channel nobody receives from, and fill it.
WriteReturns == \A u \in Users : upc[u] = "prepare" ~> upc[u] = "idle" \/ err

\* Once Conn.Close has closed stopCh the scheduler goroutine ends.
SchedStops == stopped ~> spc = "done"

\* If writes end, a writer handed to the scheduler is written to its end,
\* whatever the other writers do, unless the streamer is stopped or fails first.
WritersFinish ==
    WritesEnd =>
      \A w \in ChunkStreams : Queued(w) ~> doneCh[w] \/ stopped \/ err
=============================================================================
