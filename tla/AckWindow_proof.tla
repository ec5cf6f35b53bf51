-------------------------- MODULE AckWindow_proof --------------------------
(***************************************************************************)
(* Theorems about AckWindow, for any chunk streams, sizes of chunks and    *)
(* messages, windows, counters and transports.                             *)
(*                                                                         *)
(* What an end has told its peer, newest last, only ever grows at its end  *)
(* and is consumed at its front, whichever of the two does what; the bytes *)
(* it has read since the newest acknowledgement are fragmentReadBytes      *)
(* (Telling), and they are less than a window (Fragments), also when the   *)
(* window shrinks, because nothing but the announcement has come by then   *)
(* (Early, Announcing).                                                    *)
(***************************************************************************)
EXTENDS AckWindow, SequenceTheorems, FiniteSetTheorems, TLAPS

-----------------------------------------------------------------------------
(* The inductive invariant *)

Counters == 0..CounterMod - 1

Types ==
    /\ queue \in [Ends -> Seq(Messages)] /\ wire \in [Ends -> Seq(Messages)]
    /\ pc \in [Ends -> {"read", "ack", "handle", "ended"}] /\ chunk \in [Ends -> Messages]
    /\ totalReadBytes \in [Ends -> Counters] /\ fragmentReadBytes \in [Ends -> Counters]
    /\ ackWindowSize \in [Ends -> {DefaultWindow, Window}]
    /\ announced \subseteq Ends
    /\ written \in [Ends -> 0..MaxMessages]
    /\ acked \in [Ends -> Counters]

\* A chunk stream is in the channel once.
Once(e) == \A i, j \in DOMAIN queue[e] : queue[e][i].cs = queue[e][j].cs => i = j

\* Before there are media nothing but the announcement comes.
Early(e) ==
    (\A x \in Ends : written[x] = 0) =>
       /\ pc[e] \in {"read", "handle"}
       /\ Peer(e) \notin announced => Sent(Peer(e)) = <<>> /\ fragmentReadBytes[e] = 0
       /\ Peer(e) \in announced =>
             \/ Sent(Peer(e)) = <<WinAckSize>> /\ fragmentReadBytes[e] = 0
             \/ Sent(Peer(e)) = <<>> /\ fragmentReadBytes[e] = ControlBytes

\* The announcement comes before all else.
Announcing(e) ==
    /\ \A i \in DOMAIN Sent(Peer(e)) :
          Sent(Peer(e))[i].kind = "window" => i = 1 /\ fragmentReadBytes[e] = 0
    /\ pc[e] # "read" /\ chunk[e].kind = "window" => fragmentReadBytes[e] = ControlBytes

\* The bytes read and not yet acknowledged.
Fragments(e) ==
    /\ pc[e] \in {"read", "handle"} => fragmentReadBytes[e] < ackWindowSize[e] \div 2
    /\ pc[e] = "ack" => fragmentReadBytes[e] >= ackWindowSize[e] \div 2
    /\ fragmentReadBytes[e] < ackWindowSize[e]

\* An acknowledgement is half a window ahead of the one before.
Chained(told) ==
    \A i, j \in DOMAIN told :
       /\ i < j /\ IsAck(told[i]) /\ IsAck(told[j])
       /\ \A k \in DOMAIN told : i < k /\ k < j => ~IsAck(told[k])
       => (told[j].seq - told[i].seq) % CounterMod >= Window \div 2

\* n is behind the bytes read by what is not yet acknowledged.
Behind(e, n) == \/ totalReadBytes[e] = n + fragmentReadBytes[e]
                \/ totalReadBytes[e] = n + fragmentReadBytes[e] - CounterMod

Telling(e) ==
    /\ Chained(Told(e))
    /\ \A i \in DOMAIN Told(e) : Newest(Told(e), i) => Behind(e, Told(e)[i].seq)

\* All of it, at one end.
AtEnd(e) == /\ Once(e) /\ Bytes(wire[e]) <= Capacity
            /\ Early(e) /\ Announcing(e) /\ Fragments(e) /\ Telling(e)

IInv == Types /\ \A e \in Ends : AtEnd(e)

-----------------------------------------------------------------------------
(* The two ends, messages and sizes *)

\* Each of the two ends is the other's peer.
LEMMA Peers ==
    ASSUME NEW e \in Ends
    PROVE  /\ Peer(e) \in Ends /\ Peer(e) # e /\ Peer(Peer(e)) = e
           /\ \A x \in Ends : x = e \/ x = Peer(e)
<1>1. IsFiniteSet(Ends \ {e}) /\ Cardinality(Ends \ {e}) = 1
  <2>1. Cardinality(Ends) = 2 /\ IsFiniteSet(Ends)
    BY EndsAssumption
  <2> QED
    BY <2>1, FS_RemoveElement
<1>2. PICK p : Ends \ {e} = {p}
  BY <1>1, FS_Singleton
<1>3. p \in Ends /\ p # e /\ \A x \in Ends : x = e \/ x = p
  BY <1>2
<1>4. Peer(e) = p /\ Peer(p) = e
  BY <1>3 DEF Peer
<1> QED
  BY <1>3, <1>4

\* What the messages are.
LEMMA MessageKinds ==
    ASSUME NEW m \in Messages
    PROVE  /\ m.kind \in {"media", "window", "ack"}
           /\ m.kind = "media" => /\ m.cs \in MediaStreams /\ m.cs # Control
                                  /\ m.left \in 1..MaxChunks
           /\ m.kind # "media" => m.cs = Control /\ m.left = 1
           /\ IsAck(m) => m.seq \in Counters
           /\ m.kind = "window" => m = WinAckSize
<1>1. CASE \E cs \in MediaStreams, n \in 1..MaxChunks : m = Media(cs, n)
  BY <1>1, MediaAssumption DEF Media, IsAck
<1>2. CASE m = WinAckSize
  BY <1>2 DEF WinAckSize, IsAck
<1>3. CASE \E n \in 0..CounterMod - 1 : m = Ack(n)
  BY <1>3 DEF Ack, IsAck, Counters
<1> QED
  BY <1>1, <1>2, <1>3 DEF Messages

\* The messages themselves.
LEMMA SomeMessages ==
    /\ WinAckSize \in Messages /\ WinAckSize.kind = "window" /\ WinAckSize.cs = Control
    /\ \A n \in Counters : Ack(n) \in Messages /\ IsAck(Ack(n)) /\ Ack(n).seq = n
    /\ \A cs \in MediaStreams, n \in 1..MaxChunks :
          Media(cs, n) \in Messages /\ Media(cs, n).kind = "media" /\ Media(cs, n).cs = cs
<1>1. WinAckSize \in Messages /\ WinAckSize.kind = "window" /\ WinAckSize.cs = Control
  BY DEF WinAckSize, Messages
<1>2. \A n \in Counters : Ack(n) \in Messages /\ IsAck(Ack(n)) /\ Ack(n).seq = n
  BY DEF Ack, Messages, IsAck, Counters
<1>3. \A cs \in MediaStreams, n \in 1..MaxChunks :
          Media(cs, n) \in Messages /\ Media(cs, n).kind = "media" /\ Media(cs, n).cs = cs
  BY DEF Media, Messages
<1> QED
  BY <1>1, <1>2, <1>3

\* The rest of a message of several chunks.
LEMMA RestOfMessage ==
    ASSUME NEW m \in Messages, m.left # 1
    PROVE  LET r == [m EXCEPT !.left = @ - 1] IN
           r \in Messages /\ r.kind = "media" /\ m.kind = "media" /\ r.cs = m.cs
<1>1. PICK cs \in MediaStreams, n \in 1..MaxChunks : m = Media(cs, n)
  BY DEF Messages, WinAckSize, Ack
<1>2. n - 1 \in 1..MaxChunks
  BY <1>1, BytesAssumption DEF Media
<1>3. [m EXCEPT !.left = @ - 1] = Media(cs, n - 1)
  BY <1>1 DEF Media
<1> QED
  BY <1>1, <1>2, <1>3, SomeMessages

\* Half a window has room for a chunk and one byte more.
LEMMA Sizes ==
    /\ {MediaBytes, ControlBytes} \subseteq Nat \ {0}
    /\ Window \in Nat /\ DefaultWindow \in Nat /\ CounterMod \in Nat \ {0}
    /\ Window <= DefaultWindow /\ DefaultWindow < CounterMod
    /\ Window \div 2 \in Nat /\ DefaultWindow \div 2 \in Nat
    /\ MediaBytes < Window \div 2 /\ ControlBytes < Window \div 2
    /\ Window \div 2 <= DefaultWindow \div 2
    /\ 2 * (Window \div 2) <= Window /\ 2 * (DefaultWindow \div 2) <= DefaultWindow
<1>1. /\ MediaBytes \in Nat \ {0} /\ ControlBytes \in Nat \ {0}
      /\ Window \in Nat /\ DefaultWindow \in Nat /\ CounterMod \in Nat
      /\ Window <= DefaultWindow /\ DefaultWindow < CounterMod
      /\ Window \div 2 >= Cardinality(MediaStreams) * MediaBytes + ControlBytes
  BY BytesAssumption, WindowAssumption
<1>2. Cardinality(MediaStreams) \in Nat \ {0}
  BY MediaAssumption, FS_CardinalityType, FS_EmptySet
<1>3. \A c, b \in Nat \ {0} : c * b >= b
  OBVIOUS
<1>4. Cardinality(MediaStreams) * MediaBytes >= MediaBytes
  BY <1>1, <1>2, <1>3
<1>5. Cardinality(MediaStreams) * MediaBytes \in Nat
  BY <1>1, <1>2
<1>6. /\ Window \div 2 \in Nat /\ DefaultWindow \div 2 \in Nat
      /\ Window \div 2 <= DefaultWindow \div 2
      /\ 2 * (Window \div 2) <= Window /\ 2 * (DefaultWindow \div 2) <= DefaultWindow
  BY <1>1
<1>7. MediaBytes < Window \div 2 /\ ControlBytes < Window \div 2
  BY <1>1, <1>4, <1>5, <1>6
<1> QED
  BY <1>1, <1>6, <1>7

\* A counter wraps around.
LEMMA Wrapping ==
    /\ \A n \in Int : n % CounterMod \in Counters
    /\ \A n \in Counters : n % CounterMod = n
    /\ \A n \in CounterMod..2 * CounterMod - 1 : n % CounterMod = n - CounterMod
    /\ \A n \in -CounterMod..-1 : n % CounterMod = n + CounterMod
<1>1. CounterMod \in Nat \ {0}
  BY Sizes
<1>2. \A n \in Int : n % CounterMod \in Counters
  BY <1>1 DEF Counters
<1>3. \A n \in Counters : n % CounterMod = n
  BY <1>1 DEF Counters
<1>4. \A n \in CounterMod..2 * CounterMod - 1 : n % CounterMod = n - CounterMod
  BY <1>1
<1>5. \A n \in -CounterMod..-1 : n % CounterMod = n + CounterMod
  BY <1>1
<1> QED
  BY <1>2, <1>3, <1>4, <1>5

-----------------------------------------------------------------------------
(* Sequences *)

\* Where an element that is appended goes.
LEMMA AppendPlaces ==
    ASSUME NEW S, NEW q \in Seq(S), NEW x \in S
    PROVE  /\ Append(q, x) \in Seq(S) /\ Len(Append(q, x)) = Len(q) + 1
           /\ Len(q) \in Nat /\ DOMAIN q = 1..Len(q)
           /\ DOMAIN Append(q, x) = 1..Len(q) + 1
           /\ \A i \in 1..Len(q) : Append(q, x)[i] = q[i]
           /\ Append(q, x)[Len(q) + 1] = x
OBVIOUS

\* Where the elements go when the head is taken.
LEMMA TailPlaces ==
    ASSUME NEW S, NEW q \in Seq(S), q # <<>>
    PROVE  /\ Tail(q) \in Seq(S) /\ Len(Tail(q)) = Len(q) - 1
           /\ Len(q) \in Nat \ {0} /\ DOMAIN q = 1..Len(q)
           /\ DOMAIN Tail(q) = 1..Len(q) - 1
           /\ \A i \in 1..Len(q) - 1 : Tail(q)[i] = q[i + 1]
           /\ Head(q) = q[1] /\ Head(q) \in S
OBVIOUS

\* A sequence is its head and its tail.
LEMMA HeadAndTail ==
    ASSUME NEW S, NEW q \in Seq(S), q # <<>>
    PROVE  q = <<Head(q)>> \o Tail(q)
<1>1. /\ Tail(q) \in Seq(S) /\ Len(Tail(q)) = Len(q) - 1 /\ Len(q) \in Nat \ {0}
      /\ \A i \in 1..Len(q) - 1 : Tail(q)[i] = q[i + 1]
      /\ Head(q) = q[1] /\ Head(q) \in S
  BY TailPlaces
<1> DEFINE t == Tail(q)
           h == Head(q)
<1>2. <<h>> \in Seq(S) /\ Len(<<h>>) = 1 /\ <<h>>[1] = h
  BY <1>1
<1> HIDE DEF t, h
<1>3. /\ <<h>> \o t \in Seq(S) /\ Len(<<h>> \o t) = 1 + Len(t)
      /\ \A i \in 1..1 + Len(t) : (<<h>> \o t)[i] = IF i <= 1 THEN <<h>>[i] ELSE t[i - 1]
  BY <1>1, <1>2, ConcatProperties DEF t
<1>4. Len(<<h>> \o t) = Len(q)
  BY <1>1, <1>3 DEF t
<1>5. ASSUME NEW i \in 1..Len(q)
      PROVE  q[i] = (<<h>> \o t)[i]
  <2>1. CASE i = 1
    BY <1>1, <1>2, <1>3, <1>4, <2>1 DEF h
  <2>2. CASE i # 1
    <3>1. i - 1 \in 1..Len(q) - 1 /\ ~(i <= 1) /\ i \in 1..1 + Len(t)
      BY <1>1, <1>3, <1>4, <2>2
    <3>2. t[i - 1] = q[(i - 1) + 1] /\ (i - 1) + 1 = i
      BY <1>1, <3>1 DEF t
    <3> QED
      BY <1>3, <3>1, <3>2
  <2> QED
    BY <2>1, <2>2
<1>6. q = <<h>> \o t
  BY <1>3, <1>4, <1>5, SeqEqual
<1> QED
  BY <1>6 DEF h, t

\* What is appended to the second part is appended to the whole.
LEMMA JoinAppended ==
    ASSUME NEW w \in Seq(Messages), NEW q \in Seq(Messages), NEW m \in Messages
    PROVE  w \o Append(q, m) = Append(w \o q, m)
<1>1. Append(q, m) = q \o <<m>> /\ w \o q \in Seq(Messages) /\ <<m>> \in Seq(Messages)
  BY AppendIsConcat, ConcatProperties
<1>2. Append(w \o q, m) = (w \o q) \o <<m>>
  BY <1>1, AppendIsConcat
<1> QED
  BY <1>1, <1>2, ConcatAssociative

\* What goes from the head of the second part to the end of the first stays in its place.
LEMMA JoinMoved ==
    ASSUME NEW S, NEW w \in Seq(S), NEW q \in Seq(S), q # <<>>
    PROVE  Append(w, Head(q)) \o Tail(q) = w \o q
<1>1. q = <<Head(q)>> \o Tail(q) /\ Head(q) \in S /\ Tail(q) \in Seq(S)
  BY HeadAndTail, TailPlaces
<1>2. <<Head(q)>> \in Seq(S) /\ Append(w, Head(q)) = w \o <<Head(q)>>
  BY <1>1, AppendIsConcat
<1>3. (w \o <<Head(q)>>) \o Tail(q) = w \o (<<Head(q)>> \o Tail(q))
  BY <1>1, <1>2, ConcatAssociative
<1> QED
  BY <1>1, <1>2, <1>3

\* The head of the first part is the head of the whole.
LEMMA JoinTail ==
    ASSUME NEW S, NEW w \in Seq(S), NEW q \in Seq(S), w # <<>>
    PROVE  w \o q = <<Head(w)>> \o (Tail(w) \o q)
<1>1. w = <<Head(w)>> \o Tail(w) /\ Head(w) \in S /\ Tail(w) \in Seq(S)
  BY HeadAndTail, TailPlaces
<1>2. <<Head(w)>> \in Seq(S)
  BY <1>1
<1>3. (<<Head(w)>> \o Tail(w)) \o q = <<Head(w)>> \o (Tail(w) \o q)
  BY <1>1, <1>2, ConcatAssociative
<1> QED
  BY <1>1, <1>3

\* Where the elements of a sequence are behind another one in front.
LEMMA FrontPlaces ==
    ASSUME NEW S, NEW h \in S, NEW t \in Seq(S)
    PROVE  /\ <<h>> \o t \in Seq(S)
           /\ DOMAIN (<<h>> \o t) = 1..Len(t) + 1 /\ DOMAIN t = 1..Len(t) /\ Len(t) \in Nat
           /\ (<<h>> \o t)[1] = h
           /\ \A k \in 1..Len(t) : (<<h>> \o t)[k + 1] = t[k]
<1>1. <<h>> \in Seq(S) /\ Len(<<h>>) = 1 /\ <<h>>[1] = h /\ Len(t) \in Nat
  OBVIOUS
<1> DEFINE s == <<h>> \o t
<1>2. /\ s \in Seq(S) /\ Len(s) = 1 + Len(t)
      /\ \A i \in 1..1 + Len(t) : s[i] = IF i <= 1 THEN <<h>>[i] ELSE t[i - 1]
  BY <1>1, ConcatProperties
<1> HIDE DEF s
<1>3. DOMAIN s = 1..Len(t) + 1 /\ DOMAIN t = 1..Len(t)
  BY <1>1, <1>2
<1>4. s[1] = h
  BY <1>1, <1>2
<1>5. ASSUME NEW k \in 1..Len(t)
      PROVE  s[k + 1] = t[k]
  <2>1. k + 1 \in 1..1 + Len(t) /\ ~(k + 1 <= 1) /\ (k + 1) - 1 = k
    BY <1>1
  <2> QED
    BY <1>2, <2>1
<1> QED
  BY <1>1, <1>2, <1>3, <1>4, <1>5 DEF s

-----------------------------------------------------------------------------
(* Bytes in the transport *)

\* The places of the control messages are places of the sequence.
LEMMA PlacesFinite ==
    ASSUME NEW w \in Seq(Messages)
    PROVE  /\ IsFiniteSet(ControlPlaces(w)) /\ ControlPlaces(w) \subseteq 1..Len(w)
           /\ Cardinality(ControlPlaces(w)) \in 0..Len(w)
<1>1. Len(w) \in Nat /\ ControlPlaces(w) \subseteq 1..Len(w)
  BY DEF ControlPlaces
<1>2. IsFiniteSet(1..Len(w)) /\ Cardinality(1..Len(w)) = Len(w)
  <2>1. IsFiniteSet(1..Len(w))
    BY <1>1, FS_Interval
  <2>2. Cardinality(1..Len(w)) = IF 1 > Len(w) THEN 0 ELSE Len(w) - 1 + 1
    BY <1>1, FS_Interval
  <2> QED
    BY <1>1, <2>1, <2>2
<1>3. /\ IsFiniteSet(ControlPlaces(w))
      /\ Cardinality(ControlPlaces(w)) <= Cardinality(1..Len(w))
  BY <1>1, <1>2, FS_Subset
<1>4. Cardinality(ControlPlaces(w)) \in Nat
  BY <1>3, FS_CardinalityType
<1> QED
  BY <1>1, <1>2, <1>3, <1>4

\* The bytes of a chunk come on top of those in the transport.
LEMMA BytesAppended ==
    ASSUME NEW w \in Seq(Messages), NEW m \in Messages
    PROVE  Bytes(Append(w, m)) = Bytes(w) + Size(m)
<1> DEFINE a == Append(w, m)
           n == Cardinality(ControlPlaces(w))
<1>1. /\ DOMAIN w = 1..Len(w) /\ Len(w) \in Nat /\ Len(a) = Len(w) + 1
      /\ DOMAIN a = 1..Len(w) + 1
      /\ \A i \in 1..Len(w) : a[i] = w[i]
      /\ a[Len(w) + 1] = m
  BY AppendPlaces
<1>2. /\ IsFiniteSet(ControlPlaces(w)) /\ ControlPlaces(w) \subseteq 1..Len(w) /\ n \in Nat
      /\ n <= Len(w)
  BY PlacesFinite
<1>3. MediaBytes \in Nat /\ ControlBytes \in Nat
  BY Sizes
<1>4. /\ \A x, y \in Int : (x + 1) * y = x * y + y
      /\ n * ControlBytes \in Int /\ (Len(w) - n) * MediaBytes \in Int
  BY <1>1, <1>2, <1>3
<1>5. CASE m.cs = Control
  <2>1. ControlPlaces(a) = ControlPlaces(w) \cup {Len(w) + 1} /\ Len(w) + 1 \notin ControlPlaces(w)
    BY <1>1, <1>5 DEF ControlPlaces
  <2>2. Cardinality(ControlPlaces(a)) = n + 1
    BY <1>2, <2>1, FS_AddElement
  <2>3. (n + 1) * ControlBytes = n * ControlBytes + ControlBytes
    BY <1>2, <1>3, <1>4
  <2>4. (Len(w) + 1) - (n + 1) = Len(w) - n
    BY <1>1, <1>2
  <2> HIDE DEF a, n
  <2>5. Bytes(a) = (n + 1) * ControlBytes + (Len(w) - n) * MediaBytes
    BY <1>1, <2>2, <2>4 DEF Bytes
  <2>6. Bytes(w) = n * ControlBytes + (Len(w) - n) * MediaBytes /\ Size(m) = ControlBytes
    BY <1>5 DEF Bytes, Size, n
  <2>7. Bytes(a) = Bytes(w) + Size(m)
    BY <1>3, <1>4, <2>3, <2>5, <2>6
  <2> QED
    BY <2>7 DEF a
<1>6. CASE m.cs # Control
  <2>1. ControlPlaces(a) = ControlPlaces(w)
    BY <1>1, <1>6 DEF ControlPlaces
  <2>2. (Len(w) + 1) - n = (Len(w) - n) + 1 /\ Len(w) - n \in Int
    BY <1>1, <1>2
  <2>3. ((Len(w) - n) + 1) * MediaBytes = (Len(w) - n) * MediaBytes + MediaBytes
    BY <1>3, <1>4, <2>2
  <2> HIDE DEF a, n
  <2>5. Bytes(a) = n * ControlBytes + ((Len(w) - n) + 1) * MediaBytes
    BY <1>1, <2>1, <2>2 DEF Bytes, n
  <2>6. Bytes(w) = n * ControlBytes + (Len(w) - n) * MediaBytes /\ Size(m) = MediaBytes
    BY <1>6 DEF Bytes, Size, n
  <2>7. Bytes(a) = Bytes(w) + Size(m)
    BY <1>3, <1>4, <2>3, <2>5, <2>6
  <2> QED
    BY <2>7 DEF a
<1> QED
  BY <1>5, <1>6

\* And they go when it is read.
LEMMA BytesTaken ==
    ASSUME NEW w \in Seq(Messages), w # <<>>
    PROVE  Bytes(Tail(w)) <= Bytes(w)
<1> DEFINE t == Tail(w)
           P == ControlPlaces(w)
           Q == ControlPlaces(t)
           n == Cardinality(P)
<1>1. /\ t \in Seq(Messages) /\ Len(t) = Len(w) - 1 /\ Len(w) \in Nat \ {0}
      /\ DOMAIN w = 1..Len(w) /\ DOMAIN t = 1..Len(w) - 1
      /\ \A i \in 1..Len(w) - 1 : t[i] = w[i + 1]
  BY TailPlaces
<1>2. /\ IsFiniteSet(P) /\ P \subseteq 1..Len(w) /\ n \in Nat /\ n <= Len(w)
  BY PlacesFinite
<1>3. IsFiniteSet(Q) /\ Q \subseteq 1..Len(w) - 1
  BY <1>1, PlacesFinite
<1>4. \A i \in 1..Len(w) - 1 : i \in Q <=> i + 1 \in P
  BY <1>1 DEF ControlPlaces
<1> HIDE DEF t, P, Q, n
<1>5. Cardinality(Q) = Cardinality(P \ {1})
  <2> DEFINE f == [i \in Q |-> i + 1]
  <2>1. \A i \in Q : i + 1 \in P \ {1} /\ i \in Int
    BY <1>1, <1>3, <1>4
  <2>2. ASSUME NEW k \in P \ {1}
        PROVE  \E i \in Q : f[i] = k
    <3>1. k \in 1..Len(w) /\ k # 1 /\ k \in P
      BY <1>2
    <3>2. k - 1 \in 1..Len(w) - 1 /\ (k - 1) + 1 = k
      BY <1>1, <3>1
    <3>3. k - 1 \in Q
      BY <1>4, <3>1, <3>2
    <3>4. f[k - 1] = k
      BY <3>2, <3>3
    <3> QED
      BY <3>3, <3>4
  <2>3. f \in Bijection(Q, P \ {1})
    <3>1. f \in [Q -> P \ {1}] /\ \A i \in Q : f[i] = i + 1
      BY <2>1
    <3>2. \A i, j \in Q : f[i] = f[j] => i = j
      BY <2>1, <3>1
    <3> HIDE DEF f
    <3> QED
      BY <2>2, <3>1, <3>2 DEF Bijection, Injection, Surjection, IsInjective
  <2>4. ExistsBijection(Q, P \ {1})
    BY <2>3 DEF ExistsBijection
  <2>5. IsFiniteSet(P \ {1})
    BY <1>2, FS_Subset
  <2> QED
    BY <1>3, <2>4, <2>5, FS_Bijection
<1>6. MediaBytes \in Nat /\ ControlBytes \in Nat
  BY Sizes
<1>7. /\ \A x, y \in Int : (x - 1) * y = x * y - y
      /\ n * ControlBytes \in Int /\ (Len(w) - n) * MediaBytes \in Int
      /\ Len(w) - n \in Int
  BY <1>1, <1>2, <1>6
<1>8. Bytes(w) = n * ControlBytes + (Len(w) - n) * MediaBytes
  BY DEF Bytes, n, P
<1>9. CASE 1 \in P
  <2>1. Cardinality(Q) = n - 1
    BY <1>2, <1>5, <1>9, FS_RemoveElement DEF n
  <2>2. (n - 1) * ControlBytes = n * ControlBytes - ControlBytes
    BY <1>2, <1>6, <1>7
  <2>3. (Len(w) - 1) - (n - 1) = Len(w) - n
    BY <1>1, <1>2
  <2>4. Bytes(t) = (n - 1) * ControlBytes + (Len(w) - n) * MediaBytes
    BY <1>1, <2>1, <2>3 DEF Bytes, Q
  <2>5. Bytes(t) <= Bytes(w)
    BY <1>6, <1>7, <1>8, <2>2, <2>4
  <2> QED
    BY <2>5 DEF t
<1>10. CASE 1 \notin P
  <2>1. Cardinality(Q) = n
    <3>1. P \ {1} = P
      BY <1>10
    <3> QED
      BY <1>5, <3>1 DEF n
  <2>2. ((Len(w) - n) - 1) * MediaBytes = (Len(w) - n) * MediaBytes - MediaBytes
    BY <1>6, <1>7
  <2>3. (Len(w) - 1) - n = (Len(w) - n) - 1
    BY <1>1, <1>2
  <2>4. Bytes(t) = n * ControlBytes + ((Len(w) - n) - 1) * MediaBytes
    BY <1>1, <2>1, <2>3 DEF Bytes, Q
  <2>5. Bytes(t) <= Bytes(w)
    BY <1>6, <1>7, <1>8, <2>2, <2>4
  <2> QED
    BY <2>5 DEF t
<1> QED
  BY <1>9, <1>10

-----------------------------------------------------------------------------
(* What an end has told its peer *)

\* Another message at the end changes nothing about the acknowledgements.
LEMMA AppendOther ==
    ASSUME NEW told \in Seq(Messages), NEW m \in Messages, ~IsAck(m), Chained(told)
    PROVE  /\ Chained(Append(told, m))
           /\ \A i \in DOMAIN Append(told, m) : Newest(Append(told, m), i) =>
                 i \in DOMAIN told /\ Newest(told, i) /\ Append(told, m)[i] = told[i]
<1> DEFINE a == Append(told, m)
           n == Len(told)
<1>1. /\ DOMAIN told = 1..n /\ n \in Nat /\ DOMAIN a = 1..n + 1
      /\ \A i \in 1..n : a[i] = told[i]
      /\ a[n + 1] = m
  BY AppendPlaces
<1> HIDE DEF a, n
<1>2. \A i \in 1..n + 1 : IsAck(a[i]) => i \in 1..n
  BY <1>1
<1>3. ASSUME NEW i \in 1..n + 1, NEW j \in 1..n + 1, i < j, IsAck(a[i]), IsAck(a[j]),
             \A k \in 1..n + 1 : i < k /\ k < j => ~IsAck(a[k])
      PROVE  (a[j].seq - a[i].seq) % CounterMod >= Window \div 2
  <2>1. i \in 1..n /\ j \in 1..n
    BY <1>2, <1>3
  <2>2. a[i] = told[i] /\ a[j] = told[j]
    BY <1>1, <2>1
  <2>3. \A k \in 1..n : i < k /\ k < j => ~IsAck(told[k])
    BY <1>1, <1>3
  <2>4. (told[j].seq - told[i].seq) % CounterMod >= Window \div 2
    BY <1>1, <1>3, <2>1, <2>2, <2>3 DEF Chained
  <2> QED
    BY <2>2, <2>4
<1>4. Chained(a)
  BY <1>1, <1>3 DEF Chained
<1>5. ASSUME NEW i \in 1..n + 1, Newest(a, i)
      PROVE  i \in 1..n /\ Newest(told, i) /\ a[i] = told[i]
  <2>1. i \in 1..n /\ a[i] = told[i]
    BY <1>1, <1>2, <1>5 DEF Newest
  <2>2. \A j \in 1..n : i < j => ~IsAck(told[j])
    BY <1>1, <1>5 DEF Newest
  <2> QED
    BY <1>1, <1>5, <2>1, <2>2 DEF Newest
<1> QED
  BY <1>1, <1>4, <1>5 DEF a

\* An acknowledgement at the end is the newest one.
LEMMA AppendAck ==
    ASSUME NEW told \in Seq(Messages), NEW m \in Messages, IsAck(m), Chained(told),
           \A i \in DOMAIN told : Newest(told, i) =>
              (m.seq - told[i].seq) % CounterMod >= Window \div 2
    PROVE  /\ Chained(Append(told, m))
           /\ \A i \in DOMAIN Append(told, m) : Newest(Append(told, m), i) =>
                 Append(told, m)[i] = m
<1> DEFINE a == Append(told, m)
           n == Len(told)
<1>1. /\ DOMAIN told = 1..n /\ n \in Nat /\ DOMAIN a = 1..n + 1
      /\ \A i \in 1..n : a[i] = told[i]
      /\ a[n + 1] = m
  BY AppendPlaces
<1> HIDE DEF a, n
<1>2. ASSUME NEW i \in 1..n + 1, NEW j \in 1..n + 1, i < j, IsAck(a[i]), IsAck(a[j]),
             \A k \in 1..n + 1 : i < k /\ k < j => ~IsAck(a[k])
      PROVE  (a[j].seq - a[i].seq) % CounterMod >= Window \div 2
  <2>1. i \in 1..n /\ a[i] = told[i]
    BY <1>1, <1>2
  <2>2. \A k \in 1..n : i < k /\ k < j => ~IsAck(told[k])
    BY <1>1, <1>2
  <2>3. CASE j = n + 1
    <3>1. \A k \in 1..n : i < k => ~IsAck(told[k])
      BY <1>1, <2>2, <2>3
    <3>2. Newest(told, i)
      BY <1>1, <1>2, <2>1, <3>1 DEF Newest
    <3>3. (m.seq - told[i].seq) % CounterMod >= Window \div 2
      BY <1>1, <2>1, <3>2
    <3> QED
      BY <1>1, <2>1, <2>3, <3>3
  <2>4. CASE j # n + 1
    <3>1. j \in 1..n /\ a[j] = told[j]
      BY <1>1, <2>4
    <3>2. (told[j].seq - told[i].seq) % CounterMod >= Window \div 2
      BY <1>1, <1>2, <2>1, <2>2, <3>1 DEF Chained
    <3> QED
      BY <2>1, <3>1, <3>2
  <2> QED
    BY <2>3, <2>4
<1>3. Chained(a)
  BY <1>1, <1>2 DEF Chained
<1>4. ASSUME NEW i \in 1..n + 1, Newest(a, i)
      PROVE  a[i] = m
  BY <1>1, <1>4 DEF Newest
<1> QED
  BY <1>1, <1>3, <1>4 DEF a

\* What an end has told before the peer's user sees the message c, and afterwards.
Unheard(n, c, r) == <<Ack(n)>> \o (<<c>> \o r)
Heard(n, c, r) == <<Ack(IF IsAck(c) THEN c.seq ELSE n)>> \o r

\* The user's message takes the place of the acknowledgement before it, if it is one.
LEMMA Hearing ==
    ASSUME NEW r \in Seq(Messages), NEW n \in Counters, NEW c \in Messages,
           Chained(Unheard(n, c, r))
    PROVE  /\ Chained(Heard(n, c, r))
           /\ \A i \in DOMAIN Heard(n, c, r) : Newest(Heard(n, c, r), i) =>
                 \E j \in DOMAIN Unheard(n, c, r) :
                    /\ Newest(Unheard(n, c, r), j)
                    /\ Unheard(n, c, r)[j].seq = Heard(n, c, r)[i].seq
           /\ IsAck(c) => (c.seq - n) % CounterMod >= Window \div 2
<1> DEFINE l == Len(r)
           seq == IF IsAck(c) THEN c.seq ELSE n
           old == Unheard(n, c, r)
           new == Heard(n, c, r)
<1>0. old = <<Ack(n)>> \o (<<c>> \o r) /\ new = <<Ack(seq)>> \o r /\ Chained(old)
  BY DEF Unheard, Heard
<1> HIDE DEF old, new
<1>1. seq \in Counters
  BY MessageKinds
<1> HIDE DEF seq
<1>2. /\ Ack(n) \in Messages /\ IsAck(Ack(n)) /\ Ack(n).seq = n
      /\ Ack(seq) \in Messages /\ IsAck(Ack(seq)) /\ Ack(seq).seq = seq
  BY <1>1, SomeMessages
<1>3. /\ l \in Nat /\ DOMAIN r = 1..l /\ DOMAIN new = 1..l + 1
      /\ new[1] = Ack(seq)
      /\ \A k \in 1..l : new[k + 1] = r[k]
  BY <1>0, <1>2, FrontPlaces
<1>4. /\ <<c>> \o r \in Seq(Messages) /\ DOMAIN (<<c>> \o r) = 1..l + 1
      /\ (<<c>> \o r)[1] = c
      /\ \A k \in 1..l : (<<c>> \o r)[k + 1] = r[k]
  BY FrontPlaces
<1>5. /\ DOMAIN old = 1..l + 2
      /\ old[1] = Ack(n) /\ old[2] = c
      /\ \A k \in 1..l : old[k + 2] = r[k]
  <2> DEFINE u == <<c>> \o r
  <2>1. /\ DOMAIN old = 1..Len(u) + 1 /\ DOMAIN u = 1..Len(u) /\ Len(u) \in Nat
        /\ old[1] = Ack(n)
        /\ \A k \in 1..Len(u) : old[k + 1] = u[k]
    BY <1>0, <1>2, <1>4, FrontPlaces
  <2>2. Len(u) = l + 1
    BY <1>3, <1>4, <2>1
  <2>3. old[2] = c
    <3>1. 1 \in 1..Len(u) /\ 1 + 1 = 2
      BY <1>3, <2>2
    <3>2. old[1 + 1] = u[1]
      BY <2>1, <3>1
    <3> QED
      BY <1>4, <3>1, <3>2
  <2>4. ASSUME NEW k \in 1..l
        PROVE  old[k + 2] = r[k]
    <3>1. k + 1 \in 1..Len(u) /\ (k + 1) + 1 = k + 2
      BY <1>3, <2>2
    <3>2. old[(k + 1) + 1] = u[k + 1]
      BY <2>1, <3>1
    <3> QED
      BY <1>4, <3>1, <3>2
  <2> QED
    BY <1>3, <2>1, <2>2, <2>3, <2>4
<1> HIDE DEF l
<1> DEFINE F == IF IsAck(c) THEN 2 ELSE 1
           G(i) == IF i = 1 THEN F ELSE i + 1
<1>6. /\ F \in 1..2 /\ IsAck(old[F]) /\ old[F].seq = seq
      /\ F = 1 => ~IsAck(old[2])
  BY <1>2, <1>5 DEF seq
<1>7. \A i \in 1..l + 1 : i # 1 => i + 1 \in 1..l + 2 /\ old[i + 1] = new[i]
  <2>1. SUFFICES ASSUME NEW i \in 1..l + 1, i # 1
                 PROVE  i + 1 \in 1..l + 2 /\ old[i + 1] = new[i]
    OBVIOUS
  <2>2. i - 1 \in 1..l /\ (i - 1) + 2 = i + 1 /\ (i - 1) + 1 = i /\ i + 1 \in 1..l + 2
    BY <1>3, <2>1
  <2>3. old[(i - 1) + 2] = r[i - 1] /\ new[(i - 1) + 1] = r[i - 1]
    BY <1>3, <1>5, <2>2
  <2> QED
    BY <2>2, <2>3
<1> HIDE DEF F
<1>8. \A i \in 1..l + 1 : /\ G(i) \in 1..l + 2
                          /\ IsAck(new[i]) <=> IsAck(old[G(i)])
                          /\ IsAck(new[i]) => new[i].seq = old[G(i)].seq
  BY <1>2, <1>3, <1>6, <1>7
<1>9. \A i \in 1..l + 1 : \A k \in 1..l + 2 :
         G(i) < k /\ IsAck(old[k]) => k - 1 \in 1..l + 1 /\ i < k - 1 /\ IsAck(new[k - 1])
  <2>1. SUFFICES ASSUME NEW i \in 1..l + 1, NEW k \in 1..l + 2, G(i) < k, IsAck(old[k])
                 PROVE  k - 1 \in 1..l + 1 /\ i < k - 1 /\ IsAck(new[k - 1])
    OBVIOUS
  <2>2. k \in 3..l + 2
    BY <1>3, <1>6, <2>1
  <2>3. k - 1 \in 1..l + 1 /\ k - 1 # 1 /\ (k - 1) + 1 = k
    BY <1>3, <2>2
  <2>4. old[(k - 1) + 1] = new[k - 1]
    BY <1>7, <2>3
  <2>5. i < k - 1
    BY <1>3, <1>6, <2>1, <2>2
  <2> QED
    BY <2>1, <2>3, <2>4, <2>5
<1>10. \A i, j \in 1..l + 1 : i < j => G(i) < G(j) /\ G(j) = j + 1
  BY <1>3, <1>6
<1> HIDE DEF G
<1>11. Chained(new)
  <2>1. ASSUME NEW i \in 1..l + 1, NEW j \in 1..l + 1, i < j,
               IsAck(new[i]), IsAck(new[j]),
               \A k \in 1..l + 1 : i < k /\ k < j => ~IsAck(new[k])
        PROVE  (new[j].seq - new[i].seq) % CounterMod >= Window \div 2
    <3>1. /\ G(i) \in 1..l + 2 /\ G(j) \in 1..l + 2 /\ G(i) < G(j) /\ G(j) = j + 1
          /\ IsAck(old[G(i)]) /\ IsAck(old[G(j)])
          /\ old[G(i)].seq = new[i].seq /\ old[G(j)].seq = new[j].seq
      BY <1>8, <1>10, <2>1
    <3>2. ASSUME NEW k \in 1..l + 2, G(i) < k, k < G(j), IsAck(old[k])
          PROVE  FALSE
      <4>1. k - 1 \in 1..l + 1 /\ i < k - 1 /\ IsAck(new[k - 1])
        BY <1>9, <3>2
      <4>2. k - 1 < j
        BY <3>1, <3>2
      <4> QED
        BY <2>1, <4>1, <4>2
    <3>3. (old[G(j)].seq - old[G(i)].seq) % CounterMod >= Window \div 2
      BY <1>0, <1>5, <3>1, <3>2 DEF Chained
    <3> QED
      BY <3>1, <3>3
  <2>2. DOMAIN new = 1..l + 1
    BY <1>3
  <2> QED
    BY <2>1, <2>2 DEF Chained
<1>12. ASSUME NEW i \in 1..l + 1, Newest(new, i)
       PROVE  \E j \in 1..l + 2 : Newest(old, j) /\ old[j].seq = new[i].seq
  <2>1. G(i) \in 1..l + 2 /\ IsAck(old[G(i)]) /\ old[G(i)].seq = new[i].seq
    BY <1>8, <1>12 DEF Newest
  <2>2. ASSUME NEW k \in 1..l + 2, G(i) < k, IsAck(old[k])
        PROVE  FALSE
    <3>1. k - 1 \in 1..l + 1 /\ i < k - 1 /\ IsAck(new[k - 1])
      BY <1>9, <2>2
    <3> QED
      BY <1>3, <1>12, <3>1 DEF Newest
  <2>3. Newest(old, G(i))
    BY <1>5, <2>1, <2>2 DEF Newest
  <2> QED
    BY <2>1, <2>3
<1>13. IsAck(c) => (c.seq - n) % CounterMod >= Window \div 2
  <2>1. SUFFICES ASSUME IsAck(c)
                 PROVE  (c.seq - n) % CounterMod >= Window \div 2
    OBVIOUS
  <2>2. /\ 1 \in 1..l + 2 /\ 2 \in 1..l + 2 /\ 1 < 2
        /\ \A k \in 1..l + 2 : ~(1 < k /\ k < 2)
    BY <1>3
  <2>3. IsAck(old[1]) /\ IsAck(old[2]) /\ old[1].seq = n /\ old[2].seq = c.seq
    BY <1>2, <1>5, <2>1
  <2>4. (old[2].seq - old[1].seq) % CounterMod >= Window \div 2
    BY <1>0, <1>5, <2>2, <2>3 DEF Chained
  <2> QED
    BY <2>3, <2>4
<1> QED
  BY <1>3, <1>5, <1>11, <1>12, <1>13 DEF old, new

-----------------------------------------------------------------------------
(* What the actions do to what is on its way *)

\* What has become of the last acknowledgement its peer has read.
Front(e) ==
    LET p == Peer(e) IN
    IF pc[p] = "read" THEN <<Ack(acked[p])>> ELSE <<Ack(acked[p]), chunk[p]>>

\* The types of what is on its way.
LEMMA Typed ==
    ASSUME Types, NEW e \in Ends
    PROVE  /\ wire[e] \in Seq(Messages) /\ queue[e] \in Seq(Messages)
           /\ Sent(e) \in Seq(Messages) /\ Front(e) \in Seq(Messages)
           /\ Told(e) = Front(e) \o Sent(e) /\ Told(e) \in Seq(Messages)
<1>1. wire[e] \in Seq(Messages) /\ queue[e] \in Seq(Messages)
  BY DEF Types
<1>2. Sent(e) \in Seq(Messages)
  BY <1>1, ConcatProperties DEF Sent
<1>3. Peer(e) \in Ends
  BY Peers
<1>4. acked[Peer(e)] \in Counters /\ chunk[Peer(e)] \in Messages
  BY <1>3 DEF Types
<1>5. Ack(acked[Peer(e)]) \in Messages
  BY <1>4, SomeMessages
<1>6. \A a, c \in Messages : <<a>> \in Seq(Messages) /\ <<a, c>> \in Seq(Messages)
  OBVIOUS
<1>7. Front(e) \in Seq(Messages)
  BY <1>4, <1>5, <1>6 DEF Front
<1>8. Told(e) = Front(e) \o Sent(e)
  BY DEF Told, Front
<1> QED
  BY <1>1, <1>2, <1>7, <1>8, ConcatProperties

\* The peer's message loop and the messages stay as they are.
LEMMA ToldSame ==
    ASSUME NEW e \in Ends, Sent(e)' = Sent(e), Front(e)' = Front(e)
    PROVE  Told(e)' = Told(e)
<1>1. Told(e) = Front(e) \o Sent(e) /\ Told(e)' = Front(e)' \o Sent(e)'
  BY DEF Told, Front
<1> QED
  BY <1>1

\* The peer's message loop stays as it is, a message is added.
LEMMA ToldMore ==
    ASSUME Types, NEW e \in Ends, NEW m \in Messages,
           Sent(e)' = Append(Sent(e), m), Front(e)' = Front(e)
    PROVE  Told(e)' = Append(Told(e), m)
<1>1. Told(e) = Front(e) \o Sent(e) /\ Told(e)' = Front(e)' \o Sent(e)'
  BY DEF Told, Front
<1>2. Front(e) \in Seq(Messages) /\ Sent(e) \in Seq(Messages)
  BY Typed
<1> QED
  BY <1>1, <1>2, JoinAppended

\* Nothing about an acknowledgement has changed.
LEMMA TellingSame ==
    ASSUME NEW e \in Ends, Told(e)' = Told(e), Telling(e),
           totalReadBytes'[e] = totalReadBytes[e],
           fragmentReadBytes'[e] = fragmentReadBytes[e]
    PROVE  Telling(e)'
<1>1. Chained(Told(e)')
  BY DEF Telling
<1>2. ASSUME NEW i \in DOMAIN Told(e), Newest(Told(e), i)
      PROVE  Behind(e, Told(e)[i].seq)'
  BY <1>2 DEF Telling, Behind
<1> QED
  BY <1>1, <1>2 DEF Telling

\* A message that is no acknowledgement is added.
LEMMA TellingMore ==
    ASSUME Types, NEW e \in Ends, NEW m \in Messages, ~IsAck(m),
           Told(e)' = Append(Told(e), m), Telling(e),
           totalReadBytes'[e] = totalReadBytes[e],
           fragmentReadBytes'[e] = fragmentReadBytes[e]
    PROVE  Telling(e)'
<1> DEFINE told == Told(e)
           new == Append(told, m)
<1>1. told \in Seq(Messages) /\ Chained(told)
  BY Typed DEF Telling
<1>2. /\ Chained(new)
      /\ \A i \in DOMAIN new : Newest(new, i) =>
            i \in DOMAIN told /\ Newest(told, i) /\ new[i] = told[i]
  BY <1>1, AppendOther
<1>3. ASSUME NEW i \in DOMAIN new, Newest(new, i)
      PROVE  \/ totalReadBytes'[e] = new[i].seq + fragmentReadBytes'[e]
             \/ totalReadBytes'[e] = new[i].seq + fragmentReadBytes'[e] - CounterMod
  BY <1>2, <1>3 DEF Telling, Behind
<1>4. Told(e)' = new
  OBVIOUS
<1> HIDE DEF new
<1> QED
  BY <1>2, <1>3, <1>4 DEF Telling, Behind

\* A message in the channel is a message on its way, the newest one.
LEMMA Enqueued ==
    ASSUME Types, NEW x \in Ends, NEW m \in Messages, Once(x), Enqueue(x, m), wire' = wire
    PROVE  /\ queue' \in [Ends -> Seq(Messages)] /\ Once(x)'
           /\ queue'[Peer(x)] = queue[Peer(x)]
           /\ Sent(x)' = Append(Sent(x), m) /\ Sent(Peer(x))' = Sent(Peer(x))
<1>1. Peer(x) \in Ends /\ Peer(x) # x
  BY Peers
<1>2. wire[x] \in Seq(Messages) /\ queue[x] \in Seq(Messages)
  BY Typed
<1>3. queue \in [Ends -> Seq(Messages)] /\ queue' = [queue EXCEPT ![x] = Append(@, m)]
  BY DEF Types, Enqueue
<1>4. Append(queue[x], m) \in Seq(Messages)
  BY <1>2
<1>5. queue' \in [Ends -> Seq(Messages)] /\ queue'[x] = Append(queue[x], m)
      /\ queue'[Peer(x)] = queue[Peer(x)]
  BY <1>1, <1>3, <1>4
<1>6. Once(x)'
  <2> DEFINE a == Append(queue[x], m)
             n == Len(queue[x])
  <2>1. /\ DOMAIN queue[x] = 1..n /\ n \in Nat /\ DOMAIN a = 1..n + 1
        /\ \A i \in 1..n : a[i] = queue[x][i]
        /\ a[n + 1] = m
    BY <1>2, AppendPlaces
  <2>2. \A i \in 1..n : queue[x][i].cs # m.cs
    BY <2>1 DEF Enqueue, Busy
  <2>3. \A i, j \in 1..n : queue[x][i].cs = queue[x][j].cs => i = j
    BY <2>1 DEF Once
  <2> HIDE DEF a, n
  <2>4. \A i, j \in 1..n + 1 : a[i].cs = a[j].cs => i = j
    BY <2>1, <2>2, <2>3
  <2>5. queue'[x] = a
    BY <1>5 DEF a
  <2> QED
    BY <2>1, <2>4, <2>5 DEF Once
<1>7. Sent(x)' = wire[x] \o Append(queue[x], m)
  BY <1>5 DEF Sent
<1>8. Sent(x)' = Append(Sent(x), m)
  <2>1. wire[x] \o Append(queue[x], m) = Append(wire[x] \o queue[x], m)
    BY <1>2, JoinAppended
  <2>2. Sent(x) = wire[x] \o queue[x]
    BY DEF Sent
  <2> QED
    BY <1>7, <2>1, <2>2
<1>9. Sent(Peer(x))' = Sent(Peer(x))
  BY <1>5 DEF Sent
<1> QED
  BY <1>5, <1>6, <1>8, <1>9

\* A chunk goes from the channel to the transport; the rest of its message goes
\* to the end of the channel.
LEMMA Written ==
    ASSUME Types, NEW x \in Ends, Once(x), WriteChunk(x)
    PROVE  /\ queue' \in [Ends -> Seq(Messages)] /\ wire' \in [Ends -> Seq(Messages)]
           /\ Once(x)' /\ Bytes(wire'[x]) <= Capacity
           /\ queue'[Peer(x)] = queue[Peer(x)] /\ wire'[Peer(x)] = wire[Peer(x)]
           /\ Sent(Peer(x))' = Sent(Peer(x))
           /\ \/ Sent(x)' = Sent(x)
              \/ \E r \in Messages : /\ r.kind = "media" /\ Sent(x)' = Append(Sent(x), r)
                                     /\ \E i \in DOMAIN Sent(x) : Sent(x)[i].kind = "media"
<1> DEFINE q == queue[x]
           w == wire[x]
           m == Head(q)
           t == Tail(q)
           r == [m EXCEPT !.left = @ - 1]
<1>1. Peer(x) \in Ends /\ Peer(x) # x
  BY Peers
<1>2. w \in Seq(Messages) /\ q \in Seq(Messages)
  BY Typed
<1>3. q # <<>>
  BY DEF WriteChunk
<1>4. /\ t \in Seq(Messages) /\ Len(t) = Len(q) - 1 /\ Len(q) \in Nat \ {0}
      /\ DOMAIN q = 1..Len(q) /\ DOMAIN t = 1..Len(q) - 1
      /\ \A i \in 1..Len(q) - 1 : t[i] = q[i + 1]
      /\ m = q[1] /\ m \in Messages
  BY <1>2, <1>3, TailPlaces
<1>5. Append(w, m) \in Seq(Messages)
  BY <1>2, <1>4
<1>6. m.left # 1 => r \in Messages /\ r.kind = "media" /\ m.kind = "media" /\ r.cs = m.cs
  BY <1>4, RestOfMessage
<1> DEFINE s == IF m.left = 1 THEN t ELSE Append(t, r)
<1>7. s \in Seq(Messages)
  BY <1>4, <1>6
<1>8. /\ queue' = [queue EXCEPT ![x] = s] /\ wire' = [wire EXCEPT ![x] = Append(w, m)]
      /\ Bytes(w) + Size(m) <= Capacity
  BY DEF WriteChunk
<1> HIDE DEF s
<1>9. /\ queue' \in [Ends -> Seq(Messages)] /\ wire' \in [Ends -> Seq(Messages)]
      /\ queue'[x] = s /\ wire'[x] = Append(w, m)
      /\ queue'[Peer(x)] = queue[Peer(x)] /\ wire'[Peer(x)] = wire[Peer(x)]
  BY <1>1, <1>5, <1>7, <1>8 DEF Types
<1>10. Bytes(wire'[x]) <= Capacity
  <2>1. Bytes(Append(w, m)) = Bytes(w) + Size(m)
    BY <1>2, <1>4, BytesAppended
  <2> QED
    BY <1>8, <1>9, <2>1
<1>11. Once(x)'
  <2> DEFINE n == Len(q)
  <2>1. \A i, j \in 1..n : q[i].cs = q[j].cs => i = j
    BY <1>4 DEF Once
  <2>2. n \in Nat \ {0} /\ \A i \in 1..n - 1 : i + 1 \in 1..n
    BY <1>4
  <2> HIDE DEF q, t, m, n, r
  <2>3. \A i, j \in 1..n - 1 : t[i].cs = t[j].cs => i = j
    BY <1>4, <2>1, <2>2 DEF n
  <2>4. \A i \in 1..n - 1 : t[i].cs # m.cs
    <3>1. \A i \in 1..n - 1 : t[i] = q[i + 1] /\ i + 1 \in 1..n /\ i + 1 # 1
      BY <1>4, <2>2 DEF n
    <3>2. 1 \in 1..n /\ m = q[1]
      BY <1>4, <2>2
    <3> QED
      BY <2>1, <3>1, <3>2
  <2>5. DOMAIN s = DOMAIN queue'[x]
    BY <1>9
  <2>6. CASE m.left = 1
    <3>1. queue'[x] = t
      BY <1>9, <2>6 DEF s
    <3>2. DOMAIN t = 1..n - 1
      BY <1>4 DEF n
    <3> QED
      BY <2>3, <3>1, <3>2 DEF Once
  <2>7. CASE m.left # 1
    <3> DEFINE a == Append(t, r)
    <3>1. queue'[x] = a
      BY <1>9, <2>7 DEF s
    <3>2. r \in Messages /\ r.cs = m.cs
      BY <1>6, <2>7
    <3>3. Len(t) = n - 1 /\ t \in Seq(Messages)
      BY <1>4 DEF n
    <3>4. /\ DOMAIN a = 1..Len(t) + 1
          /\ \A i \in 1..Len(t) : a[i] = t[i]
          /\ a[Len(t) + 1] = r
      BY <3>2, <3>3, AppendPlaces
    <3> HIDE DEF a
    <3>5. DOMAIN a = 1..n /\ \A i \in 1..n : i = n \/ i \in 1..n - 1
      BY <2>2, <3>3, <3>4
    <3>6. a[n] = r /\ \A i \in 1..n - 1 : a[i] = t[i]
      BY <2>2, <3>3, <3>4
    <3>7. \A i, j \in 1..n : a[i].cs = a[j].cs => i = j
      BY <2>3, <2>4, <3>2, <3>5, <3>6
    <3> QED
      BY <3>1, <3>5, <3>7 DEF Once
  <2> QED
    BY <2>6, <2>7
<1>12. Append(w, m) \o t = w \o q
  BY <1>2, <1>3, JoinMoved
<1>13. Sent(x) = w \o q /\ Sent(x)' = Append(w, m) \o s
  BY <1>9 DEF Sent
<1>14. Sent(Peer(x))' = Sent(Peer(x))
  BY <1>9 DEF Sent
<1>15. CASE m.left = 1
  <2>1. s = t
    BY <1>15 DEF s
  <2>2. Sent(x)' = Sent(x)
    BY <1>12, <1>13, <2>1
  <2> QED
    BY <1>9, <1>10, <1>11, <1>14, <2>2
<1>16. CASE m.left # 1
  <2>1. s = Append(t, r) /\ r \in Messages /\ r.kind = "media" /\ m.kind = "media"
    BY <1>6, <1>16 DEF s
  <2>2. Append(w, m) \o Append(t, r) = Append(Append(w, m) \o t, r)
    <3> DEFINE v == Append(w, m)
    <3>1. v \in Seq(Messages) /\ t \in Seq(Messages) /\ r \in Messages
      BY <1>4, <1>5, <2>1
    <3> HIDE DEF v, t, r
    <3>2. v \o Append(t, r) = Append(v \o t, r)
      BY <3>1, JoinAppended
    <3> QED
      BY <3>2 DEF v
  <2>3. Sent(x)' = Append(Sent(x), r)
    BY <1>12, <1>13, <2>1, <2>2
  <2>4. \E i \in DOMAIN Sent(x) : Sent(x)[i].kind = "media"
    <3> DEFINE c == w \o q
    <3>1. /\ c \in Seq(Messages) /\ Len(c) = Len(w) + Len(q)
          /\ \A i \in 1..Len(w) + Len(q) : c[i] = IF i <= Len(w) THEN w[i] ELSE q[i - Len(w)]
      BY <1>2, ConcatProperties
    <3>2. Len(w) \in Nat /\ Len(q) \in Nat \ {0}
      BY <1>2, <1>4
    <3> HIDE DEF c, w, q, m, t, r
    <3>3. Len(w) + 1 \in 1..Len(w) + Len(q) /\ ~(Len(w) + 1 <= Len(w))
          /\ (Len(w) + 1) - Len(w) = 1
      BY <3>2
    <3>4. c[Len(w) + 1] = m
      BY <1>4, <3>1, <3>3
    <3>5. Len(w) + 1 \in DOMAIN c
      BY <3>1, <3>3
    <3> QED
      BY <1>13, <2>1, <3>4, <3>5 DEF c
  <2> HIDE DEF r
  <2> QED
    BY <1>9, <1>10, <1>11, <1>14, <2>1, <2>3, <2>4
<1> QED
  BY <1>15, <1>16

\* A chunk is taken from the front of what is on its way.
LEMMA Taken ==
    ASSUME Types, NEW x \in Ends, Bytes(wire[Peer(x)]) <= Capacity, Take(x)
    PROVE  /\ wire' \in [Ends -> Seq(Messages)] /\ Bytes(wire'[Peer(x)]) <= Capacity
           /\ wire'[x] = wire[x] /\ queue' = queue
           /\ chunk' = [chunk EXCEPT ![x] = chunk'[x]] /\ chunk'[x] \in Messages
           /\ Sent(Peer(x)) = <<chunk'[x]>> \o Sent(Peer(x))'
           /\ Sent(Peer(x))' \in Seq(Messages) /\ Sent(x)' = Sent(x)
           /\ Size(chunk'[x]) \in {MediaBytes, ControlBytes}
           /\ chunk'[x].kind # "media" => Size(chunk'[x]) = ControlBytes
           /\ Count(x, Size(chunk'[x]))
<1> DEFINE p == Peer(x)
           w == wire[p]
           q == queue[p]
<1>1. p \in Ends /\ p # x
  BY Peers
<1>2. w \in Seq(Messages) /\ q \in Seq(Messages)
  BY <1>1, Typed
<1>3. w # <<>>
  BY DEF Take
<1>4. Tail(w) \in Seq(Messages) /\ Head(w) \in Messages
  BY <1>2, <1>3, TailPlaces
<1>5. /\ wire' = [wire EXCEPT ![p] = Tail(w)] /\ chunk' = [chunk EXCEPT ![x] = Head(w)]
      /\ queue' = queue /\ Count(x, Size(Head(w)))
  BY DEF Take
<1>6. /\ wire' \in [Ends -> Seq(Messages)] /\ wire'[p] = Tail(w) /\ wire'[x] = wire[x]
      /\ chunk'[x] = Head(w)
  BY <1>1, <1>4, <1>5 DEF Types
<1>7. Bytes(wire'[p]) <= Capacity
  <2>1. Bytes(Tail(w)) <= Bytes(w)
    BY <1>2, <1>3, BytesTaken
  <2>2. \A v \in Seq(Messages) : Bytes(v) \in Int
    <3>1. ASSUME NEW v \in Seq(Messages)
          PROVE  Bytes(v) \in Int
      <4>1. Cardinality(ControlPlaces(v)) \in Int /\ Len(v) \in Int
        BY PlacesFinite
      <4> QED
        BY <4>1, Sizes DEF Bytes
    <3> QED
      BY <3>1
  <2>3. Bytes(Tail(w)) \in Int /\ Bytes(w) \in Int /\ Bytes(w) <= Capacity
    BY <1>2, <1>4, <2>2
  <2>4. Capacity \in Int
    BY CapacityAssumption
  <2> QED
    BY <1>6, <2>1, <2>3, <2>4
<1>8. w \o q = <<Head(w)>> \o (Tail(w) \o q)
  BY <1>2, <1>3, JoinTail
<1>9. Sent(p) = w \o q /\ Sent(p)' = Tail(w) \o q
  BY <1>5, <1>6 DEF Sent
<1>10. Sent(p)' \in Seq(Messages)
  BY <1>2, <1>4, <1>9, ConcatProperties
<1>11. Sent(x)' = Sent(x)
  BY <1>5, <1>6 DEF Sent
<1>12. Size(Head(w)) \in {MediaBytes, ControlBytes}
  BY DEF Size
<1>13. Head(w).kind # "media" => Size(Head(w)) = ControlBytes
  BY <1>4, MessageKinds DEF Size
<1> HIDE DEF p
<1>14. Sent(p) = <<chunk'[x]>> \o Sent(p)'
  BY <1>6, <1>8, <1>9
<1> QED
  BY <1>4, <1>5, <1>6, <1>7, <1>10, <1>11, <1>12, <1>13, <1>14 DEF p

-----------------------------------------------------------------------------
(* Users and the scheduler keep the invariant *)

\* What concerns one end, and its peer.
LEMMA AtBothEnds ==
    ASSUME IInv, NEW x \in Ends
    PROVE  /\ Types /\ Peer(x) \in Ends /\ Peer(x) # x /\ Peer(Peer(x)) = x
           /\ Once(x) /\ Bytes(wire[x]) <= Capacity
           /\ Early(x) /\ Announcing(x) /\ Fragments(x) /\ Telling(x)
           /\ Once(Peer(x)) /\ Bytes(wire[Peer(x)]) <= Capacity
           /\ Early(Peer(x)) /\ Announcing(Peer(x)) /\ Fragments(Peer(x)) /\ Telling(Peer(x))
<1>1. Peer(x) \in Ends /\ Peer(x) # x /\ Peer(Peer(x)) = x
  BY Peers
<1>2. AtEnd(x) /\ AtEnd(Peer(x)) /\ Types
  BY <1>1 DEF IInv
<1> QED
  BY <1>1, <1>2 DEF AtEnd

\* What the two ends keep, all ends keep.
LEMMA EndsKeep ==
    ASSUME NEW x \in Ends, Types', AtEnd(x)', AtEnd(Peer(x))'
    PROVE  IInv'
<1>1. \A e \in Ends : e = x \/ e = Peer(x)
  BY Peers
<1>2. \A e \in Ends : AtEnd(e)'
  <2>1. ASSUME NEW e \in Ends
        PROVE  AtEnd(e)'
    <3>1. CASE e = x
      BY <3>1
    <3>2. CASE e = Peer(x)
      BY <3>2
    <3> QED
      BY <1>1, <3>1, <3>2
  <2> QED
    BY <2>1
<1> QED
  BY <1>2 DEF IInv

\* What is written changes nothing for the counters, unless it is an acknowledgement.
LEMMA SendersKeep ==
    ASSUME IInv, NEW x \in Ends,
           UNCHANGED <<pc, chunk, totalReadBytes, fragmentReadBytes, ackWindowSize, acked>>,
           Sent(Peer(x))' = Sent(Peer(x)),
           \/ Sent(x)' = Sent(x)
           \/ \E m \in Messages : ~IsAck(m) /\ Sent(x)' = Append(Sent(x), m)
    PROVE  /\ Telling(x)' /\ Fragments(x)' /\ Announcing(x)'
           /\ Telling(Peer(x))' /\ Fragments(Peer(x))'
<1>1. /\ Types /\ Peer(x) \in Ends /\ Peer(Peer(x)) = x
      /\ Announcing(x) /\ Fragments(x) /\ Telling(x)
      /\ Fragments(Peer(x)) /\ Telling(Peer(x))
  BY AtBothEnds
<1>2. \A e \in Ends : Front(e)' = Front(e)
  BY DEF Front
<1>3. Telling(x)'
  <2>1. CASE Sent(x)' = Sent(x)
    <3>1. Told(x)' = Told(x)
      BY <1>2, <2>1, ToldSame
    <3> QED
      BY <1>1, <3>1, TellingSame
  <2>2. CASE \E m \in Messages : ~IsAck(m) /\ Sent(x)' = Append(Sent(x), m)
    <3>1. PICK m \in Messages : ~IsAck(m) /\ Sent(x)' = Append(Sent(x), m)
      BY <2>2
    <3>2. Told(x)' = Append(Told(x), m)
      BY <1>1, <1>2, <3>1, ToldMore
    <3> QED
      BY <1>1, <3>1, <3>2, TellingMore
  <2> QED
    BY <2>1, <2>2
<1>4. Telling(Peer(x))'
  <2>1. Told(Peer(x))' = Told(Peer(x))
    BY <1>1, <1>2, ToldSame
  <2> QED
    BY <1>1, <2>1, TellingSame
<1>5. Fragments(x)' /\ Fragments(Peer(x))'
  BY <1>1 DEF Fragments
<1>6. Announcing(x)'
  BY <1>1 DEF Announcing
<1> QED
  BY <1>3, <1>4, <1>5, <1>6

\* The windows announced are only those of messages that say so.
LEMMA AnnouncingMore ==
    ASSUME Types, NEW x \in Ends, Announcing(Peer(x)),
           UNCHANGED <<pc, chunk, fragmentReadBytes>>,
           \/ Sent(x)' = Sent(x)
           \/ \E m \in Messages : m.kind # "window" /\ Sent(x)' = Append(Sent(x), m)
    PROVE  Announcing(Peer(x))'
<1> DEFINE s == Sent(x)
<1>1. Peer(Peer(x)) = x /\ s \in Seq(Messages)
  BY Peers, Typed
<1>2. CASE Sent(x)' = Sent(x)
  BY <1>1, <1>2 DEF Announcing
<1>3. CASE \E m \in Messages : m.kind # "window" /\ Sent(x)' = Append(Sent(x), m)
  <2>1. PICK m \in Messages : m.kind # "window" /\ Sent(x)' = Append(s, m)
    BY <1>3
  <2>2. /\ DOMAIN Append(s, m) = 1..Len(s) + 1 /\ DOMAIN s = 1..Len(s) /\ Len(s) \in Nat
        /\ \A i \in 1..Len(s) : Append(s, m)[i] = s[i]
        /\ Append(s, m)[Len(s) + 1] = m
    BY <1>1, AppendPlaces
  <2> DEFINE a == Append(s, m)
  <2>3. Sent(x)' = a /\ Sent(x) = s
    BY <2>1
  <2> HIDE DEF s, a
  <2>4. ASSUME NEW i \in DOMAIN a, a[i].kind = "window"
        PROVE  i = 1 /\ fragmentReadBytes'[Peer(x)] = 0
    <3>1. i \in 1..Len(s) /\ s[i].kind = "window"
      BY <2>1, <2>2, <2>4 DEF a
    <3> QED
      BY <1>1, <2>2, <2>3, <3>1 DEF Announcing
  <2> QED
    BY <1>1, <2>3, <2>4 DEF Announcing
<1> QED
  BY <1>2, <1>3

\* The server's WinAckSize is the first message of its direction.
LEMMA AnnounceStep ==
    ASSUME IInv, NEW x \in Ends, Announce(x)
    PROVE  IInv'
<1> DEFINE p == Peer(x)
<1>1. /\ Types /\ p \in Ends /\ p # x /\ Peer(p) = x /\ Once(x) /\ Once(p)
      /\ Bytes(wire[x]) <= Capacity /\ Bytes(wire[p]) <= Capacity
      /\ Early(x) /\ Early(p) /\ Announcing(p)
  BY AtBothEnds
<1>2. /\ x \notin announced /\ \A e \in Ends : written[e] = 0
      /\ Enqueue(x, WinAckSize) /\ announced' = announced \cup {x}
      /\ wire' = wire /\ written' = written
      /\ UNCHANGED <<pc, chunk, totalReadBytes, fragmentReadBytes, ackWindowSize, acked>>
  BY DEF Announce
<1>3. WinAckSize \in Messages /\ WinAckSize.kind = "window" /\ ~IsAck(WinAckSize)
  BY SomeMessages DEF IsAck
<1>4. /\ queue' \in [Ends -> Seq(Messages)] /\ Once(x)' /\ queue'[p] = queue[p]
      /\ Sent(x)' = Append(Sent(x), WinAckSize) /\ Sent(p)' = Sent(p)
  BY <1>1, <1>2, <1>3, Enqueued
<1>5. Types'
  BY <1>1, <1>2, <1>4 DEF Types
<1>6. /\ Telling(x)' /\ Fragments(x)' /\ Announcing(x)' /\ Telling(p)' /\ Fragments(p)'
  BY <1>2, <1>3, <1>4, SendersKeep
<1>7. Sent(x) = <<>> /\ fragmentReadBytes[p] = 0 /\ pc[p] \in {"read", "handle"}
  BY <1>1, <1>2 DEF Early
<1>8. Sent(x)' = <<WinAckSize>>
  <2>1. Append(<<>>, WinAckSize) = <<WinAckSize>>
    OBVIOUS
  <2> QED
    BY <1>4, <1>7, <2>1
<1> HIDE DEF p
<1>9. Early(p)'
  BY <1>1, <1>2, <1>7, <1>8 DEF Early
<1>10. Early(x)'
  BY <1>1, <1>2, <1>4 DEF Early, p
<1>11. Announcing(p)'
  <2>1. \A i \in DOMAIN <<WinAckSize>> : i = 1
    OBVIOUS
  <2> QED
    BY <1>1, <1>2, <1>7, <1>8, <2>1 DEF Announcing
<1>12. Once(p)' /\ Bytes(wire'[x]) <= Capacity /\ Bytes(wire'[p]) <= Capacity
  BY <1>1, <1>2, <1>4 DEF Once
<1>13. AtEnd(x)' /\ AtEnd(p)'
  BY <1>4, <1>6, <1>9, <1>10, <1>11, <1>12 DEF AtEnd
<1> QED
  BY <1>5, <1>13, EndsKeep DEF p

\* A message of a user goes to the end of what is on its way.
LEMMA WriteStep ==
    ASSUME IInv, NEW x \in Ends, NEW cs \in MediaStreams, Write(x, cs)
    PROVE  IInv'
<1> DEFINE p == Peer(x)
<1>1. /\ Types /\ p \in Ends /\ p # x /\ Peer(p) = x /\ Once(x) /\ Once(p)
      /\ Bytes(wire[x]) <= Capacity /\ Bytes(wire[p]) <= Capacity /\ Announcing(p)
  BY AtBothEnds
<1>2. /\ written[x] < MaxMessages /\ written' = [written EXCEPT ![x] = @ + 1]
      /\ wire' = wire /\ announced' = announced
      /\ UNCHANGED <<pc, chunk, totalReadBytes, fragmentReadBytes, ackWindowSize, acked>>
  BY DEF Write
<1>3. PICK n \in 1..MaxChunks : Enqueue(x, Media(cs, n))
  BY DEF Write
<1>4. PICK m \in Messages : m = Media(cs, n) /\ m.kind = "media"
  BY SomeMessages
<1>5. /\ queue' \in [Ends -> Seq(Messages)] /\ Once(x)' /\ queue'[p] = queue[p]
      /\ Sent(x)' = Append(Sent(x), m) /\ Sent(p)' = Sent(p)
  BY <1>1, <1>2, <1>3, <1>4, Enqueued
<1>6. written[x] \in 0..MaxMessages /\ MaxMessages \in Nat
  BY <1>1, BytesAssumption DEF Types
<1>7. written[x] + 1 \in 0..MaxMessages /\ written[x] + 1 # 0
  BY <1>2, <1>6
<1>8. written' \in [Ends -> 0..MaxMessages] /\ written'[x] # 0
  BY <1>1, <1>2, <1>7 DEF Types
<1>9. Types'
  BY <1>1, <1>2, <1>5, <1>8 DEF Types
<1>10. ~IsAck(m) /\ m.kind # "window"
  BY <1>4 DEF IsAck
<1>11. /\ Telling(x)' /\ Fragments(x)' /\ Announcing(x)' /\ Telling(p)' /\ Fragments(p)'
  BY <1>2, <1>5, <1>10, SendersKeep
<1>12. Announcing(p)'
  BY <1>1, <1>2, <1>5, <1>10, AnnouncingMore
<1>13. Early(x)' /\ Early(p)'
  BY <1>8 DEF Early
<1>14. Once(p)' /\ Bytes(wire'[x]) <= Capacity /\ Bytes(wire'[p]) <= Capacity
  BY <1>1, <1>2, <1>5 DEF Once
<1>15. AtEnd(x)' /\ AtEnd(p)'
  BY <1>5, <1>11, <1>12, <1>13, <1>14 DEF AtEnd
<1> QED
  BY <1>9, <1>15, EndsKeep

\* The scheduler adds the rest of a message, if there is one.
LEMMA WriteChunkStep ==
    ASSUME IInv, NEW x \in Ends, WriteChunk(x)
    PROVE  IInv'
<1> DEFINE p == Peer(x)
<1>1. /\ Types /\ p \in Ends /\ p # x /\ Peer(p) = x /\ Once(x) /\ Once(p)
      /\ Bytes(wire[p]) <= Capacity
      /\ Early(x) /\ Early(p) /\ Announcing(p)
  BY AtBothEnds
<1>2. /\ written' = written /\ announced' = announced
      /\ UNCHANGED <<pc, chunk, totalReadBytes, fragmentReadBytes, ackWindowSize, acked>>
  BY DEF WriteChunk
<1>3. /\ queue' \in [Ends -> Seq(Messages)] /\ wire' \in [Ends -> Seq(Messages)]
      /\ Once(x)' /\ Bytes(wire'[x]) <= Capacity
      /\ queue'[p] = queue[p] /\ wire'[p] = wire[p] /\ Sent(p)' = Sent(p)
      /\ \/ Sent(x)' = Sent(x)
         \/ \E r \in Messages : /\ r.kind = "media" /\ Sent(x)' = Append(Sent(x), r)
                                /\ \E i \in DOMAIN Sent(x) : Sent(x)[i].kind = "media"
  BY <1>1, Written
<1>4. \/ Sent(x)' = Sent(x)
      \/ \E m \in Messages : /\ ~IsAck(m) /\ m.kind # "window"
                             /\ Sent(x)' = Append(Sent(x), m)
  BY <1>3 DEF IsAck
<1>5. Types'
  BY <1>1, <1>2, <1>3 DEF Types
<1>6. /\ Telling(x)' /\ Fragments(x)' /\ Announcing(x)' /\ Telling(p)' /\ Fragments(p)'
  BY <1>2, <1>3, <1>4, SendersKeep
<1>7. Announcing(p)'
  BY <1>1, <1>2, <1>4, AnnouncingMore
<1>8. Early(x)'
  BY <1>1, <1>2, <1>3 DEF Early
<1>9. Early(p)'
  <2>1. CASE Sent(x)' = Sent(x)
    BY <1>1, <1>2, <2>1 DEF Early
  <2>2. CASE \E i \in DOMAIN Sent(x) : Sent(x)[i].kind = "media"
    <3>1. Sent(x) # <<>> /\ Sent(x) # <<WinAckSize>>
      <4>1. WinAckSize.kind = "window"
        BY SomeMessages
      <4>2. \A i \in DOMAIN <<WinAckSize>> : <<WinAckSize>>[i] = WinAckSize
        OBVIOUS
      <4>3. DOMAIN <<>> = {}
        OBVIOUS
      <4>4. PICK i \in DOMAIN Sent(x) : Sent(x)[i].kind = "media"
        BY <2>2
      <4>5. Sent(x) # <<>>
        BY <4>3, <4>4
      <4>6. Sent(x) # <<WinAckSize>>
        BY <4>1, <4>2, <4>4
      <4> QED
        BY <4>5, <4>6
    <3>2. ~\A e \in Ends : written[e] = 0
      BY <1>1, <3>1 DEF Early
    <3> QED
      BY <1>2, <3>2 DEF Early
  <2> QED
    BY <1>3, <2>1, <2>2
<1>10. Once(p)' /\ Bytes(wire'[p]) <= Capacity
  BY <1>1, <1>3 DEF Once
<1>11. AtEnd(x)' /\ AtEnd(p)'
  BY <1>3, <1>6, <1>7, <1>8, <1>9, <1>10 DEF AtEnd
<1> QED
  BY <1>5, <1>11, EndsKeep

-----------------------------------------------------------------------------
(* The message loop keeps the invariant *)

\* Two messages in front.
LEMMA TwoInFront ==
    ASSUME NEW a \in Messages, NEW c \in Messages, NEW s \in Seq(Messages)
    PROVE  <<a, c>> \o s = <<a>> \o (<<c>> \o s)
<1>1. <<a>> \in Seq(Messages) /\ <<c>> \in Seq(Messages)
  OBVIOUS
<1>2. <<a>> \o <<c>> = <<a, c>>
  <2>1. Append(<<a>>, c) = <<a>> \o <<c>>
    BY <1>1, AppendIsConcat
  <2> DEFINE u == <<a>>
             v == Append(u, c)
             t == <<a, c>>
  <2>2. u \in Seq(Messages) /\ Len(u) = 1 /\ u[1] = a
    OBVIOUS
  <2>3. t \in Seq(Messages) /\ Len(t) = 2 /\ t[1] = a /\ t[2] = c
    OBVIOUS
  <2> HIDE DEF u, t
  <2>4. v \in Seq(Messages) /\ Len(v) = 2 /\ v[1] = a /\ v[2] = c
    <3>1. u \in Seq(Messages) /\ c \in Messages
      BY <2>2
    <3>3. /\ Append(u, c) \in Seq(Messages) /\ Len(Append(u, c)) = Len(u) + 1
          /\ \A i \in 1..Len(u) : Append(u, c)[i] = u[i]
          /\ Append(u, c)[Len(u) + 1] = c
      BY <3>1, AppendPlaces
    <3> HIDE DEF v
    <3>2. 1 \in 1..1 /\ 1 + 1 = 2
      OBVIOUS
    <3> QED
      BY <2>2, <3>2, <3>3 DEF v
  <2> HIDE DEF v
  <2>5. \A i \in 1..2 : v[i] = t[i]
    BY <2>3, <2>4
  <2>6. v = t
    BY <2>3, <2>4, <2>5, SeqEqual
  <2> QED
    BY <2>1, <2>6 DEF u, v, t
<1>3. (<<a>> \o <<c>>) \o s = <<a>> \o (<<c>> \o s)
  BY <1>1, ConcatAssociative
<1> QED
  BY <1>2, <1>3

\* A newest acknowledgement carries a counter.
LEMMA NewestCounts ==
    ASSUME Types, NEW e \in Ends, NEW i \in DOMAIN Told(e), Newest(Told(e), i)
    PROVE  Told(e)[i].seq \in Counters
<1>1. Told(e) \in Seq(Messages)
  BY Typed
<1>2. Told(e)[i] \in Messages
  BY <1>1
<1>3. IsAck(Told(e)[i])
  BY DEF Newest
<1> QED
  BY <1>2, <1>3, MessageKinds

\* What is not yet acknowledged is the distance of the counters.
LEMMA Distance ==
    ASSUME Types, NEW e \in Ends, NEW s \in Counters, Behind(e, s)
    PROVE  (totalReadBytes[e] - s) % CounterMod = fragmentReadBytes[e]
<1> DEFINE t == totalReadBytes[e]
           f == fragmentReadBytes[e]
<1>1. t \in Counters /\ f \in Counters
  BY DEF Types
<1>2. t = s + f \/ t = s + f - CounterMod
  BY DEF Behind
<1>3. CounterMod \in Nat \ {0}
  BY Sizes
<1> HIDE DEF t, f
<1>4. CASE t = s + f
  <2>1. t - s = f
    BY <1>1, <1>4 DEF Counters
  <2> QED
    BY <1>1, <2>1, Wrapping DEF t, f
<1>5. CASE t = s + f - CounterMod
  <2>1. t - s = f - CounterMod /\ f - CounterMod \in -CounterMod..-1
    BY <1>1, <1>3, <1>5 DEF Counters
  <2>2. (f - CounterMod) % CounterMod = (f - CounterMod) + CounterMod
    BY <2>1, Wrapping
  <2>3. (f - CounterMod) + CounterMod = f
    BY <1>1, <1>3 DEF Counters
  <2> QED
    BY <2>1, <2>2, <2>3 DEF t, f
<1> QED
  BY <1>2, <1>4, <1>5

\* Both counters grow by the bytes of a chunk, whether or not one wraps around.
LEMMA TellingCount ==
    ASSUME Types, NEW e \in Ends, NEW n \in Nat, n < CounterMod,
           Told(e)' = Told(e), Telling(e),
           fragmentReadBytes[e] + n < CounterMod,
           fragmentReadBytes'[e] = fragmentReadBytes[e] + n,
           totalReadBytes'[e] = (totalReadBytes[e] + n) % CounterMod
    PROVE  Telling(e)'
<1> DEFINE t == totalReadBytes[e]
           f == fragmentReadBytes[e]
           tt == totalReadBytes'[e]
<1>1. t \in Counters /\ f \in Counters
  BY DEF Types
<1>2. CounterMod \in Nat \ {0}
  BY Sizes
<1>3. tt = t + n \/ (tt = t + n - CounterMod /\ t + n >= CounterMod)
  <2> DEFINE k == t + n
  <2>1. k \in Counters \/ k \in CounterMod..2 * CounterMod - 1
    BY <1>1, <1>2 DEF Counters
  <2>2. tt = k % CounterMod
    OBVIOUS
  <2> HIDE DEF k, tt
  <2>3. k \in Counters => tt = k
    BY <2>2, Wrapping
  <2>4. k \in CounterMod..2 * CounterMod - 1 => tt = k - CounterMod /\ k >= CounterMod
    <3>1. SUFFICES ASSUME k \in CounterMod..2 * CounterMod - 1
                   PROVE  tt = k - CounterMod /\ k >= CounterMod
      OBVIOUS
    <3>2. k % CounterMod = k - CounterMod
      BY <3>1, Wrapping
    <3> QED
      BY <2>2, <3>1, <3>2
  <2>5. tt = k \/ (tt = k - CounterMod /\ k >= CounterMod)
    BY <2>1, <2>3, <2>4
  <2> QED
    BY <1>1, <1>2, <2>5 DEF k, Counters
<1>4. ASSUME NEW i \in DOMAIN Told(e), Newest(Told(e), i)
      PROVE  Behind(e, Told(e)[i].seq)'
  <2> DEFINE s == Told(e)[i].seq
  <2>1. s \in Counters
    BY <1>4, NewestCounts
  <2>2. t = s + f \/ t = s + f - CounterMod
    BY <1>4 DEF Telling, Behind
  <2>3. f + n < CounterMod
    OBVIOUS
  <2> HIDE DEF t, f, tt, s
  <2>4. tt = s + (f + n) \/ tt = s + (f + n) - CounterMod
    BY <1>1, <1>2, <1>3, <2>1, <2>2, <2>3 DEF Counters
  <2>5. Told(e)'[i].seq = s /\ fragmentReadBytes'[e] = f + n
    BY DEF s, f
  <2> QED
    BY <2>4, <2>5 DEF Behind, tt, s
<1>5. Chained(Told(e)')
  BY DEF Telling
<1> QED
  BY <1>4, <1>5 DEF Telling

\* An acknowledgement is written: nothing is left to acknowledge.
LEMMA TellingAck ==
    ASSUME Types, NEW e \in Ends, Telling(e),
           Told(e)' = Append(Told(e), Ack(totalReadBytes[e])),
           fragmentReadBytes[e] >= Window \div 2,
           totalReadBytes'[e] = totalReadBytes[e], fragmentReadBytes'[e] = 0
    PROVE  Telling(e)'
<1> DEFINE told == Told(e)
           m == Ack(totalReadBytes[e])
           new == Append(told, m)
<1>1. told \in Seq(Messages) /\ Chained(told)
  BY Typed DEF Telling
<1>2. totalReadBytes[e] \in Counters
  BY DEF Types
<1>3. m \in Messages /\ IsAck(m) /\ m.seq = totalReadBytes[e]
  BY <1>2, SomeMessages
<1>4. ASSUME NEW i \in DOMAIN told, Newest(told, i)
      PROVE  (m.seq - told[i].seq) % CounterMod >= Window \div 2
  <2>1. told[i].seq \in Counters
    BY <1>4, NewestCounts
  <2>2. Behind(e, told[i].seq)
    BY <1>4 DEF Telling
  <2>3. (totalReadBytes[e] - told[i].seq) % CounterMod = fragmentReadBytes[e]
    BY <2>1, <2>2, Distance
  <2> QED
    BY <1>3, <2>3
<1> HIDE DEF m, told
<1>5. /\ Chained(new)
      /\ \A i \in DOMAIN new : Newest(new, i) => new[i] = m
  BY <1>1, <1>3, <1>4, AppendAck
<1>6. Told(e)' = new
  BY DEF told, m
<1>7. ASSUME NEW i \in DOMAIN new, Newest(new, i)
      PROVE  totalReadBytes'[e] = new[i].seq + fragmentReadBytes'[e]
  <2>1. new[i].seq = totalReadBytes[e]
    BY <1>3, <1>5, <1>7
  <2> QED
    BY <1>2, <2>1 DEF Counters
<1> HIDE DEF new
<1> QED
  BY <1>5, <1>6, <1>7 DEF Telling, Behind

\* What has come in and not been handled is still in front of what is on its way.
LEMMA ToldTaken ==
    ASSUME Types, NEW x \in Ends, pc[x] = "read", pc'[x] # "read", acked' = acked,
           chunk'[x] \in Messages, Sent(Peer(x)) = <<chunk'[x]>> \o Sent(Peer(x))',
           Sent(Peer(x))' \in Seq(Messages)
    PROVE  Told(Peer(x))' = Told(Peer(x))
<1> DEFINE p == Peer(x)
           a == Ack(acked[x])
           c == chunk'[x]
           s == Sent(p)'
<1>1. p \in Ends /\ Peer(p) = x
  BY Peers
<1>2. acked[x] \in Counters
  BY DEF Types
<1>3. a \in Messages /\ c \in Messages /\ s \in Seq(Messages)
  BY <1>2, SomeMessages
<1> HIDE DEF p
<1>4. Told(p) = <<a>> \o Sent(p)
  BY <1>1 DEF Told
<1>5. Told(p)' = <<a, c>> \o s
  BY <1>1 DEF Told
<1>6. Sent(p) = <<c>> \o s
  BY DEF p
<1> HIDE DEF a, c, s
<1>7. <<a, c>> \o s = <<a>> \o (<<c>> \o s)
  BY <1>3, TwoInFront
<1>8. Told(p)' = Told(p)
  BY <1>4, <1>5, <1>6, <1>7
<1> QED
  BY <1>8 DEF p

\* A chunk is read: its bytes are counted, and half a window is to be acknowledged.
LEMMA ReadChunkStep ==
    ASSUME IInv, NEW x \in Ends, ReadChunk(x)
    PROVE  IInv'
<1> DEFINE p == Peer(x)
           c == chunk'[x]
           n == Size(c)
           f == fragmentReadBytes[x]
           w == ackWindowSize[x]
<1>1. /\ Types /\ p \in Ends /\ p # x /\ Peer(p) = x /\ Once(x) /\ Once(p)
      /\ Bytes(wire[x]) <= Capacity /\ Bytes(wire[p]) <= Capacity
      /\ Early(x) /\ Early(p) /\ Announcing(x) /\ Announcing(p)
      /\ Fragments(x) /\ Fragments(p) /\ Telling(x) /\ Telling(p)
  BY AtBothEnds
<1>2. /\ Take(x) /\ pc[x] = "read"
      /\ pc' = [pc EXCEPT ![x] = IF fragmentReadBytes'[x] >= ackWindowSize[x] \div 2
                                 THEN "ack" ELSE "handle"]
      /\ UNCHANGED <<queue, ackWindowSize, announced, written, acked>>
  BY DEF ReadChunk, Take
<1>3. /\ wire' \in [Ends -> Seq(Messages)] /\ Bytes(wire'[p]) <= Capacity
      /\ wire'[x] = wire[x] /\ queue' = queue
      /\ chunk' = [chunk EXCEPT ![x] = c] /\ c \in Messages
      /\ Sent(p) = <<c>> \o Sent(p)'
      /\ Sent(p)' \in Seq(Messages) /\ Sent(x)' = Sent(x)
      /\ n \in {MediaBytes, ControlBytes}
      /\ c.kind # "media" => n = ControlBytes
      /\ Count(x, n)
  BY <1>1, <1>2, Taken
<1> HIDE DEF p, c, n
<1>4. /\ totalReadBytes' = [totalReadBytes EXCEPT ![x] = (@ + n) % CounterMod]
      /\ fragmentReadBytes' = [fragmentReadBytes EXCEPT ![x] = (@ + n) % CounterMod]
  BY <1>3 DEF Count
<1>5. /\ n \in Nat \ {0} /\ n < Window \div 2 /\ Window \in Nat /\ DefaultWindow \in Nat
      /\ Window \div 2 \in Nat /\ DefaultWindow \div 2 \in Nat
      /\ Window \div 2 <= DefaultWindow \div 2
      /\ Window <= DefaultWindow /\ DefaultWindow < CounterMod /\ CounterMod \in Nat \ {0}
      /\ 2 * (Window \div 2) <= Window /\ 2 * (DefaultWindow \div 2) <= DefaultWindow
  BY <1>3, Sizes
<1>6. f \in Counters /\ totalReadBytes[x] \in Counters /\ w \in {DefaultWindow, Window}
  BY <1>1 DEF Types
<1>7. f < w \div 2
  BY <1>1, <1>2 DEF Fragments
<1> HIDE DEF f, w
<1>8. f + n \in Counters /\ f + n < w /\ f \in Nat
  <2>1. w \div 2 \in Nat /\ Window \div 2 <= w \div 2 /\ 2 * (w \div 2) <= w /\ w <= DefaultWindow
        /\ w \in Nat
    BY <1>5, <1>6
  <2> DEFINE h == w \div 2
             k == Window \div 2
  <2>2. f < h /\ n < k /\ k <= h /\ 2 * h <= w /\ h \in Nat /\ k \in Nat
    BY <1>5, <1>7, <2>1
  <2> HIDE DEF h, k
  <2>3. f \in Nat
    BY <1>6 DEF Counters
  <2>4. f + n < w
    BY <1>5, <2>1, <2>2, <2>3
  <2> QED
    BY <1>5, <2>1, <2>3, <2>4 DEF Counters
<1>9. /\ fragmentReadBytes'[x] = f + n
      /\ totalReadBytes'[x] = (totalReadBytes[x] + n) % CounterMod
      /\ fragmentReadBytes' \in [Ends -> Counters] /\ totalReadBytes' \in [Ends -> Counters]
      /\ fragmentReadBytes'[p] = fragmentReadBytes[p] /\ totalReadBytes'[p] = totalReadBytes[p]
  <2>1. (f + n) % CounterMod = f + n
    BY <1>8, Wrapping
  <2>2. totalReadBytes[x] + n \in Int
    BY <1>5, <1>6 DEF Counters
  <2>3. (totalReadBytes[x] + n) % CounterMod \in Counters
    BY <2>2, Wrapping
  <2>4. totalReadBytes \in [Ends -> Counters] /\ fragmentReadBytes \in [Ends -> Counters]
    BY <1>1 DEF Types
  <2>5. /\ fragmentReadBytes' = [fragmentReadBytes EXCEPT ![x] = f + n]
        /\ f + n \in Counters
    BY <1>4, <1>8, <2>1 DEF f
  <2> DEFINE tt == (totalReadBytes[x] + n) % CounterMod
  <2>6. totalReadBytes' = [totalReadBytes EXCEPT ![x] = tt] /\ tt \in Counters
    BY <1>4, <2>3
  <2> HIDE DEF tt
  <2>7. /\ totalReadBytes'[x] = tt /\ totalReadBytes'[p] = totalReadBytes[p]
        /\ totalReadBytes' \in [Ends -> Counters]
    BY <1>1, <2>4, <2>6
  <2>8. /\ fragmentReadBytes'[x] = f + n /\ fragmentReadBytes'[p] = fragmentReadBytes[p]
        /\ fragmentReadBytes' \in [Ends -> Counters]
    BY <1>1, <2>4, <2>5
  <2> QED
    BY <2>7, <2>8 DEF tt
<1>10. /\ pc'[p] = pc[p] /\ chunk'[p] = chunk[p] /\ pc'[x] \in {"ack", "handle"}
       /\ pc'[x] = "ack" <=> f + n >= w \div 2
       /\ pc' \in [Ends -> {"read", "ack", "handle", "ended"}]
       /\ chunk' \in [Ends -> Messages]
  <2>1. pc \in [Ends -> {"read", "ack", "handle", "ended"}] /\ chunk \in [Ends -> Messages]
    BY <1>1 DEF Types
  <2>2. pc' = [pc EXCEPT ![x] = IF f + n >= w \div 2 THEN "ack" ELSE "handle"]
    BY <1>2, <1>9 DEF w
  <2>3. pc'[x] = IF f + n >= w \div 2 THEN "ack" ELSE "handle"
    BY <2>1, <2>2
  <2>4. pc' \in [Ends -> {"read", "ack", "handle", "ended"}] /\ pc'[p] = pc[p]
    BY <1>1, <2>1, <2>2
  <2>5. chunk' \in [Ends -> Messages] /\ chunk'[p] = chunk[p]
    BY <1>1, <1>3, <2>1
  <2> QED
    BY <2>3, <2>4, <2>5
<1>11. Types'
  BY <1>1, <1>2, <1>3, <1>9, <1>10 DEF Types
<1>12. Telling(x)'
  <2>1. Front(x)' = Front(x)
    BY <1>2, <1>10 DEF Front, p
  <2>2. Told(x)' = Told(x)
    BY <1>3, <2>1, ToldSame
  <2>3. n \in Nat /\ n < CounterMod /\ fragmentReadBytes[x] + n < CounterMod
    BY <1>5, <1>6, <1>8 DEF f, Counters
  <2>4. fragmentReadBytes'[x] = fragmentReadBytes[x] + n
    BY <1>9 DEF f
  <2> QED
    BY <1>1, <1>9, <2>2, <2>3, <2>4, TellingCount
<1>13. Telling(p)'
  <2>1. pc'[x] # "read" /\ acked' = acked /\ chunk'[x] \in Messages
        /\ Sent(p) = <<chunk'[x]>> \o Sent(p)'
    BY <1>2, <1>3, <1>10 DEF c
  <2>2. Told(p)' = Told(p)
    BY <1>1, <1>2, <1>3, <2>1, ToldTaken DEF p
  <2> QED
    BY <1>1, <1>9, <2>2, TellingSame
<1>14. Fragments(x)' /\ Fragments(p)'
  <2>1. w \div 2 \in Nat
    BY <1>5, <1>6
  <2> DEFINE h == w \div 2
             g == f + n
  <2>2. g \in Nat /\ h \in Nat
    BY <1>5, <1>8, <2>1
  <2>3. g < w /\ (pc'[x] = "ack" <=> g >= h) /\ pc'[x] \in {"ack", "handle"}
    BY <1>8, <1>10
  <2>4. fragmentReadBytes'[x] = g /\ ackWindowSize'[x] = w /\ ackWindowSize[x] \div 2 = h
    BY <1>2, <1>9 DEF w
  <2> HIDE DEF g, h
  <2>5. pc'[x] = "handle" => g < h
    BY <2>2, <2>3
  <2>6. Fragments(x)'
    BY <1>2, <2>3, <2>4, <2>5 DEF Fragments
  <2> QED
    BY <1>1, <1>2, <1>9, <1>10, <2>6 DEF Fragments
<1> DEFINE s == Sent(p)'
<1>15. /\ DOMAIN Sent(p) = 1..Len(s) + 1 /\ DOMAIN s = 1..Len(s) /\ Len(s) \in Nat
       /\ Sent(p)[1] = c
       /\ \A k \in 1..Len(s) : Sent(p)[k + 1] = s[k]
  BY <1>3, FrontPlaces
<1>16. c.kind = "window" => f = 0
  <2>1. 1 \in DOMAIN Sent(p)
    BY <1>15
  <2> QED
    BY <1>1, <1>15, <2>1 DEF Announcing, f, p
<1>17. ASSUME NEW i \in DOMAIN s
       PROVE  s[i].kind # "window"
  <2>1. i \in 1..Len(s) /\ i + 1 \in 1..Len(s) + 1 /\ i + 1 # 1
    BY <1>15
  <2>2. s[i] = Sent(p)[i + 1] /\ i + 1 \in DOMAIN Sent(p)
    BY <1>15, <2>1
  <2> QED
    BY <1>1, <2>1, <2>2 DEF Announcing, p
<1>18. Announcing(x)'
  <2>1. c.kind = "window" => fragmentReadBytes'[x] = ControlBytes
    BY <1>3, <1>5, <1>8, <1>9, <1>16
  <2> QED
    BY <1>17, <2>1 DEF Announcing, p, c
<1>19. Announcing(p)'
  BY <1>1, <1>3, <1>9, <1>10 DEF Announcing
<1>20. Early(p)'
  BY <1>1, <1>2, <1>3, <1>9, <1>10 DEF Early
<1>21. Early(x)'
  <2>1. SUFFICES ASSUME \A e \in Ends : written'[e] = 0
                 PROVE  Early(x)'
    BY DEF Early
  <2>2. \A e \in Ends : written[e] = 0
    BY <1>2, <2>1
  <2>3. Sent(p) # <<>>
    <3>1. 1 \in DOMAIN Sent(p) /\ DOMAIN <<>> = {}
      BY <1>15
    <3> QED
      BY <3>1
  <2>4. p \in announced /\ Sent(p) = <<WinAckSize>> /\ f = 0
    BY <1>1, <2>2, <2>3 DEF Early, f, p
  <2>5. c = WinAckSize /\ s = <<>>
    <3>1. Sent(p)[1] = WinAckSize /\ DOMAIN Sent(p) = 1..1
      BY <2>4
    <3>2. Len(s) = 0
      <4> HIDE DEF s
      <4>1. 1..Len(s) + 1 = 1..1 /\ Len(s) \in Nat
        BY <1>15, <3>1
      <4>2. Len(s) + 1 \in 1..Len(s) + 1
        BY <4>1
      <4>3. Len(s) + 1 \in 1..1
        BY <4>1, <4>2
      <4> QED
        BY <4>1, <4>3
    <3>3. s = <<>>
      <4>1. s \in Seq(Messages)
        BY <1>3
      <4> HIDE DEF s
      <4> QED
        BY <3>2, <4>1
    <3> QED
      BY <1>15, <3>1, <3>3
  <2>6. n = ControlBytes
    BY <1>3, <2>5, SomeMessages
  <2>7. fragmentReadBytes'[x] = ControlBytes
    BY <1>5, <1>9, <2>4, <2>6
  <2>8. pc'[x] = "handle"
    <3>1. w \div 2 \in Nat /\ Window \div 2 <= w \div 2
      BY <1>5, <1>6
    <3> DEFINE h == w \div 2
               k == Window \div 2
    <3>2. n < k /\ k <= h /\ h \in Nat /\ k \in Nat /\ f + n = n
      BY <1>5, <2>4, <3>1
    <3>3. pc'[x] = "ack" <=> f + n >= h
      BY <1>10
    <3> HIDE DEF h, k
    <3>4. ~(f + n >= h)
      BY <1>5, <3>2
    <3> QED
      BY <1>10, <3>3, <3>4
  <2> QED
    BY <1>2, <2>4, <2>5, <2>7, <2>8 DEF Early, p
<1>22. Once(x)' /\ Once(p)' /\ Bytes(wire'[x]) <= Capacity
  BY <1>1, <1>2, <1>3 DEF Once
<1>23. AtEnd(x)' /\ AtEnd(p)'
  BY <1>3, <1>12, <1>13, <1>14, <1>18, <1>19, <1>20, <1>21, <1>22 DEF AtEnd
<1> QED
  BY <1>11, <1>23, EndsKeep DEF p

\* What is to be acknowledged came after the announcement and the media.
LEMMA AckIsLate ==
    ASSUME IInv, NEW x \in Ends, pc[x] = "ack"
    PROVE  /\ \E e \in Ends : written[e] # 0
           /\ fragmentReadBytes[x] >= Window \div 2 /\ fragmentReadBytes[x] > ControlBytes
           /\ chunk[x].kind # "window"
<1>1. Types /\ Early(x) /\ Fragments(x) /\ Announcing(x)
  BY AtBothEnds
<1>2. \E e \in Ends : written[e] # 0
  BY <1>1 DEF Early
<1>3. /\ ackWindowSize[x] \in {DefaultWindow, Window} /\ fragmentReadBytes[x] \in Nat
      /\ fragmentReadBytes[x] >= ackWindowSize[x] \div 2
  BY <1>1 DEF Types, Counters, Fragments
<1>4. /\ Window \div 2 \in Nat /\ DefaultWindow \div 2 \in Nat /\ ControlBytes \in Nat
      /\ Window \div 2 <= DefaultWindow \div 2 /\ ControlBytes < Window \div 2
  BY Sizes
<1>5. fragmentReadBytes[x] >= Window \div 2
  <2> DEFINE k == Window \div 2
             l == DefaultWindow \div 2
  <2>1. fragmentReadBytes[x] >= k \/ fragmentReadBytes[x] >= l
    BY <1>3
  <2>2. k \in Nat /\ l \in Nat /\ k <= l
    BY <1>4
  <2> HIDE DEF k, l
  <2>3. fragmentReadBytes[x] >= k
    BY <1>3, <2>1, <2>2
  <2> QED
    BY <2>3 DEF k
<1>6. fragmentReadBytes[x] > ControlBytes
  <2> DEFINE k == Window \div 2
  <2>1. fragmentReadBytes[x] >= k /\ ControlBytes < k /\ k \in Nat
    BY <1>4, <1>5
  <2> HIDE DEF k
  <2> QED
    BY <1>3, <1>4, <2>1
<1>7. fragmentReadBytes[x] # ControlBytes
  BY <1>3, <1>4, <1>6
<1>8. chunk[x].kind # "window"
  BY <1>1, <1>7 DEF Announcing
<1> QED
  BY <1>2, <1>5, <1>6, <1>8

\* The acknowledgement goes to the end of what is on its way, and counting starts anew.
LEMMA SendAckStep ==
    ASSUME IInv, NEW x \in Ends, SendAck(x)
    PROVE  IInv'
<1> DEFINE p == Peer(x)
           m == Ack(totalReadBytes[x])
<1>1. /\ Types /\ p \in Ends /\ p # x /\ Peer(p) = x /\ Once(x) /\ Once(p)
      /\ Bytes(wire[x]) <= Capacity /\ Bytes(wire[p]) <= Capacity
      /\ Early(x) /\ Early(p) /\ Announcing(x) /\ Announcing(p)
      /\ Fragments(p) /\ Telling(x) /\ Telling(p)
  BY AtBothEnds
<1>2. /\ pc[x] = "ack" /\ Enqueue(x, m)
      /\ fragmentReadBytes' = [fragmentReadBytes EXCEPT ![x] = 0]
      /\ pc' = [pc EXCEPT ![x] = "handle"]
      /\ UNCHANGED <<wire, chunk, totalReadBytes, ackWindowSize, announced, written, acked>>
  BY DEF SendAck
<1>3. /\ \E e \in Ends : written[e] # 0
      /\ fragmentReadBytes[x] >= Window \div 2 /\ chunk[x].kind # "window"
  BY <1>2, AckIsLate
<1>4. totalReadBytes[x] \in Counters
  BY <1>1 DEF Types
<1>5. m \in Messages /\ IsAck(m)
  BY <1>4, SomeMessages
<1> HIDE DEF m
<1>6. /\ queue' \in [Ends -> Seq(Messages)] /\ Once(x)' /\ queue'[p] = queue[p]
      /\ Sent(x)' = Append(Sent(x), m) /\ Sent(p)' = Sent(p)
  BY <1>1, <1>2, <1>5, Enqueued
<1>7. /\ pc'[x] = "handle" /\ pc'[p] = pc[p]
      /\ fragmentReadBytes'[x] = 0 /\ fragmentReadBytes'[p] = fragmentReadBytes[p]
      /\ pc' \in [Ends -> {"read", "ack", "handle", "ended"}]
      /\ fragmentReadBytes' \in [Ends -> Counters]
  <2>1. 0 \in Counters
    BY Sizes DEF Counters
  <2> QED
    BY <1>1, <1>2, <2>1 DEF Types
<1>8. Types'
  BY <1>1, <1>2, <1>6, <1>7 DEF Types
<1>9. Front(x)' = Front(x) /\ Front(p)' = Front(p)
  <2> HIDE DEF p
  <2>1. Front(x)' = Front(x)
    BY <1>2, <1>7 DEF Front, p
  <2>2. Front(p)' = Front(p)
    BY <1>1, <1>2, <1>7 DEF Front
  <2> QED
    BY <2>1, <2>2
<1>10. Telling(x)'
  <2>1. Told(x)' = Append(Told(x), m)
    BY <1>1, <1>5, <1>6, <1>9, ToldMore
  <2> QED
    BY <1>1, <1>2, <1>3, <1>7, <2>1, TellingAck DEF m
<1>11. Telling(p)'
  <2>1. Told(p)' = Told(p)
    BY <1>1, <1>6, <1>9, ToldSame
  <2> QED
    BY <1>1, <1>2, <1>7, <2>1, TellingSame
<1>12. Fragments(x)'
  <2>1. /\ Window \in Nat /\ DefaultWindow \in Nat
        /\ Window \div 2 \in Nat /\ DefaultWindow \div 2 \in Nat
        /\ 0 < Window \div 2 /\ 0 < DefaultWindow \div 2 /\ 0 < Window /\ 0 < DefaultWindow
    <3> DEFINE k == Window \div 2
               l == DefaultWindow \div 2
    <3>1. /\ ControlBytes < k /\ k <= l /\ k \in Nat /\ l \in Nat /\ ControlBytes \in Nat
          /\ Window \in Nat /\ DefaultWindow \in Nat
          /\ 2 * k <= Window /\ 2 * l <= DefaultWindow
      BY Sizes
    <3> HIDE DEF k, l
    <3>2. 0 < k /\ 0 < l /\ 0 < Window /\ 0 < DefaultWindow
      BY <3>1
    <3> QED
      BY <3>1, <3>2 DEF k, l
  <2>2. ackWindowSize'[x] \in {DefaultWindow, Window}
    BY <1>8 DEF Types
  <2> QED
    BY <1>7, <2>1, <2>2 DEF Fragments
<1>13. Fragments(p)'
  BY <1>1, <1>2, <1>7 DEF Fragments
<1>14. Announcing(x)'
  BY <1>1, <1>2, <1>3, <1>6, <1>7 DEF Announcing
<1>15. Announcing(p)'
  <2> DEFINE s == Sent(x)
             a == Append(s, m)
  <2>1. s \in Seq(Messages)
    BY <1>1, Typed
  <2>2. /\ DOMAIN a = 1..Len(s) + 1 /\ DOMAIN s = 1..Len(s) /\ Len(s) \in Nat
        /\ \A i \in 1..Len(s) : a[i] = s[i]
        /\ a[Len(s) + 1] = m
    BY <1>5, <2>1, AppendPlaces
  <2>3. Sent(x)' = a /\ Sent(x) = s
    BY <1>6
  <2> HIDE DEF s, a
  <2>4. ASSUME NEW i \in DOMAIN a, a[i].kind = "window"
        PROVE  i = 1 /\ fragmentReadBytes'[p] = 0
    <3>1. i \in 1..Len(s) /\ s[i].kind = "window"
      BY <1>5, <2>2, <2>4 DEF IsAck
    <3> QED
      BY <1>1, <1>7, <2>2, <2>3, <3>1 DEF Announcing
  <2> HIDE DEF p
  <2>5. pc'[p] # "read" /\ chunk'[p].kind = "window" => fragmentReadBytes'[p] = ControlBytes
    BY <1>1, <1>2, <1>7 DEF Announcing
  <2> QED
    BY <1>1, <2>3, <2>4, <2>5 DEF Announcing
<1>16. Early(x)' /\ Early(p)'
  BY <1>2, <1>3 DEF Early
<1>17. Once(p)' /\ Bytes(wire'[x]) <= Capacity /\ Bytes(wire'[p]) <= Capacity
  BY <1>1, <1>2, <1>6 DEF Once
<1>18. AtEnd(x)' /\ AtEnd(p)'
  BY <1>6, <1>10, <1>11, <1>12, <1>13, <1>14, <1>15, <1>16, <1>17 DEF AtEnd
<1> QED
  BY <1>8, <1>18, EndsKeep

\* The message loop ends.
LEMMA AckFailsStep ==
    ASSUME IInv, NEW x \in Ends, AckFails(x)
    PROVE  IInv'
<1> DEFINE p == Peer(x)
<1>1. /\ Types /\ p \in Ends /\ p # x /\ Peer(p) = x /\ Once(x) /\ Once(p)
      /\ Bytes(wire[x]) <= Capacity /\ Bytes(wire[p]) <= Capacity
      /\ Early(x) /\ Early(p) /\ Announcing(x) /\ Announcing(p)
      /\ Fragments(x) /\ Fragments(p) /\ Telling(x) /\ Telling(p)
  BY AtBothEnds
<1>2. /\ pc[x] = "ack" /\ pc' = [pc EXCEPT ![x] = "ended"]
      /\ UNCHANGED <<queue, wire, chunk, totalReadBytes, fragmentReadBytes,
                     ackWindowSize, announced, written, acked>>
  BY DEF AckFails
<1>3. /\ \E e \in Ends : written[e] # 0
      /\ chunk[x].kind # "window"
  BY <1>2, AckIsLate
<1>4. /\ pc'[x] = "ended" /\ pc'[p] = pc[p]
      /\ pc' \in [Ends -> {"read", "ack", "handle", "ended"}]
  BY <1>1, <1>2 DEF Types
<1>5. Types'
  BY <1>1, <1>2, <1>4 DEF Types
<1>6. Sent(x)' = Sent(x) /\ Sent(p)' = Sent(p)
  BY <1>2 DEF Sent
<1> HIDE DEF p
<1>7. Front(x)' = Front(x) /\ Front(p)' = Front(p)
  <2>1. Front(x)' = Front(x)
    BY <1>2, <1>4 DEF Front, p
  <2>2. Front(p)' = Front(p)
    BY <1>1, <1>2, <1>4 DEF Front
  <2> QED
    BY <2>1, <2>2
<1>8. Telling(x)'
  <2>1. Told(x)' = Told(x)
    BY <1>6, <1>7, ToldSame
  <2> QED
    BY <1>1, <1>2, <2>1, TellingSame
<1>9. Telling(p)'
  <2>1. Told(p)' = Told(p)
    BY <1>1, <1>6, <1>7, ToldSame
  <2> QED
    BY <1>1, <1>2, <2>1, TellingSame
<1>10. Fragments(x)' /\ Fragments(p)'
  BY <1>1, <1>2, <1>4 DEF Fragments
<1>11. Announcing(x)'
  BY <1>1, <1>2, <1>3, <1>6 DEF Announcing, p
<1>12. Announcing(p)'
  BY <1>1, <1>2, <1>4, <1>6 DEF Announcing
<1>13. Early(x)' /\ Early(p)'
  BY <1>2, <1>3 DEF Early
<1>14. AtEnd(x)' /\ AtEnd(p)'
  <2>1. Once(x)' /\ Once(p)' /\ Bytes(wire'[x]) <= Capacity /\ Bytes(wire'[p]) <= Capacity
    BY <1>1, <1>2 DEF Once
  <2> QED
    BY <1>8, <1>9, <1>10, <1>11, <1>12, <1>13, <2>1 DEF AtEnd
<1> QED
  BY <1>5, <1>14, EndsKeep DEF p

\* The user gets a message: a new window, an acknowledgement or media.
LEMMA HandleStep ==
    ASSUME IInv, NEW x \in Ends, Handle(x)
    PROVE  /\ IInv'
           /\ \A e \in Ends : acked'[e] # acked[e] =>
                 (acked'[e] - acked[e]) % CounterMod >= Window \div 2
<1> DEFINE p == Peer(x)
           c == chunk[x]
           n == acked[x]
           seq == IF IsAck(c) THEN c.seq ELSE n
<1>1. /\ Types /\ p \in Ends /\ p # x /\ Peer(p) = x /\ Once(x) /\ Once(p)
      /\ Bytes(wire[x]) <= Capacity /\ Bytes(wire[p]) <= Capacity
      /\ Early(x) /\ Early(p) /\ Announcing(x) /\ Announcing(p)
      /\ Fragments(x) /\ Fragments(p) /\ Telling(x) /\ Telling(p)
  BY AtBothEnds
<1>2. /\ pc[x] = "handle" /\ pc' = [pc EXCEPT ![x] = "read"]
      /\ ackWindowSize' = IF c.kind = "window"
                          THEN [ackWindowSize EXCEPT ![x] = Window] ELSE ackWindowSize
      /\ acked' = IF c.kind = "ack" THEN [acked EXCEPT ![x] = c.seq] ELSE acked
      /\ UNCHANGED <<queue, wire, chunk, totalReadBytes, fragmentReadBytes,
                     announced, written>>
  BY DEF Handle
<1>3. c \in Messages /\ n \in Counters
  BY <1>1 DEF Types
<1>4. seq \in Counters
  BY <1>3, MessageKinds
<1> HIDE DEF p, c, seq, n
<1>5. /\ pc'[x] = "read" /\ pc'[p] = pc[p]
      /\ pc' \in [Ends -> {"read", "ack", "handle", "ended"}]
  BY <1>1, <1>2 DEF Types
<1>6. acked' = [acked EXCEPT ![x] = seq]
  <2>1. acked \in [Ends -> Counters]
    BY <1>1 DEF Types
  <2>2. CASE c.kind = "ack"
    BY <1>2, <2>2 DEF seq, IsAck
  <2>3. CASE c.kind # "ack"
    <3>1. acked' = acked /\ seq = acked[x]
      BY <1>2, <2>3 DEF seq, IsAck, n
    <3> QED
      BY <2>1, <3>1
  <2> QED
    BY <2>2, <2>3
<1>7. acked' \in [Ends -> Counters] /\ acked'[x] = seq /\ acked'[p] = acked[p]
  BY <1>1, <1>4, <1>6 DEF Types
<1>8. /\ ackWindowSize' \in [Ends -> {DefaultWindow, Window}]
      /\ ackWindowSize'[p] = ackWindowSize[p]
      /\ ackWindowSize'[x] = IF c.kind = "window" THEN Window ELSE ackWindowSize[x]
  BY <1>1, <1>2 DEF Types
<1>9. Types'
  BY <1>1, <1>2, <1>5, <1>7, <1>8 DEF Types
<1>10. Sent(x)' = Sent(x) /\ Sent(p)' = Sent(p) /\ Sent(p) \in Seq(Messages)
  BY <1>1, <1>2, Typed DEF Sent
<1>11. Telling(x)'
  <2>1. Front(x)' = Front(x)
    BY <1>2, <1>5, <1>7 DEF Front, p
  <2>2. Told(x)' = Told(x)
    BY <1>10, <2>1, ToldSame
  <2> QED
    BY <1>1, <1>2, <2>2, TellingSame
<1> DEFINE r == Sent(p)
           old == Unheard(n, c, r)
           new == Heard(n, c, r)
<1>12. Told(p) = old
  <2>1. Told(p) = <<Ack(n), c>> \o r
    BY <1>1, <1>2 DEF Told, n, c
  <2>2. Ack(n) \in Messages
    BY <1>3, SomeMessages
  <2>3. <<Ack(n), c>> \o r = <<Ack(n)>> \o (<<c>> \o r)
    BY <1>3, <1>10, <2>2, TwoInFront
  <2> QED
    BY <2>1, <2>3 DEF Unheard
<1>13. Told(p)' = new
  <2>1. Told(p)' = <<Ack(acked'[x])>> \o Sent(p)'
    BY <1>1, <1>5 DEF Told
  <2> QED
    BY <1>7, <1>10, <2>1 DEF Heard, seq
<1>14. Chained(old)
  BY <1>1, <1>12 DEF Telling
<1> HIDE DEF r, old, new
<1>15. /\ Chained(new)
       /\ \A i \in DOMAIN new : Newest(new, i) =>
             \E j \in DOMAIN old : Newest(old, j) /\ old[j].seq = new[i].seq
       /\ IsAck(c) => (c.seq - n) % CounterMod >= Window \div 2
  <2>1. r \in Seq(Messages)
    BY <1>10 DEF r
  <2>2. Chained(Unheard(n, c, r))
    BY <1>14 DEF old
  <2> HIDE DEF r
  <2> QED
    BY <1>3, <2>1, <2>2, Hearing DEF old, new
<1>16. Telling(p)'
  <2>1. totalReadBytes'[p] = totalReadBytes[p] /\ fragmentReadBytes'[p] = fragmentReadBytes[p]
    BY <1>2
  <2>2. ASSUME NEW i \in DOMAIN new, Newest(new, i)
        PROVE  \/ totalReadBytes'[p] = new[i].seq + fragmentReadBytes'[p]
               \/ totalReadBytes'[p] = new[i].seq + fragmentReadBytes'[p] - CounterMod
    <3>1. PICK j \in DOMAIN old : Newest(old, j) /\ old[j].seq = new[i].seq
      BY <1>15, <2>2
    <3>2. Behind(p, old[j].seq)
      BY <1>1, <1>12, <3>1 DEF Telling
    <3> QED
      BY <2>1, <3>1, <3>2 DEF Behind
  <2> QED
    BY <1>13, <1>15, <2>2 DEF Telling, Behind
<1>17. Fragments(p)'
  BY <1>1, <1>2, <1>5, <1>8 DEF Fragments
<1>18. Fragments(x)'
  <2>1. CASE c.kind = "window"
    <3>1. fragmentReadBytes[x] = ControlBytes
      BY <1>1, <1>2, <2>1 DEF Announcing, c
    <3>2. ControlBytes < Window \div 2 /\ ControlBytes < Window
      <4> DEFINE k == Window \div 2
      <4>1. /\ ControlBytes < k /\ k \in Nat /\ Window \in Nat /\ 2 * k <= Window
            /\ ControlBytes \in Nat
        BY Sizes
      <4> HIDE DEF k
      <4>2. ControlBytes < Window
        BY <4>1
      <4> QED
        BY <4>1, <4>2 DEF k
    <3> QED
      BY <1>2, <1>5, <1>8, <2>1, <3>1, <3>2 DEF Fragments
  <2>2. CASE c.kind # "window"
    BY <1>1, <1>2, <1>5, <1>8, <2>2 DEF Fragments
  <2> QED
    BY <2>1, <2>2
<1>19. Announcing(x)'
  BY <1>1, <1>2, <1>5, <1>10 DEF Announcing, p
<1>20. Announcing(p)'
  BY <1>1, <1>2, <1>5, <1>10 DEF Announcing
<1>21. Early(x)'
  BY <1>1, <1>2, <1>5, <1>10 DEF Early, p
<1>22. Early(p)'
  BY <1>1, <1>2, <1>5, <1>10 DEF Early
<1>23. AtEnd(x)' /\ AtEnd(p)'
  <2>1. Once(x)' /\ Once(p)' /\ Bytes(wire'[x]) <= Capacity /\ Bytes(wire'[p]) <= Capacity
    BY <1>1, <1>2 DEF Once
  <2> QED
    BY <1>11, <1>16, <1>17, <1>18, <1>19, <1>20, <1>21, <1>22, <2>1 DEF AtEnd
<1>24. ASSUME NEW e \in Ends, acked'[e] # acked[e]
       PROVE  (acked'[e] - acked[e]) % CounterMod >= Window \div 2
  <2>1. e = x /\ IsAck(c)
    BY <1>6, <1>7, <1>24, Peers DEF p, seq, n
  <2>2. acked'[e] = c.seq /\ acked[e] = n
    BY <1>7, <2>1 DEF seq, n
  <2> QED
    BY <1>15, <2>1, <2>2
<1> QED
  BY <1>9, <1>23, <1>24, EndsKeep DEF p

-----------------------------------------------------------------------------
(* The theorems *)

\* Two ends that have not begun satisfy the invariant.
LEMMA InitIInv == Init => IInv
<1> SUFFICES ASSUME Init
             PROVE  IInv
  OBVIOUS
<1>1. <<>> \in Seq(Messages) /\ \A m \in Messages : <<m>> \in Seq(Messages)
  OBVIOUS
<1>2. WinAckSize \in Messages
  BY SomeMessages
<1>3. 0 \in Counters /\ 0 \in 0..MaxMessages
  BY Sizes, BytesAssumption DEF Counters
<1>4. /\ queue = [e \in Ends |-> <<>>] /\ wire = [e \in Ends |-> <<>>]
      /\ pc = [e \in Ends |-> "read"] /\ chunk = [e \in Ends |-> WinAckSize]
      /\ totalReadBytes = [e \in Ends |-> 0] /\ fragmentReadBytes = [e \in Ends |-> 0]
      /\ ackWindowSize = [e \in Ends |-> DefaultWindow] /\ announced = {}
      /\ written = [e \in Ends |-> 0] /\ acked = [e \in Ends |-> 0]
  BY DEF Init
<1>5. Types
  BY <1>1, <1>2, <1>3, <1>4 DEF Types
<1>6. <<>> \o <<>> = <<>> /\ DOMAIN <<>> = {}
  OBVIOUS
<1>7. 0 < Window \div 2 /\ 0 < DefaultWindow \div 2 /\ 0 < DefaultWindow
  <2> DEFINE k == Window \div 2
             l == DefaultWindow \div 2
  <2>1. /\ ControlBytes < k /\ k <= l /\ k \in Nat /\ l \in Nat /\ ControlBytes \in Nat
        /\ DefaultWindow \in Nat /\ 2 * l <= DefaultWindow
    BY Sizes
  <2> HIDE DEF k, l
  <2>2. 0 < k /\ 0 < l /\ 0 < DefaultWindow
    BY <2>1
  <2> QED
    BY <2>2 DEF k, l
<1>8. ASSUME NEW e \in Ends
      PROVE  AtEnd(e)
  <2>1. Peer(e) \in Ends
    BY Peers
  <2>2. queue[e] = <<>> /\ wire[e] = <<>> /\ Sent(Peer(e)) = <<>> /\ Sent(e) = <<>>
    BY <1>4, <1>6, <2>1 DEF Sent
  <2>3. Once(e)
    BY <1>6, <2>2 DEF Once
  <2>4. Bytes(wire[e]) <= Capacity
    <3>1. ControlPlaces(<<>>) = {} /\ Len(<<>>) = 0
      BY <1>6 DEF ControlPlaces
    <3>2. Cardinality(ControlPlaces(<<>>)) = 0
      BY <3>1, FS_EmptySet
    <3>3. ControlBytes \in Nat /\ MediaBytes \in Nat /\ Capacity \in Nat
      BY Sizes, CapacityAssumption
    <3>4. 0 * ControlBytes + (0 - 0) * MediaBytes = 0
      BY <3>3
    <3>5. Bytes(<<>>) = 0
      BY <3>1, <3>2, <3>4 DEF Bytes
    <3> QED
      BY <2>2, <3>3, <3>5
  <2>5. Early(e)
    BY <1>4, <2>2 DEF Early
  <2>6. Announcing(e)
    BY <1>4, <1>6, <2>2 DEF Announcing
  <2>7. Fragments(e)
    BY <1>4, <1>7 DEF Fragments
  <2>8. Telling(e)
    <3> DEFINE a == Ack(0)
    <3>1. a \in Messages /\ IsAck(a) /\ a.seq = 0
      BY <1>3, SomeMessages
    <3>2. Told(e) = <<a>> \o <<>>
      BY <1>4, <2>1, <2>2 DEF Told
    <3> HIDE DEF a
    <3>3. <<a>> \o <<>> = <<a>>
      BY <3>1, <1>1, ConcatEmptySeq
    <3>4. DOMAIN <<a>> = {1} /\ <<a>>[1] = a
      OBVIOUS
    <3>5. Told(e) = <<a>>
      BY <3>2, <3>3
    <3>6. Chained(Told(e))
      BY <3>4, <3>5 DEF Chained
    <3>7. ASSUME NEW i \in DOMAIN Told(e)
          PROVE  Behind(e, Told(e)[i].seq)
      <4>1. Told(e)[i].seq = 0
        BY <3>1, <3>4, <3>5, <3>7
      <4> QED
        BY <1>4, <4>1 DEF Behind
    <3> QED
      BY <3>6, <3>7 DEF Telling
  <2> QED
    BY <2>3, <2>4, <2>5, <2>6, <2>7, <2>8 DEF AtEnd
<1> QED
  BY <1>5, <1>8 DEF IInv

\* Nothing else has happened.
LEMMA StutterStep ==
    ASSUME IInv, UNCHANGED vars
    PROVE  IInv'
<1>1. /\ queue' = queue /\ wire' = wire /\ pc' = pc /\ chunk' = chunk
      /\ totalReadBytes' = totalReadBytes /\ fragmentReadBytes' = fragmentReadBytes
      /\ ackWindowSize' = ackWindowSize /\ announced' = announced
      /\ written' = written /\ acked' = acked
  BY DEF vars
<1>2. Types'
  BY <1>1 DEF IInv, Types
<1>3. \A e \in Ends : Sent(e)' = Sent(e) /\ Told(e)' = Told(e)
  BY <1>1 DEF Sent, Told
<1>4. ASSUME NEW e \in Ends
      PROVE  AtEnd(e)'
  <2>1. Peer(e) \in Ends
    BY Peers
  <2>2. AtEnd(e)
    BY DEF IInv
  <2>3. Telling(e)'
    BY <1>1, <1>3, <2>2, TellingSame DEF AtEnd
  <2>4. Once(e)' /\ Bytes(wire'[e]) <= Capacity /\ Fragments(e)'
    BY <1>1, <2>2 DEF AtEnd, Once, Fragments
  <2>5. Early(e)' /\ Announcing(e)'
    BY <1>1, <1>3, <2>1, <2>2 DEF AtEnd, Early, Announcing
  <2> QED
    BY <2>3, <2>4, <2>5 DEF AtEnd
<1> QED
  BY <1>2, <1>4 DEF IInv

\* Every step keeps the invariant, and none takes an acknowledgement back.
LEMMA NextIInv ==
    ASSUME IInv, [Next]_vars
    PROVE  /\ IInv'
           /\ \A e \in Ends : acked'[e] # acked[e] =>
                 (acked'[e] - acked[e]) % CounterMod >= Window \div 2
<1>1. CASE UNCHANGED vars
  BY <1>1, StutterStep DEF vars
<1>2. ASSUME NEW x \in Ends, Handle(x)
      PROVE  /\ IInv'
             /\ \A e \in Ends : acked'[e] # acked[e] =>
                   (acked'[e] - acked[e]) % CounterMod >= Window \div 2
  BY <1>2, HandleStep
<1>3. ASSUME NEW x \in Ends, Announce(x)
      PROVE  IInv' /\ acked' = acked
  BY <1>3, AnnounceStep DEF Announce
<1>4. ASSUME NEW x \in Ends, NEW cs \in MediaStreams, Write(x, cs)
      PROVE  IInv' /\ acked' = acked
  BY <1>4, WriteStep DEF Write
<1>5. ASSUME NEW x \in Ends, WriteChunk(x)
      PROVE  IInv' /\ acked' = acked
  BY <1>5, WriteChunkStep DEF WriteChunk
<1>6. ASSUME NEW x \in Ends, ReadChunk(x)
      PROVE  IInv' /\ acked' = acked
  BY <1>6, ReadChunkStep DEF ReadChunk, Take
<1>7. ASSUME NEW x \in Ends, SendAck(x)
      PROVE  IInv' /\ acked' = acked
  BY <1>7, SendAckStep DEF SendAck
<1>8. ASSUME NEW x \in Ends, AckFails(x)
      PROVE  IInv' /\ acked' = acked
  BY <1>8, AckFailsStep DEF AckFails
<1>9. CASE Next
  <2>1. PICK x \in Ends :
           \/ Announce(x) \/ (\E cs \in MediaStreams : Write(x, cs))
           \/ WriteChunk(x) \/ ReadChunk(x) \/ SendAck(x) \/ AckFails(x) \/ Handle(x)
    BY <1>9 DEF Next
  <2>2. CASE Handle(x)
    BY <1>2, <2>2
  <2>3. CASE ~Handle(x)
    <3>1. IInv' /\ acked' = acked
      BY <1>3, <1>4, <1>5, <1>6, <1>7, <1>8, <2>1, <2>3
    <3> QED
      BY <3>1
  <2> QED
    BY <2>2, <2>3
<1> QED
  BY <1>1, <1>9

\* The inductive invariant holds in all behaviours.
LEMMA Invariance == Spec => []IInv
<1>1. Init => IInv
  BY InitIInv
<1>2. IInv /\ [Next]_vars => IInv'
  BY NextIInv
<1> QED
  BY <1>1, <1>2, PTL DEF Spec

\* The counters of ChunkStreamerReader are 32-bit numbers, a chunk stream is in
\* the scheduler's channel once, and the transport holds what it can.
THEOREM TypeCorrect == Spec => []TypeOK
<1>1. IInv => TypeOK
  <2> SUFFICES ASSUME IInv, NEW e \in Ends
               PROVE  /\ \A i \in DOMAIN queue[e] : queue[e][i] \in Messages
                      /\ \A i, j \in DOMAIN queue[e] :
                            queue[e][i].cs = queue[e][j].cs => i = j
                      /\ \A i \in DOMAIN wire[e] : wire[e][i] \in Messages
                      /\ Bytes(wire[e]) <= Capacity
                      /\ pc[e] \in {"read", "ack", "handle", "ended"}
                      /\ chunk[e] \in Messages
                      /\ {totalReadBytes[e], fragmentReadBytes[e], acked[e]}
                            \subseteq 0..CounterMod - 1
                      /\ ackWindowSize[e] \in {DefaultWindow, Window}
                      /\ written[e] \in 0..MaxMessages
    BY DEF TypeOK
  <2>1. Types /\ Once(e) /\ Bytes(wire[e]) <= Capacity
    BY DEF IInv, AtEnd
  <2>2. queue[e] \in Seq(Messages) /\ wire[e] \in Seq(Messages)
    BY <2>1 DEF Types
  <2>3. /\ \A i \in DOMAIN queue[e] : queue[e][i] \in Messages
        /\ \A i \in DOMAIN wire[e] : wire[e][i] \in Messages
    BY <2>2
  <2>4. /\ pc[e] \in {"read", "ack", "handle", "ended"} /\ chunk[e] \in Messages
        /\ {totalReadBytes[e], fragmentReadBytes[e], acked[e]} \subseteq 0..CounterMod - 1
        /\ ackWindowSize[e] \in {DefaultWindow, Window}
        /\ written[e] \in 0..MaxMessages
    BY <2>1 DEF Types, Counters
  <2> QED
    BY <2>1, <2>3, <2>4 DEF Once
<1> QED
  BY Invariance, <1>1, PTL

\* However the two readers' acknowledgements cross, with every size of chunks,
\* windows and counters: NewChunkReader has never read a whole window beyond the
\* last acknowledgement that it has written or that its peer has read.
THEOREM AcksInTime == Spec => []AckInTime
<1>1. IInv => AckInTime
  <2> SUFFICES ASSUME IInv, NEW e \in Ends, NEW i \in DOMAIN Told(e), Newest(Told(e), i)
               PROVE  (totalReadBytes[e] - Told(e)[i].seq) % CounterMod < ackWindowSize[e]
    BY DEF AckInTime
  <2>1. Types /\ Telling(e) /\ Fragments(e)
    BY DEF IInv, AtEnd
  <2>2. Told(e)[i].seq \in Counters
    BY <2>1, NewestCounts
  <2>3. Behind(e, Told(e)[i].seq)
    BY <2>1 DEF Telling
  <2>4. (totalReadBytes[e] - Told(e)[i].seq) % CounterMod = fragmentReadBytes[e]
    BY <2>1, <2>2, <2>3, Distance
  <2>5. fragmentReadBytes[e] < ackWindowSize[e]
    BY <2>1 DEF Fragments
  <2> QED
    BY <2>4, <2>5
<1> QED
  BY Invariance, <1>1, PTL

\* The user of NewChunkReader's peer gets the acknowledgements in order, each at
\* least half of the announced window ahead of the last, also when the counter wraps.
THEOREM AcksInOrder == Spec => AcksAdvance
<1>1. IInv /\ [Next]_vars => [\A e \in Ends : acked'[e] # acked[e] =>
                                 (acked'[e] - acked[e]) % CounterMod >= Window \div 2]_vars
  BY NextIInv
<1> QED
  BY Invariance, <1>1, PTL DEF Spec, AcksAdvance

=============================================================================
