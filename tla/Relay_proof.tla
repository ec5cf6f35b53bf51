---------------------------- MODULE Relay_proof ----------------------------
(****************************************************************************)
(* The relay demo, for any number of connections, names and tags.           *)
(*                                                                          *)
(* NamesAreHeld is inductive once the types of the table are known, and     *)
(* that a connection's Pub is its own.  What players get needs more: what a *)
(* player has got is fit to be played however it ended (Past), and as long  *)
(* as its publisher publishes nothing is missing from it but what Publish   *)
(* is relaying (Live), while what Publish remembers is an opening           *)
(* (Remembered) for whoever has had no video yet.                           *)
(****************************************************************************)
EXTENDS Relay, TLAPS

Places == {"loop", "subscribing", "subscribed", "relaying",
           "ending", "deregistering", "closed"}

-----------------------------------------------------------------------------
(* The table of names                                                        *)

\* The part of TypeOK the table depends on, and whose Pub is whose.
TableType ==
  /\ streams \in [Names -> Pubsubs \cup {NoPubsub}]
  /\ pub \in [Conns -> Pubsubs \cup {NoPubsub}]
  /\ pc \in [Conns -> Places]
  /\ \A c \in Conns : pub[c] # NoPubsub => pub[c].by = c
  /\ \A c \in Conns : pc[c] = "deregistering" => pub[c] # NoPubsub
IInv == TableType /\ NamesAreHeld

\* A connection that goes from one place to another of the same kind, the
\* table and the Pubs as they were: what all handlers but publish and the end
\* of a publisher do.
Moves(c) ==
  /\ UNCHANGED <<streams, pub>>
  /\ pc[c] # "closed"
  /\ \E where \in Places \ {"closed"} :
       /\ where = "deregistering" => pub[c] # NoPubsub
       /\ pc' = [pc EXCEPT ![c] = where]

\* Playing, publishing tags and losing the peer leave the table alone.
LEMMA MovesOrNot ==
  ASSUME TableType, NEW c \in Conns,
         \/ \E name \in Names : OnPlay(c, name)
         \/ Subscribe(c) \/ SetCallback(c)
         \/ \E kind \in Kinds, timestamp \in Timestamps : Publish(c, kind, timestamp)
         \/ Relay(c) \/ Published(c) \/ LoopEnds(c) \/ Deregister(c)
  PROVE  Moves(c) \/ UNCHANGED <<streams, pub, pc>>
<1> USE DEF Goto, Places, Moves
<1>1. CASE \E name \in Names : OnPlay(c, name)
  BY <1>1 DEF OnPlay
<1>2. CASE Subscribe(c)
  BY <1>2 DEF Subscribe
<1>3. CASE SetCallback(c)
  BY <1>3 DEF SetCallback
<1>4. CASE \E kind \in Kinds, timestamp \in Timestamps : Publish(c, kind, timestamp)
  BY <1>4 DEF Publish
<1>5. CASE Relay(c)
  BY <1>5 DEF Relay
<1>6. CASE Published(c)
  BY <1>6 DEF Published
<1>7. CASE LoopEnds(c)
  BY <1>7 DEF LoopEnds
<1>8. CASE Deregister(c)
  BY <1>8 DEF Deregister
<1> QED
  BY <1>1, <1>2, <1>3, <1>4, <1>5, <1>6, <1>7, <1>8

\* A connection that moves on without closing leaves the table as it should be.
LEMMA MovesKeeps ==
  ASSUME IInv, NEW c \in Conns, Moves(c)
  PROVE  IInv'
<1>1. TableType'
  BY DEF IInv, TableType, Moves, Places
<1>2. \A d \in Conns : pc'[d] = "closed" <=> pc[d] = "closed"
  BY DEF IInv, TableType, Moves
<1>3. \A name \in Names : streams[name] # NoPubsub => streams[name].by \in Conns
  BY DEF IInv, TableType, Pubsubs
<1>4. NamesAreHeld'
  BY <1>2, <1>3 DEF IInv, NamesAreHeld, Moves
<1> QED
  BY <1>1, <1>4 DEF IInv

\* A name is free before OnPublish takes it, so nobody else holds it after.
LEMMA OnPublishKeeps ==
  ASSUME IInv, NEW c \in Conns, NEW name \in Names, OnPublish(c, name)
  PROVE  IInv'
<1>1. CASE sub[c].of = NoPubsub /\ CanRegister(name)
  <2> DEFINE pb == [by |-> c, name |-> name]
  <2>1. pb \in Pubsubs /\ pb # NoPubsub /\ pb.by = c /\ pb.name = name
    BY NoPubsubAssumption DEF Pubsubs
  <2>2. /\ streams' = [streams EXCEPT ![name] = pb]
        /\ pub' = [pub EXCEPT ![c] = pb]
        /\ pc' = pc /\ pc[c] = "loop" /\ streams[name] = NoPubsub
    BY <1>1 DEF OnPublish, CanRegister
  <2> HIDE DEF pb
  <2>3. TableType'
    BY <2>1, <2>2 DEF IInv, TableType
  <2>4. \A d \in Conns : pub'[d] # NoPubsub /\ pc'[d] # "closed" => streams'[pub'[d].name] = pub'[d]
    BY <2>1, <2>2 DEF IInv, TableType, NamesAreHeld, Pubsubs
  <2>5. ASSUME NEW n \in Names, streams'[n] # NoPubsub
        PROVE  /\ streams'[n].name = n
               /\ pub'[streams'[n].by] = streams'[n] => pc'[streams'[n].by] # "closed"
               /\ pub'[streams'[n].by] # NoPubsub
    BY <2>1, <2>2, <2>5 DEF IInv, TableType, NamesAreHeld, Pubsubs
  <2> QED
    BY <2>3, <2>4, <2>5 DEF IInv, NamesAreHeld
<1>2. CASE ~(sub[c].of = NoPubsub /\ CanRegister(name))
  <2>1. Moves(c)
    BY <1>2 DEF OnPublish, Moves, Goto, Places
  <2> QED
    BY <2>1, MovesKeeps
<1> QED
  BY <1>1, <1>2

\* A connection that never published, or has published nothing, holds no name.
LEMMA OnCloseKeeps ==
  ASSUME IInv, NEW c \in Conns, OnClose(c)
  PROVE  IInv'
<1>1. /\ UNCHANGED <<streams, pub>> /\ pub[c] = NoPubsub
      /\ pc' = [pc EXCEPT ![c] = "closed"]
  BY DEF OnClose, Goto
<1>2. TableType'
  BY <1>1 DEF IInv, TableType, Places
<1>3. \A d \in Conns : d # c => pc'[d] = pc[d]
  BY <1>1 DEF IInv, TableType
<1>4. \A name \in Names : streams[name] # NoPubsub =>
        streams[name].by \in Conns /\ streams[name].by # c
  BY <1>1 DEF IInv, TableType, NamesAreHeld, Pubsubs
<1>5. NamesAreHeld'
  BY <1>1, <1>3, <1>4 DEF IInv, NamesAreHeld
<1> QED
  BY <1>2, <1>5 DEF IInv

\* The name RemovePubsub removes is the one its own Pubsub has in the table.
LEMMA RemovePubsubKeeps ==
  ASSUME IInv, NEW c \in Conns, RemovePubsub(c)
  PROVE  IInv'
<1> DEFINE name == pub[c].name
<1>1. /\ pub' = pub /\ pc[c] = "deregistering"
      /\ streams' = [streams EXCEPT ![name] = NoPubsub]
      /\ pc' = [pc EXCEPT ![c] = "closed"]
  BY DEF RemovePubsub, Goto
<1>2. /\ pub[c] # NoPubsub /\ pub[c].by = c /\ name \in Names
      /\ streams[name] = pub[c]
  BY <1>1 DEF IInv, TableType, NamesAreHeld, Pubsubs
<1> HIDE DEF name
<1>3. TableType'
  BY <1>1, <1>2 DEF IInv, TableType, Places
<1>4. ASSUME NEW d \in Conns, pub'[d] # NoPubsub, pc'[d] # "closed"
      PROVE  streams'[pub'[d].name] = pub'[d]
  <2>1. d # c /\ pc[d] # "closed" /\ pub[d].by = d
    BY <1>1, <1>4 DEF IInv, TableType
  <2>2. streams[pub[d].name] = pub[d] /\ pub[d].name \in Names
    BY <1>1, <1>4, <2>1 DEF IInv, TableType, NamesAreHeld, Pubsubs
  <2>3. pub[d].name # name
    BY <1>2, <2>1, <2>2
  <2> QED
    BY <1>1, <2>2, <2>3 DEF IInv, TableType
<1>5. ASSUME NEW n \in Names, streams'[n] # NoPubsub
      PROVE  /\ streams'[n].name = n
             /\ pub'[streams'[n].by] = streams'[n] => pc'[streams'[n].by] # "closed"
             /\ pub'[streams'[n].by] # NoPubsub
  <2>1. n # name /\ streams'[n] = streams[n] /\ streams[n] # NoPubsub
    BY <1>1, <1>2, <1>5 DEF IInv, TableType
  <2>2. /\ streams[n].name = n /\ streams[n].by \in Conns
        /\ pub[streams[n].by] = streams[n] => pc[streams[n].by] # "closed"
        /\ pub[streams[n].by] # NoPubsub
    BY <2>1 DEF IInv, TableType, NamesAreHeld, Pubsubs
  <2>3. streams[n].by = c => pub[c] # streams[n]
    BY <2>1, <2>2, <1>2 DEF name
  <2> QED
    BY <1>1, <2>1, <2>2, <2>3 DEF IInv, TableType
<1> QED
  BY <1>3, <1>4, <1>5 DEF IInv, NamesAreHeld

\* The empty table.
LEMMA InitKeeps == Init => IInv
BY DEF Init, IInv, TableType, NamesAreHeld, Places

\* Every step of every connection.
LEMMA NextKeeps == IInv /\ [Next]_vars => IInv'
<1> SUFFICES ASSUME IInv, [Next]_vars PROVE IInv'
  OBVIOUS
<1>1. CASE UNCHANGED <<streams, pub, pc>>
  BY <1>1 DEF IInv, TableType, NamesAreHeld
<1>2. ASSUME NEW c \in Conns, Moves(c) \/ UNCHANGED <<streams, pub, pc>>
      PROVE  IInv'
  BY <1>1, <1>2, MovesKeeps
<1>3. CASE UNCHANGED vars
  BY <1>1, <1>3 DEF vars
<1>4. CASE AllClosed
  BY <1>3, <1>4 DEF AllClosed
<1>5. ASSUME NEW c \in Conns, \E name \in Names : OnPublish(c, name)
      PROVE  IInv'
  BY <1>5, OnPublishKeeps
<1>6. ASSUME NEW c \in Conns,
             \/ \E name \in Names : OnPlay(c, name)
             \/ Subscribe(c) \/ SetCallback(c)
             \/ \E kind \in Kinds, timestamp \in Timestamps : Publish(c, kind, timestamp)
             \/ Relay(c) \/ Published(c) \/ LoopEnds(c) \/ Deregister(c)
      PROVE  IInv'
  BY <1>2, <1>6, MovesOrNot DEF IInv
<1>7. ASSUME NEW c \in Conns, OnClose(c) \/ RemovePubsub(c)
      PROVE  IInv'
  BY <1>7, OnCloseKeeps, RemovePubsubKeeps
<1> QED
  BY <1>3, <1>4, <1>5, <1>6, <1>7 DEF Next

\* For any connections and names: a name leads to its publisher until that
\* publisher's connection has called OnClose, and never to another one.
THEOREM NamesHeld == Spec => []NamesAreHeld
<1>1. IInv => NamesAreHeld
  BY DEF IInv
<1> QED
  BY InitKeeps, NextKeeps, <1>1, PTL DEF Spec

-----------------------------------------------------------------------------
(* What a player has got                                                     *)

Words == 0..(WordMod - 1)
Stamps == Timestamps \cup {0}
Entries == [tag : Tags, time : Words]

\* What it has got was published,
Known(got, all) ==
  \A i \in DOMAIN got : /\ got[i].tag.n \in DOMAIN all
                        /\ got[i].tag.kind = all[got[i].tag.n]

\* with times that count from the first timestamp that is not 0,
Timed(got, base) ==
  IF base = 0 THEN \A i \in DOMAIN got : got[i].tag.timestamp = 0
  ELSE \E k \in DOMAIN got :
         /\ got[k].tag.timestamp = base
         /\ \A i \in DOMAIN got :
              IF i < k THEN got[i].tag.timestamp = 0
              ELSE got[i].time = Since(got[i].tag, base)

\* and in order, unless it began with audio and the opening is older than that.
Sorted(got) ==
  (\A i \in DOMAIN got : got[1].tag.n <= got[i].tag.n) =>
    \A i \in DOMAIN got : \A j \in DOMAIN got : i < j => got[i].tag.n <= got[j].tag.n

Past(got, base, all) ==
  /\ Known(got, all) /\ Timed(got, base) /\ Sorted(got)
  /\ StartsWithHeader(all) => Playable(got, all)

\* What a player has got that gets everything: nothing after what was relayed to
\* it (seen); before it gets video only audio, all of it since it began; and
\* then both tags of an opening, and all video since.
Live(got, initialized, all, seen) ==
  /\ \A i \in DOMAIN got : got[i].tag.n <= seen
  /\ ~initialized =>
       /\ VideoAt(got) = {}
       /\ got # <<>> => /\ \A i \in DOMAIN got : got[1].tag.n <= got[i].tag.n
                        /\ \A n \in VideoOf(all) : n <= seen => n < got[1].tag.n
  /\ initialized /\ StartsWithHeader(all) =>
       LET at == VideoAt(got) IN
       /\ \E i \in at : Before(at, i) # {}
       /\ \A k \in at : (\A l \in at : l <= k) /\ (\E l \in Before(at, k) : Before(at, l) # {}) =>
            \A n \in VideoOf(all) : n <= seen => n <= got[k].tag.n

\* Where an element that is appended goes.
LEMMA AppendPlaces ==
  ASSUME NEW S, NEW q \in Seq(S), NEW x \in S
  PROVE  /\ Append(q, x) \in Seq(S) /\ Len(Append(q, x)) = Len(q) + 1
         /\ Len(q) \in Nat /\ DOMAIN q = 1..Len(q)
         /\ DOMAIN Append(q, x) = 1..Len(q) + 1
         /\ \A i \in 1..Len(q) : Append(q, x)[i] = q[i]
         /\ Append(q, x)[Len(q) + 1] = x
OBVIOUS

\* What a tag and its fields are.
LEMMA TagFields ==
  ASSUME NEW t \in Tags
  PROVE  /\ t.n \in 1..MaxTags /\ t.kind \in Kinds /\ t # NoTag
         /\ t.timestamp \in Timestamps
         /\ t = [n |-> t.n, kind |-> t.kind, timestamp |-> t.timestamp]
BY NoTagAssumption DEF Tags

\* What a Sub counts from is a timestamp, and timestamps are uint32.
LEMMA StampsFit == Stamps \subseteq Words
<1>1. WordMod \in Nat \ {0} /\ Timestamps \subseteq 0..(WordMod - 1)
  BY BoundsAssumption
<1>2. 0 \in 0..(WordMod - 1)
  BY <1>1
<1> QED
  BY <1>1, <1>2 DEF Stamps, Words

\* Where the video is after a tag more.
LEMMA VideoMore ==
  ASSUME NEW got \in Seq(Entries), NEW e \in Entries
  PROVE  VideoAt(Append(got, e)) =
           VideoAt(got) \cup (IF e.tag.kind \in Video THEN {Len(got) + 1} ELSE {})
<1> DEFINE a == Append(got, e)
           n == Len(got)
<1>1. /\ n \in Nat /\ DOMAIN got = 1..n /\ DOMAIN a = 1..n + 1
      /\ \A i \in 1..n : a[i] = got[i]
      /\ a[n + 1] = e
  BY AppendPlaces
<1> HIDE DEF a, n
<1>2. VideoAt(a) = VideoAt(got) \cup (IF e.tag.kind \in Video THEN {n + 1} ELSE {})
  BY <1>1 DEF VideoAt
<1> QED
  BY <1>2 DEF a, n

\* Where the video is after one more was published.
LEMMA VideoPublished ==
  ASSUME NEW all \in Seq(Kinds), NEW kind \in Kinds
  PROVE  /\ VideoOf(Append(all, kind)) =
              VideoOf(all) \cup (IF kind \in Video THEN {Len(all) + 1} ELSE {})
         /\ VideoOf(all) \subseteq 1..Len(all)
         /\ \A n \in 1..Len(all) : Append(all, kind)[n] = all[n]
         /\ Append(all, kind)[Len(all) + 1] = kind
         /\ DOMAIN all = 1..Len(all) /\ Len(all) \in Nat
         /\ DOMAIN Append(all, kind) = 1..Len(all) + 1
<1> DEFINE a == Append(all, kind)
           n == Len(all)
<1>1. /\ n \in Nat /\ DOMAIN all = 1..n /\ DOMAIN a = 1..n + 1
      /\ \A i \in 1..n : a[i] = all[i]
      /\ a[n + 1] = kind
  BY AppendPlaces
<1> HIDE DEF a, n
<1>2. VideoOf(a) = VideoOf(all) \cup (IF kind \in Video THEN {n + 1} ELSE {})
  BY <1>1 DEF VideoOf
<1>3. VideoOf(all) \subseteq 1..n
  BY <1>1 DEF VideoOf
<1> QED
  BY <1>1, <1>2, <1>3 DEF a, n

\* A stream that starts with a header has done so from the start.
LEMMA HeaderFirst ==
  ASSUME NEW all \in Seq(Kinds), NEW kind \in Kinds, StartsWithHeader(Append(all, kind))
  PROVE  StartsWithHeader(all)
<1> DEFINE a == Append(all, kind)
           l == Len(all)
<1>1. /\ VideoOf(a) = VideoOf(all) \cup (IF kind \in Video THEN {l + 1} ELSE {})
      /\ VideoOf(all) \subseteq 1..l /\ l \in Nat
      /\ \A n \in 1..l : a[n] = all[n]
  BY VideoPublished
<1> HIDE DEF a, l
<1>2. ASSUME NEW n \in VideoOf(all), \A k \in VideoOf(all) : n <= k
      PROVE  all[n] = "header"
  <2>1. n \in VideoOf(a) /\ n \in 1..l
    BY <1>1
  <2>2. \A k \in VideoOf(a) : n <= k
    BY <1>1, <1>2, <2>1
  <2>3. a[n] = "header"
    BY <2>1, <2>2 DEF StartsWithHeader, a
  <2> QED
    BY <1>1, <2>1, <2>3
<1> QED
  BY <1>2 DEF StartsWithHeader

\* What was published stays published.
LEMMA KnownLater ==
  ASSUME NEW got \in Seq(Entries), NEW all \in Seq(Kinds), NEW kind \in Kinds, Known(got, all)
  PROVE  Known(got, Append(all, kind))
<1>1. /\ DOMAIN all = 1..Len(all) /\ Len(all) \in Nat
      /\ DOMAIN Append(all, kind) = 1..Len(all) + 1
      /\ \A n \in 1..Len(all) : Append(all, kind)[n] = all[n]
  BY VideoPublished
<1> DEFINE a == Append(all, kind)
<1> HIDE DEF a
<1>2. \A n \in DOMAIN all : n \in DOMAIN a /\ a[n] = all[n]
  BY <1>1 DEF a
<1>3. Known(got, a)
  BY <1>2 DEF Known
<1> QED
  BY <1>3 DEF a

\* What is published later comes between no two tags a player has got.
LEMMA PlayableLater ==
  ASSUME NEW got \in Seq(Entries), NEW all \in Seq(Kinds), NEW kind \in Kinds,
         Known(got, all), Playable(got, all)
  PROVE  Playable(got, Append(all, kind))
<1> DEFINE a == Append(all, kind)
           l == Len(all)
<1>1. /\ VideoOf(a) = VideoOf(all) \cup (IF kind \in Video THEN {l + 1} ELSE {})
      /\ DOMAIN all = 1..l /\ l \in Nat
  BY VideoPublished
<1> HIDE DEF a, l
<1>2. ASSUME NEW k \in VideoAt(got), NEW i \in VideoAt(got), Continues(got, all, k, got[i].tag)
      PROVE  Continues(got, a, k, got[i].tag)
  <2>1. got[i].tag.n \in 1..l
    BY <1>1 DEF Known, VideoAt
  <2>2. \A n \in VideoOf(a) : n \in VideoOf(all) \/ got[i].tag.n <= n
    BY <1>1, <2>1
  <2> QED
    BY <1>2, <2>2 DEF Continues
<1>3. Playable(got, a)
  BY <1>2 DEF Playable
<1> QED
  BY <1>3 DEF a

\* A player that has seen all before has seen all but the tag that is published now.
LEMMA LiveLater ==
  ASSUME NEW got \in Seq(Entries), NEW initialized, NEW all \in Seq(Kinds), NEW kind \in Kinds,
         Live(got, initialized, all, Len(all))
  PROVE  Live(got, initialized, Append(all, kind), Len(all))
<1> DEFINE a == Append(all, kind)
           l == Len(all)
<1>1. /\ VideoOf(a) = VideoOf(all) \cup (IF kind \in Video THEN {l + 1} ELSE {})
      /\ l \in Nat
  BY VideoPublished
<1>2. StartsWithHeader(a) => StartsWithHeader(all)
  BY HeaderFirst
<1> HIDE DEF a, l
<1>3. \A n \in VideoOf(a) : n <= l => n \in VideoOf(all)
  BY <1>1
<1>4. Live(got, initialized, all, l)
  BY DEF l
<1>5. \A i \in DOMAIN got : got[i].tag.n <= l
  BY <1>4 DEF Live
<1>6. ~initialized =>
        /\ VideoAt(got) = {}
        /\ got # <<>> => /\ \A i \in DOMAIN got : got[1].tag.n <= got[i].tag.n
                         /\ \A n \in VideoOf(a) : n <= l => n < got[1].tag.n
  BY <1>3, <1>4 DEF Live
<1>7. initialized /\ StartsWithHeader(a) =>
        LET at == VideoAt(got) IN
        /\ \E i \in at : Before(at, i) # {}
        /\ \A k \in at : (\A j \in at : j <= k) /\ (\E j \in Before(at, k) : Before(at, j) # {}) =>
             \A n \in VideoOf(a) : n <= l => n <= got[k].tag.n
  BY <1>2, <1>3, <1>4 DEF Live
<1>8. Live(got, initialized, a, l)
  BY <1>5, <1>6, <1>7 DEF Live
<1> QED
  BY <1>8 DEF a, l

\* One more tag that was published.
LEMMA KnownMore ==
  ASSUME NEW got \in Seq(Entries), NEW e \in Entries, NEW all, Known(got, all),
         e.tag.n \in DOMAIN all, e.tag.kind = all[e.tag.n]
  PROVE  Known(Append(got, e), all)
<1> DEFINE a == Append(got, e)
           n == Len(got)
<1>1. /\ n \in Nat /\ DOMAIN got = 1..n /\ DOMAIN a = 1..n + 1
      /\ \A i \in 1..n : a[i] = got[i]
      /\ a[n + 1] = e
  BY AppendPlaces
<1> HIDE DEF a, n
<1>2. Known(a, all)
  BY <1>1 DEF Known
<1> QED
  BY <1>2 DEF a

\* A tag that is no older than all before.
LEMMA SortedMore ==
  ASSUME NEW got \in Seq(Entries), NEW e \in Entries, Sorted(got),
         \A i \in DOMAIN got : got[i].tag.n <= e.tag.n
  PROVE  Sorted(Append(got, e))
<1> DEFINE a == Append(got, e)
           n == Len(got)
<1>1. /\ n \in Nat /\ DOMAIN got = 1..n /\ DOMAIN a = 1..n + 1
      /\ \A i \in 1..n : a[i] = got[i]
      /\ a[n + 1] = e
  BY AppendPlaces
<1> HIDE DEF a, n
<1>2. ASSUME \A i \in DOMAIN a : a[1].tag.n <= a[i].tag.n,
             NEW i \in 1..n + 1, NEW j \in 1..n + 1, i < j
      PROVE  a[i].tag.n <= a[j].tag.n
  <2>1. i \in 1..n /\ 1 \in 1..n
    BY <1>1, <1>2
  <2>2. \A k \in DOMAIN got : got[1].tag.n <= got[k].tag.n
    BY <1>1, <1>2, <2>1
  <2>3. \A k \in 1..n : \A m \in 1..n : k < m => got[k].tag.n <= got[m].tag.n
    BY <1>1, <2>2 DEF Sorted
  <2>4. CASE j = n + 1
    BY <1>1, <2>1, <2>4
  <2>5. CASE j # n + 1
    <3>1. j \in 1..n
      BY <1>1, <2>5
    <3>2. got[i].tag.n <= got[j].tag.n
      BY <1>2, <2>1, <2>3, <3>1
    <3> QED
      BY <1>1, <2>1, <3>1, <3>2
  <2> QED
    BY <2>4, <2>5
<1>3. Sorted(a)
  BY <1>1, <1>2 DEF Sorted
<1> QED
  BY <1>3 DEF a

\* A tag that is older than the first one.
LEMMA SortedNot ==
  ASSUME NEW got \in Seq(Entries), NEW i \in DOMAIN got, got[i].tag.n < got[1].tag.n
  PROVE  Sorted(got)
<1>1. 1 \in DOMAIN got
  OBVIOUS
<1>2. got[1] \in Entries /\ got[i] \in Entries
  BY <1>1
<1>3. got[1].tag \in Tags /\ got[i].tag \in Tags
  BY <1>2 DEF Entries
<1>4. got[1].tag.n \in Int /\ got[i].tag.n \in Int
  BY <1>3, TagFields
<1>5. ~(got[1].tag.n <= got[i].tag.n)
  BY <1>4
<1> QED
  BY <1>5 DEF Sorted

\* Sub.onEvent keeps the first timestamp that is not 0.
LEMMA TimedMore ==
  ASSUME NEW got \in Seq(Entries), NEW t \in Tags, NEW base \in Stamps,
         Timed(got, base), NEW next, next = (IF base = 0 THEN t.timestamp ELSE base),
         NEW e \in Entries, e.tag = t, e.time = Since(t, next)
  PROVE  Timed(Append(got, e), next)
<1> DEFINE a == Append(got, e)
           n == Len(got)
<1>1. /\ n \in Nat /\ DOMAIN got = 1..n /\ DOMAIN a = 1..n + 1
      /\ \A i \in 1..n : a[i] = got[i]
      /\ a[n + 1] = e
  BY AppendPlaces
<1> HIDE DEF a, n
<1>2. CASE base = 0 /\ t.timestamp = 0
  <2>1. next = 0 /\ \A i \in DOMAIN got : got[i].tag.timestamp = 0
    BY <1>2 DEF Timed
  <2>2. \A i \in DOMAIN a : a[i].tag.timestamp = 0
    BY <1>1, <1>2, <2>1
  <2> QED
    BY <2>1, <2>2 DEF Timed, a
<1>3. CASE base = 0 /\ t.timestamp # 0
  <2>1. next # 0 /\ next = t.timestamp /\ \A i \in DOMAIN got : got[i].tag.timestamp = 0
    BY <1>3 DEF Timed
  <2>2. /\ n + 1 \in DOMAIN a /\ a[n + 1].tag.timestamp = next
        /\ \A i \in DOMAIN a : IF i < n + 1 THEN a[i].tag.timestamp = 0
                               ELSE a[i].time = Since(a[i].tag, next)
    BY <1>1, <2>1
  <2> QED
    BY <2>1, <2>2 DEF Timed, a
<1>4. CASE base # 0
  <2>1. next = base
    BY <1>4
  <2>2. PICK k \in DOMAIN got :
          /\ got[k].tag.timestamp = base
          /\ \A i \in DOMAIN got : IF i < k THEN got[i].tag.timestamp = 0
                                   ELSE got[i].time = Since(got[i].tag, base)
    BY <1>4 DEF Timed
  <2>3. k \in DOMAIN a /\ a[k].tag.timestamp = base
    BY <1>1, <2>2
  <2>4. \A i \in DOMAIN a : IF i < k THEN a[i].tag.timestamp = 0
                            ELSE a[i].time = Since(a[i].tag, base)
    BY <1>1, <2>1, <2>2
  <2> QED
    BY <1>4, <2>1, <2>3, <2>4 DEF Timed, a
<1> QED
  BY <1>2, <1>3, <1>4


\* What may come after a place stays so when more comes.
LEMMA ContinuesMore ==
  ASSUME NEW got \in Seq(Entries), NEW e \in Entries, NEW all,
         NEW k \in VideoAt(got), NEW tag, Continues(got, all, k, tag)
  PROVE  Continues(Append(got, e), all, k, tag)
<1> DEFINE a == Append(got, e)
           n == Len(got)
<1>1. /\ n \in Nat /\ DOMAIN got = 1..n /\ DOMAIN a = 1..n + 1
      /\ \A i \in 1..n : a[i] = got[i]
  BY AppendPlaces
<1>2. VideoAt(a) \subseteq VideoAt(got) \cup {n + 1} /\ VideoAt(got) \subseteq VideoAt(a)
  BY VideoMore
<1> HIDE DEF a, n
<1>3. VideoAt(got) \subseteq 1..n
  BY <1>1 DEF VideoAt
<1>4. \A i \in 1..n : Before(VideoAt(a), i) = Before(VideoAt(got), i)
  BY <1>1, <1>2, <1>3 DEF Before
<1>5. a[k] = got[k] /\ Before(VideoAt(a), k) = Before(VideoAt(got), k)
  BY <1>1, <1>3, <1>4
<1>6. \A l \in Before(VideoAt(got), k) : Before(VideoAt(a), l) = Before(VideoAt(got), l)
  BY <1>3, <1>4 DEF Before
<1>7. Continues(a, all, k, tag)
  BY <1>5, <1>6 DEF Continues
<1> QED
  BY <1>7 DEF a

\* A video tag that may come after the last one, or starts as it should.
LEMMA PlayableMore ==
  ASSUME NEW got \in Seq(Entries), NEW e \in Entries, NEW all, Playable(got, all),
         e.tag.kind \in Video, VideoAt(got) = {} => e.tag.kind = "header",
         \A k \in VideoAt(got) : (\A l \in VideoAt(got) : l <= k) => Continues(got, all, k, e.tag)
  PROVE  Playable(Append(got, e), all)
<1> DEFINE a == Append(got, e)
           n == Len(got)
           at == VideoAt(got)
<1>1. /\ n \in Nat /\ DOMAIN got = 1..n /\ DOMAIN a = 1..n + 1
      /\ \A i \in 1..n : a[i] = got[i]
      /\ a[n + 1] = e
  BY AppendPlaces
<1>2. VideoAt(a) = at \cup {n + 1}
  BY VideoMore
<1>3. \A k \in at : \A tag : Continues(got, all, k, tag) => Continues(a, all, k, tag)
  BY ContinuesMore
<1>4. /\ \A i \in at : Before(at, i) = {} => got[i].tag.kind = "header"
      /\ \A k \in at : \A i \in at :
           k < i /\ (\A l \in at : l <= k \/ i <= l) => Continues(got, all, k, got[i].tag)
  BY DEF Playable
<1>5. at \subseteq 1..n
  BY <1>1 DEF VideoAt
<1>6. /\ at = {} => e.tag.kind = "header"
      /\ \A k \in at : (\A l \in at : l <= k) => Continues(got, all, k, e.tag)
  OBVIOUS
<1> HIDE DEF a, n, at
<1>7. ASSUME NEW i \in at \cup {n + 1}, Before(at \cup {n + 1}, i) = {}
      PROVE  a[i].tag.kind = "header"
  <2>1. CASE i \in at
    <3>1. Before(at, i) = {} /\ a[i] = got[i]
      BY <1>1, <1>5, <1>7, <2>1 DEF Before
    <3> QED
      BY <1>4, <2>1, <3>1
  <2>2. CASE i = n + 1
    <3>1. at = {}
      BY <1>1, <1>5, <1>7, <2>2 DEF Before
    <3> QED
      BY <1>1, <1>6, <2>2, <3>1
  <2> QED
    BY <2>1, <2>2
<1>8. ASSUME NEW k \in at \cup {n + 1}, NEW i \in at \cup {n + 1}, k < i,
             \A l \in at \cup {n + 1} : l <= k \/ i <= l
      PROVE  Continues(a, all, k, a[i].tag)
  <2>1. k \in at
    BY <1>1, <1>5, <1>8
  <2>2. CASE i \in at
    <3>1. Continues(got, all, k, got[i].tag)
      BY <1>4, <1>8, <2>1, <2>2
    <3> QED
      BY <1>1, <1>3, <1>5, <2>1, <2>2, <3>1
  <2>3. CASE i = n + 1
    <3>1. \A l \in at : l <= k
      BY <1>1, <1>5, <1>8, <2>3
    <3> QED
      BY <1>1, <1>3, <1>6, <2>1, <2>3, <3>1
  <2> QED
    BY <2>2, <2>3
<1>9. Playable(a, all)
  BY <1>2, <1>7, <1>8 DEF Playable
<1> QED
  BY <1>9 DEF a

\* Audio changes nothing about the video.
LEMMA PlayableAudio ==
  ASSUME NEW got \in Seq(Entries), NEW e \in Entries, NEW all, Playable(got, all),
         e.tag.kind \notin Video
  PROVE  Playable(Append(got, e), all)
<1> DEFINE a == Append(got, e)
           n == Len(got)
           at == VideoAt(got)
<1>1. /\ n \in Nat /\ DOMAIN got = 1..n
      /\ \A i \in 1..n : a[i] = got[i]
  BY AppendPlaces
<1>2. VideoAt(a) = at
  BY VideoMore
<1>3. \A k \in at : \A tag : Continues(got, all, k, tag) => Continues(a, all, k, tag)
  BY ContinuesMore
<1>4. /\ \A i \in at : Before(at, i) = {} => got[i].tag.kind = "header"
      /\ \A k \in at : \A i \in at :
           k < i /\ (\A l \in at : l <= k \/ i <= l) => Continues(got, all, k, got[i].tag)
  BY DEF Playable
<1>5. at \subseteq 1..n
  BY <1>1 DEF VideoAt
<1> HIDE DEF a, n, at
<1>6. \A i \in at : a[i] = got[i]
  BY <1>1, <1>5
<1>7. Playable(a, all)
  BY <1>2, <1>3, <1>4, <1>6 DEF Playable
<1> QED
  BY <1>7 DEF a

\* The numbers of the tags a player has got.
LEMMA GotNumbers ==
  ASSUME NEW got \in Seq(Entries)
  PROVE  \A i \in DOMAIN got : got[i].tag \in Tags /\ got[i].tag.n \in Nat
<1>1. ASSUME NEW i \in DOMAIN got PROVE got[i].tag \in Tags /\ got[i].tag.n \in Nat
  <2>1. got[i] \in Entries
    OBVIOUS
  <2>2. got[i].tag \in Tags
    BY <2>1 DEF Entries
  <2> QED
    BY <2>2 DEF Tags
<1> QED
  BY <1>1

\* The tag that is relayed may follow what a player has got that has seen all before.
LEMMA LatestContinues ==
  ASSUME NEW got \in Seq(Entries), NEW all \in Seq(Kinds), all # <<>>, NEW tag,
         StartsWithHeader(all), Live(got, TRUE, all, Len(all) - 1), tag.n = Len(all),
         NEW k \in VideoAt(got), \A l \in VideoAt(got) : l <= k
  PROVE  Continues(got, all, k, tag)
<1> DEFINE at == VideoAt(got)
           last == Len(all)
<1>1. last \in Nat /\ last > 0 /\ VideoOf(all) \subseteq 1..last
  BY VideoPublished DEF VideoOf
<1>2. \A i \in DOMAIN got : got[i].tag.n \in Nat
  BY GotNumbers
<1>3. /\ \A i \in DOMAIN got : got[i].tag.n <= last - 1
      /\ \E i \in at : Before(at, i) # {}
      /\ (\E l \in Before(at, k) : Before(at, l) # {}) =>
           \A n \in VideoOf(all) : n <= last - 1 => n <= got[k].tag.n
  BY DEF Live
<1>4. at \subseteq DOMAIN got /\ DOMAIN got \subseteq Nat
  BY DEF VideoAt
<1> HIDE DEF at, last
<1>5. k \in at /\ \A l \in at : l <= k
  BY DEF at
<1>6. Before(at, k) # {}
  <2>1. PICK i \in at : Before(at, i) # {}
    BY <1>3
  <2>2. PICK j \in at : j < i
    BY <2>1 DEF Before
  <2>3. j < k
    BY <1>4, <1>5, <2>2
  <2> QED
    BY <2>2, <2>3 DEF Before
<1>7. got[k].tag.n < last
  BY <1>1, <1>2, <1>3, <1>4, <1>5
<1>8. (\E l \in Before(at, k) : Before(at, l) # {}) =>
        \A n \in VideoOf(all) : n <= got[k].tag.n \/ last <= n
  BY <1>1, <1>3
<1>9. tag.n = last
  BY DEF last
<1> QED
  BY <1>6, <1>7, <1>8, <1>9 DEF Continues, at

\* The tag that is relayed, audio or to a player that has its opening.
LEMMA PlainLive ==
  ASSUME NEW got \in Seq(Entries), NEW e \in Entries, NEW all \in Seq(Kinds), all # <<>>,
         NEW initialized \in BOOLEAN, Live(got, initialized, all, Len(all) - 1),
         e.tag.n = Len(all), e.tag.kind = all[Len(all)], e.tag.kind \in Video => initialized
  PROVE  Live(Append(got, e), initialized, all, Len(all))
<1> DEFINE a == Append(got, e)
           m == Len(got)
           at == VideoAt(got)
           last == Len(all)
<1>1. /\ m \in Nat /\ DOMAIN got = 1..m /\ DOMAIN a = 1..m + 1
      /\ \A i \in 1..m : a[i] = got[i]
      /\ a[m + 1] = e
  BY AppendPlaces
<1>2. VideoAt(a) = at \cup (IF e.tag.kind \in Video THEN {m + 1} ELSE {})
  BY VideoMore
<1>3. last \in Nat /\ last > 0 /\ VideoOf(all) \subseteq 1..last
  BY VideoPublished DEF VideoOf
<1>4. \A i \in 1..m : got[i].tag.n \in Nat
  BY <1>1, GotNumbers
<1>5. at \subseteq 1..m
  BY <1>1 DEF VideoAt
<1>6. last \in VideoOf(all) => e.tag.kind \in Video
  BY DEF VideoOf
<1>7. e.tag.n = last /\ Live(got, initialized, all, last - 1)
  OBVIOUS
<1> HIDE DEF a, m, at, last
<1>8. \A i \in 1..m : got[i].tag.n <= last - 1
  BY <1>1, <1>7 DEF Live
<1>9. \A i \in DOMAIN a : a[i].tag.n <= last
  BY <1>1, <1>3, <1>4, <1>7, <1>8
<1>10. ASSUME ~initialized
       PROVE  /\ VideoAt(a) = {}
              /\ \A i \in DOMAIN a : a[1].tag.n <= a[i].tag.n
              /\ \A n \in VideoOf(all) : n <= last => n < a[1].tag.n
  <2>1. e.tag.kind \notin Video /\ last \notin VideoOf(all)
    BY <1>6, <1>10
  <2>2. VideoAt(a) = {}
    BY <1>2, <1>7, <1>10, <2>1 DEF Live, at
  <2>3. CASE m = 0
    <3>1. a[1] = e /\ DOMAIN a = {1}
      BY <1>1, <2>3
    <3> QED
      BY <1>3, <1>7, <2>1, <2>2, <3>1
  <2>4. CASE m > 0
    <3>1. 1 \in 1..m /\ a[1] = got[1] /\ got # <<>>
      BY <1>1, <2>4
    <3>2. /\ \A i \in 1..m : got[1].tag.n <= got[i].tag.n
          /\ \A n \in VideoOf(all) : n <= last - 1 => n < got[1].tag.n
      BY <1>1, <1>7, <1>10, <3>1 DEF Live
    <3>3. \A i \in DOMAIN a : a[1].tag.n <= a[i].tag.n
      BY <1>1, <1>3, <1>4, <1>7, <1>8, <3>1, <3>2
    <3>4. \A n \in VideoOf(all) : n <= last => n < a[1].tag.n
      BY <1>3, <2>1, <3>1, <3>2
    <3> QED
      BY <2>2, <3>3, <3>4
  <2> QED
    BY <1>1, <2>3, <2>4
<1>11. ASSUME initialized, StartsWithHeader(all)
       PROVE  /\ \E i \in VideoAt(a) : Before(VideoAt(a), i) # {}
              /\ \A k \in VideoAt(a) : (\A j \in VideoAt(a) : j <= k)
                     /\ (\E j \in Before(VideoAt(a), k) : Before(VideoAt(a), j) # {}) =>
                   \A n \in VideoOf(all) : n <= last => n <= a[k].tag.n
  <2>1. /\ \E i \in at : Before(at, i) # {}
        /\ \A k \in at : (\A j \in at : j <= k) /\ (\E j \in Before(at, k) : Before(at, j) # {}) =>
             \A n \in VideoOf(all) : n <= last - 1 => n <= got[k].tag.n
    BY <1>7, <1>11 DEF Live, at
  <2>2. \E i \in VideoAt(a) : Before(VideoAt(a), i) # {}
    BY <1>2, <2>1 DEF Before
  <2>3. CASE e.tag.kind \in Video
    <3>1. \A k \in VideoAt(a) : (\A j \in VideoAt(a) : j <= k) => k = m + 1
      <4>1. VideoAt(a) = at \cup {m + 1}
        BY <1>2, <2>3
      <4>2. \A k \in at : ~(m + 1 <= k)
        BY <1>1, <1>5
      <4> QED
        BY <4>1, <4>2
    <3>2. a[m + 1].tag.n = last
      BY <1>1, <1>7
    <3> QED
      BY <2>2, <3>1, <3>2
  <2>4. CASE e.tag.kind \notin Video
    <3>1. VideoAt(a) = at /\ last \notin VideoOf(all)
      BY <1>2, <1>6, <2>4
    <3>2. \A k \in at : a[k] = got[k]
      BY <1>1, <1>5
    <3>3. \A n \in VideoOf(all) : n <= last => n <= last - 1
      BY <1>3, <3>1
    <3> QED
      BY <2>1, <2>2, <3>1, <3>2, <3>3
  <2> QED
    BY <2>3, <2>4
<1>12. Live(a, initialized, all, last)
  BY <1>9, <1>10, <1>11 DEF Live
<1> QED
  BY <1>12 DEF a, last

\* What the player has got then.
LEMMA PlainPast ==
  ASSUME NEW got \in Seq(Entries), NEW e \in Entries, NEW all \in Seq(Kinds), all # <<>>,
         NEW initialized \in BOOLEAN, Live(got, initialized, all, Len(all) - 1),
         e.tag.n = Len(all), e.tag.kind = all[Len(all)], e.tag.kind \in Video => initialized,
         Known(got, all), Sorted(got), StartsWithHeader(all) => Playable(got, all)
  PROVE  /\ Known(Append(got, e), all) /\ Sorted(Append(got, e))
         /\ StartsWithHeader(all) => Playable(Append(got, e), all)
<1>1. Len(all) \in Nat /\ Len(all) \in DOMAIN all
  OBVIOUS
<1>2. Known(Append(got, e), all)
  BY <1>1, KnownMore
<1>3. \A i \in DOMAIN got : got[i].tag.n <= e.tag.n
  <2>1. \A i \in DOMAIN got : got[i].tag.n <= Len(all) - 1
    BY DEF Live
  <2> QED
    BY <1>1, <2>1, GotNumbers
<1>4. Sorted(Append(got, e))
  BY <1>3, SortedMore
<1>5. ASSUME StartsWithHeader(all)
      PROVE  Playable(Append(got, e), all)
  <2>1. CASE e.tag.kind \in Video
    <3>1. initialized = TRUE
      BY <2>1
    <3>2. Live(got, TRUE, all, Len(all) - 1)
      BY <3>1
    <3>3. VideoAt(got) # {}
      BY <1>5, <3>2 DEF Live
    <3>4. \A k \in VideoAt(got) : (\A l \in VideoAt(got) : l <= k) => Continues(got, all, k, e.tag)
      BY <1>5, <3>2, LatestContinues
    <3>5. Playable(got, all)
      BY <1>5
    <3> QED
      BY <2>1, <3>3, <3>4, <3>5, PlayableMore
  <2>2. CASE e.tag.kind \notin Video
    <3>1. Playable(got, all)
      BY <1>5
    <3> QED
      BY <2>2, <3>1, PlayableAudio
  <2> QED
    BY <2>1, <2>2
<1> QED
  BY <1>2, <1>4, <1>5

\* A video tag is the one that is relayed, or older than all a player without video has got.
LEMMA LatestOrOlder ==
  ASSUME NEW got \in Seq(Entries), got # <<>>, NEW all \in Seq(Kinds),
         Live(got, FALSE, all, Len(all) - 1), NEW n \in VideoOf(all)
  PROVE  n = Len(all) \/ n < got[1].tag.n
<1>1. Len(all) \in Nat /\ VideoOf(all) \subseteq 1..Len(all)
  BY VideoPublished DEF VideoOf
<1>2. \A j \in VideoOf(all) : j <= Len(all) - 1 => j < got[1].tag.n
  BY DEF Live
<1> QED
  BY <1>1, <1>2

\* One tag of an opening.
LEMMA OpeningPast ==
  ASSUME NEW got \in Seq(Entries), NEW e \in Entries, NEW all \in Seq(Kinds),
         Live(got, FALSE, all, Len(all) - 1), Known(got, all), Sorted(got),
         e.tag.n \in DOMAIN all, e.tag.kind = all[e.tag.n], e.tag.kind \in Video
  PROVE  /\ Known(Append(got, e), all) /\ Sorted(Append(got, e))
         /\ \A i \in DOMAIN Append(got, e) : Append(got, e)[i].tag.n <= Len(all)
         /\ VideoAt(Append(got, e)) = {Len(got) + 1}
<1> DEFINE a == Append(got, e)
           m == Len(got)
<1>1. /\ m \in Nat /\ DOMAIN got = 1..m /\ DOMAIN a = 1..m + 1
      /\ \A i \in 1..m : a[i] = got[i]
      /\ a[m + 1] = e
  BY AppendPlaces
<1>2. Len(all) \in Nat /\ DOMAIN all = 1..Len(all) /\ e.tag.n \in VideoOf(all)
  BY VideoPublished DEF VideoOf
<1>3. \A i \in 1..m : got[i].tag.n \in Nat
  BY <1>1, GotNumbers
<1>4. \A i \in 1..m : got[i].tag.n <= Len(all) - 1
  BY <1>1 DEF Live
<1>5. VideoAt(got) = {}
  BY DEF Live
<1>6. VideoAt(a) = {m + 1}
  BY <1>5, VideoMore
<1>7. Known(a, all)
  BY KnownMore
<1>8. got # <<>> => e.tag.n = Len(all) \/ e.tag.n < got[1].tag.n
  BY <1>2, LatestOrOlder
<1>9. a \in Seq(Entries)
  BY AppendPlaces
<1>10. e.tag.n \in 1..Len(all)
  BY <1>2
<1>11. CASE m = 0 \/ e.tag.n = Len(all)
  <2>1. \A i \in DOMAIN got : got[i].tag.n <= e.tag.n
    BY <1>1, <1>2, <1>3, <1>4, <1>11
  <2>2. Sorted(a)
    BY <2>1, SortedMore
  <2>3. \A i \in DOMAIN a : a[i].tag.n <= Len(all)
    BY <1>1, <1>2, <1>3, <1>4, <1>10
  <2> QED
    BY <1>6, <1>7, <2>2, <2>3
<1>12. CASE m # 0 /\ e.tag.n # Len(all)
  <2>1. 1 \in 1..m /\ got # <<>>
    BY <1>1, <1>12
  <2>2. a[m + 1].tag.n < a[1].tag.n
    BY <1>1, <1>8, <1>12, <2>1
  <2>3. m + 1 \in DOMAIN a
    BY <1>1
  <2> HIDE DEF a
  <2>4. Sorted(a)
    BY <1>9, <2>2, <2>3, SortedNot
  <2>5. \A i \in DOMAIN a : a[i].tag.n <= Len(all)
    BY <1>1, <1>2, <1>3, <1>4, <1>10
  <2> QED
    BY <1>6, <1>7, <2>4, <2>5 DEF a
<1> QED
  BY <1>11, <1>12

\* Both tags of an opening: the header and the key frame after it.
LEMMA OpeningLive ==
  ASSUME NEW got \in Seq(Entries), NEW h \in Entries, NEW e \in Entries, NEW all \in Seq(Kinds),
         Live(got, FALSE, all, Len(all) - 1), Known(got, all), Sorted(got),
         h.tag.n \in DOMAIN all, h.tag.kind = all[h.tag.n], h.tag.kind = "header",
         e.tag.n \in DOMAIN all, e.tag.kind = all[e.tag.n], e.tag.kind \in {"header", "key"},
         h.tag.n <= e.tag.n
  PROVE  /\ Known(Append(Append(got, h), e), all) /\ Sorted(Append(Append(got, h), e))
         /\ Playable(Append(Append(got, h), e), all)
         /\ Live(Append(Append(got, h), e), TRUE, all, Len(all))
<1> DEFINE b == Append(got, h)
           a == Append(b, e)
           m == Len(got)
<1>1. /\ m \in Nat /\ DOMAIN got = 1..m /\ DOMAIN b = 1..m + 1
      /\ \A i \in 1..m : b[i] = got[i]
      /\ b[m + 1] = h /\ b \in Seq(Entries) /\ Len(b) = m + 1
  BY AppendPlaces
<1>2. h.tag.kind \in Video /\ e.tag.kind \in Video
  BY DEF Video, Kinds
<1>3. /\ Known(b, all) /\ Sorted(b)
      /\ \A i \in DOMAIN b : b[i].tag.n <= Len(all)
      /\ VideoAt(b) = {m + 1}
  BY <1>2, OpeningPast
<1>4. /\ Len(all) \in Nat /\ DOMAIN all = 1..Len(all)
      /\ e.tag.n \in VideoOf(all) /\ h.tag.n \in VideoOf(all)
  <2>1. Len(all) \in Nat /\ DOMAIN all = 1..Len(all)
    OBVIOUS
  <2>2. e.tag.n \in VideoOf(all)
    BY <1>2 DEF VideoOf
  <2>3. h.tag.n \in VideoOf(all)
    BY <1>2 DEF VideoOf
  <2> QED
    BY <2>1, <2>2, <2>3
<1>5. VideoAt(got) = {}
  BY DEF Live
<1>6. Playable(got, all)
  BY <1>5 DEF Playable
<1>7. Playable(b, all)
  BY <1>2, <1>5, <1>6, PlayableMore
<1>8. got # <<>> => h.tag.n = Len(all) \/ h.tag.n < got[1].tag.n
  BY <1>4, LatestOrOlder
<1> HIDE DEF b
<1>9. /\ DOMAIN a = 1..m + 2
      /\ \A i \in 1..m + 1 : a[i] = b[i]
      /\ a[m + 2] = e /\ a \in Seq(Entries)
  <2>1. /\ DOMAIN a = 1..Len(b) + 1
        /\ \A i \in 1..Len(b) : a[i] = b[i]
        /\ a[Len(b) + 1] = e /\ a \in Seq(Entries)
    BY <1>1, AppendPlaces
  <2>2. Len(b) + 1 = m + 2
    BY <1>1
  <2> QED
    BY <1>1, <2>1, <2>2
<1>10. VideoAt(a) = {m + 1, m + 2}
  <2>1. VideoAt(a) = VideoAt(b) \cup {Len(b) + 1}
    BY <1>1, <1>2, VideoMore
  <2>2. Len(b) + 1 = m + 2
    BY <1>1
  <2> QED
    BY <1>3, <2>1, <2>2
<1>11. Known(a, all)
  BY <1>1, <1>3, KnownMore
<1>12. Playable(a, all)
  <2>1. \A k \in VideoAt(b) : Continues(b, all, k, e.tag)
    <3>1. Before(VideoAt(b), m + 1) = {}
      BY <1>1, <1>3 DEF Before
    <3>2. b[m + 1].tag.n <= e.tag.n
      BY <1>1
    <3> QED
      BY <1>3, <3>1, <3>2 DEF Continues
  <2> QED
    BY <1>1, <1>2, <1>3, <1>7, <2>1, PlayableMore
<1>13. \A i \in DOMAIN b : b[i].tag.n \in Nat
  BY <1>1, GotNumbers
<1>14. e.tag.n \in 1..Len(all) /\ h.tag.n \in 1..Len(all)
  BY <1>4
<1> HIDE DEF a, m
<1>15. \A i \in DOMAIN a : a[i].tag.n <= Len(all)
  BY <1>1, <1>3, <1>4, <1>9, <1>14
<1>16. Sorted(a)
  <2>1. CASE m = 0 \/ h.tag.n = Len(all)
    <3>1. \A i \in DOMAIN b : b[i].tag.n <= e.tag.n
      <4>1. CASE m = 0
        <5>1. DOMAIN b = {1} /\ b[1] = h
          BY <1>1, <4>1
        <5> QED
          BY <5>1
      <4>2. CASE h.tag.n = Len(all)
        <5>1. e.tag.n = Len(all)
          BY <1>4, <1>14, <4>2
        <5> QED
          BY <1>3, <5>1
      <4> QED
        BY <2>1, <4>1, <4>2
    <3>2. Sorted(Append(b, e))
      BY <1>1, <1>3, <3>1, SortedMore
    <3> QED
      BY <3>2 DEF a
  <2>2. CASE m # 0 /\ h.tag.n # Len(all)
    <3>1. 1 \in 1..m /\ 1 \in 1..m + 1 /\ m + 1 \in 1..m + 1 /\ m + 1 \in 1..m + 2
      BY <1>1, <2>2
    <3>2. got # <<>>
      BY <1>1, <3>1
    <3>3. a[1] = got[1] /\ a[m + 1] = h
      BY <1>1, <1>9, <3>1
    <3>4. a[m + 1].tag.n < a[1].tag.n
      BY <1>8, <2>2, <3>2, <3>3
    <3>5. m + 1 \in DOMAIN a
      BY <1>9, <3>1
    <3> QED
      BY <1>9, <3>4, <3>5, SortedNot
  <2> QED
    BY <2>1, <2>2
<1>17. Live(a, TRUE, all, Len(all))
  <2>1. m + 1 \in Before(VideoAt(a), m + 2)
    BY <1>1, <1>10 DEF Before
  <2>2. \A k \in VideoAt(a) : \A l \in Before(VideoAt(a), k) : Before(VideoAt(a), l) = {}
    BY <1>1, <1>10 DEF Before
  <2> QED
    BY <1>10, <1>15, <2>1, <2>2 DEF Live
<1>18. Known(a, all) /\ Sorted(a) /\ Playable(a, all) /\ Live(a, TRUE, all, Len(all))
  BY <1>11, <1>12, <1>16, <1>17 DEF a
<1> QED
  BY <1>18 DEF a, b

-----------------------------------------------------------------------------
(* What one turn of Publish's loop does to a player                          *)

Players == [of : Pubsubs \cup {NoPubsub}, initialized : BOOLEAN, closed : BOOLEAN,
            eventCallback : BOOLEAN, lastTimestamp : Stamps, got : Seq(Entries)]

\* A remainder, one word to either side of zero and one word above.
LEMMA Remainders ==
  ASSUME NEW w \in Nat \ {0}
  PROVE  /\ \A n \in 0..w - 1 : n % w = n
         /\ \A n \in w..2 * w - 1 : n % w = n - w
         /\ \A n \in -w..-1 : n % w = n + w
OBVIOUS

\* uint32 timestamps that count from a base.
LEMMA SinceFits ==
  ASSUME NEW t \in Tags, NEW base \in Stamps
  PROVE  /\ Since(t, base) \in Words
         /\ Since(t, base) = IF base <= t.timestamp THEN t.timestamp - base
                            ELSE t.timestamp - base + WordMod
<1> DEFINE ts == t.timestamp
           d == ts + WordMod - base
<1>1. WordMod \in Nat \ {0}
  BY BoundsAssumption
<1>2. ts \in Words /\ base \in Words
  BY TagFields, StampsFit DEF Stamps
<1>3. Since(t, base) = d % WordMod
  BY DEF Since
<1> HIDE DEF ts
<1>4. /\ \A n \in 0..WordMod - 1 : n % WordMod = n
      /\ \A n \in WordMod..2 * WordMod - 1 : n % WordMod = n - WordMod
  BY <1>1, Remainders
<1>5. CASE base <= ts
  <2>1. d \in WordMod..2 * WordMod - 1 /\ d - WordMod = ts - base /\ ts - base \in 0..WordMod - 1
    BY <1>1, <1>2, <1>5 DEF Words
  <2> HIDE DEF d
  <2>2. d % WordMod = d - WordMod
    BY <1>4, <2>1
  <2>3. Since(t, base) = ts - base
    BY <1>3, <2>1, <2>2
  <2> QED
    BY <1>5, <2>1, <2>3 DEF ts, Words
<1>6. CASE ~(base <= ts)
  <2>1. d \in 0..WordMod - 1 /\ d = ts - base + WordMod
    BY <1>1, <1>2, <1>6 DEF Words
  <2> HIDE DEF d
  <2>2. d % WordMod = d
    BY <1>4, <2>1
  <2>3. Since(t, base) = ts - base + WordMod /\ Since(t, base) \in 0..WordMod - 1
    BY <1>3, <2>1, <2>2
  <2> QED
    BY <1>6, <2>3 DEF ts, Words
<1> QED
  BY <1>5, <1>6

\* The entry Sub.onEvent makes of a tag.
Entry(s, t) == [tag |-> t, time |-> Since(t, Base(s, t))]

\* Sub.onEvent of a Sub that is not closed.
LEMMA OnEventGets ==
  ASSUME NEW s \in Players, NEW t \in Tags, ~s.closed
  PROVE  /\ OnEvent(s, t) \in Players
         /\ OnEvent(s, t).got = Append(s.got, Entry(s, t))
         /\ Entry(s, t) \in Entries /\ Entry(s, t).tag = t
         /\ s.got \in Seq(Entries)
         /\ OnEvent(s, t).of = s.of /\ OnEvent(s, t).closed = s.closed
         /\ OnEvent(s, t).initialized = s.initialized
         /\ Timed(s.got, s.lastTimestamp) => Timed(OnEvent(s, t).got, OnEvent(s, t).lastTimestamp)
<1> DEFINE base == s.lastTimestamp
           next == Base(s, t)
           e == Entry(s, t)
<1>1. s.got \in Seq(Entries) /\ base \in Stamps
  BY DEF Players
<1>2. next = IF base = 0 THEN t.timestamp ELSE base
  BY DEF Base
<1>3. next \in Stamps
  BY <1>1, <1>2, TagFields DEF Stamps
<1>4. Since(t, next) \in Words
  BY <1>3, SinceFits
<1>5. e = [tag |-> t, time |-> Since(t, next)]
  BY DEF Entry
<1>6. e \in Entries /\ e.tag = t /\ e.time = Since(t, next)
  BY <1>4, <1>5 DEF Entries
<1>7. t # NoTag
  BY TagFields
<1>8. OnEvent(s, t) = [s EXCEPT !.lastTimestamp = next, !.got = Append(@, e)]
  BY <1>5, <1>7 DEF OnEvent
<1> HIDE DEF next, e, base
<1>9. Append(s.got, e) \in Seq(Entries)
  BY <1>1, <1>6, AppendPlaces
<1>10. /\ OnEvent(s, t) \in Players
       /\ OnEvent(s, t).got = Append(s.got, e)
       /\ OnEvent(s, t).lastTimestamp = next
       /\ OnEvent(s, t).of = s.of /\ OnEvent(s, t).closed = s.closed
       /\ OnEvent(s, t).initialized = s.initialized
  BY <1>3, <1>8, <1>9 DEF Players
<1>11. Timed(s.got, base) => Timed(Append(s.got, e), next)
  BY <1>1, <1>2, <1>6, TimedMore
<1> QED
  BY <1>1, <1>6, <1>10, <1>11 DEF e, base

\* What Publish remembers: the last header, and a key frame or header no older
\* than that; with a header, once video has come from a stream that starts with one.
Remembered(c, all) ==
  /\ c.header # NoTag =>
       /\ c.header \in Tags /\ c.header.kind = "header"
       /\ c.header.n \in DOMAIN all /\ all[c.header.n] = "header"
       /\ c.key # NoTag /\ c.header.n <= c.key.n
  /\ c.key # NoTag =>
       /\ c.key \in Tags /\ c.key.kind \in {"header", "key"}
       /\ c.key.n \in DOMAIN all /\ all[c.key.n] = c.key.kind
  /\ VideoOf(all) # {} /\ StartsWithHeader(all) => c.header # NoTag

\* Nothing happens without a tag, or to a closed Sub.
LEMMA OnEventNothing ==
  ASSUME NEW s, NEW tag, tag = NoTag \/ s.closed
  PROVE  OnEvent(s, tag) = s
BY DEF OnEvent

\* A closed Sub only has its flag set.
LEMMA RelayedClosed ==
  ASSUME NEW s, NEW tag, NEW c, s.closed
  PROVE  Relayed(s, tag, c) = [s EXCEPT !.initialized = @ \/ tag.kind \in Video]
BY DEF Relayed, OnEvents, OnEvent

\* A player gets the tag.
LEMMA RelayedPlain ==
  ASSUME NEW s, NEW tag, NEW c, ~Joins(s, tag)
  PROVE  Relayed(s, tag, c) = [OnEvent(s, tag) EXCEPT !.initialized = @ \/ tag.kind \in Video]
<1>1. ForSub(s, tag, c) = <<NoTag, NoTag, tag>>
  BY DEF ForSub
<1>2. OnEvents(s, <<NoTag, NoTag, tag>>) = OnEvent(s, tag)
  BY DEF OnEvents, OnEvent
<1> QED
  BY <1>1, <1>2 DEF Relayed

\* A player gets an opening.
LEMMA RelayedJoins ==
  ASSUME NEW s, NEW tag, NEW c, Joins(s, tag)
  PROVE  Relayed(s, tag, c) = [OnEvent(OnEvent(s, c.header), c.key) EXCEPT !.initialized = TRUE]
<1>1. ForSub(s, tag, c) = <<c.header, c.key, NoTag>> /\ tag.kind \in Video
  BY DEF ForSub, Opening, Joins
<1>2. \A r : OnEvent(r, NoTag) = r
  BY DEF OnEvent
<1>3. OnEvents(s, <<c.header, c.key, NoTag>>) = OnEvent(OnEvent(s, c.header), c.key)
  BY <1>2 DEF OnEvents
<1> QED
  BY <1>1, <1>3 DEF Relayed

\* Setting Sub.initialized.
LEMMA SetInitialized ==
  ASSUME NEW s \in Players, NEW b \in BOOLEAN
  PROVE  /\ [s EXCEPT !.initialized = b] \in Players
         /\ [s EXCEPT !.initialized = b].initialized = b
         /\ [s EXCEPT !.initialized = b].of = s.of
         /\ [s EXCEPT !.initialized = b].closed = s.closed
         /\ [s EXCEPT !.initialized = b].got = s.got
         /\ [s EXCEPT !.initialized = b].lastTimestamp = s.lastTimestamp
BY DEF Players

\* The turn of a closed Sub.
LEMMA RelayToClosed ==
  ASSUME NEW s \in Players, NEW all, NEW tag, NEW c, s.closed,
         Past(s.got, s.lastTimestamp, all)
  PROVE  /\ Relayed(s, tag, c) \in Players
         /\ Relayed(s, tag, c).of = s.of /\ Relayed(s, tag, c).closed
         /\ Past(Relayed(s, tag, c).got, Relayed(s, tag, c).lastTimestamp, all)
<1> DEFINE b == s.initialized \/ tag.kind \in Video
<1>1. Relayed(s, tag, c) = [s EXCEPT !.initialized = b]
  BY RelayedClosed
<1>2. b \in BOOLEAN
  OBVIOUS
<1> HIDE DEF b
<1>3. /\ [s EXCEPT !.initialized = b] \in Players
      /\ [s EXCEPT !.initialized = b].of = s.of
      /\ [s EXCEPT !.initialized = b].closed = s.closed
      /\ [s EXCEPT !.initialized = b].got = s.got
      /\ [s EXCEPT !.initialized = b].lastTimestamp = s.lastTimestamp
  BY <1>2, SetInitialized
<1> QED
  BY <1>1, <1>3

\* The turn of a player that gets the tag.
LEMMA RelayPlain ==
  ASSUME NEW s \in Players, NEW all \in Seq(Kinds), all # <<>>, NEW tag \in Tags, NEW c,
         ~s.closed, ~Joins(s, tag), tag.n = Len(all), tag.kind = all[Len(all)],
         Past(s.got, s.lastTimestamp, all), Live(s.got, s.initialized, all, Len(all) - 1)
  PROVE  LET r == Relayed(s, tag, c) IN
         /\ r \in Players /\ r.of = s.of /\ ~r.closed
         /\ Past(r.got, r.lastTimestamp, all)
         /\ Live(r.got, r.initialized, all, Len(all))
<1> DEFINE b == s.initialized
           o == OnEvent(s, tag)
           e == Entry(s, tag)
<1>1. b \in BOOLEAN
  BY DEF Players
<1>2. tag.kind \in Video => b
  BY DEF Joins
<1>3. /\ o \in Players /\ o.got = Append(s.got, e)
      /\ e \in Entries /\ e.tag = tag /\ s.got \in Seq(Entries)
      /\ o.of = s.of /\ o.closed = s.closed /\ o.initialized = b
      /\ Timed(s.got, s.lastTimestamp) => Timed(o.got, o.lastTimestamp)
  BY OnEventGets
<1>4. Relayed(s, tag, c) = [o EXCEPT !.initialized = @ \/ tag.kind \in Video]
  BY RelayedPlain
<1> HIDE DEF b, o, e
<1>5. (b \/ tag.kind \in Video) = b
  BY <1>1, <1>2
<1>6. Relayed(s, tag, c) = [o EXCEPT !.initialized = b]
  BY <1>3, <1>4, <1>5
<1>7. /\ Relayed(s, tag, c) \in Players
      /\ Relayed(s, tag, c).initialized = b
      /\ Relayed(s, tag, c).of = o.of
      /\ Relayed(s, tag, c).closed = o.closed
      /\ Relayed(s, tag, c).got = o.got
      /\ Relayed(s, tag, c).lastTimestamp = o.lastTimestamp
  BY <1>1, <1>3, <1>6, SetInitialized
<1>8. Live(s.got, b, all, Len(all) - 1)
  BY DEF b
<1>9. e.tag.n = Len(all) /\ e.tag.kind = all[Len(all)] /\ (e.tag.kind \in Video => b)
  BY <1>2, <1>3
<1>10. Live(o.got, b, all, Len(all))
  BY <1>1, <1>3, <1>8, <1>9, PlainLive
<1>11. Known(s.got, all) /\ Sorted(s.got) /\ Timed(s.got, s.lastTimestamp)
       /\ (StartsWithHeader(all) => Playable(s.got, all))
  BY DEF Past
<1>12. /\ Known(o.got, all) /\ Sorted(o.got)
       /\ StartsWithHeader(all) => Playable(o.got, all)
  BY <1>1, <1>3, <1>8, <1>9, <1>11, PlainPast
<1>13. Past(o.got, o.lastTimestamp, all)
  BY <1>3, <1>11, <1>12 DEF Past
<1> QED
  BY <1>3, <1>7, <1>10, <1>13

\* The turn of a player that gets an opening, or what there is of one.
LEMMA RelayOpening ==
  ASSUME NEW s \in Players, NEW all \in Seq(Kinds), all # <<>>, NEW tag \in Tags, NEW c,
         ~s.closed, Joins(s, tag), tag.n = Len(all), tag.kind = all[Len(all)],
         Remembered(c, all),
         Past(s.got, s.lastTimestamp, all), Live(s.got, s.initialized, all, Len(all) - 1)
  PROVE  LET r == Relayed(s, tag, c) IN
         /\ r \in Players /\ r.of = s.of /\ ~r.closed
         /\ Past(r.got, r.lastTimestamp, all)
         /\ Live(r.got, r.initialized, all, Len(all))
<1> DEFINE h == OnEvent(s, c.header)
           o == OnEvent(h, c.key)
<1>1. Relayed(s, tag, c) = [o EXCEPT !.initialized = TRUE]
  BY RelayedJoins
<1>2. /\ ~s.initialized /\ s.initialized \in BOOLEAN /\ s.got \in Seq(Entries)
      /\ tag.kind \in Video
  BY DEF Joins, Players
<1>3. s.initialized = FALSE
  BY <1>2
<1>4. Live(s.got, FALSE, all, Len(all) - 1)
  BY <1>3
<1>5. Known(s.got, all) /\ Sorted(s.got) /\ Timed(s.got, s.lastTimestamp)
      /\ (StartsWithHeader(all) => Playable(s.got, all))
  BY DEF Past
<1>6. VideoOf(all) # {} /\ Len(all) \in Nat
  <2>1. Len(all) \in DOMAIN all /\ Len(all) \in Nat
    OBVIOUS
  <2> QED
    BY <1>2, <2>1 DEF VideoOf
<1>7. c.key \notin Tags => ~StartsWithHeader(all)
  BY <1>6 DEF Remembered
<1>8. c.header = NoTag => ~StartsWithHeader(all)
  BY <1>6 DEF Remembered
<1>9. SUFFICES /\ o \in Players /\ o.of = s.of /\ o.closed = s.closed
               /\ Past(o.got, o.lastTimestamp, all)
               /\ Live(o.got, TRUE, all, Len(all))
  <2>1. TRUE \in BOOLEAN
    OBVIOUS
  <2> DEFINE r == Relayed(s, tag, c)
  <2> HIDE DEF o, r
  <2>2. r = [o EXCEPT !.initialized = TRUE]
    BY <1>1 DEF r
  <2>3. /\ o \in Players /\ o.of = s.of /\ o.closed = s.closed
        /\ Past(o.got, o.lastTimestamp, all)
        /\ Live(o.got, TRUE, all, Len(all))
    OBVIOUS
  <2>4. /\ r \in Players /\ r.initialized = TRUE /\ r.of = o.of /\ r.closed = o.closed
        /\ r.got = o.got /\ r.lastTimestamp = o.lastTimestamp
    BY <2>1, <2>2, <2>3, SetInitialized
  <2>5. /\ r \in Players /\ r.of = s.of /\ ~r.closed
        /\ Past(r.got, r.lastTimestamp, all)
        /\ Live(r.got, r.initialized, all, Len(all))
    BY <2>3, <2>4
  <2> QED
    BY <2>5 DEF r
<1>10. CASE c.key = NoTag
  <2>1. c.header = NoTag
    BY <1>10 DEF Remembered
  <2>2. h = s
    BY <2>1, OnEventNothing
  <2>3. o = s
    BY <1>10, <2>2, OnEventNothing
  <2>4. \A i \in DOMAIN s.got : s.got[i].tag.n <= Len(all)
    <3>1. \A i \in DOMAIN s.got : s.got[i].tag.n <= Len(all) - 1
      BY <1>4 DEF Live
    <3> QED
      BY <1>2, <1>6, <3>1, GotNumbers
  <2>5. Live(s.got, TRUE, all, Len(all))
    BY <1>8, <2>1, <2>4 DEF Live
  <2> HIDE DEF o
  <2> QED
    BY <2>3, <2>5
<1>11. CASE c.key # NoTag /\ c.header = NoTag
  <2> DEFINE e == Entry(s, c.key)
  <2>1. /\ c.key \in Tags /\ c.key.kind \in {"header", "key"}
        /\ c.key.n \in DOMAIN all /\ all[c.key.n] = c.key.kind
    BY <1>11 DEF Remembered
  <2>2. h = s
    BY <1>11, OnEventNothing
  <2>3. /\ o \in Players /\ o.got = Append(s.got, e)
        /\ e \in Entries /\ e.tag = c.key
        /\ o.of = s.of /\ o.closed = s.closed
        /\ Timed(s.got, s.lastTimestamp) => Timed(o.got, o.lastTimestamp)
    BY <2>1, <2>2, OnEventGets
  <2> HIDE DEF o, e
  <2>4. e.tag.kind \in Video /\ e.tag.kind = all[e.tag.n] /\ e.tag.n \in DOMAIN all
    BY <2>1, <2>3 DEF Video, Kinds
  <2>5. /\ Known(o.got, all) /\ Sorted(o.got)
        /\ \A i \in DOMAIN o.got : o.got[i].tag.n <= Len(all)
    BY <1>2, <1>4, <1>5, <2>3, <2>4, OpeningPast
  <2>6. ~StartsWithHeader(all)
    BY <1>8, <1>11
  <2>7. Past(o.got, o.lastTimestamp, all)
    BY <1>5, <2>3, <2>5, <2>6 DEF Past
  <2>8. Live(o.got, TRUE, all, Len(all))
    BY <2>5, <2>6 DEF Live
  <2> QED
    BY <2>3, <2>7, <2>8
<1>12. CASE c.header # NoTag
  <2> DEFINE e == Entry(s, c.header)
             f == Entry(h, c.key)
  <2>1. /\ c.header \in Tags /\ c.header.kind = "header"
        /\ c.header.n \in DOMAIN all /\ all[c.header.n] = c.header.kind
        /\ c.key \in Tags /\ c.key.kind \in {"header", "key"}
        /\ c.key.n \in DOMAIN all /\ all[c.key.n] = c.key.kind
        /\ c.header.n <= c.key.n
    BY <1>12 DEF Remembered
  <2>2. /\ h \in Players /\ h.got = Append(s.got, e)
        /\ e \in Entries /\ e.tag = c.header
        /\ h.of = s.of /\ h.closed = s.closed
        /\ Timed(s.got, s.lastTimestamp) => Timed(h.got, h.lastTimestamp)
    BY <2>1, OnEventGets
  <2> HIDE DEF h, e
  <2>3. /\ o \in Players /\ o.got = Append(h.got, f)
        /\ f \in Entries /\ f.tag = c.key
        /\ o.of = h.of /\ o.closed = h.closed
        /\ Timed(h.got, h.lastTimestamp) => Timed(o.got, o.lastTimestamp)
    BY <2>1, <2>2, OnEventGets
  <2> HIDE DEF o, f
  <2>4. o.got = Append(Append(s.got, e), f)
    BY <2>2, <2>3
  <2>5. /\ e.tag.n \in DOMAIN all /\ e.tag.kind = all[e.tag.n] /\ e.tag.kind = "header"
        /\ f.tag.n \in DOMAIN all /\ f.tag.kind = all[f.tag.n]
        /\ f.tag.kind \in {"header", "key"} /\ e.tag.n <= f.tag.n
    BY <2>1, <2>2, <2>3
  <2>6. /\ Known(o.got, all) /\ Sorted(o.got) /\ Playable(o.got, all)
        /\ Live(o.got, TRUE, all, Len(all))
    BY <1>2, <1>4, <1>5, <2>2, <2>3, <2>4, <2>5, OpeningLive
  <2>7. Past(o.got, o.lastTimestamp, all)
    BY <1>5, <2>2, <2>3, <2>6 DEF Past
  <2> QED
    BY <2>2, <2>3, <2>6, <2>7
<1> QED
  BY <1>10, <1>11, <1>12

-----------------------------------------------------------------------------
(* The types of the rest of the state                                        *)

Caches == [header : Tags \cup {NoTag}, key : Tags \cup {NoTag}]
Jobs == [tag : Tags \cup {NoTag}, left : Seq(Conns)]

Types ==
  /\ subs \in [Pubsubs -> Seq(Conns)] /\ sent \in [Pubsubs -> Seq(Kinds)]
  /\ cached \in [Pubsubs -> Caches]
  /\ sub \in [Conns -> Players]
  /\ job \in [Conns -> Jobs]
  /\ \A c \in Conns : pc[c] # "relaying" => job[c] = NoJob
  /\ \A c \in Conns : pc[c] = "relaying" => pub[c] # NoPubsub /\ job[c].tag \in Tags

\* Sub.onEvent, whether there is a tag or not.
LEMMA OnEventTyped ==
  ASSUME NEW s \in Players, NEW t \in Tags \cup {NoTag}
  PROVE  OnEvent(s, t) \in Players
<1>1. CASE t = NoTag \/ s.closed
  BY <1>1, OnEventNothing
<1>2. CASE t # NoTag /\ ~s.closed
  BY <1>2, OnEventGets
<1> QED
  BY <1>1, <1>2

\* A turn of the loop.
LEMMA RelayedTyped ==
  ASSUME NEW s \in Players, NEW tag \in Tags, NEW c \in Caches
  PROVE  Relayed(s, tag, c) \in Players
<1> DEFINE tags == ForSub(s, tag, c)
           o == OnEvents(s, tags)
<1>1. tags[1] \in Tags \cup {NoTag} /\ tags[2] \in Tags \cup {NoTag} /\ tags[3] \in Tags \cup {NoTag}
  BY DEF ForSub, Opening, Caches
<1> HIDE DEF tags
<1>2. OnEvent(s, tags[1]) \in Players
  BY <1>1, OnEventTyped
<1>3. OnEvent(OnEvent(s, tags[1]), tags[2]) \in Players
  BY <1>1, <1>2, OnEventTyped
<1>4. o \in Players
  BY <1>1, <1>3, OnEventTyped DEF OnEvents
<1> HIDE DEF o
<1>6. [o EXCEPT !.initialized = @ \/ tag.kind \in Video] \in Players
  BY <1>4 DEF Players
<1> QED
  BY <1>6 DEF Relayed, o, tags

\* What Publish remembers is a tag.
LEMMA RememberTyped ==
  ASSUME NEW c \in Caches, NEW tag \in Tags
  PROVE  Remember(c, tag) \in Caches
BY DEF Remember, Caches

\* A Sub that is closed.
LEMMA SubCloseTyped ==
  ASSUME NEW s \in Players
  PROVE  /\ SubClose(s) \in Players /\ SubClose(s).closed
         /\ SubClose(s).of = s.of /\ SubClose(s).got = s.got
         /\ SubClose(s).initialized = s.initialized
         /\ SubClose(s).lastTimestamp = s.lastTimestamp
BY DEF SubClose, Players

\* The first state.
LEMMA InitTypes == Init => Types
<1> SUFFICES ASSUME Init PROVE Types
  OBVIOUS
<1>1. <<>> \in Seq(Conns) /\ <<>> \in Seq(Kinds) /\ <<>> \in Seq(Entries)
  OBVIOUS
<1>2. 0 \in Stamps
  BY DEF Stamps
<1>3. NoSub \in Players
  BY <1>1, <1>2 DEF NoSub, Players
<1>4. NoJob \in Jobs
  BY <1>1 DEF NoJob, Jobs
<1>5. [header |-> NoTag, key |-> NoTag] \in Caches
  BY DEF Caches
<1> QED
  BY <1>1, <1>3, <1>4, <1>5 DEF Init, Types

\* Publish makes a tag.
LEMMA PublishTypes ==
  ASSUME IInv, Types, NEW c \in Conns, NEW kind \in Kinds, NEW timestamp \in Timestamps,
         Publish(c, kind, timestamp)
  PROVE  Types'
<1> DEFINE pb == pub[c]
           tag == [n |-> Len(sent[pb]) + 1, kind |-> kind, timestamp |-> timestamp]
<1>1. pb \in Pubsubs /\ pb # NoPubsub
  BY DEF IInv, TableType, Publish
<1>2. sent[pb] \in Seq(Kinds) /\ subs[pb] \in Seq(Conns) /\ cached[pb] \in Caches
  BY <1>1 DEF Types
<1>3. tag \in Tags
  <2>1. Len(sent[pb]) + 1 \in 1..MaxTags
    BY <1>2, BoundsAssumption DEF Publish
  <2> QED
    BY <2>1 DEF Tags
<1>4. /\ sent' = [sent EXCEPT ![pb] = Append(@, kind)]
      /\ cached' = [cached EXCEPT ![pb] = Remember(@, tag)]
      /\ job' = [job EXCEPT ![c] = [tag |-> tag, left |-> subs[pb]]]
      /\ pc' = [pc EXCEPT ![c] = "relaying"]
      /\ UNCHANGED <<subs, pub, sub>>
  BY DEF Publish, Goto
<1>5. pub \in [Conns -> Pubsubs \cup {NoPubsub}] /\ pc \in [Conns -> Places]
  BY DEF IInv, TableType
<1> HIDE DEF tag
<1>6. [tag |-> tag, left |-> subs[pb]] \in Jobs
  BY <1>2, <1>3 DEF Jobs
<1>7. Append(sent[pb], kind) \in Seq(Kinds)
  BY <1>2
<1>8. Remember(cached[pb], tag) \in Caches
  BY <1>2, <1>3, RememberTyped
<1> HIDE DEF pb
<1>9. pub[c] # NoPubsub
  BY <1>1 DEF pb
<1>10. sent' \in [Pubsubs -> Seq(Kinds)] /\ cached' \in [Pubsubs -> Caches]
  BY <1>1, <1>4, <1>7, <1>8 DEF Types
<1>11. job' \in [Conns -> Jobs]
  BY <1>4, <1>6 DEF Types
<1>12. job'[c] = [tag |-> tag, left |-> subs[pb]] /\ \A d \in Conns : d # c => job'[d] = job[d] /\ pc'[d] = pc[d]
  BY <1>4, <1>5 DEF Types
<1>13. job'[c].tag \in Tags /\ pc'[c] = "relaying"
  BY <1>3, <1>4, <1>5, <1>12
<1>14. \A d \in Conns : pc'[d] # "relaying" => job'[d] = NoJob
  BY <1>12, <1>13 DEF Types
<1>15. \A d \in Conns : pc'[d] = "relaying" => pub[d] # NoPubsub /\ job'[d].tag \in Tags
  BY <1>9, <1>12, <1>13 DEF Types
<1> QED
  BY <1>4, <1>10, <1>11, <1>14, <1>15 DEF Types

\* What a turn of the loop does, unless it panics.
LEMMA RelayStep ==
  ASSUME IInv, Types, NEW c \in Conns, Relay(c)
  PROVE  /\ pc[c] = "relaying" /\ pub[c] \in Pubsubs /\ pub[c].by = c
         /\ job[c].left \in Seq(Conns) /\ job[c].left # <<>>
         /\ Head(job[c].left) \in Conns /\ Tail(job[c].left) \in Seq(Conns)
         /\ job[c].tag \in Tags /\ cached[pub[c]] \in Caches
         /\ \/ /\ job' = [job EXCEPT ![c] = NoJob]
               /\ pc' = [pc EXCEPT ![c] = "ending"]
               /\ sub' = sub
            \/ /\ sub' = [sub EXCEPT ![Head(job[c].left)] = Relayed(@, job[c].tag, cached[pub[c]])]
               /\ job' = [job EXCEPT ![c].left = Tail(@)]
               /\ pc' = pc
         /\ UNCHANGED <<streams, subs, sent, cached, pub>>
<1>1. pc[c] = "relaying" /\ job[c].left # <<>> /\ UNCHANGED <<streams, subs, sent, cached, pub>>
  BY DEF Relay
<1>2. pub[c] \in Pubsubs /\ pub[c].by = c /\ job[c].tag \in Tags /\ job[c] \in Jobs
  BY <1>1 DEF IInv, TableType, Types
<1>3. job[c].left \in Seq(Conns) /\ cached[pub[c]] \in Caches
  BY <1>2 DEF Types, Jobs
<1>4. Head(job[c].left) \in Conns /\ Tail(job[c].left) \in Seq(Conns)
  BY <1>1, <1>3
<1>5. \/ /\ job' = [job EXCEPT ![c] = NoJob]
         /\ pc' = [pc EXCEPT ![c] = "ending"]
         /\ sub' = sub
      \/ /\ sub' = [sub EXCEPT ![Head(job[c].left)] = Relayed(@, job[c].tag, cached[pub[c]])]
         /\ job' = [job EXCEPT ![c].left = Tail(@)]
         /\ pc' = pc
  BY DEF Relay, Goto
<1> QED
  BY <1>1, <1>2, <1>3, <1>4, <1>5

\* A turn of the loop keeps them.
LEMMA RelayTypes ==
  ASSUME IInv, Types, NEW c \in Conns, Relay(c)
  PROVE  Types'
<1> DEFINE p == Head(job[c].left)
           tag == job[c].tag
           cc == cached[pub[c]]
           rest == Tail(job[c].left)
<1>1. /\ pc[c] = "relaying" /\ pub[c] \in Pubsubs
      /\ p \in Conns /\ rest \in Seq(Conns) /\ tag \in Tags /\ cc \in Caches
      /\ UNCHANGED <<streams, subs, sent, cached, pub>>
  BY RelayStep
<1>2. \/ /\ job' = [job EXCEPT ![c] = NoJob]
         /\ pc' = [pc EXCEPT ![c] = "ending"]
         /\ sub' = sub
      \/ /\ sub' = [sub EXCEPT ![p] = Relayed(@, tag, cc)]
         /\ job' = [job EXCEPT ![c].left = Tail(@)]
         /\ pc' = pc
  BY RelayStep
<1>3. NoJob \in Jobs
  BY DEF NoJob, Jobs
<1>4. sub \in [Conns -> Players] /\ job \in [Conns -> Jobs] /\ pc \in [Conns -> Places]
  BY DEF IInv, TableType, Types
<1>5. CASE /\ job' = [job EXCEPT ![c] = NoJob]
           /\ pc' = [pc EXCEPT ![c] = "ending"]
           /\ sub' = sub
  <2>1. job' \in [Conns -> Jobs]
    BY <1>3, <1>4, <1>5
  <2>2. \A d \in Conns : pc'[d] # "relaying" => job'[d] = NoJob
    BY <1>4, <1>5 DEF Types
  <2>3. \A d \in Conns : pc'[d] = "relaying" => pub[d] # NoPubsub /\ job'[d].tag \in Tags
    BY <1>4, <1>5 DEF Types
  <2> QED
    BY <1>1, <1>4, <1>5, <2>1, <2>2, <2>3 DEF Types
<1>6. CASE /\ sub' = [sub EXCEPT ![p] = Relayed(@, tag, cc)]
           /\ job' = [job EXCEPT ![c].left = Tail(@)]
           /\ pc' = pc
  <2>1. Relayed(sub[p], tag, cc) \in Players
    BY <1>1, <1>4, RelayedTyped
  <2>2. sub' \in [Conns -> Players]
    BY <1>4, <1>6, <2>1
  <2>3. job[c] \in Jobs
    BY <1>4
  <2>4. [job[c] EXCEPT !.left = rest] \in Jobs /\ [job[c] EXCEPT !.left = rest].tag = tag
    BY <1>1, <2>3 DEF Jobs
  <2>5. job' = [job EXCEPT ![c] = [job[c] EXCEPT !.left = rest]]
    BY <1>4, <1>6
  <2> HIDE DEF rest, tag
  <2>6. job' \in [Conns -> Jobs] /\ job'[c].tag = tag
    BY <1>4, <2>4, <2>5
  <2>7. \A d \in Conns : pc'[d] # "relaying" => job'[d] = NoJob
    BY <1>1, <1>4, <1>6, <2>5 DEF Types
  <2>8. \A d \in Conns : pc'[d] = "relaying" => pub[d] # NoPubsub /\ job'[d].tag \in Tags
    BY <1>1, <1>4, <1>6, <2>5, <2>6 DEF Types
  <2> QED
    BY <1>1, <1>6, <2>2, <2>6, <2>7, <2>8 DEF Types
<1> QED
  BY <1>2, <1>5, <1>6

\* The other handlers keep them.
LEMMA NextTypes == IInv /\ Types /\ [Next]_vars => Types'
<1> SUFFICES ASSUME IInv, Types, [Next]_vars PROVE Types'
  OBVIOUS
<1>1. /\ sub \in [Conns -> Players] /\ pc \in [Conns -> Places] /\ job \in [Conns -> Jobs]
      /\ pub \in [Conns -> Pubsubs \cup {NoPubsub}] /\ streams \in [Names -> Pubsubs \cup {NoPubsub}]
      /\ subs \in [Pubsubs -> Seq(Conns)] /\ NoJob \in Jobs
  BY DEF IInv, TableType, Types, NoJob, Jobs
<1>2. CASE UNCHANGED vars
  BY <1>2 DEF vars, Types
<1>3. CASE AllClosed
  BY <1>2, <1>3 DEF AllClosed
<1>4. ASSUME NEW c \in Conns, NEW name \in Names, OnPublish(c, name)
      PROVE  Types'
  <2>1. UNCHANGED <<subs, sent, cached, sub, job>> /\ pc[c] = "loop"
    BY <1>4 DEF OnPublish
  <2>2. pc' = pc \/ pc' = [pc EXCEPT ![c] = "ending"]
    BY <1>4 DEF OnPublish, Goto
  <2>3. \A d \in Conns : pub[d] # NoPubsub => pub'[d] # NoPubsub
    BY <1>1, <1>4, NoPubsubAssumption DEF OnPublish, Pubsubs
  <2> QED
    BY <1>1, <2>1, <2>2, <2>3 DEF Types
<1>5. ASSUME NEW c \in Conns, NEW name \in Names, OnPlay(c, name)
      PROVE  Types'
  <2>1. UNCHANGED <<streams, subs, sent, cached, pub, job>> /\ pc[c] = "loop"
    BY <1>5 DEF OnPlay
  <2>2. pc' = [pc EXCEPT ![c] = "subscribing"] \/ pc' = [pc EXCEPT ![c] = "ending"]
    BY <1>5 DEF OnPlay, Goto
  <2>3. sub' = sub \/ sub' = [sub EXCEPT ![c].of = streams[name]]
    BY <1>5 DEF OnPlay
  <2>4. sub' \in [Conns -> Players]
    <3>1. sub[c] \in Players /\ streams[name] \in Pubsubs \cup {NoPubsub}
      BY <1>1
    <3>2. [sub[c] EXCEPT !.of = streams[name]] \in Players
      BY <3>1 DEF Players
    <3> QED
      BY <1>1, <2>3, <3>2
  <2> QED
    BY <1>1, <2>1, <2>2, <2>4 DEF Types
<1>6. ASSUME NEW c \in Conns, Subscribe(c)
      PROVE  Types'
  <2>1. /\ UNCHANGED <<streams, sent, cached, pub, sub, job>> /\ pc[c] = "subscribing"
        /\ pc' = [pc EXCEPT ![c] = "subscribed"]
        /\ subs' = [subs EXCEPT ![sub[c].of] = Append(@, c)]
    BY <1>6 DEF Subscribe, Goto
  <2>2. subs' \in [Pubsubs -> Seq(Conns)]
    <3>1. CASE sub[c].of \in Pubsubs
      <4>1. Append(subs[sub[c].of], c) \in Seq(Conns)
        BY <1>1, <3>1
      <4> QED
        BY <1>1, <2>1, <4>1
    <3>2. CASE sub[c].of \notin Pubsubs
      BY <1>1, <2>1, <3>2
    <3> QED
      BY <3>1, <3>2
  <2> QED
    BY <1>1, <2>1, <2>2 DEF Types
<1>7. ASSUME NEW c \in Conns, SetCallback(c)
      PROVE  Types'
  <2>1. /\ UNCHANGED <<streams, subs, sent, cached, pub, job>> /\ pc[c] = "subscribed"
        /\ pc' = [pc EXCEPT ![c] = "loop"]
        /\ sub' = [sub EXCEPT ![c].eventCallback = TRUE]
    BY <1>7 DEF SetCallback, Goto
  <2>2. sub' \in [Conns -> Players]
    BY <1>1, <2>1 DEF Players
  <2> QED
    BY <1>1, <2>1, <2>2 DEF Types
<1>8. ASSUME NEW c \in Conns, Published(c)
      PROVE  Types'
  BY <1>1, <1>8 DEF Published, Goto, Types
<1>9. ASSUME NEW c \in Conns, LoopEnds(c)
      PROVE  Types'
  BY <1>1, <1>9 DEF LoopEnds, Goto, Types
<1>10. ASSUME NEW c \in Conns, OnClose(c) \/ RemovePubsub(c)
       PROVE  Types'
  <2>1. /\ UNCHANGED <<subs, sent, cached, pub, job>> /\ pc[c] \in {"ending", "deregistering"}
        /\ pc' = [pc EXCEPT ![c] = "closed"]
        /\ sub' = [sub EXCEPT ![c] = SubClose(@)]
    BY <1>10 DEF OnClose, RemovePubsub, Goto
  <2>2. sub' \in [Conns -> Players]
    BY <1>1, <2>1, SubCloseTyped
  <2> QED
    BY <1>1, <2>1, <2>2 DEF Types
<1>11. ASSUME NEW c \in Conns, Deregister(c)
       PROVE  Types'
  <2>1. /\ UNCHANGED <<streams, subs, sent, cached, pub, job>> /\ pc[c] = "ending"
        /\ pc' = [pc EXCEPT ![c] = "deregistering"]
        /\ sub' = [p \in Conns |-> IF p \in ToSet(subs[pub[c]]) THEN SubClose(sub[p]) ELSE sub[p]]
    BY <1>11 DEF Deregister, Goto
  <2>2. sub' \in [Conns -> Players]
    BY <1>1, <2>1, SubCloseTyped
  <2> QED
    BY <1>1, <2>1, <2>2 DEF Types
<1> QED
  BY <1>2, <1>3, <1>4, <1>5, <1>6, <1>7, <1>8, <1>9, <1>10, <1>11, PublishTypes, RelayTypes DEF Next

-----------------------------------------------------------------------------
(* Players, their publishers, and what Publish has still to do               *)

In(p, list) == \E i \in DOMAIN list : list[i] = p
Once(list) == \A i \in DOMAIN list : \A j \in DOMAIN list : list[i] = list[j] => i = j

\* A publisher that may still publish on its Pubsub.
Active(pb) == pub[pb.by] = pb /\ pc[pb.by] \notin {"ending", "deregistering", "closed"}

\* Pubsub.subs has its own players, each once.
Lists ==
  \A pb \in Pubsubs :
    /\ Once(subs[pb])
    /\ \A p \in Conns : In(p, subs[pb]) => sub[p].of = pb /\ pc[p] # "subscribing"

\* The Pubsub a connection plays had its name in the table until its publisher
\* closed, and gives the player nothing before Pubsub.Sub.
Playing(p) ==
  /\ pc[p] = "subscribing" => sub[p].of # NoPubsub
  /\ sub[p].of # NoPubsub => streams[sub[p].of.name] = sub[p].of \/ pc[sub[p].of.by] = "closed"
  /\ sub[p].of = NoPubsub \/ ~In(p, subs[sub[p].of]) =>
       sub[p].got = <<>> /\ sub[p].initialized = FALSE /\ sub[p].lastTimestamp = 0

\* Publish relays the last tag published, to players that are in the list.
Relaying(c) ==
  pc[c] = "relaying" =>
    /\ sent[pub[c]] # <<>>
    /\ job[c].tag.n = Len(sent[pub[c]])
    /\ job[c].tag.kind = sent[pub[c]][Len(sent[pub[c]])]
    /\ Once(job[c].left)
    /\ \A p \in Conns : In(p, job[c].left) => In(p, subs[pub[c]])

\* What was relayed to a player of what was published.
Seen(p) ==
  IF In(p, job[sub[p].of.by].left) THEN Len(sent[sub[p].of]) - 1 ELSE Len(sent[sub[p].of])

Following(p) ==
  sub[p].of # NoPubsub =>
    /\ Past(sub[p].got, sub[p].lastTimestamp, sent[sub[p].of])
    /\ In(p, subs[sub[p].of]) /\ ~sub[p].closed /\ Active(sub[p].of) =>
         Live(sub[p].got, sub[p].initialized, sent[sub[p].of], Seen(p))

PInv ==
  /\ Lists
  /\ \A pb \in Pubsubs : Remembered(cached[pb], sent[pb])
  /\ \A p \in Conns : Playing(p) /\ Relaying(p) /\ Following(p)

\* A list with a player more.
LEMMA ListMore ==
  ASSUME NEW list \in Seq(Conns), NEW x \in Conns
  PROVE  /\ \A p \in Conns : In(p, Append(list, x)) <=> In(p, list) \/ p = x
         /\ Once(list) /\ ~In(x, list) => Once(Append(list, x))
<1> DEFINE a == Append(list, x)
           n == Len(list)
<1>1. /\ n \in Nat /\ DOMAIN list = 1..n /\ DOMAIN a = 1..n + 1
      /\ \A i \in 1..n : a[i] = list[i]
      /\ a[n + 1] = x
  BY AppendPlaces
<1> HIDE DEF a, n
<1>2. \A p \in Conns : In(p, a) <=> In(p, list) \/ p = x
  BY <1>1 DEF In
<1>3. Once(list) /\ ~In(x, list) => Once(a)
  BY <1>1 DEF In, Once
<1> QED
  BY <1>2, <1>3 DEF a

\* A list without its first player.
LEMMA ListLess ==
  ASSUME NEW list \in Seq(Conns), list # <<>>, Once(list)
  PROVE  /\ Once(Tail(list)) /\ ~In(Head(list), Tail(list)) /\ In(Head(list), list)
         /\ \A p \in Conns : p # Head(list) => (In(p, Tail(list)) <=> In(p, list))
<1> DEFINE t == Tail(list)
           h == Head(list)
           n == Len(list)
<1>1. /\ n \in Nat /\ n > 0 /\ DOMAIN list = 1..n /\ DOMAIN t = 1..n - 1
      /\ \A i \in 1..n - 1 : t[i] = list[i + 1]
      /\ h = list[1]
  OBVIOUS
<1> HIDE DEF t, h, n
<1>2. Once(t)
  <2>1. ASSUME NEW i \in 1..n - 1, NEW j \in 1..n - 1, t[i] = t[j]
        PROVE  i = j
    <3>1. i + 1 \in 1..n /\ j + 1 \in 1..n
      BY <1>1
    <3>2. list[i + 1] = list[j + 1]
      BY <1>1, <2>1
    <3>3. i + 1 = j + 1
      BY <1>1, <3>1, <3>2 DEF Once
    <3> QED
      BY <1>1, <3>3
  <2> QED
    BY <1>1, <2>1 DEF Once
<1>3. ~In(h, t)
  BY <1>1 DEF Once, In
<1>4. In(h, list)
  BY <1>1 DEF In
<1>5. ASSUME NEW p \in Conns, p # h
      PROVE  In(p, t) <=> In(p, list)
  <2>1. In(p, t) => In(p, list)
    BY <1>1 DEF In
  <2>2. ASSUME NEW i \in 1..n, list[i] = p
        PROVE  In(p, t)
    <3>1. i - 1 \in 1..n - 1 /\ (i - 1) + 1 = i
      BY <1>1, <1>5, <2>2
    <3> QED
      BY <1>1, <2>2, <3>1 DEF In
  <2> QED
    BY <1>1, <2>1, <2>2 DEF In
<1> QED
  BY <1>2, <1>3, <1>4, <1>5 DEF t, h

\* A step that publishes nothing, subscribes nobody and gives no player a tag.
Quiet ==
  /\ UNCHANGED <<subs, sent, cached>>
  /\ \A p \in Conns :
       /\ sub'[p].of = sub[p].of /\ sub'[p].got = sub[p].got
       /\ sub'[p].initialized = sub[p].initialized
       /\ sub'[p].lastTimestamp = sub[p].lastTimestamp
       /\ sub[p].closed => sub'[p].closed
       /\ pc'[p] = "subscribing" => pc[p] = "subscribing"
       /\ pc'[p] = "relaying" => pc[p] = "relaying" /\ job'[p] = job[p] /\ pub'[p] = pub[p]
  /\ \A p \in Conns : \A pb \in Pubsubs : sub[p].of = pb =>
       /\ streams'[pb.name] = pb \/ pc'[pb.by] = "closed"
       /\ Active(pb)' => Active(pb) /\ job'[pb.by].left = job[pb.by].left

\* It leaves all as it was.
LEMMA QuietKeeps ==
  ASSUME Types, PInv, Quiet
  PROVE  PInv'
<1>1. \A p \in Conns : sub[p].of \in Pubsubs \cup {NoPubsub}
  BY DEF Types, Players
<1>2. Lists'
  BY DEF PInv, Lists, Quiet
<1>3. \A pb \in Pubsubs : Remembered(cached'[pb], sent'[pb])
  BY DEF PInv, Quiet
<1>4. ASSUME NEW p \in Conns
      PROVE  Playing(p)'
  BY <1>1 DEF PInv, Playing, Quiet
<1>5. ASSUME NEW c \in Conns
      PROVE  Relaying(c)'
  BY DEF PInv, Relaying, Quiet
<1>6. ASSUME NEW p \in Conns, sub'[p].of # NoPubsub
      PROVE  /\ Past(sub'[p].got, sub'[p].lastTimestamp, sent'[sub'[p].of])
             /\ In(p, subs'[sub'[p].of]) /\ ~sub'[p].closed /\ Active(sub[p].of)' =>
                  Live(sub'[p].got, sub'[p].initialized, sent'[sub'[p].of], Seen(p)')
  <2> DEFINE pb == sub[p].of
  <2>1. /\ sub'[p].of = pb /\ sub'[p].got = sub[p].got
        /\ sub'[p].initialized = sub[p].initialized
        /\ sub'[p].lastTimestamp = sub[p].lastTimestamp
        /\ sub[p].closed => sub'[p].closed
        /\ sent' = sent /\ subs' = subs
    BY DEF Quiet
  <2>2. pb \in Pubsubs /\ pb # NoPubsub
    BY <1>1, <1>6, <2>1
  <2>3. /\ Past(sub[p].got, sub[p].lastTimestamp, sent[pb])
        /\ In(p, subs[pb]) /\ ~sub[p].closed /\ Active(pb) =>
             Live(sub[p].got, sub[p].initialized, sent[pb], Seen(p))
    BY <2>2 DEF PInv, Following
  <2> QED
    BY <2>1, <2>2, <2>3 DEF Quiet, Seen
<1> QED
  BY <1>2, <1>3, <1>4, <1>5, <1>6 DEF PInv, Following

\* What the quiet steps rely on.
LEMMA Tables ==
  ASSUME IInv, Types, PInv
  PROVE  /\ streams \in [Names -> Pubsubs \cup {NoPubsub}] /\ NoPubsub \notin Pubsubs
         /\ pub \in [Conns -> Pubsubs \cup {NoPubsub}]
         /\ pc \in [Conns -> Places] /\ job \in [Conns -> Jobs]
         /\ sub \in [Conns -> Players]
         /\ \A pb \in Pubsubs : pb.by \in Conns /\ pb.name \in Names
         /\ \A c \in Conns : pub[c] # NoPubsub => pub[c].by = c
         /\ \A p \in Conns : \A pb \in Pubsubs : sub[p].of = pb =>
              streams[pb.name] = pb \/ pc[pb.by] = "closed"
<1>1. \A pb \in Pubsubs : pb.by \in Conns /\ pb.name \in Names
  BY DEF Pubsubs
<1>2. \A p \in Conns : \A pb \in Pubsubs : sub[p].of = pb =>
        streams[pb.name] = pb \/ pc[pb.by] = "closed"
  BY NoPubsubAssumption DEF PInv, Playing
<1> QED
  BY <1>1, <1>2, NoPubsubAssumption DEF IInv, TableType, Types

\* A connection whose message loop ends, or whose handler returns an error.
LEMMA EndingQuiet ==
  ASSUME IInv, Types, PInv, NEW c \in Conns, pc[c] \in {"loop", "relaying"},
         pc' = [pc EXCEPT ![c] = "ending"], job' = job \/ job' = [job EXCEPT ![c] = NoJob],
         UNCHANGED <<streams, subs, sent, cached, pub, sub>>
  PROVE  Quiet
<1>1. \A d \in Conns : d # c => pc'[d] = pc[d] /\ job'[d] = job[d]
  BY Tables
<1>2. pc'[c] = "ending"
  BY Tables
<1>3. ASSUME NEW p \in Conns, NEW pb \in Pubsubs, sub[p].of = pb
      PROVE  /\ streams'[pb.name] = pb \/ pc'[pb.by] = "closed"
             /\ Active(pb)' => Active(pb) /\ job'[pb.by].left = job[pb.by].left
  <2>1. pb.by \in Conns /\ (streams[pb.name] = pb \/ pc[pb.by] = "closed")
    BY <1>3, Tables
  <2>2. CASE pb.by = c
    BY <1>2, <2>1, <2>2 DEF Active
  <2>3. CASE pb.by # c
    BY <1>1, <2>1, <2>3 DEF Active
  <2> QED
    BY <2>2, <2>3
<1> QED
  BY <1>1, <1>2, <1>3 DEF Quiet

\* OnPublish takes a name that none of the players' publishers has.
LEMMA OnPublishQuiet ==
  ASSUME IInv, Types, PInv, NEW c \in Conns, NEW name \in Names, OnPublish(c, name)
  PROVE  Quiet
<1>1. UNCHANGED <<subs, sent, cached, sub, job>> /\ pc[c] = "loop"
  BY DEF OnPublish
<1>2. CASE sub[c].of = NoPubsub /\ CanRegister(name)
  <2> DEFINE new == [by |-> c, name |-> name]
  <2>1. /\ streams' = [streams EXCEPT ![name] = new]
        /\ pub' = [pub EXCEPT ![c] = new]
        /\ pc' = pc /\ streams[name] = NoPubsub
    BY <1>2 DEF OnPublish, CanRegister
  <2>2. new.by = c /\ new.name = name
    OBVIOUS
  <2> HIDE DEF new
  <2>3. ASSUME NEW p \in Conns, NEW pb \in Pubsubs, sub[p].of = pb
        PROVE  /\ streams'[pb.name] = pb \/ pc'[pb.by] = "closed"
               /\ Active(pb)' => Active(pb) /\ job'[pb.by].left = job[pb.by].left
    <3>1. /\ pb.by \in Conns /\ pb.name \in Names /\ pb # NoPubsub
          /\ streams[pb.name] = pb \/ pc[pb.by] = "closed"
      BY <2>3, Tables
    <3>2. streams'[pb.name] = pb \/ pc'[pb.by] = "closed"
      BY <2>1, <3>1, Tables
    <3>3. CASE pb.by = c
      <4>1. streams[pb.name] = pb /\ pb.name # name
        BY <1>1, <2>1, <3>1, <3>3
      <4>2. pub'[c] # pb
        BY <2>1, <2>2, <4>1, Tables
      <4> QED
        BY <3>2, <3>3, <4>2 DEF Active
    <3>4. CASE pb.by # c
      <4>1. pub'[pb.by] = pub[pb.by]
        BY <2>1, <3>1, <3>4, Tables
      <4> QED
        BY <1>1, <2>1, <3>2, <4>1 DEF Active
    <3> QED
      BY <3>3, <3>4
  <2>4. \A d \in Conns : pc'[d] = "relaying" => job'[d] = job[d] /\ pub'[d] = pub[d]
    BY <1>1, <2>1, Tables
  <2> QED
    BY <1>1, <2>1, <2>3, <2>4 DEF Quiet
<1>3. CASE ~(sub[c].of = NoPubsub /\ CanRegister(name))
  <2>1. pc' = [pc EXCEPT ![c] = "ending"] /\ UNCHANGED <<streams, pub>>
    BY <1>3 DEF OnPublish, Goto
  <2> QED
    BY <1>1, <2>1, EndingQuiet
<1> QED
  BY <1>2, <1>3

\* Setting eventCallback.
LEMMA SetCallbackQuiet ==
  ASSUME IInv, Types, PInv, NEW c \in Conns, SetCallback(c)
  PROVE  Quiet
<1>1. /\ UNCHANGED <<streams, subs, sent, cached, pub, job>> /\ pc[c] = "subscribed"
      /\ pc' = [pc EXCEPT ![c] = "loop"]
      /\ sub' = [sub EXCEPT ![c].eventCallback = TRUE]
  BY DEF SetCallback, Goto
<1>2. \A p \in Conns :
        /\ sub'[p].of = sub[p].of /\ sub'[p].got = sub[p].got
        /\ sub'[p].initialized = sub[p].initialized
        /\ sub'[p].lastTimestamp = sub[p].lastTimestamp
        /\ sub[p].closed => sub'[p].closed
  BY <1>1, Tables DEF Players
<1>3. /\ pc'[c] = "loop" /\ \A d \in Conns : d # c => pc'[d] = pc[d]
  BY <1>1, Tables
<1>4. \A p \in Conns : \A pb \in Pubsubs : sub[p].of = pb =>
        /\ streams'[pb.name] = pb \/ pc'[pb.by] = "closed"
        /\ Active(pb)' => Active(pb) /\ job'[pb.by].left = job[pb.by].left
  BY <1>1, <1>3, Tables DEF Active
<1> QED
  BY <1>1, <1>2, <1>3, <1>4 DEF Quiet

\* The end of Publish.
LEMMA PublishedQuiet ==
  ASSUME IInv, Types, PInv, NEW c \in Conns, Published(c)
  PROVE  Quiet
<1>1. /\ UNCHANGED <<streams, subs, sent, cached, pub, sub>> /\ pc[c] = "relaying"
      /\ pc' = [pc EXCEPT ![c] = "loop"]
      /\ job' = [job EXCEPT ![c] = NoJob] /\ job[c].left = <<>>
  BY DEF Published, Goto
<1>2. /\ pc'[c] = "loop" /\ job'[c].left = <<>>
      /\ \A d \in Conns : d # c => pc'[d] = pc[d] /\ job'[d] = job[d]
  BY <1>1, Tables DEF NoJob
<1>3. \A p \in Conns : \A pb \in Pubsubs : sub[p].of = pb =>
        /\ streams'[pb.name] = pb \/ pc'[pb.by] = "closed"
        /\ Active(pb)' => Active(pb) /\ job'[pb.by].left = job[pb.by].left
  BY <1>1, <1>2, Tables DEF Active
<1> QED
  BY <1>1, <1>2, <1>3 DEF Quiet

\* Subs that are closed, by connections that end.
LEMMA ClosingQuiet ==
  ASSUME IInv, Types, PInv, NEW c \in Conns, pc[c] \in {"ending", "deregistering"},
         NEW where \in {"deregistering", "closed"}, pc' = [pc EXCEPT ![c] = where],
         \A p \in Conns : sub'[p] = sub[p] \/ sub'[p] = SubClose(sub[p]),
         UNCHANGED <<subs, sent, cached, pub, job>>,
         \A pb \in Pubsubs : streams[pb.name] = pb => streams'[pb.name] = pb \/ pc'[pb.by] = "closed"
  PROVE  Quiet
<1>1. \A p \in Conns :
        /\ sub'[p].of = sub[p].of /\ sub'[p].got = sub[p].got
        /\ sub'[p].initialized = sub[p].initialized
        /\ sub'[p].lastTimestamp = sub[p].lastTimestamp
        /\ sub[p].closed => sub'[p].closed
  BY Tables, SubCloseTyped
<1>2. /\ pc'[c] = where /\ \A d \in Conns : d # c => pc'[d] = pc[d]
  BY Tables
<1>3. ASSUME NEW p \in Conns, NEW pb \in Pubsubs, sub[p].of = pb
      PROVE  /\ streams'[pb.name] = pb \/ pc'[pb.by] = "closed"
             /\ Active(pb)' => Active(pb) /\ job'[pb.by].left = job[pb.by].left
  <2>1. pb.by \in Conns /\ (streams[pb.name] = pb \/ pc[pb.by] = "closed")
    BY <1>3, Tables
  <2>2. pc[pb.by] = "closed" => pb.by # c
    OBVIOUS
  <2>3. streams'[pb.name] = pb \/ pc'[pb.by] = "closed"
    BY <1>2, <2>1, <2>2
  <2>4. Active(pb)' => Active(pb) /\ job'[pb.by].left = job[pb.by].left
    BY <1>2, <2>1 DEF Active
  <2> QED
    BY <2>3, <2>4
<1> QED
  BY <1>1, <1>2, <1>3 DEF Quiet

\* The three ways in which Subs are closed.
LEMMA ClosesQuiet ==
  ASSUME IInv, Types, PInv, NEW c \in Conns, OnClose(c) \/ Deregister(c) \/ RemovePubsub(c)
  PROVE  Quiet
<1>1. CASE OnClose(c)
  <2>1. /\ UNCHANGED <<streams, subs, sent, cached, pub, job>> /\ pc[c] = "ending"
        /\ pc' = [pc EXCEPT ![c] = "closed"]
        /\ sub' = [sub EXCEPT ![c] = SubClose(@)]
    BY <1>1 DEF OnClose, Goto
  <2>2. \A p \in Conns : sub'[p] = sub[p] \/ sub'[p] = SubClose(sub[p])
    BY <2>1, Tables
  <2> QED
    BY <2>1, <2>2, ClosingQuiet
<1>2. CASE Deregister(c)
  <2>1. /\ UNCHANGED <<streams, subs, sent, cached, pub, job>> /\ pc[c] = "ending"
        /\ pc' = [pc EXCEPT ![c] = "deregistering"]
        /\ sub' = [p \in Conns |-> IF p \in ToSet(subs[pub[c]]) THEN SubClose(sub[p]) ELSE sub[p]]
    BY <1>2 DEF Deregister, Goto
  <2>2. \A p \in Conns : sub'[p] = sub[p] \/ sub'[p] = SubClose(sub[p])
    BY <2>1
  <2> QED
    BY <2>1, <2>2, ClosingQuiet
<1>3. CASE RemovePubsub(c)
  <2>1. /\ UNCHANGED <<subs, sent, cached, pub, job>> /\ pc[c] = "deregistering"
        /\ pc' = [pc EXCEPT ![c] = "closed"]
        /\ sub' = [sub EXCEPT ![c] = SubClose(@)]
        /\ streams' = [streams EXCEPT ![pub[c].name] = NoPubsub]
    BY <1>3 DEF RemovePubsub, Goto
  <2>2. \A p \in Conns : sub'[p] = sub[p] \/ sub'[p] = SubClose(sub[p])
    BY <2>1, Tables
  <2>3. pub[c] # NoPubsub /\ pub[c].by = c /\ streams[pub[c].name] = pub[c]
    BY <2>1 DEF IInv, TableType, NamesAreHeld
  <2>4. ASSUME NEW pb \in Pubsubs, streams[pb.name] = pb
        PROVE  streams'[pb.name] = pb \/ pc'[pb.by] = "closed"
    <3>1. CASE pb.name = pub[c].name
      BY <2>1, <2>3, <2>4, <3>1, Tables
    <3>2. CASE pb.name # pub[c].name
      BY <2>1, <2>4, <3>2, Tables
    <3> QED
      BY <3>1, <3>2
  <2> QED
    BY <2>1, <2>2, <2>4, ClosingQuiet
<1> QED
  BY <1>1, <1>2, <1>3

\* A player that has got nothing.
LEMMA NothingGot ==
  ASSUME NEW all, NEW seen
  PROVE  Past(<<>>, 0, all) /\ Live(<<>>, FALSE, all, seen)
<1>1. DOMAIN <<>> = {} /\ VideoAt(<<>>) = {}
  BY DEF VideoAt
<1>2. Known(<<>>, all) /\ Timed(<<>>, 0) /\ Sorted(<<>>) /\ Playable(<<>>, all)
  BY <1>1 DEF Known, Timed, Sorted, Playable
<1> QED
  BY <1>1, <1>2 DEF Past, Live

\* A player that nothing happens to.
LEMMA FollowsSame ==
  ASSUME Types, NEW p \in Conns, Following(p), sub'[p] = sub[p],
         \A pb \in Pubsubs : sub[p].of = pb =>
           /\ sent'[pb] = sent[pb]
           /\ In(p, subs'[pb]) => In(p, subs[pb])
           /\ Active(pb)' => Active(pb) /\ (In(p, job'[pb.by].left) <=> In(p, job[pb.by].left))
  PROVE  Following(p)'
<1>1. sub[p].of \in Pubsubs \cup {NoPubsub}
  BY DEF Types, Players
<1> QED
  BY <1>1 DEF Following, Seen

\* OnPlay finds a Pubsub under its name.
LEMMA OnPlayKeeps ==
  ASSUME IInv, Types, PInv, NEW c \in Conns, NEW name \in Names, OnPlay(c, name)
  PROVE  PInv'
<1>1. CASE ~(sub[c].of = NoPubsub /\ streams[name] # NoPubsub)
  <2>1. /\ pc[c] = "loop" /\ pc' = [pc EXCEPT ![c] = "ending"]
        /\ UNCHANGED <<streams, subs, sent, cached, pub, sub, job>>
    BY <1>1 DEF OnPlay, Goto
  <2> QED
    BY <2>1, EndingQuiet, QuietKeeps
<1>2. CASE sub[c].of = NoPubsub /\ streams[name] # NoPubsub
  <2> DEFINE pb == streams[name]
  <2>1. /\ pc[c] = "loop" /\ pc' = [pc EXCEPT ![c] = "subscribing"]
        /\ sub' = [sub EXCEPT ![c].of = pb]
        /\ UNCHANGED <<streams, subs, sent, cached, pub, job>>
    BY <1>2 DEF OnPlay, Goto
  <2>2. pb \in Pubsubs /\ pb # NoPubsub /\ pb.name = name
    BY <1>2, Tables DEF IInv, NamesAreHeld
  <2>3. sub[c].got = <<>> /\ sub[c].initialized = FALSE /\ sub[c].lastTimestamp = 0
    BY <1>2 DEF PInv, Playing
  <2>4. /\ sub'[c].of = pb /\ sub'[c].got = <<>> /\ sub'[c].initialized = FALSE
        /\ sub'[c].lastTimestamp = 0
        /\ \A p \in Conns : p # c => sub'[p] = sub[p] /\ pc'[p] = pc[p]
        /\ pc'[c] = "subscribing"
    BY <2>1, <2>3, Tables DEF Players
  <2>5. \A x \in Pubsubs : ~In(c, subs[x])
    BY <1>2, NoPubsubAssumption DEF PInv, Lists
  <2>6. streams'[pb.name] = pb
    BY <2>1, <2>2
  <2>7. ~In(c, subs'[pb])
    BY <2>1, <2>2, <2>5
  <2> HIDE DEF pb
  <2>8. Lists'
    BY <2>1, <2>4, <2>5 DEF PInv, Lists
  <2>9. ASSUME NEW p \in Conns
        PROVE  Playing(p)'
    <3>1. CASE p = c
      BY <2>2, <2>4, <2>6, <3>1 DEF Playing
    <3>2. CASE p # c
      <4>1. sub[p].of # NoPubsub => sub[p].of.by \in Conns
        BY Tables DEF Players
      <4>2. sub[p].of # NoPubsub => (pc[sub[p].of.by] = "closed" => pc'[sub[p].of.by] = "closed")
        BY <2>1, <2>4, <4>1
      <4> QED
        BY <2>1, <2>4, <3>2, <4>2 DEF PInv, Playing
    <3> QED
      BY <3>1, <3>2
  <2>10. ASSUME NEW d \in Conns
         PROVE  Relaying(d)'
    <3>1. pc'[d] = "relaying" => pc[d] = "relaying"
      BY <2>4
    <3> QED
      BY <2>1, <3>1 DEF PInv, Relaying
  <2>11. ASSUME NEW p \in Conns
         PROVE  Following(p)'
    <3>1. CASE p = c
      <4>1. Past(<<>>, 0, sent'[pb])
        BY NothingGot
      <4> QED
        BY <2>4, <2>7, <3>1, <4>1 DEF Following
    <3>2. CASE p # c
      <4>1. \A x \in Pubsubs : Active(x)' => Active(x)
        BY <2>1, <2>4, Tables DEF Active
      <4>2. Following(p) /\ sub'[p] = sub[p]
        BY <2>4, <3>2 DEF PInv
      <4>3. \A x \in Pubsubs : sub[p].of = x =>
              /\ sent'[x] = sent[x]
              /\ In(p, subs'[x]) => In(p, subs[x])
              /\ Active(x)' => Active(x) /\ (In(p, job'[x.by].left) <=> In(p, job[x.by].left))
        BY <2>1, <4>1
      <4> QED
        BY <4>2, <4>3, FollowsSame
    <3> QED
      BY <3>1, <3>2
  <2> QED
    BY <2>1, <2>8, <2>9, <2>10, <2>11 DEF PInv
<1> QED
  BY <1>1, <1>2

\* Pubsub.Sub appends a player that has got nothing.
LEMMA SubscribeKeeps ==
  ASSUME IInv, Types, PInv, NEW c \in Conns, Subscribe(c)
  PROVE  PInv'
<1> DEFINE pb == sub[c].of
           list == subs[pb]
<1>1. /\ pc[c] = "subscribing" /\ pc' = [pc EXCEPT ![c] = "subscribed"]
      /\ subs' = [subs EXCEPT ![pb] = Append(@, c)]
      /\ UNCHANGED <<streams, sent, cached, pub, sub, job>>
  BY DEF Subscribe, Goto
<1>2. pb \in Pubsubs /\ pb # NoPubsub
  BY <1>1, Tables DEF PInv, Playing, Players
<1>3. list \in Seq(Conns) /\ Once(list) /\ ~In(c, list)
  BY <1>1, <1>2 DEF Types, PInv, Lists
<1>4. subs'[pb] = Append(list, c) /\ \A x \in Pubsubs : x # pb => subs'[x] = subs[x]
  BY <1>1, <1>2 DEF Types
<1>5. sub[c].got = <<>> /\ sub[c].initialized = FALSE /\ sub[c].lastTimestamp = 0
  BY <1>2, <1>3 DEF PInv, Playing
<1>6. /\ \A p \in Conns : In(p, Append(list, c)) <=> In(p, list) \/ p = c
      /\ Once(Append(list, c))
  BY <1>3, ListMore
<1>7. /\ pc'[c] = "subscribed" /\ \A p \in Conns : p # c => pc'[p] = pc[p]
  BY <1>1, Tables
<1>8. \A x \in Pubsubs : Once(subs[x]) /\ \A p \in Conns : In(p, subs[x]) => sub[p].of = x /\ pc[p] # "subscribing"
  BY DEF PInv, Lists
<1>9. sub[c].of = pb /\ subs[pb] = list
  OBVIOUS
<1> HIDE DEF pb, list
<1>10. \A x \in Pubsubs : \A p \in Conns : In(p, subs'[x]) <=> In(p, subs[x]) \/ (x = pb /\ p = c)
  BY <1>4, <1>6, <1>9
<1>11. Lists'
  <2>1. ASSUME NEW x \in Pubsubs
        PROVE  Once(subs'[x])
    <3>1. CASE x = pb
      BY <1>4, <1>6, <3>1
    <3>2. CASE x # pb
      BY <1>4, <1>8, <3>2
    <3> QED
      BY <3>1, <3>2
  <2>2. ASSUME NEW x \in Pubsubs, NEW p \in Conns, In(p, subs'[x])
        PROVE  sub'[p].of = x /\ pc'[p] # "subscribing"
    <3>1. CASE In(p, subs[x])
      <4>1. sub[p].of = x /\ pc[p] # "subscribing"
        BY <1>8, <3>1
      <4> QED
        BY <1>1, <1>7, <4>1
    <3>2. CASE ~In(p, subs[x])
      <4>1. x = pb /\ p = c
        BY <1>10, <2>2, <3>2
      <4> QED
        BY <1>1, <1>7, <1>9, <4>1
    <3> QED
      BY <3>1, <3>2
  <2> QED
    BY <2>1, <2>2 DEF Lists
<1>12. ASSUME NEW p \in Conns
       PROVE  Playing(p)'
  <2>1. sub[p].of # NoPubsub => sub[p].of \in Pubsubs /\ sub[p].of.by \in Conns
    BY Tables DEF Players
  <2>2. sub[p].of # NoPubsub => (pc[sub[p].of.by] = "closed" => pc'[sub[p].of.by] = "closed")
    BY <1>1, <1>7, <2>1
  <2>3. sub[p].of # NoPubsub /\ ~In(p, subs'[sub[p].of]) => ~In(p, subs[sub[p].of])
    BY <1>10, <2>1
  <2>4. pc'[p] = "subscribing" => pc[p] = "subscribing"
    BY <1>7
  <2> QED
    BY <1>1, <2>2, <2>3, <2>4 DEF PInv, Playing
<1>13. ASSUME NEW d \in Conns
       PROVE  Relaying(d)'
  <2>1. pc'[d] = "relaying" => pc[d] = "relaying" /\ pub[d] \in Pubsubs
    BY <1>7, Tables DEF Types
  <2>2. pc'[d] = "relaying" => \A p \in Conns : In(p, subs[pub[d]]) => In(p, subs'[pub[d]])
    BY <1>10, <2>1
  <2> QED
    BY <1>1, <2>1, <2>2 DEF PInv, Relaying
<1>14. ASSUME NEW p \in Conns
       PROVE  Following(p)'
  <2>1. CASE p = c
    <3>1. Past(<<>>, 0, sent'[pb]) /\ \A seen : Live(<<>>, FALSE, sent'[pb], seen)
      BY NothingGot
    <3>2. /\ sub'[p].of = pb /\ sub'[p].got = <<>> /\ sub'[p].initialized = FALSE
          /\ sub'[p].lastTimestamp = 0
      BY <1>1, <1>5, <1>9, <2>1
    <3> QED
      BY <3>1, <3>2 DEF Following
  <2>2. CASE p # c
    <3>1. \A x \in Pubsubs : Active(x)' => Active(x)
      BY <1>1, <1>7, Tables DEF Active
    <3>2. Following(p) /\ sub'[p] = sub[p]
      BY <1>1 DEF PInv
    <3>3. \A x \in Pubsubs : sub[p].of = x =>
            /\ sent'[x] = sent[x]
            /\ In(p, subs'[x]) => In(p, subs[x])
            /\ Active(x)' => Active(x) /\ (In(p, job'[x.by].left) <=> In(p, job[x.by].left))
      BY <1>1, <1>10, <2>2, <3>1
    <3> QED
      BY <3>2, <3>3, FollowsSame
  <2> QED
    BY <2>1, <2>2
<1> QED
  BY <1>1, <1>11, <1>12, <1>13, <1>14 DEF PInv

\* Publish remembers the headers and key frames of what it publishes.
LEMMA RememberMore ==
  ASSUME NEW kept \in Caches, NEW all \in Seq(Kinds), NEW kind \in Kinds, NEW tag \in Tags,
         Remembered(kept, all), tag.n = Len(all) + 1, tag.kind = kind
  PROVE  Remembered(Remember(kept, tag), Append(all, kind))
<1> DEFINE a == Append(all, kind)
           l == Len(all)
           r == Remember(kept, tag)
<1>1. /\ VideoOf(a) = VideoOf(all) \cup (IF kind \in Video THEN {l + 1} ELSE {})
      /\ VideoOf(all) \subseteq 1..l
      /\ \A n \in 1..l : a[n] = all[n]
      /\ a[l + 1] = kind /\ l \in Nat
      /\ DOMAIN all = 1..l /\ DOMAIN a = 1..l + 1
  BY VideoPublished
<1>2. StartsWithHeader(a) => StartsWithHeader(all)
  BY HeaderFirst
<1>3. /\ r.header = IF kind = "header" THEN tag ELSE kept.header
      /\ r.key = IF kind \in {"header", "key"} THEN tag ELSE kept.key
  BY DEF Remember
<1>4. tag # NoTag /\ tag.n = l + 1
  BY TagFields
<1> HIDE DEF a, l, r
<1>5. ASSUME kept.header # NoTag
      PROVE  /\ kept.header \in Tags /\ kept.header.kind = "header"
             /\ kept.header.n \in 1..l /\ a[kept.header.n] = "header"
             /\ kept.key # NoTag /\ kept.header.n <= kept.key.n
  BY <1>1, <1>5 DEF Remembered
<1>6. ASSUME kept.key # NoTag
      PROVE  /\ kept.key \in Tags /\ kept.key.kind \in {"header", "key"}
             /\ kept.key.n \in 1..l /\ a[kept.key.n] = kept.key.kind
  BY <1>1, <1>6 DEF Remembered
<1>7. ASSUME r.key # NoTag
      PROVE  /\ r.key \in Tags /\ r.key.kind \in {"header", "key"}
             /\ r.key.n \in DOMAIN a /\ a[r.key.n] = r.key.kind
  <2>1. CASE kind \in {"header", "key"}
    BY <1>1, <1>3, <1>4, <2>1
  <2>2. CASE kind \notin {"header", "key"}
    BY <1>1, <1>3, <1>6, <1>7, <2>2
  <2> QED
    BY <2>1, <2>2
<1>8. ASSUME r.header # NoTag
      PROVE  /\ r.header \in Tags /\ r.header.kind = "header"
             /\ r.header.n \in DOMAIN a /\ a[r.header.n] = "header"
             /\ r.key # NoTag /\ r.header.n <= r.key.n
  <2>1. CASE kind = "header"
    BY <1>1, <1>3, <1>4, <2>1
  <2>2. CASE kind = "key"
    BY <1>1, <1>3, <1>4, <1>5, <1>8, <2>2
  <2>3. CASE kind \notin {"header", "key"}
    BY <1>1, <1>3, <1>5, <1>8, <2>3
  <2> QED
    BY <2>1, <2>2, <2>3
<1>9. ASSUME VideoOf(a) # {}, StartsWithHeader(a)
      PROVE  r.header # NoTag
  <2>1. CASE VideoOf(all) # {}
    <3>1. kept.header # NoTag
      BY <1>2, <1>9, <2>1 DEF Remembered
    <3> QED
      BY <1>3, <1>4, <3>1
  <2>2. CASE VideoOf(all) = {}
    <3>1. VideoOf(a) = {l + 1}
      BY <1>1, <1>9, <2>2
    <3>2. a[l + 1] = "header"
      BY <1>1, <1>9, <3>1 DEF StartsWithHeader
    <3> QED
      BY <1>1, <1>3, <1>4, <3>2
  <2> QED
    BY <2>1, <2>2
<1>10. Remembered(r, a)
  BY <1>7, <1>8, <1>9 DEF Remembered
<1> QED
  BY <1>10 DEF r, a

\* What a player has got is as good when a tag more has been published.
LEMMA PastLater ==
  ASSUME NEW got \in Seq(Entries), NEW base, NEW all \in Seq(Kinds), NEW kind \in Kinds,
         Past(got, base, all)
  PROVE  Past(got, base, Append(all, kind))
<1>1. Known(got, Append(all, kind))
  BY KnownLater DEF Past
<1>2. ASSUME StartsWithHeader(Append(all, kind))
      PROVE  Playable(got, Append(all, kind))
  <2>1. StartsWithHeader(all)
    BY <1>2, HeaderFirst
  <2>2. Known(got, all) /\ Playable(got, all)
    BY <2>1 DEF Past
  <2> QED
    BY <2>2, PlayableLater
<1> QED
  BY <1>1, <1>2 DEF Past

\* Publish up to its loop.
LEMMA PublishKeeps ==
  ASSUME IInv, Types, PInv, NEW c \in Conns, NEW kind \in Kinds, NEW timestamp \in Timestamps,
         Publish(c, kind, timestamp)
  PROVE  PInv'
<1> DEFINE pb == pub[c]
           all == sent[pb]
           tag == [n |-> Len(all) + 1, kind |-> kind, timestamp |-> timestamp]
           list == subs[pb]
<1>1. /\ pc[c] = "loop" /\ pb # NoPubsub
      /\ tag.n <= MaxTags
      /\ sent' = [sent EXCEPT ![pb] = Append(@, kind)]
      /\ cached' = [cached EXCEPT ![pb] = Remember(@, tag)]
      /\ job' = [job EXCEPT ![c] = [tag |-> tag, left |-> list]]
      /\ pc' = [pc EXCEPT ![c] = "relaying"]
      /\ UNCHANGED <<streams, subs, pub, sub>>
  BY DEF Publish, Goto
<1>2. pb \in Pubsubs /\ pb.by = c
  BY <1>1, Tables
<1>3. all \in Seq(Kinds) /\ list \in Seq(Conns) /\ cached[pb] \in Caches
  BY <1>2 DEF Types
<1>4. tag \in Tags /\ tag.n = Len(all) + 1 /\ tag.kind = kind
  <2>1. Len(all) + 1 \in 1..MaxTags
    BY <1>1, <1>3, BoundsAssumption
  <2> QED
    BY <2>1 DEF Tags
<1>5. job[c] = NoJob /\ job[c].left = <<>>
  BY <1>1 DEF Types, NoJob
<1>6. sub[c] \in Players
  BY Tables
<1>7. pub[c] = pb /\ sent[pb] = all /\ subs[pb] = list
  OBVIOUS
<1> HIDE DEF pb, all, tag, list
<1>8. /\ sent'[pb] = Append(all, kind) /\ \A x \in Pubsubs : x # pb => sent'[x] = sent[x]
      /\ cached'[pb] = Remember(cached[pb], tag) /\ \A x \in Pubsubs : x # pb => cached'[x] = cached[x]
  BY <1>1, <1>2, <1>7 DEF Types
<1>9. /\ job'[c].left = list /\ job'[c].tag = tag /\ pc'[c] = "relaying"
      /\ \A d \in Conns : d # c => job'[d] = job[d] /\ pc'[d] = pc[d]
  BY <1>1, Tables
<1>10. /\ Len(Append(all, kind)) = Len(all) + 1 /\ Append(all, kind)[Len(all) + 1] = kind
       /\ Append(all, kind) # <<>> /\ Len(all) \in Nat
  BY <1>3
<1>11. Lists'
  BY <1>1, <1>9 DEF PInv, Lists
<1>12. ASSUME NEW x \in Pubsubs
       PROVE  Remembered(cached'[x], sent'[x])
  <2>1. Remembered(cached[x], sent[x])
    BY DEF PInv
  <2>2. CASE x = pb
    <3>1. Remembered(Remember(cached[pb], tag), Append(all, kind))
      BY <1>3, <1>4, <1>7, <2>1, <2>2, RememberMore
    <3> QED
      BY <1>8, <2>2, <3>1
  <2>3. CASE x # pb
    BY <1>8, <2>1, <2>3
  <2> QED
    BY <2>2, <2>3
<1>13. ASSUME NEW p \in Conns
       PROVE  Playing(p)'
  <2>1. sub[p].of # NoPubsub => (pc[sub[p].of.by] = "closed" => pc'[sub[p].of.by] = "closed")
    <3>1. sub[p].of # NoPubsub => sub[p].of.by \in Conns
      BY Tables DEF Players
    <3> QED
      BY <1>1, <1>9, <3>1
  <2>2. pc'[p] = "subscribing" => pc[p] = "subscribing"
    BY <1>9
  <2> QED
    BY <1>1, <2>1, <2>2 DEF PInv, Playing
<1>14. ASSUME NEW d \in Conns
       PROVE  Relaying(d)'
  <2>1. CASE d = c
    <3>1. Once(list)
      BY <1>2, <1>7 DEF PInv, Lists
    <3>2. pub'[c] = pb /\ subs'[pb] = list
      BY <1>1, <1>7
    <3> QED
      BY <1>4, <1>8, <1>9, <1>10, <2>1, <3>1, <3>2 DEF Relaying
  <2>2. CASE d # c
    <3>1. pc'[d] = "relaying" => pc[d] = "relaying" /\ pub[d] \in Pubsubs /\ pub[d] # pb
      <4>1. pc'[d] = "relaying" => pc[d] = "relaying" /\ pub[d] # NoPubsub
        BY <1>9, <2>2 DEF Types
      <4> QED
        BY <1>2, <2>2, <4>1, Tables
    <3>2. job'[d] = job[d] /\ pub'[d] = pub[d] /\ subs' = subs
      BY <1>1, <1>9, <2>2
    <3>3. pc'[d] = "relaying" => sent'[pub[d]] = sent[pub[d]]
      BY <1>8, <3>1
    <3> QED
      BY <3>1, <3>2, <3>3 DEF PInv, Relaying
  <2> QED
    BY <2>1, <2>2
<1>15. ASSUME NEW p \in Conns
       PROVE  Following(p)'
  <2>1. Following(p) /\ sub'[p] = sub[p] /\ sub[p].got \in Seq(Entries)
    BY <1>1, Tables DEF PInv, Players
  <2>2. CASE sub[p].of = pb
    <3> DEFINE s == sub[p]
    <3>1. Past(s.got, s.lastTimestamp, all)
      BY <1>2, <1>7, <2>1, <2>2, NoPubsubAssumption DEF Following
    <3>2. Past(s.got, s.lastTimestamp, Append(all, kind))
      BY <1>3, <2>1, <3>1, PastLater
    <3>3. Active(pb) /\ ~In(p, job[pb.by].left)
      BY <1>1, <1>2, <1>5, <1>7 DEF Active, In
    <3>4. ASSUME In(p, list), ~s.closed
          PROVE  Live(s.got, s.initialized, Append(all, kind), Len(all))
      <4>1. Live(s.got, s.initialized, all, Len(all))
        BY <1>2, <1>7, <2>1, <2>2, <3>3, <3>4, NoPubsubAssumption DEF Following, Seen
      <4> QED
        BY <1>3, <2>1, <4>1, LiveLater
    <3>5. Len(Append(all, kind)) - 1 = Len(all)
      BY <1>10
    <3>6. In(p, list) => Seen(p)' = Len(all)
      BY <1>2, <1>8, <1>9, <2>1, <2>2, <3>5 DEF Seen
    <3>7. sent'[sub'[p].of] = Append(all, kind) /\ subs'[sub'[p].of] = list
      BY <1>1, <1>7, <1>8, <2>1, <2>2
    <3> QED
      BY <2>1, <3>2, <3>4, <3>6, <3>7 DEF Following
  <2>3. CASE sub[p].of # pb
    <3>1. ASSUME NEW x \in Pubsubs, sub[p].of = x
          PROVE  /\ sent'[x] = sent[x]
                 /\ In(p, subs'[x]) => In(p, subs[x])
                 /\ Active(x)' => Active(x) /\ (In(p, job'[x.by].left) <=> In(p, job[x.by].left))
      <4>1. x # pb /\ x.by \in Conns /\ sent'[x] = sent[x] /\ subs' = subs /\ pub' = pub
        BY <1>1, <1>8, <2>3, <3>1, Tables
      <4>2. CASE x.by = c
        <5>1. ~Active(x)'
          BY <1>7, <4>1, <4>2 DEF Active
        <5> QED
          BY <4>1, <5>1
      <4>3. CASE x.by # c
        <5>1. job'[x.by] = job[x.by] /\ pc'[x.by] = pc[x.by]
          BY <1>9, <4>1, <4>3
        <5> QED
          BY <4>1, <5>1 DEF Active
      <4> QED
        BY <4>2, <4>3
    <3> QED
      BY <2>1, <3>1, FollowsSame
  <2> QED
    BY <2>2, <2>3
<1> QED
  BY <1>11, <1>12, <1>13, <1>14, <1>15 DEF PInv

\* One turn of Publish's loop.
LEMMA RelayKeeps ==
  ASSUME IInv, Types, PInv, NEW c \in Conns, Relay(c)
  PROVE  PInv'
<1> DEFINE pb == pub[c]
           all == sent[pb]
           tag == job[c].tag
           left == job[c].left
           p == Head(left)
           s == sub[p]
           kept == cached[pb]
           r == Relayed(s, tag, kept)
<1>1. /\ pc[c] = "relaying" /\ pb \in Pubsubs /\ pb.by = c
      /\ left \in Seq(Conns) /\ left # <<>>
      /\ p \in Conns /\ Tail(left) \in Seq(Conns)
      /\ tag \in Tags /\ kept \in Caches
      /\ \/ /\ job' = [job EXCEPT ![c] = NoJob]
            /\ pc' = [pc EXCEPT ![c] = "ending"]
            /\ sub' = sub
         \/ /\ sub' = [sub EXCEPT ![p] = r]
            /\ job' = [job EXCEPT ![c].left = Tail(@)]
            /\ pc' = pc
      /\ UNCHANGED <<streams, subs, sent, cached, pub>>
  BY RelayStep
<1>2. all \in Seq(Kinds) /\ subs[pb] \in Seq(Conns) /\ s \in Players
  BY <1>1 DEF Types
<1>3. /\ all # <<>> /\ tag.n = Len(all) /\ tag.kind = all[Len(all)] /\ Once(left)
      /\ \A q \in Conns : In(q, left) => In(q, subs[pb])
  BY <1>1 DEF PInv, Relaying
<1>4. pub[c] = pb /\ sent[pb] = all /\ job[c].left = left /\ sub[p] = s /\ cached[pb] = kept
  OBVIOUS
<1>5. r = Relayed(s, tag, kept)
  OBVIOUS
<1> HIDE DEF pb, all, tag, left, p, s, kept, r
<1>6. CASE /\ job' = [job EXCEPT ![c] = NoJob]
           /\ pc' = [pc EXCEPT ![c] = "ending"]
           /\ sub' = sub
  BY <1>1, <1>6, EndingQuiet, QuietKeeps
<1>7. CASE /\ sub' = [sub EXCEPT ![p] = r]
           /\ job' = [job EXCEPT ![c].left = Tail(@)]
           /\ pc' = pc
  <2>1. /\ Once(Tail(left)) /\ ~In(p, Tail(left)) /\ In(p, left)
        /\ \A q \in Conns : q # p => (In(q, Tail(left)) <=> In(q, left))
    BY <1>1, <1>3, ListLess DEF p
  <2>2. In(p, subs[pb]) /\ s.of = pb /\ pb # NoPubsub
    BY <1>1, <1>3, <1>4, <2>1, Tables DEF PInv, Lists
  <2>3. Remembered(kept, all)
    BY <1>1, <1>4 DEF PInv
  <2>4. Past(s.got, s.lastTimestamp, all)
    BY <1>1, <1>4, <2>2 DEF PInv, Following
  <2>5. Active(pb)
    BY <1>1, <1>4 DEF Active
  <2>6. ~s.closed => Live(s.got, s.initialized, all, Len(all) - 1)
    <3>1. Seen(p) = Len(all) - 1
      BY <1>1, <1>4, <2>1, <2>2 DEF Seen
    <3>2. Following(p)
      BY <1>1 DEF PInv
    <3> QED
      BY <1>4, <2>2, <2>5, <3>1, <3>2 DEF Following
  <2>7. /\ r \in Players /\ r.of = pb
        /\ Past(r.got, r.lastTimestamp, all)
        /\ ~r.closed => Live(r.got, r.initialized, all, Len(all))
    <3>1. CASE s.closed
      BY <1>2, <1>5, <2>2, <2>4, <3>1, RelayToClosed
    <3>2. CASE ~s.closed /\ ~Joins(s, tag)
      <4>1. Live(s.got, s.initialized, all, Len(all) - 1)
        BY <2>6, <3>2
      <4> QED
        BY <1>1, <1>2, <1>3, <1>5, <2>2, <2>4, <3>2, <4>1, RelayPlain
    <3>3. CASE ~s.closed /\ Joins(s, tag)
      <4>1. Live(s.got, s.initialized, all, Len(all) - 1)
        BY <2>6, <3>3
      <4> QED
        BY <1>1, <1>2, <1>3, <1>5, <2>2, <2>3, <2>4, <3>3, <4>1, RelayOpening
    <3> QED
      BY <3>1, <3>2, <3>3
  <2>8. /\ sub'[p] = r /\ \A q \in Conns : q # p => sub'[q] = sub[q]
        /\ \A q \in Conns : sub'[q].of = sub[q].of
    BY <1>1, <1>4, <1>7, <2>2, <2>7, Tables
  <2>9. /\ job'[c].left = Tail(left) /\ job'[c].tag = tag
        /\ \A d \in Conns : d # c => job'[d] = job[d]
    BY <1>4, <1>7, Tables DEF Jobs, tag
  <2>10. Lists'
    BY <1>1, <1>7, <2>8 DEF PInv, Lists
  <2>11. ASSUME NEW x \in Pubsubs
         PROVE  Remembered(cached'[x], sent'[x])
    BY <1>1 DEF PInv
  <2>12. ASSUME NEW q \in Conns
         PROVE  Playing(q)'
    <3>1. CASE q = p
      BY <1>1, <1>4, <1>7, <2>2, <2>8, <3>1 DEF PInv, Playing
    <3>2. CASE q # p
      BY <1>1, <1>7, <2>8, <3>2 DEF PInv, Playing
    <3> QED
      BY <3>1, <3>2
  <2>13. ASSUME NEW d \in Conns
         PROVE  Relaying(d)'
    <3>1. CASE d = c
      <4>1. \A q \in Conns : In(q, Tail(left)) => In(q, subs[pb])
        BY <1>3, <2>1
      <4>2. pub'[c] = pb /\ sent'[pb] = all /\ subs' = subs
        BY <1>1, <1>4
      <4> QED
        BY <1>3, <2>1, <2>9, <3>1, <4>1, <4>2 DEF Relaying
    <3>2. CASE d # c
      BY <1>1, <1>7, <2>9, <3>2 DEF PInv, Relaying
    <3> QED
      BY <3>1, <3>2
  <2>14. ASSUME NEW q \in Conns
         PROVE  Following(q)'
    <3>1. CASE q = p
      <4>1. sub'[q] = r /\ ~In(q, Tail(left)) /\ sent'[pb] = all
        BY <1>1, <1>4, <2>1, <2>8, <3>1
      <4>2. Seen(q)' = Len(all)
        BY <1>1, <2>7, <2>9, <4>1 DEF Seen
      <4> QED
        BY <2>7, <4>1, <4>2 DEF Following
    <3>2. CASE q # p
      <4>1. Following(q) /\ sub'[q] = sub[q]
        BY <2>8, <3>2 DEF PInv
      <4>2. \A x \in Pubsubs : In(q, job'[x.by].left) <=> In(q, job[x.by].left)
        BY <1>4, <2>1, <2>9, <3>2, Tables
      <4>3. \A x \in Pubsubs : Active(x)' => Active(x)
        BY <1>1, <1>7 DEF Active
      <4> QED
        BY <1>1, <4>1, <4>2, <4>3, FollowsSame
    <3> QED
      BY <3>1, <3>2
  <2> QED
    BY <2>10, <2>11, <2>12, <2>13, <2>14 DEF PInv
<1> QED
  BY <1>1, <1>6, <1>7

-----------------------------------------------------------------------------
(* The theorems                                                              *)

\* Nobody has published or played anything.
LEMMA InitPlayers == Init => PInv
<1> SUFFICES ASSUME Init PROVE PInv
  OBVIOUS
<1>1. DOMAIN <<>> = {} /\ VideoOf(<<>>) = {} /\ Once(<<>>)
  BY DEF VideoOf, Once
<1>2. Remembered([header |-> NoTag, key |-> NoTag], <<>>)
  BY <1>1 DEF Remembered
<1>3. \A pb \in Pubsubs : Remembered(cached[pb], sent[pb])
  BY <1>2 DEF Init
<1>4. Lists
  BY <1>1 DEF Init, Lists, In
<1>5. \A p \in Conns : Playing(p) /\ Relaying(p) /\ Following(p)
  BY DEF Init, NoSub, Playing, Relaying, Following
<1> QED
  BY <1>3, <1>4, <1>5 DEF PInv

\* Every step of every connection.
LEMMA NextPlayers == IInv /\ Types /\ PInv /\ [Next]_vars => PInv'
<1> SUFFICES ASSUME IInv, Types, PInv, [Next]_vars PROVE PInv'
  OBVIOUS
<1>1. CASE UNCHANGED vars
  <2>1. \A p \in Conns : \A pb \in Pubsubs : sub[p].of = pb =>
          /\ streams'[pb.name] = pb \/ pc'[pb.by] = "closed"
          /\ Active(pb)' => Active(pb) /\ job'[pb.by].left = job[pb.by].left
    BY <1>1, Tables DEF vars, Active
  <2>2. Quiet
    BY <1>1, <2>1 DEF Quiet, vars
  <2> QED
    BY <2>2, QuietKeeps
<1>2. CASE AllClosed
  BY <1>1, <1>2 DEF AllClosed
<1>3. ASSUME NEW c \in Conns,
             \/ \E name \in Names : OnPublish(c, name)
             \/ SetCallback(c) \/ Published(c)
             \/ OnClose(c) \/ Deregister(c) \/ RemovePubsub(c)
      PROVE  PInv'
  BY <1>3, OnPublishQuiet, SetCallbackQuiet, PublishedQuiet, ClosesQuiet, QuietKeeps
<1>4. ASSUME NEW c \in Conns, LoopEnds(c)
      PROVE  PInv'
  <2>1. /\ pc[c] = "loop" /\ pc' = [pc EXCEPT ![c] = "ending"]
        /\ UNCHANGED <<streams, subs, sent, cached, pub, sub, job>>
    BY <1>4 DEF LoopEnds, Goto
  <2> QED
    BY <2>1, EndingQuiet, QuietKeeps
<1>5. ASSUME NEW c \in Conns,
             \/ \E name \in Names : OnPlay(c, name)
             \/ Subscribe(c)
             \/ \E kind \in Kinds, timestamp \in Timestamps : Publish(c, kind, timestamp)
             \/ Relay(c)
      PROVE  PInv'
  BY <1>5, OnPlayKeeps, SubscribeKeeps, PublishKeeps, RelayKeeps
<1> QED
  BY <1>1, <1>2, <1>3, <1>4, <1>5 DEF Next

\* The three invariants are inductive together.
Inv == IInv /\ Types /\ PInv
LEMMA InvHolds == Spec => []Inv
<1>1. Init => Inv
  BY InitKeeps, InitTypes, InitPlayers DEF Inv
<1>2. Inv /\ [Next]_vars => Inv'
  BY NextKeeps, NextTypes, NextPlayers DEF Inv
<1> QED
  BY <1>1, <1>2, PTL DEF Spec

\* For any connections, names and bounds, the goroutines and the service are in
\* the states TypeOK lists: the tags Publish remembers and relays are tags, and
\* what a player gets has uint32 times.
THEOREM TypeCorrect == Spec => []TypeOK
<1>1. ASSUME Inv PROVE TypeOK
  <2> USE <1>1 DEF Inv
  <2>1. ASSUME NEW c \in Conns
        PROVE  /\ sub[c].of \in Pubsubs \cup {NoPubsub}
               /\ sub[c].lastTimestamp \in Timestamps \cup {0}
               /\ sub[c].got \in Seq([tag : Tags, time : 0..(WordMod - 1)])
    BY DEF Types, Players, Entries, Words, Stamps
  <2>2. ASSUME NEW c \in Conns
        PROVE  /\ job[c] \in [tag : Tags \cup {NoTag}, left : Seq(Conns)]
               /\ job[c] = NoJob <=> pc[c] # "relaying"
    BY NoTagAssumption DEF Types, Jobs, NoJob
  <2>3. \A pb \in Pubsubs : cached[pb] \in [header : Tags \cup {NoTag}, key : Tags \cup {NoTag}]
    BY DEF Types, Caches
  <2>4. \A pb \in Pubsubs : subs[pb] \in Seq(Conns) /\ sent[pb] \in Seq(Kinds)
    BY DEF Types
  <2> QED
    BY <2>1, <2>2, <2>3, <2>4 DEF IInv, TableType, TypeOK, Places
<1> QED
  BY <1>1, InvHolds, PTL

\* For any connections, names and bounds: the video a player gets from a
\* publisher that starts with a sequence header begins with a header and goes on
\* with a key frame, and from then on misses, repeats and reorders nothing,
\* however Publish's loop, joining, leaving and the publisher's end interleave.
THEOREM PlayersCanPlay == Spec => []PlayableVideo
<1>1. ASSUME Inv PROVE PlayableVideo
  BY <1>1 DEF Inv, PInv, Following, Past, PlayableVideo
<1> QED
  BY <1>1, InvHolds, PTL

\* How far apart two timestamps are that count from one base: by a word more or
\* less than the publisher's, unless both are no earlier than the base.
LEMMA Apart ==
  ASSUME NEW t \in Tags, NEW u \in Tags, NEW base \in Stamps
  PROVE  LET times == Since(u, base) - Since(t, base)
             stamps == u.timestamp - t.timestamp
         IN  /\ times % WordMod = stamps % WordMod
             /\ base <= t.timestamp /\ base <= u.timestamp => times = stamps
<1> DEFINE x == t.timestamp
           y == u.timestamp
           f == Since(t, base)
           h == Since(u, base)
           w == WordMod
           times == h - f
           stamps == y - x
<1>1. w \in Nat \ {0}
  BY BoundsAssumption
<1>2. x \in 0..w - 1 /\ y \in 0..w - 1 /\ base \in 0..w - 1
  BY TagFields, StampsFit DEF Stamps, Words
<1>3. /\ f \in 0..w - 1 /\ f = (IF base <= x THEN x - base ELSE x - base + w)
      /\ h \in 0..w - 1 /\ h = (IF base <= y THEN y - base ELSE y - base + w)
  BY SinceFits DEF Words
<1> HIDE DEF x, y, f, h, w
<1>4. /\ \A n \in 0..w - 1 : n % w = n
      /\ \A n \in -w..-1 : n % w = n + w
  BY <1>1, Remainders
<1>5. /\ times \in Int /\ stamps \in Int /\ -w < times /\ times < w /\ -w < stamps /\ stamps < w
      /\ times = stamps \/ times = stamps + w \/ times = stamps - w
  BY <1>1, <1>2, <1>3
<1>6. base <= x /\ base <= y => times = stamps
  BY <1>1, <1>2, <1>3
<1> HIDE DEF times, stamps
<1>7. ASSUME times = stamps PROVE times % w = stamps % w
  BY <1>7
<1>8. ASSUME times = stamps + w PROVE times % w = stamps % w
  <2>1. times \in 0..w - 1 /\ stamps \in -w..-1
    BY <1>1, <1>5, <1>8
  <2>2. times % w = times /\ stamps % w = stamps + w
    BY <1>4, <2>1
  <2> QED
    BY <1>8, <2>2
<1>9. ASSUME times = stamps - w PROVE times % w = stamps % w
  <2>1. stamps \in 0..w - 1 /\ times \in -w..-1
    BY <1>1, <1>5, <1>9
  <2>2. stamps % w = stamps /\ times % w = times + w
    BY <1>4, <2>1
  <2>3. times + w = stamps
    BY <1>1, <1>5, <1>9
  <2> QED
    BY <2>2, <2>3
<1>10. times % w = stamps % w
  BY <1>5, <1>7, <1>8, <1>9
<1> QED
  BY <1>6, <1>10 DEF times, stamps, x, y, f, h, w

\* What follows from counting from one base: where counting begins, and that
\* from there on no timestamp is earlier than the base, if the publisher's never
\* go back and no tag is older than the first.
LEMMA CountedFrom ==
  ASSUME NEW g \in Seq(Entries), NEW base \in Stamps, Timed(g, base), Sorted(g),
         Counted(g) # {}
  PROVE  /\ \A i \in Counted(g) : g[i].time = Since(g[i].tag, base)
         /\ \A i \in NotBefore(g) : base <= g[i].tag.timestamp
         /\ Steady(g) => \A i \in Counted(g) : base <= g[i].tag.timestamp
<1>1. \A i \in DOMAIN g : i \in Nat
  OBVIOUS
<1>2. \A i \in DOMAIN g : g[i].tag.n \in Nat /\ g[i].tag.timestamp \in Int
  <2>1. ASSUME NEW i \in DOMAIN g
        PROVE  g[i].tag.n \in Nat /\ g[i].tag.timestamp \in Int
    <3>1. g[i].tag \in Tags /\ g[i].tag.n \in Nat
      BY GotNumbers
    <3>2. g[i].tag.timestamp \in Words
      BY <3>1, TagFields, StampsFit DEF Stamps
    <3>3. Words \subseteq Int
      BY BoundsAssumption DEF Words
    <3> QED
      BY <3>1, <3>2, <3>3
  <2> QED
    BY <2>1
<1>3. base # 0
  BY DEF Timed, Counted
<1>4. PICK k \in DOMAIN g :
        /\ g[k].tag.timestamp = base
        /\ \A l \in DOMAIN g : IF l < k THEN g[l].tag.timestamp = 0
                               ELSE g[l].time = Since(g[l].tag, base)
  BY <1>3 DEF Timed
<1>5. ASSUME NEW i \in Counted(g)
      PROVE  i \in DOMAIN g /\ ~(i < k)
  <2>1. PICK l \in DOMAIN g : l <= i /\ g[l].tag.timestamp # 0
    BY DEF Counted
  <2>2. i \in DOMAIN g /\ ~(l < k)
    BY <1>4, <2>1 DEF Counted
  <2> QED
    BY <1>1, <2>1, <2>2
<1>6. k \in Counted(g) /\ \A l \in Counted(g) : k <= l
  <2>1. k <= k
    BY <1>1
  <2>2. k \in Counted(g)
    BY <1>3, <1>4, <2>1 DEF Counted
  <2> QED
    BY <1>1, <1>5, <2>2
<1>7. \A i \in Counted(g) : g[i].time = Since(g[i].tag, base)
  BY <1>4, <1>5
<1>8. \A i \in NotBefore(g) : base <= g[i].tag.timestamp
  BY <1>4, <1>6 DEF NotBefore
<1>9. ASSUME Steady(g), NEW i \in Counted(g)
      PROVE  base <= g[i].tag.timestamp
  <2>1. \A l, m \in DOMAIN g : l < m => g[l].tag.n <= g[m].tag.n
    BY <1>9 DEF Steady, Sorted
  <2>2. i \in DOMAIN g /\ k \in DOMAIN g /\ (k = i \/ k < i)
    BY <1>1, <1>5
  <2>3. g[k].tag.n <= g[i].tag.n
    BY <1>2, <2>1, <2>2
  <2> QED
    BY <1>4, <1>9, <2>2, <2>3 DEF Steady
<1> QED
  BY <1>7, <1>8, <1>9

\* For any connections, names, timestamps and bounds, the times a player gets
\* are apart as the publisher's timestamps are, modulo their width; without a
\* wrap between tags no earlier than the player's first, and throughout for a
\* publisher whose timestamps never go back and a player whose opening is not
\* older than what it had.
THEOREM DistancesKept == Spec => []TimesKeepDistance
<1>1. ASSUME Inv PROVE TimesKeepDistance
  <2>1. ASSUME NEW c \in Conns, NEW i \in Counted(sub[c].got), NEW j \in Counted(sub[c].got)
        PROVE  LET g == sub[c].got
                   times == g[j].time - g[i].time
                   stamps == g[j].tag.timestamp - g[i].tag.timestamp
               IN  /\ times % WordMod = stamps % WordMod
                   /\ {i, j} \subseteq NotBefore(g) \/ Steady(g) => times = stamps
    <3> DEFINE got == sub[c].got
               base == sub[c].lastTimestamp
    <3>1. got \in Seq(Entries) /\ base \in Stamps
      BY <1>1 DEF Inv, Types, Players
    <3>2. i \in Counted(got) /\ j \in Counted(got) /\ i \in DOMAIN got /\ j \in DOMAIN got
      BY DEF Counted
    <3>3. sub[c].of # NoPubsub
      <4>1. got # <<>>
        BY <3>2
      <4> QED
        BY <1>1, <4>1 DEF Inv, PInv, Playing
    <3>4. Timed(got, base) /\ Sorted(got)
      BY <1>1, <3>3 DEF Inv, PInv, Following, Past
    <3> HIDE DEF got, base
    <3>5. /\ \A l \in Counted(got) : got[l].time = Since(got[l].tag, base)
          /\ \A l \in NotBefore(got) : base <= got[l].tag.timestamp
          /\ Steady(got) => \A l \in Counted(got) : base <= got[l].tag.timestamp
      BY <3>1, <3>2, <3>4, CountedFrom
    <3>6. got[i].tag \in Tags /\ got[j].tag \in Tags
      BY <3>1, <3>2, GotNumbers
    <3> DEFINE t == got[i].tag
               u == got[j].tag
               times == Since(u, base) - Since(t, base)
               stamps == u.timestamp - t.timestamp
    <3>7. /\ times % WordMod = stamps % WordMod
          /\ base <= t.timestamp /\ base <= u.timestamp => times = stamps
      BY <3>1, <3>6, Apart
    <3>8. got[i].time = Since(t, base) /\ got[j].time = Since(u, base)
      BY <3>2, <3>5
    <3>9. {i, j} \subseteq NotBefore(got) \/ Steady(got) =>
            base <= t.timestamp /\ base <= u.timestamp
      BY <3>2, <3>5
    <3> QED
      BY <3>7, <3>8, <3>9 DEF got
  <2> QED
    BY <2>1 DEF TimesKeepDistance
<1> QED
  BY <1>1, InvHolds, PTL
=============================================================================
