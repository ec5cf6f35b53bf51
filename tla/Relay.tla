------------------------------- MODULE Relay -------------------------------
(****************************************************************************)
(* The relay demo (example/server_relay_demo): a server whose connections   *)
(* publish streams under a name and play what others publish.  One Handler  *)
(* per connection, one RelayService for all of them.  A connection's        *)
(* message loop and its OnClose are one goroutine, so a connection is one   *)
(* process; Publish walks over the players without a lock, which is why it  *)
(* takes a step per player.                                                 *)
(*                                                                          *)
(* A connection publishes a name at most once before it closes, so the pair *)
(* of both identifies a Pubsub with its Pub; it plays at most once, so it   *)
(* also stands for its Sub.  What a player gets is what is handed to its    *)
(* Conn's Write, which a slow player may delay for ever.                    *)
(****************************************************************************)
EXTENDS Integers, Sequences, SequencesExt

CONSTANTS Conns,      \* the connections the server accepts
          Names,      \* the names streams are published under
          WordMod,    \* timestamps are counted modulo WordMod (2^32)
          Timestamps, \* the timestamps publishers send, in any order
          MaxTags,    \* bound: tags published on a Pub
          NoPubsub, NoTag

Kinds == {"audio", "header", "key", "inter"}     \* script data goes as audio does
Video == Kinds \ {"audio"}
Pubsubs == [by : Conns, name : Names]
ASSUME NoPubsubAssumption == NoPubsub \notin Pubsubs

\* n is a tag's place in what is published on its Pub
Tags == [n : 1..MaxTags, kind : Kinds, timestamp : Timestamps]
ASSUME NoTagAssumption == NoTag \notin Tags
ASSUME BoundsAssumption ==
  MaxTags \in Nat \ {0} /\ WordMod \in Nat \ {0} /\ Timestamps \subseteq 0..(WordMod - 1)

VARIABLES
  streams,   \* RelayService.streams: a name's Pubsub
  subs,      \* Pubsub.subs
  sent,      \* the kinds of the tags published on a Pub, in order
  cached,    \* Pub.avcSeqHeader and Pub.lastKeyFrame
  pub,       \* Handler.pub, by its Pubsub
  sub,       \* Handler.sub: the Sub, in what Pubsub it is, and what it got
  pc,        \* where the connection's goroutine is
  job        \* what Publish is relaying, and to whom it still has to
vars == <<streams, subs, sent, cached, pub, sub, pc, job>>

NoSub == [of |-> NoPubsub, initialized |-> FALSE, closed |-> FALSE,
          eventCallback |-> FALSE, lastTimestamp |-> 0, got |-> <<>>]
NoJob == [tag |-> NoTag, left |-> <<>>]

Init ==
  /\ streams = [name \in Names |-> NoPubsub]
  /\ subs = [pb \in Pubsubs |-> <<>>]
  /\ sent = [pb \in Pubsubs |-> <<>>]
  /\ cached = [pb \in Pubsubs |-> [header |-> NoTag, key |-> NoTag]]
  /\ pub = [c \in Conns |-> NoPubsub]
  /\ sub = [c \in Conns |-> NoSub]
  /\ pc = [c \in Conns |-> "loop"]
  /\ job = [c \in Conns |-> NoJob]

Goto(c, where) == pc' = [pc EXCEPT ![c] = where]

----------------------------------------------------------------------------
(* The handlers of publish and play.  An error ends the message loop.       *)

\* RelayService.NewPubsub: names in use are refused
CanRegister_Always(name) == TRUE     \* mutant: the name's publisher is replaced
CanRegister(name) == streams[name] = NoPubsub

\* OnPublish: a second publish on another message stream replaces h.pub
OnPublish(c, name) ==
  /\ pc[c] = "loop"
  /\ IF sub[c].of = NoPubsub /\ CanRegister(name)
       THEN LET pb == [by |-> c, name |-> name]
            IN  /\ streams' = [streams EXCEPT ![name] = pb]
                /\ pub' = [pub EXCEPT ![c] = pb]
                /\ UNCHANGED pc
       ELSE Goto(c, "ending") /\ UNCHANGED <<streams, pub>>
  /\ UNCHANGED <<subs, sent, cached, sub, job>>

\* OnPlay up to RelayService.GetPubsub, which looks the name up under s.m
OnPlay(c, name) ==
  /\ pc[c] = "loop"
  /\ IF sub[c].of = NoPubsub /\ streams[name] # NoPubsub
       THEN /\ sub' = [sub EXCEPT ![c].of = streams[name]]
            /\ Goto(c, "subscribing")
       ELSE Goto(c, "ending") /\ UNCHANGED sub
  /\ UNCHANGED <<streams, subs, sent, cached, pub, job>>

\* Pubsub.m is held by a Deregister that has yet to call RemovePubsub
Deregistering(pb) == pc[pb.by] = "deregistering" /\ pub[pb.by] = pb

\* Pubsub.Sub, under pb.m; the Sub has no eventCallback yet
Subscribe(c) ==
  /\ pc[c] = "subscribing" /\ ~Deregistering(sub[c].of)
  /\ subs' = [subs EXCEPT ![sub[c].of] = Append(@, c)]
  /\ Goto(c, "subscribed")
  /\ UNCHANGED <<streams, sent, cached, pub, sub, job>>

\* the rest of OnPlay
SetCallback(c) ==
  /\ pc[c] = "subscribed"
  /\ sub' = [sub EXCEPT ![c].eventCallback = TRUE]
  /\ Goto(c, "loop")
  /\ UNCHANGED <<streams, subs, sent, cached, pub, job>>

----------------------------------------------------------------------------
(* Publish, called by OnAudio, OnVideo and OnSetDataFrame.                  *)

\* what Publish remembers of a video tag: a sequence header is also a key frame
Remember(c, tag) ==
  [header |-> IF tag.kind = "header" THEN tag ELSE c.header,
   key |-> IF tag.kind \in {"header", "key"} THEN tag ELSE c.key]

\* the timestamp is the publisher's; the tag is remembered, and the slice of
\* players is read once
Publish(c, kind, timestamp) ==
  /\ pc[c] = "loop" /\ pub[c] # NoPubsub
  /\ LET pb == pub[c]
         tag == [n |-> Len(sent[pb]) + 1, kind |-> kind, timestamp |-> timestamp]
     IN  /\ tag.n <= MaxTags
         /\ sent' = [sent EXCEPT ![pb] = Append(@, kind)]
         /\ cached' = [cached EXCEPT ![pb] = Remember(@, tag)]
         /\ job' = [job EXCEPT ![c] = [tag |-> tag, left |-> subs[pb]]]
  /\ Goto(c, "relaying")
  /\ UNCHANGED <<streams, subs, pub, sub>>

\* the timestamp a Sub counts from, once a tag has come
Base_Latest(s, tag) == tag.timestamp   \* mutant: every tag counts from itself
Base(s, tag) == IF s.lastTimestamp = 0 THEN tag.timestamp ELSE s.lastTimestamp

\* a uint32 subtraction
Since_Wide(tag, base) == tag.timestamp + WordMod - base   \* mutant: it does not wrap
Since(tag, base) == (tag.timestamp + WordMod - base) % WordMod

\* Sub.onEvent on a clone of the tag, if there is one: a closed Sub ignores it
OnEvent(s, tag) ==
  IF tag = NoTag \/ s.closed THEN s
  ELSE [s EXCEPT !.lastTimestamp = Base(s, tag),
                 !.got = Append(@, [tag |-> tag, time |-> Since(tag, Base(s, tag))])]

\* the tags Publish passes to a Sub's onEvent: the sequence header and the key
\* frame, if it remembers them, or the tag
Joins(s, tag) == tag.kind \in Video /\ ~s.initialized
Opening(c) == <<c.header, c.key, NoTag>>
ForSub_Continued(s, tag, c) ==   \* mutant: the "continue" is forgotten
  IF Joins(s, tag) THEN [Opening(c) EXCEPT ![3] = tag] ELSE <<NoTag, NoTag, tag>>
ForSub(s, tag, c) == IF Joins(s, tag) THEN Opening(c) ELSE <<NoTag, NoTag, tag>>

OnEvents(s, tags) == OnEvent(OnEvent(OnEvent(s, tags[1]), tags[2]), tags[3])

\* a Sub after its turn
Relayed(s, tag, c) ==
  [OnEvents(s, ForSub(s, tag, c)) EXCEPT !.initialized = @ \/ tag.kind \in Video]

\* One turn of Publish's loop over the players.  A closed Sub ignores the
\* tag; one without eventCallback makes it panic, and the publisher's loop ends
\* (that the Sub's lastTimestamp is set by then is left out: Deregister closes
\* the Sub before anything is passed to it again).
Relay(c) ==
  /\ pc[c] = "relaying" /\ job[c].left # <<>>
  /\ LET tag == job[c].tag
         p == Head(job[c].left)
         kept == cached[pub[c]]
     IN  IF /\ ForSub(sub[p], tag, kept) # <<NoTag, NoTag, NoTag>>
            /\ ~sub[p].closed /\ ~sub[p].eventCallback
           THEN /\ job' = [job EXCEPT ![c] = NoJob]
                /\ Goto(c, "ending")
                /\ UNCHANGED sub
           ELSE /\ sub' = [sub EXCEPT ![p] = Relayed(@, tag, kept)]
                /\ job' = [job EXCEPT ![c].left = Tail(@)]
                /\ UNCHANGED pc
  /\ UNCHANGED <<streams, subs, sent, cached, pub>>

\* Publish returns, and with it the handler
Published(c) ==
  /\ pc[c] = "relaying" /\ job[c].left = <<>>
  /\ job' = [job EXCEPT ![c] = NoJob]
  /\ Goto(c, "loop")
  /\ UNCHANGED <<streams, subs, sent, cached, pub, sub>>

----------------------------------------------------------------------------
(* The end of a connection: Conn.Close calls OnClose once.                  *)

\* the peer leaves, or a message is refused by another handler
LoopEnds(c) ==
  /\ pc[c] = "loop"
  /\ Goto(c, "ending")
  /\ UNCHANGED <<streams, subs, sent, cached, pub, sub, job>>

SubClose(s) == [s EXCEPT !.closed = TRUE]

\* OnClose of a connection that publishes nothing
OnClose(c) ==
  /\ pc[c] = "ending" /\ pub[c] = NoPubsub
  /\ sub' = [sub EXCEPT ![c] = SubClose(@)]
  /\ Goto(c, "closed")
  /\ UNCHANGED <<streams, subs, sent, cached, pub, job>>

\* Pub.Close and Pubsub.Deregister: the players are closed under pb.m
Deregister(c) ==
  /\ pc[c] = "ending" /\ pub[c] # NoPubsub
  /\ sub' = [p \in Conns |-> IF p \in ToSet(subs[pub[c]]) THEN SubClose(sub[p]) ELSE sub[p]]
  /\ Goto(c, "deregistering")
  /\ UNCHANGED <<streams, subs, sent, cached, pub, job>>

\* RemovePubsub removes whatever has the name; then OnClose closes h.sub
RemovePubsub(c) ==
  /\ pc[c] = "deregistering"
  /\ streams' = [streams EXCEPT ![pub[c].name] = NoPubsub]
  /\ sub' = [sub EXCEPT ![c] = SubClose(@)]
  /\ Goto(c, "closed")
  /\ UNCHANGED <<subs, sent, cached, pub, job>>

AllClosed == (\A c \in Conns : pc[c] = "closed") /\ UNCHANGED vars

Next ==
  \/ \E c \in Conns :
       \/ \E name \in Names : OnPublish(c, name) \/ OnPlay(c, name)
       \/ Subscribe(c) \/ SetCallback(c)
       \/ \E kind \in Kinds, timestamp \in Timestamps : Publish(c, kind, timestamp)
       \/ Relay(c) \/ Published(c)
       \/ LoopEnds(c) \/ OnClose(c) \/ Deregister(c) \/ RemovePubsub(c)
  \/ AllClosed
Spec == Init /\ [][Next]_vars

----------------------------------------------------------------------------
(* Properties.                                                              *)

\* The states the goroutines and the service can be in.
TypeOK ==
  /\ streams \in [Names -> Pubsubs \cup {NoPubsub}]
  /\ \A pb \in Pubsubs : subs[pb] \in Seq(Conns) /\ sent[pb] \in Seq(Kinds)
  /\ \A pb \in Pubsubs : cached[pb] \in [header : Tags \cup {NoTag}, key : Tags \cup {NoTag}]
  /\ pub \in [Conns -> Pubsubs \cup {NoPubsub}]
  /\ \A c \in Conns :
       /\ sub[c].of \in Pubsubs \cup {NoPubsub}
       /\ sub[c].lastTimestamp \in Timestamps \cup {0}
       /\ sub[c].got \in Seq([tag : Tags, time : 0..(WordMod - 1)])
       /\ job[c] \in [tag : Tags \cup {NoTag}, left : Seq(Conns)]
       /\ job[c] = NoJob <=> pc[c] # "relaying"
  /\ pc \in [Conns -> {"loop", "subscribing", "subscribed", "relaying",
                       "ending", "deregistering", "closed"}]

\* A name leads to its publisher from OnPublish until that connection's
\* OnClose and no longer: nobody takes a name that is in use, RemovePubsub,
\* which goes by the name, never removes another publisher, and a name that
\* is still in the table has somebody who will free it or belongs to a
\* publisher whose connection has published a second name (handler.go:66
\* forgets the first one, which is never freed).
NamesAreHeld ==
  /\ \A c \in Conns : pub[c] # NoPubsub /\ pc[c] # "closed" => streams[pub[c].name] = pub[c]
  /\ \A name \in Names : streams[name] # NoPubsub =>
       LET pb == streams[name]
       IN  /\ pb.name = name
           /\ pub[pb.by] = pb => pc[pb.by] # "closed"
           /\ pub[pb.by] # NoPubsub

\* Where video is in what was published, and in what a player got.
VideoOf(all) == {n \in DOMAIN all : all[n] \in Video}
VideoAt(got) == {i \in DOMAIN got : got[i].tag.kind \in Video}
Before(at, i) == {k \in at : k < i}

\* The publisher's first video tag is a sequence header.
StartsWithHeader(all) ==
  \A n \in VideoOf(all) : (\A k \in VideoOf(all) : n <= k) => all[n] = "header"

\* The video tag a player may get after the one at k: after the first a key frame
\* or header that is no older, and from the third on the next one published.
Continues(got, all, k, tag) ==
  LET at == VideoAt(got) IN
  IF Before(at, k) = {}
  THEN tag.kind \in {"header", "key"} /\ got[k].tag.n <= tag.n
  ELSE /\ got[k].tag.n < tag.n
       /\ (\E l \in Before(at, k) : Before(at, l) # {}) =>
            \A n \in VideoOf(all) : n <= got[k].tag.n \/ tag.n <= n

Playable(got, all) ==
  LET at == VideoAt(got) IN
  /\ \A i \in at : Before(at, i) = {} => got[i].tag.kind = "header"
  /\ \A k \in at : \A i \in at :
       k < i /\ (\A l \in at : l <= k \/ i <= l) => Continues(got, all, k, got[i].tag)

\* Whenever a player joins, the video it gets from a publisher that starts
\* with a sequence header starts with a header, goes on with a key frame (or
\* the header once more, which Publish takes for one), and from its third tag
\* on misses, repeats and reorders nothing.
PlayableVideo ==
  \A c \in Conns : sub[c].of # NoPubsub /\ StartsWithHeader(sent[sub[c].of]) =>
    Playable(sub[c].got, sent[sub[c].of])

\* What a player got from the first tag on whose timestamp is not 0, and the
\* tags among them that are no earlier than that first one.
Counted(got) ==
  {i \in DOMAIN got : \E k \in DOMAIN got : k <= i /\ got[k].tag.timestamp # 0}
NotBefore(got) ==
  {i \in Counted(got) : \A k \in Counted(got) :
     (\A l \in Counted(got) : k <= l) => got[k].tag.timestamp <= got[i].tag.timestamp}

\* Later tags have later timestamps, and no tag came before an older one that
\* Publish had remembered.
Steady(got) ==
  /\ \A i, j \in DOMAIN got :
       got[i].tag.n <= got[j].tag.n => got[i].tag.timestamp <= got[j].tag.timestamp
  /\ \A i \in DOMAIN got : got[1].tag.n <= got[i].tag.n

\* The times a player gets keep the distances of the publisher's timestamps,
\* modulo their width (pubsub.go:130), whenever it joins and whatever it is
\* opened with.  Between two tags no earlier than the player's first they do so
\* without a wrap, and so they do throughout if the publisher's timestamps
\* never go back and the player's opening is not older than the audio it had.
TimesKeepDistance ==
  \A c \in Conns :
    LET g == sub[c].got
        counted == Counted(g)
        ahead == NotBefore(g)
        steady == Steady(g)
    IN  \A i, j \in counted :
          LET times == g[j].time - g[i].time
              stamps == g[j].tag.timestamp - g[i].tag.timestamp
          IN  /\ times % WordMod = stamps % WordMod
              /\ {i, j} \subseteq ahead \/ steady => times = stamps
=============================================================================
