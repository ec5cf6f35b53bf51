------------------------------ MODULE MCRelay ------------------------------
(* The relay demo with three connections and two names.                     *)
EXTENDS Relay, TLC, FiniteSets

Symmetries == Permutations(Conns) \cup Permutations(Names)

\* bound: publishers, players and tags together, so that a run has either a
\* longer stream, or several players, or publishers that compete
CONSTANT MaxWork
Pubs == {pb \in Pubsubs : pb = pub[pb.by] \/ streams[pb.name] = pb}
Players == {c \in Conns : sub[c] # NoSub}
Bounded == 2 * Cardinality(Pubs) + Cardinality(Players)
             + FoldFunction(LAMBDA s, n : Len(s) + n, 0, sent) <= MaxWork
=============================================================================
