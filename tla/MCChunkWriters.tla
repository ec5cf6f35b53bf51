--------------------------- MODULE MCChunkWriters ---------------------------
(* Small instances of ChunkWriters for TLC. *)
EXTENDS ChunkWriters, TLC

\* Users and chunk streams are model values.  The users of a symmetry set must
\* all be in Background or all outside it.
Symmetry == Permutations(ChunkStreams) \cup Permutations(Users)

\* No guard and no property of the runs with a VIEW reads the histories or tells
\* two messages of the same length apart: states that differ in nothing else are
\* bisimilar, and TLC explores one of them.
View == <<writers, queue, spc, sw, err, upc, ucs, cpc, pending, cw, ctxExpired,
          drained, stopped, rwcOpen, doneCh, closeCh, lastErr, aqM, msgEnc,
          [u \in Users |-> <<msg[u].seq, IF upc[u] = "idle" THEN 0 ELSE msg[u].size>>],
          [w \in ChunkStreams |-> Len(buf[w])]>>
=============================================================================
