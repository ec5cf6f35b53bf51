--------------------------- MODULE MCChunkDelivery ---------------------------
(* The instances of ChunkDelivery for TLC. *)
EXTENDS ChunkDelivery
=============================================================================
