---------------------------- MODULE MCChunkCodec ----------------------------
(* Instances of ChunkCodec for TLC.                                        *)
EXTENDS ChunkCodec

LastRead == {319}      \* the last ID with a basic header of two bytes
FirstOverRead == {320} \* the first ID with a basic header of three bytes
Audio == {5}           \* audio of the relay demo (callback.go:27)
=============================================================================
