--------------------------- MODULE MCCheckpointStore ---------------------------
(* A small account for CheckpointStore. *)
EXTENDS CheckpointStore

CONSTANTS h1, h2

MCBytes == [h \in Digest |-> IF h = h1 THEN 2 ELSE 3]
ChunkOf(h) == [id |-> h, bytes |-> MCBytes[h]]
\* Whole manifests, and one that states a false length.
MCManifests == {{ChunkOf(h1)}, {ChunkOf(h1), ChunkOf(h2)}, {[id |-> h2, bytes |-> 2]}}
================================================================================
