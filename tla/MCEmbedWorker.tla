--------------------------- MODULE MCEmbedWorker ---------------------------
(* A version of one chunk, its revision of three (the last of which repeats
   the first version's chunk), and a job for a model this build lacks; two
   jobs to a batch and two chunks to a page. *)
EXTENDS EmbedWorker

MCJob == 1..3

MCChunk == 1..4

MCChunksOf == [j \in MCJob |-> CASE j = 1 -> {1} [] j = 2 -> {2, 3, 4} [] j = 3 -> {}]

\* Chunk 3 comes before chunk 2 in its page once chunk 1 has a vector.
MCPrev == [c \in MCChunk |-> IF c = 3 THEN 1 ELSE Null]

MCForeign == {3}

=============================================================================
