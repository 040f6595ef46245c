--------------------------- MODULE MCChunkStream ---------------------------
EXTENDS ChunkStream, TLC

CONSTANTS new1, new2, old, oldest, key1, key2

\* All under one data key; the two older streams have drawn the same four bytes.
MCKeyOf == [s \in Stream |-> key1]
MCFormat ==
  [s \in Stream |-> IF s = oldest THEN "legacy" ELSE IF s = old THEN "aead" ELSE "hkdf"]
MCNonceHead == [s \in Stream |-> 0]
=============================================================================
