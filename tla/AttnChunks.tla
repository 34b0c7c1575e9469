----------------------------- MODULE AttnChunks -----------------------------
(***************************************************************************)
(* How op_fattn_decode (k0/ops/attn.cuh) splits the padded KV window among *)
(* the blocks of its range: block c of nchunks owns the rows               *)
(* ChunkLo .. ChunkHi - 1, whole tiles of the shared-memory slab.          *)
(***************************************************************************)
EXTENDS Naturals

CeilDiv(n, d) == (n + d - 1) \div d

\* pad_up of harness.cpp, for any unit.
PadUp(n, unit) == CeilDiv(n, unit) * unit

Least(x, y) == IF x <= y THEN x ELSE y

ChunkLen(nkv, nchunks, tile) == PadUp(CeilDiv(nkv, nchunks), tile)

\* kv0 of chunk c.
ChunkLo(nkv, nchunks, tile, c) == Least(c * ChunkLen(nkv, nchunks, tile), nkv)

\* Mutant of ChunkHi: the end is not clamped to the window.
ChunkHiUnclamped(nkv, nchunks, tile, c) ==
  ChunkLo(nkv, nchunks, tile, c) + ChunkLen(nkv, nchunks, tile)

\* kv1 of chunk c.
ChunkHi(nkv, nchunks, tile, c) ==
  Least(ChunkLo(nkv, nchunks, tile, c) + ChunkLen(nkv, nchunks, tile), nkv)

\* The rows chunk c loads.
ChunkRows(nkv, nchunks, tile, c) ==
  ChunkLo(nkv, nchunks, tile, c) .. ChunkHi(nkv, nchunks, tile, c) - 1
==============================================================================
