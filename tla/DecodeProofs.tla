---------------------------- MODULE DecodeProofs ----------------------------
(***************************************************************************)
(* Theorems about Decode for every grid, tile, padding, context, layer     *)
(* pattern and model: the split of the KV window, what a pass may write in *)
(* a KV cache, what the blocks of a pass leave in the states and scratch   *)
(* buffers that every layer reuses, and the types.                         *)
(***************************************************************************)
EXTENDS Decode, TLAPS, SequenceTheorems

(***************************************************************************)
(* Arithmetic of the chunks.                                               *)
(***************************************************************************)
LEMMA CeilDivCovers ==
  ASSUME NEW n \in Nat, NEW d \in Nat \ {0}
  PROVE  /\ CeilDiv(n, d) \in Nat
         /\ CeilDiv(n, d) * d >= n
         /\ n > 0 => CeilDiv(n, d) > 0
<1>1. \A m \in Nat : /\ m \div d \in Nat
                     /\ m = (m \div d) * d + (m % d)
                     /\ m % d \in 0 .. d-1
  BY SMTT(30)
<1>2. n + d - 1 \in Nat
  OBVIOUS
<1> DEFINE q == (n + d - 1) \div d
<1>3. /\ q \in Nat
      /\ n + d - 1 = q * d + ((n + d - 1) % d)
      /\ (n + d - 1) % d \in 0 .. d-1
  BY <1>1, <1>2
<1>4. q * d >= n
  BY <1>3, SMTT(30)
<1>5. ASSUME n > 0, q = 0 PROVE FALSE
  BY <1>4, <1>5
<1> QED
  BY <1>3, <1>4, <1>5 DEF CeilDiv

LEMMA ChunkLenCovers ==
  ASSUME NEW nkv \in Nat, NEW n \in Nat \ {0}, NEW tile \in Nat \ {0}
  PROVE  /\ ChunkLen(nkv, n, tile) \in Nat
         /\ n * ChunkLen(nkv, n, tile) >= nkv
         /\ nkv > 0 => ChunkLen(nkv, n, tile) > 0
<1> DEFINE share == CeilDiv(nkv, n)
<1>1. share \in Nat /\ share * n >= nkv /\ (nkv > 0 => share > 0)
  BY CeilDivCovers
<1> DEFINE len == CeilDiv(share, tile) * tile
<1>2. CeilDiv(share, tile) \in Nat /\ len >= share
  BY <1>1, CeilDivCovers
<1> HIDE DEF share
<1>3. len \in Nat
  BY <1>2
<1> HIDE DEF len
<1>4. n * len >= share * n
  BY <1>1, <1>2, <1>3, SMTT(30)
<1>5. n * len >= nkv
  BY <1>1, <1>3, <1>4, SMTT(30)
<1>6. nkv > 0 => len > 0
  BY <1>1, <1>2, <1>3
<1> QED
  BY <1>3, <1>5, <1>6 DEF ChunkLen, PadUp, share, len

LEMMA ChunkBounds ==
  ASSUME NEW nkv \in Nat, NEW n \in Nat \ {0}, NEW tile \in Nat \ {0}, NEW c \in Nat
  PROVE  /\ ChunkLo(nkv, n, tile, c) \in Nat
         /\ ChunkHi(nkv, n, tile, c) \in Nat
         /\ ChunkHi(nkv, n, tile, c) <= nkv
         /\ ChunkHi(nkv, n, tile, c) <= ChunkLo(nkv, n, tile, c + 1)
<1> DEFINE len == ChunkLen(nkv, n, tile)
<1>1. len \in Nat
  BY ChunkLenCovers
<1> HIDE DEF len
<1>2. c * len \in Nat /\ (c + 1) * len = c * len + len
  BY <1>1, SMTT(30)
<1> DEFINE start == c * len
<1>3. start \in Nat /\ (c + 1) * len = start + len
  BY <1>2
<1> HIDE DEF start
<1>4. /\ ChunkLo(nkv, n, tile, c) = Least(start, nkv)
      /\ ChunkHi(nkv, n, tile, c) = Least(Least(start, nkv) + len, nkv)
      /\ ChunkLo(nkv, n, tile, c + 1) = Least(start + len, nkv)
  BY <1>3 DEF ChunkLo, ChunkHi, len, start
<1> QED
  BY <1>1, <1>3, <1>4 DEF Least

LEMMA EarlierChunkEndsBefore ==
  ASSUME NEW nkv \in Nat, NEW n \in Nat \ {0}, NEW tile \in Nat \ {0},
         NEW c \in Nat, NEW d \in Nat, c < d
  PROVE  ChunkHi(nkv, n, tile, c) <= ChunkLo(nkv, n, tile, d)
<1> DEFINE len == ChunkLen(nkv, n, tile)
<1>1. len \in Nat
  BY ChunkLenCovers
<1> HIDE DEF len
<1>2. (c + 1) * len \in Nat /\ d * len \in Nat /\ (c + 1) * len <= d * len
  BY <1>1, SMTT(30)
<1>3. Least((c + 1) * len, nkv) <= Least(d * len, nkv)
  BY <1>2 DEF Least
<1>4. ChunkLo(nkv, n, tile, c + 1) <= ChunkLo(nkv, n, tile, d)
  BY <1>3 DEF ChunkLo, len
<1> QED
  <2>1. ChunkHi(nkv, n, tile, c) <= ChunkLo(nkv, n, tile, c + 1)
    BY ChunkBounds
  <2>2. /\ ChunkHi(nkv, n, tile, c) \in Nat
        /\ ChunkLo(nkv, n, tile, c + 1) \in Nat
        /\ ChunkLo(nkv, n, tile, d) \in Nat
    <3>1. c + 1 \in Nat
      OBVIOUS
    <3> QED
      BY <3>1, ChunkBounds
  <2> QED
    BY <1>4, <2>1, <2>2

LEMMA EveryRowHasAChunk ==
  ASSUME NEW nkv \in Nat, NEW n \in Nat \ {0}, NEW tile \in Nat \ {0},
         NEW j \in 0 .. nkv - 1
  PROVE  \E c \in 0 .. n-1 : j \in ChunkRows(nkv, n, tile, c)
<1> DEFINE len == ChunkLen(nkv, n, tile)
<1>1. len \in Nat \ {0} /\ n * len >= nkv
  BY ChunkLenCovers
<1> HIDE DEF len
<1> DEFINE c == j \div len
<1>2. c \in Nat /\ c * len <= j /\ j < c * len + len
  BY <1>1, SMTT(30)
<1> HIDE DEF c
<1>3. c < n
  <2>1. SUFFICES ASSUME c >= n PROVE FALSE
    BY <1>2
  <2>2. c * len >= n * len
    BY <1>1, <1>2, <2>1, SMTT(30)
  <2>3. n * len \in Nat /\ c * len \in Nat
    BY <1>1, <1>2, SMTT(30)
  <2> QED
    BY <1>1, <1>2, <2>2, <2>3
<1> DEFINE start == c * len
<1>4. start \in Nat /\ start <= j /\ j < start + len
  BY <1>1, <1>2, SMTT(30)
<1> HIDE DEF start
<1>5. Least(start, nkv) <= j /\ j < Least(Least(start, nkv) + len, nkv)
  BY <1>1, <1>4 DEF Least
<1>6. j \in ChunkRows(nkv, n, tile, c)
  <2>1. /\ ChunkLo(nkv, n, tile, c) = Least(start, nkv)
        /\ ChunkHi(nkv, n, tile, c) = Least(Least(start, nkv) + len, nkv)
    BY DEF ChunkLo, ChunkHi, len, start
  <2>2. ChunkLo(nkv, n, tile, c) \in Nat /\ ChunkHi(nkv, n, tile, c) \in Nat
    BY <1>2, ChunkBounds
  <2> QED
    BY <1>5, <2>1, <2>2 DEF ChunkRows
<1> QED
  BY <1>2, <1>3, <1>6

\* The chunks of any window partition it, whatever the grid and the tile.
LEMMA ChunksOfAnyWindow ==
  ASSUME NEW nkv \in Nat, NEW n \in Nat \ {0}, NEW tile \in Nat \ {0}
  PROVE  /\ \A j \in 0 .. nkv - 1 : \E c \in 0 .. n-1 : j \in ChunkRows(nkv, n, tile, c)
         /\ \A c \in 0 .. n-1 : ChunkRows(nkv, n, tile, c) \subseteq 0 .. nkv - 1
         /\ \A c, d \in 0 .. n-1 : c # d =>
              ChunkRows(nkv, n, tile, c) \cap ChunkRows(nkv, n, tile, d) = {}
<1>1. ASSUME NEW c \in 0 .. n-1
      PROVE  /\ ChunkLo(nkv, n, tile, c) \in Nat
             /\ ChunkHi(nkv, n, tile, c) \in Nat
             /\ ChunkHi(nkv, n, tile, c) <= nkv
  <2>1. c \in Nat
    OBVIOUS
  <2> QED
    BY <2>1, ChunkBounds
<1>2. ASSUME NEW c \in 0 .. n-1
      PROVE  ChunkRows(nkv, n, tile, c) \subseteq 0 .. nkv - 1
  BY <1>1 DEF ChunkRows
<1>3. ASSUME NEW c \in 0 .. n-1, NEW d \in 0 .. n-1, c < d
      PROVE  ChunkRows(nkv, n, tile, c) \cap ChunkRows(nkv, n, tile, d) = {}
  <2>1. c \in Nat /\ d \in Nat
    OBVIOUS
  <2>2. ChunkHi(nkv, n, tile, c) <= ChunkLo(nkv, n, tile, d)
    BY <1>3, <2>1, EarlierChunkEndsBefore
  <2> QED
    BY <1>1, <2>2 DEF ChunkRows
<1>4. ASSUME NEW c \in 0 .. n-1, NEW d \in 0 .. n-1, c # d
      PROVE  ChunkRows(nkv, n, tile, c) \cap ChunkRows(nkv, n, tile, d) = {}
  <2>1. c < d \/ d < c
    BY <1>4
  <2> QED
    BY <1>3, <2>1
<1> QED
  BY <1>2, <1>4, EveryRowHasAChunk

(***************************************************************************)
(* The invariant: the cells hold the inputs of the position whose pass is  *)
(* next or running, and nothing grows or shrinks a cache.                  *)
(***************************************************************************)
CellName == {"token", "positions", "kv_row", "n_kv", "mask_f16"}

CellsTyped ==
  /\ cell = [name \in CellName |-> cell[name]]
  /\ cell.n_kv \in Nat
  /\ pos \in Nat

InputsOfPosition ==
  phase \in {"ring", "running"} => cell.kv_row = pos /\ cell.positions = pos

CachesKeepTheirShape ==
  /\ kv = [l \in Kind("attn") |-> kv[l]]
  /\ \A l \in Kind("attn") : kv[l] = [j \in 0 .. NCtx-1 |-> kv[l][j]]

DecodeInv == CellsTyped /\ InputsOfPosition /\ CachesKeepTheirShape

LEMMA PadUpIsNat ==
  ASSUME NEW n \in Nat, NEW unit \in Nat \ {0}
  PROVE  PadUp(n, unit) \in Nat
<1>1. CeilDiv(n, unit) \in Nat
  BY CeilDivCovers
<1> HIDE DEF CeilDiv
<1> QED
  BY <1>1, SMTT(30) DEF PadUp

LEMMA DecodeInit ==
  ASSUME Init
  PROVE  DecodeInv
<1>1. CellsTyped
  BY DEF Init, CellsTyped, CellName
<1>2. InputsOfPosition
  BY DEF Init, InputsOfPosition
<1>3. CachesKeepTheirShape
  BY DEF Init, CachesKeepTheirShape
<1> QED
  BY <1>1, <1>2, <1>3 DEF DecodeInv

\* What a block may change of what DecodeInv is about: one row of one cache.
LEMMA BlockLeavesCells ==
  ASSUME NEW b \in Block, Execute(b)
  PROVE  /\ UNCHANGED <<phase, pos, cell>>
         /\ \/ UNCHANGED kv
            \/ \E l \in 0 .. NLayers + 1 : KvAppend(b, l)
<1> PICK l \in 0 .. NLayers + 1 :
      \/ Embed(b, l) \/ Norm(b, l) \/ Gemv(b, l)
      \/ ConvShiftConcat(b, l) \/ SsmConvSilu(b, l) \/ GdnStep(b, l) \/ StateStore(b, l)
      \/ QkNormRope(b, l) \/ KvAppend(b, l) \/ FattnDecode(b, l) \/ FattnReduce(b, l)
      \/ Out(b, l) \/ FfnNorm(b, l) \/ Ffn(b, l) \/ HeadGemv(b, l) \/ LogitsEmit(b, l)
  BY DEF Execute
<1>1. CASE KvAppend(b, l)
  BY <1>1 DEF KvAppend, host
<1>2. CASE Embed(b, l) \/ Norm(b, l) \/ Gemv(b, l)
  BY <1>2 DEF Embed, Norm, Gemv, host, persistent
<1>3. CASE ConvShiftConcat(b, l) \/ SsmConvSilu(b, l) \/ GdnStep(b, l) \/ StateStore(b, l)
  BY <1>3 DEF ConvShiftConcat, SsmConvSilu, GdnStep, StateStore, host, persistent
<1>4. CASE QkNormRope(b, l) \/ FattnDecode(b, l) \/ FattnReduce(b, l)
  BY <1>4 DEF QkNormRope, FattnDecode, FattnReduce, host, persistent
<1>5. CASE Out(b, l) \/ FfnNorm(b, l) \/ Ffn(b, l) \/ HeadGemv(b, l) \/ LogitsEmit(b, l)
  BY <1>5 DEF Out, FfnNorm, Ffn, HeadGemv, LogitsEmit, host, persistent
<1> QED
  BY <1>1, <1>2, <1>3, <1>4, <1>5

\* KV_APPEND writes the row of kv_row, in its own layer.
LEMMA AppendWritesOneRow ==
  ASSUME CachesKeepTheirShape, NEW b \in Block, NEW l \in 0 .. NLayers + 1, KvAppend(b, l)
  PROVE  /\ CachesKeepTheirShape'
         /\ \A m \in Kind("attn") : \A j \in 0 .. NCtx-1 :
              j # cell.kv_row => kv'[m][j] = kv[m][j]
<1> DEFINE row == cell.kv_row
           cache == [kv[l] EXCEPT ![row] = [kv[l][row] EXCEPT ![b] = buf["k_stage"][b]]]
<1>1. kv' = [kv EXCEPT ![l] = cache]
  BY DEF KvAppend
<1>2. ASSUME NEW m \in Kind("attn")
      PROVE  kv'[m] = IF m = l THEN cache ELSE kv[m]
  BY <1>1, <1>2 DEF CachesKeepTheirShape
<1>3. ASSUME l \in Kind("attn")
      PROVE  /\ cache = [j \in 0 .. NCtx-1 |-> cache[j]]
             /\ \A j \in 0 .. NCtx-1 : j # row => cache[j] = kv[l][j]
  BY <1>3 DEF CachesKeepTheirShape
<1>4. kv' = [m \in Kind("attn") |-> kv'[m]]
  BY <1>1 DEF CachesKeepTheirShape
<1> HIDE DEF cache
<1>5. \A m \in Kind("attn") : kv'[m] = [j \in 0 .. NCtx-1 |-> kv'[m][j]]
  BY <1>2, <1>3 DEF CachesKeepTheirShape
<1>6. \A m \in Kind("attn") : \A j \in 0 .. NCtx-1 : j # row => kv'[m][j] = kv[m][j]
  BY <1>2, <1>3
<1>7. Kind("attn")' = Kind("attn") /\ NCtx' = NCtx
  BY DEF Kind, NLayers
<1> QED
  BY <1>4, <1>5, <1>6, <1>7 DEF CachesKeepTheirShape

LEMMA DecodeStep ==
  ASSUME DecodeInv, [Next]_vars
  PROVE  /\ DecodeInv'
         /\ \A m \in Kind("attn") : \A j \in 0 .. NCtx-1 :
              j # pos => kv'[m][j] = kv[m][j]
<1> USE DEF DecodeInv
<1> DEFINE OthersKept == \A m \in Kind("attn") : \A j \in 0 .. NCtx-1 :
                           j # pos => kv'[m][j] = kv[m][j]
<1>1. ASSUME UNCHANGED kv
      PROVE  CachesKeepTheirShape' /\ OthersKept
  BY <1>1 DEF CachesKeepTheirShape, Kind, NLayers
<1>2. CASE Start
  <2>1. UNCHANGED <<kv, cell, pos>> /\ phase' \notin {"ring", "running"}
    BY <1>2 DEF Start, persistent
  <2> QED
    BY <1>1, <2>1 DEF CellsTyped, InputsOfPosition
<1>3. CASE SetPassInputs
  <2> DEFINE nkv == PadUp(pos + 1, Pad)
  <2>1. nkv \in Nat
    <3>1. pos + 1 \in Nat
      BY DEF CellsTyped
    <3> QED
      BY <3>1, PadUpIsNat, DecodeAssumption
  <2> HIDE DEF nkv
  <2>2. UNCHANGED <<kv, pos>>
    BY <1>3 DEF SetPassInputs, persistent
  <2>3. CASE nkv > MaskCap
    <3>1. phase' = "threw" /\ UNCHANGED cell
      BY <1>3, <2>3 DEF SetPassInputs, nkv
    <3> QED
      BY <1>1, <2>2, <3>1 DEF CellsTyped, InputsOfPosition
  <2>4. CASE ~ (nkv > MaskCap)
    <3>1. PICK mask : cell' = [cell EXCEPT !.positions = pos, !.kv_row = pos,
                                           !.n_kv = nkv, !.mask_f16 = mask]
      BY <1>3, <2>4 DEF SetPassInputs, nkv
    <3>2. cell' = [name \in CellName |-> cell'[name]] /\ cell'.n_kv = nkv
          /\ cell'.kv_row = pos /\ cell'.positions = pos
      BY <3>1 DEF CellsTyped, CellName
    <3> QED
      BY <1>1, <2>1, <2>2, <3>2 DEF CellsTyped, InputsOfPosition
  <2> QED
    BY <2>3, <2>4
<1>4. CASE RunPass
  <2>1. UNCHANGED <<kv, pos>> /\ phase = "ring"
    BY <1>4 DEF RunPass, persistent
  <2>2. PICK token : cell' = [cell EXCEPT !.token = token]
    BY <1>4 DEF RunPass
  <2>3. /\ cell' = [name \in CellName |-> cell'[name]]
        /\ cell'.n_kv = cell.n_kv /\ cell'.kv_row = cell.kv_row
        /\ cell'.positions = cell.positions
    BY <2>2 DEF CellsTyped, CellName
  <2> QED
    BY <1>1, <2>1, <2>3 DEF CellsTyped, InputsOfPosition
<1>5. CASE EndPass
  <2>1. UNCHANGED <<kv, cell>> /\ phase' = "prepare" /\ pos' = pos + 1
    BY <1>5 DEF EndPass, persistent
  <2> QED
    BY <1>1, <2>1 DEF CellsTyped, InputsOfPosition
<1>6. ASSUME NEW b \in Block, Execute(b)
      PROVE  DecodeInv' /\ OthersKept
  <2>1. UNCHANGED <<phase, pos, cell>>
    BY <1>6, BlockLeavesCells
  <2>2. CellsTyped' /\ InputsOfPosition'
    BY <2>1 DEF CellsTyped, InputsOfPosition
  <2>3. CASE UNCHANGED kv
    BY <1>1, <2>2, <2>3
  <2>4. CASE \E l \in 0 .. NLayers + 1 : KvAppend(b, l)
    <3> PICK l \in 0 .. NLayers + 1 : KvAppend(b, l)
      BY <2>4
    <3>1. cell.kv_row = pos
      BY DEF KvAppend, Turn, Ready, InputsOfPosition
    <3> QED
      BY <2>2, <3>1, AppendWritesOneRow
  <2> QED
    BY <1>6, <2>3, <2>4, BlockLeavesCells
<1>7. CASE UNCHANGED vars
  <2>1. UNCHANGED <<kv, phase, pos, cell>>
    BY <1>7 DEF vars, host, persistent
  <2> QED
    BY <1>1, <2>1 DEF CellsTyped, InputsOfPosition
<1> QED
  BY <1>2, <1>3, <1>4, <1>5, <1>6, <1>7 DEF Next, HostStep

\* The inputs in the cells are those of the position, and a cache keeps its rows,
\* in every execution.
THEOREM DecodeInvariance == Spec => []DecodeInv
<1>1. Init => DecodeInv
  BY DecodeInit
<1>2. DecodeInv /\ [Next]_vars => DecodeInv'
  BY DecodeStep
<1> QED
  BY <1>1, <1>2, PTL DEF Spec

\* op_fattn_decode gives every row of the padded window to one block, none twice and
\* none past the end, at every position, grid, tile and padding.
THEOREM ChunksPartitionHolds == Spec => []ChunksPartition
<1>1. DecodeInv => ChunksPartition
  <2> SUFFICES ASSUME cell.n_kv \in Nat
               PROVE  ChunksPartition
    BY DEF DecodeInv, CellsTyped
  <2> QED
    BY ChunksOfAnyWindow, DecodeAssumption DEF ChunksPartition, Block
<1> QED
  BY <1>1, DecodeInvariance, PTL

\* No pass touches the row of another position in any cache: what an earlier token
\* left there is what every later one attends.
THEOREM OnlyOwnRowWrittenHolds == Spec => OnlyOwnRowWritten
<1>1. DecodeInv /\ [Next]_vars =>
        [\A l \in Kind("attn") : \A j \in 0 .. NCtx-1 :
           j # pos => kv'[l][j] = kv[l][j]]_vars
  BY DecodeStep
<1> QED
  BY <1>1, DecodeInvariance, PTL DEF Spec, OnlyOwnRowWritten

(***************************************************************************)
(* The windows of a layer.                                                 *)
(***************************************************************************)
\* The window of stage i of layer l.
Stage(l, i) == 9 * l - 8 + i

LEMMA StageWindow ==
  ASSUME NEW l \in 1 .. NLayers, NEW i \in 1 .. 9
  PROVE  /\ Stage(l, i) \in 2 .. Last - 3
         /\ LayerAt(Stage(l, i)) = l
         /\ WindowAt(Stage(l, i)) = (IF l \in Kind("dn") THEN DnBlock ELSE AttnBlock)[i]
<1>1. NLayers \in Nat
  BY DecodeAssumption DEF NLayers
<1> HIDE DEF NLayers
<1>2. Stage(l, i) \in 2 .. Last - 3
  BY <1>1 DEF Stage, Last
<1>3. Stage(l, i) + 7 = 9 * l + (i - 1) /\ l \in Nat /\ i - 1 \in 0 .. 8
  BY <1>1 DEF Stage
<1>4. (Stage(l, i) + 7) \div 9 = l /\ (Stage(l, i) + 7) % 9 = i - 1
  BY <1>3, SMTT(30)
<1>5. LayerAt(Stage(l, i)) = l /\ l <= NLayers
  BY <1>1, <1>4 DEF LayerAt
<1> QED
  BY <1>2, <1>4, <1>5 DEF WindowAt

LEMMA StageOfWindow ==
  ASSUME NEW w \in 2 .. Last
  PROVE  /\ LayerAt(w) \in 1 .. NLayers + 1
         /\ \E i \in 1 .. 9 : /\ (w + 7) % 9 = i - 1
                              /\ w = Stage(LayerAt(w), i)
<1>1. NLayers \in Nat
  BY DecodeAssumption DEF NLayers
<1> HIDE DEF NLayers
<1>2. w \in Nat /\ w >= 2 /\ w <= 9 * NLayers + 4
  BY <1>1 DEF Last
<1> DEFINE q == (w + 7) \div 9
           r == (w + 7) % 9
<1>3. q \in Nat /\ r \in 0 .. 8 /\ w + 7 = 9 * q + r
  BY <1>2, SMTT(30)
<1> HIDE DEF q, r
<1>4. q \in 1 .. NLayers + 1 /\ r + 1 \in 1 .. 9 /\ w = 9 * q - 8 + (r + 1)
  BY <1>1, <1>2, <1>3
<1>5. LayerAt(w) = q /\ (w + 7) % 9 = r + 1 - 1
  BY <1>3 DEF LayerAt, q, r
<1> QED
  BY <1>4, <1>5 DEF Stage

\* Only a "dn" layer has a conv and a store, each at its stage.
LEMMA DnOnlyStages ==
  ASSUME NEW w \in 1 .. Last, WindowAt(w) \in {"conv", "store"}
  PROVE  /\ LayerAt(w) \in Kind("dn")
         /\ WindowAt(w) = "conv" => w = Stage(LayerAt(w), 3)
         /\ WindowAt(w) = "store" => w = Stage(LayerAt(w), 6)
<1>1. w # 1
  BY DEF WindowAt
<1>2. Last \in Nat /\ w \in 2 .. Last
  BY <1>1, DecodeAssumption DEF Last, NLayers
<1>3. PICK i \in 1 .. 9 : (w + 7) % 9 = i - 1 /\ w = Stage(LayerAt(w), i)
  BY <1>2, StageOfWindow
<1>4. LayerAt(w) \in 1 .. NLayers + 1
  BY <1>2, StageOfWindow
<1> DEFINE l == LayerAt(w)
<1>5. WindowAt(w) = IF l <= NLayers
                    THEN (IF l \in Kind("dn") THEN DnBlock ELSE AttnBlock)[i]
                    ELSE <<"norm", "head", "emit">>[i]
  BY <1>1, <1>3 DEF WindowAt
<1>6. NLayers \in Nat
  BY DecodeAssumption DEF NLayers
<1>7. ASSUME l = NLayers + 1 PROVE FALSE
  <2>1. i \in 1 .. 3
    <3> USE DEF Stage, Last
    <3> HIDE DEF NLayers, l
    <3>1. w = 9 * l - 8 + i
      BY <1>3 DEF l
    <3> QED
      BY <1>2, <1>6, <1>7, <3>1
  <2>2. WindowAt(w) = <<"norm", "head", "emit">>[i]
    BY <1>5, <1>6, <1>7
  <2> QED
    BY <2>1, <2>2
<1>8. l \in 1 .. NLayers
  BY <1>4, <1>6, <1>7
<1>9. WindowAt(w) = (IF l \in Kind("dn") THEN DnBlock ELSE AttnBlock)[i]
  BY <1>5, <1>6, <1>8
<1> HIDE DEF l
<1>10. l \in Kind("dn")
  <2> SUFFICES ASSUME l \notin Kind("dn") PROVE FALSE
    OBVIOUS
  <2>1. WindowAt(w) = AttnBlock[i]
    BY <1>9
  <2> QED
    BY <2>1 DEF AttnBlock
<1>11. WindowAt(w) = DnBlock[i]
  BY <1>9, <1>10
<1>12. /\ WindowAt(w) = "conv" => i = 3
       /\ WindowAt(w) = "store" => i = 6
  BY <1>11 DEF DnBlock
<1> QED
  BY <1>3, <1>10, <1>12 DEF l

(***************************************************************************)
(* What a block does, and what it leaves alone.                            *)
(***************************************************************************)
\* A slice of every buffer for every block.
Slices(f) ==
  /\ f = [name \in Scratch |-> f[name]]
  /\ \A name \in Scratch : f[name] = [b \in Block |-> f[name][b]]

BufShape == Slices(buf)

StateShape ==
  /\ hist = [l \in Kind("dn") |-> hist[l]] /\ ssm = [l \in Kind("dn") |-> ssm[l]]
  /\ \A l \in Kind("dn") : /\ hist[l] = [b \in Block |-> hist[l][b]]
                           /\ ssm[l] = [b \in Block |-> ssm[l][b]]

\* The blocks move in step: none is two windows ahead of another, and between
\* passes all are past the last.
Lockstep ==
  /\ at \in [Block -> 1 .. Last + 1]
  /\ phase = "running" => \A b, c \in Block : at[b] <= at[c] + 1
  /\ phase # "running" => \A b \in Block : at[b] = Last + 1

\* The window a block is at decides which operation it executes.
LEMMA BlockExecutes ==
  ASSUME NEW b \in Block, Execute(b)
  PROVE  LET op == WindowAt(at[b])
             l  == LayerAt(at[b])
         IN /\ Turn(b, op, l)
            /\ op = "embed" => Embed(b, l)
            /\ op = "norm" => Norm(b, l)
            /\ op = "gemv" => Gemv(b, l)
            /\ op = "conv" => ConvShiftConcat(b, l)
            /\ op = "silu" => SsmConvSilu(b, l)
            /\ op = "step" => GdnStep(b, l)
            /\ op = "store" => StateStore(b, l)
            /\ op = "rope" => QkNormRope(b, l)
            /\ op = "append" => KvAppend(b, l)
            /\ op = "decode" => FattnDecode(b, l)
            /\ op = "reduce" => FattnReduce(b, l)
            /\ op = "out" => Out(b, l)
            /\ op = "ffnnorm" => FfnNorm(b, l)
            /\ op = "ffn" => Ffn(b, l)
            /\ op = "head" => HeadGemv(b, l)
<1> PICK l \in 0 .. NLayers + 1 :
      \/ Embed(b, l) \/ Norm(b, l) \/ Gemv(b, l)
      \/ ConvShiftConcat(b, l) \/ SsmConvSilu(b, l) \/ GdnStep(b, l) \/ StateStore(b, l)
      \/ QkNormRope(b, l) \/ KvAppend(b, l) \/ FattnDecode(b, l) \/ FattnReduce(b, l)
      \/ Out(b, l) \/ FfnNorm(b, l) \/ Ffn(b, l) \/ HeadGemv(b, l) \/ LogitsEmit(b, l)
  BY DEF Execute
<1>1. ASSUME NEW op, Turn(b, op, l)
      PROVE  op = WindowAt(at[b]) /\ l = LayerAt(at[b])
  BY <1>1 DEF Turn, Ready
<1>2. CASE Embed(b, l)
  <2>1. Turn(b, "embed", l)
    BY <1>2 DEF Embed
  <2> QED
    BY <1>1, <1>2, <2>1
<1>3. CASE Norm(b, l)
  <2>1. Turn(b, "norm", l)
    BY <1>3 DEF Norm
  <2> QED
    BY <1>1, <1>3, <2>1
<1>4. CASE Gemv(b, l)
  <2>1. Turn(b, "gemv", l)
    BY <1>4 DEF Gemv
  <2> QED
    BY <1>1, <1>4, <2>1
<1>5. CASE ConvShiftConcat(b, l)
  <2>1. Turn(b, "conv", l)
    BY <1>5 DEF ConvShiftConcat
  <2> QED
    BY <1>1, <1>5, <2>1
<1>6. CASE SsmConvSilu(b, l)
  <2>1. Turn(b, "silu", l)
    BY <1>6 DEF SsmConvSilu
  <2> QED
    BY <1>1, <1>6, <2>1
<1>7. CASE GdnStep(b, l)
  <2>1. Turn(b, "step", l)
    BY <1>7 DEF GdnStep
  <2> QED
    BY <1>1, <1>7, <2>1
<1>8. CASE StateStore(b, l)
  <2>1. Turn(b, "store", l)
    BY <1>8 DEF StateStore
  <2> QED
    BY <1>1, <1>8, <2>1
<1>9. CASE QkNormRope(b, l)
  <2>1. Turn(b, "rope", l)
    BY <1>9 DEF QkNormRope
  <2> QED
    BY <1>1, <1>9, <2>1
<1>10. CASE KvAppend(b, l)
  <2>1. Turn(b, "append", l)
    BY <1>10 DEF KvAppend
  <2> QED
    BY <1>1, <1>10, <2>1
<1>11. CASE FattnDecode(b, l)
  <2>1. Turn(b, "decode", l)
    BY <1>11 DEF FattnDecode
  <2> QED
    BY <1>1, <1>11, <2>1
<1>12. CASE FattnReduce(b, l)
  <2>1. Turn(b, "reduce", l)
    BY <1>12 DEF FattnReduce
  <2> QED
    BY <1>1, <1>12, <2>1
<1>13. CASE Out(b, l)
  <2>1. Turn(b, "out", l)
    BY <1>13 DEF Out
  <2> QED
    BY <1>1, <1>13, <2>1
<1>14. CASE FfnNorm(b, l)
  <2>1. Turn(b, "ffnnorm", l)
    BY <1>14 DEF FfnNorm
  <2> QED
    BY <1>1, <1>14, <2>1
<1>15. CASE Ffn(b, l)
  <2>1. Turn(b, "ffn", l)
    BY <1>15 DEF Ffn
  <2> QED
    BY <1>1, <1>15, <2>1
<1>16. CASE HeadGemv(b, l)
  <2>1. Turn(b, "head", l)
    BY <1>16 DEF HeadGemv
  <2> QED
    BY <1>1, <1>16, <2>1
<1>17. CASE LogitsEmit(b, l)
  <2>1. Turn(b, "emit", l)
    BY <1>17 DEF LogitsEmit
  <2> QED
    BY <1>1, <1>17, <2>1
<1> QED
  BY <1>2, <1>3, <1>4, <1>5, <1>6, <1>7, <1>8, <1>9, <1>10, <1>11, <1>12, <1>13, <1>14,
     <1>15, <1>16, <1>17

LEMMA BlockAdvances ==
  ASSUME Lockstep, NEW b \in Block, Execute(b)
  PROVE  /\ phase = "running" /\ at[b] \in 1 .. Last
         /\ \A c \in Block : at[c] \in at[b] .. at[b] + 1
         /\ at' = [at EXCEPT ![b] = at[b] + 1]
         /\ Lockstep'
<1>1. /\ phase = "running" /\ at[b] <= Last
      /\ \A c \in Block : at[c] >= at[b]
      /\ at' = [at EXCEPT ![b] = at[b] + 1]
  BY BlockExecutes DEF Turn, Ready
<1>2. Last \in Nat
  BY DecodeAssumption DEF Last, NLayers
<1>3. \A c \in Block : at[c] \in 1 .. Last + 1 /\ at[c] <= at[b] + 1
  BY <1>1 DEF Lockstep
<1> HIDE DEF Last
<1>4. at[b] \in 1 .. Last /\ \A c \in Block : at[c] \in at[b] .. at[b] + 1
  BY <1>1, <1>2, <1>3
<1>5. phase' = phase
  BY BlockLeavesCells
<1>6. at' \in [Block -> 1 .. Last + 1]
  BY <1>1, <1>2, <1>4 DEF Lockstep
<1>7. \A c \in Block : at'[c] = IF c = b THEN at[b] + 1 ELSE at[c]
  BY <1>1 DEF Lockstep
<1>8. \A c, d \in Block : at'[c] <= at'[d] + 1
  BY <1>2, <1>4, <1>7
<1>9. Block' = Block /\ Last' = Last
  BY DEF Block, Last, NLayers
<1> QED
  BY <1>1, <1>4, <1>5, <1>6, <1>8, <1>9 DEF Lockstep

Put(f, n, b, v) == [f EXCEPT ![n][b] = v]

LEMMA SliceWrite ==
  ASSUME NEW f, Slices(f), NEW n \in Scratch, NEW b \in Block, NEW v, NEW g,
         g = Put(f, n, b, v)
  PROVE  /\ Slices(g)
         /\ g[n][b] = v
         /\ \A m \in Scratch : m # n => g[m] = f[m]
         /\ \A c \in Block : c # b => g[n][c] = f[n][c]
<1> DEFINE slices == [f[n] EXCEPT ![b] = v]
<1>1. slices = [c \in Block |-> slices[c]] /\ slices[b] = v
      /\ \A c \in Block : c # b => slices[c] = f[n][c]
  BY DEF Slices
<1>2. g = [f EXCEPT ![n] = slices]
  BY DEF Put
<1> HIDE DEF slices
<1>3. \A m \in Scratch : g[m] = IF m = n THEN slices ELSE f[m]
  BY <1>2 DEF Slices
<1>4. g = [m \in Scratch |-> g[m]]
  BY <1>2 DEF Slices
<1>5. \A m \in Scratch : g[m] = [c \in Block |-> g[m][c]]
  BY <1>1, <1>3 DEF Slices
<1> HIDE DEF Scratch, Block
<1> QED
  BY <1>1, <1>3, <1>4, <1>5 DEF Slices

PutRow(f, n, v) == [f EXCEPT ![n] = All(v)]

LEMMA WholeWrite ==
  ASSUME NEW f, Slices(f), NEW n \in Scratch, NEW v, NEW g, g = PutRow(f, n, v)
  PROVE  /\ Slices(g)
         /\ \A m \in Scratch : m # n => g[m] = f[m]
  BY DEF Slices, All, PutRow

\* What b leaves of the buffers: the slices of the others, but for the rows that the
\* first block writes whole.
OthersKept(b) ==
  /\ BufShape'
  /\ \A name \in Scratch \ {"residual", "xn"} : \A c \in Block \ {b} :
       buf'[name][c] = buf[name][c]

LEMMA OneSlice ==
  ASSUME BufShape, NEW n \in Scratch, n # "xn", NEW b \in Block, NEW v, Write(b, n, v)
  PROVE  OthersKept(b) /\ buf'["xn"] = buf["xn"]
<1>1. "xn" \in Scratch
  BY DEF Scratch
<1>2. buf' = [buf EXCEPT ![n][b] = v] /\ Slices(buf)
  BY DEF Write, BufShape
<1> DEFINE g == buf'
<1>3. g = Put(buf, n, b, v)
  BY <1>2 DEF Put
<1> HIDE DEF g, Scratch
<1>4. /\ Slices(g)
      /\ \A m \in Scratch : m # n => g[m] = buf[m]
      /\ \A c \in Block : c # b => g[n][c] = buf[n][c]
  BY <1>2, <1>3, SliceWrite
<1>5. BufShape'
  BY <1>4 DEF BufShape, Slices, Scratch, Block, g
<1> QED
  BY <1>1, <1>4, <1>5 DEF OthersKept, g

LEMMA TwoSlices ==
  ASSUME BufShape, NEW n \in Scratch, n # "xn", NEW m \in Scratch, m # "xn", m # n,
         NEW b \in Block, NEW v, NEW u, buf' = Put(Put(buf, n, b, v), m, b, u)
  PROVE  /\ OthersKept(b) /\ buf'["xn"] = buf["xn"]
         /\ buf'[n][b] = v /\ buf'[m][b] = u
         /\ \A k \in Scratch : k \notin {n, m} => buf'[k] = buf[k]
<1> DEFINE f == Put(buf, n, b, v)
<1>1. "xn" \in Scratch
  BY DEF Scratch
<1> HIDE DEF Scratch, f
<1>2. /\ Slices(f) /\ f[n][b] = v
      /\ \A k \in Scratch : k # n => f[k] = buf[k]
      /\ \A c \in Block : c # b => f[n][c] = buf[n][c]
  <2>1. f = Put(buf, n, b, v) /\ Slices(buf)
    BY DEF f, BufShape
  <2> QED
    BY <2>1, SliceWrite
<1> DEFINE g == buf'
<1>3. g = Put(f, m, b, u)
  BY DEF f
<1> HIDE DEF g
<1>4. /\ Slices(g) /\ g[m][b] = u
      /\ \A k \in Scratch : k # m => g[k] = f[k]
      /\ \A c \in Block : c # b => g[m][c] = f[m][c]
  BY <1>2, <1>3, SliceWrite
<1>5. BufShape'
  BY <1>4 DEF BufShape, Slices, Scratch, Block, g
<1> QED
  BY <1>1, <1>2, <1>4, <1>5 DEF OthersKept, g

\* Only a norm writes the row it publishes.
Kept(b) ==
  /\ OthersKept(b)
  /\ WindowAt(at[b]) \notin {"norm", "ffnnorm"} => buf'["xn"] = buf["xn"]

LEMMA BlockKeepsOthers ==
  ASSUME BufShape, NEW b \in Block, Execute(b)
  PROVE  Kept(b)
<1> PICK l \in 0 .. NLayers + 1 :
      \/ Embed(b, l) \/ Norm(b, l) \/ Gemv(b, l)
      \/ ConvShiftConcat(b, l) \/ SsmConvSilu(b, l) \/ GdnStep(b, l) \/ StateStore(b, l)
      \/ QkNormRope(b, l) \/ KvAppend(b, l) \/ FattnDecode(b, l) \/ FattnReduce(b, l)
      \/ Out(b, l) \/ FfnNorm(b, l) \/ Ffn(b, l) \/ HeadGemv(b, l) \/ LogitsEmit(b, l)
  BY DEF Execute
<1>1. ASSUME NEW n \in Scratch, n # "xn", NEW v, Write(b, n, v)
      PROVE  Kept(b)
  BY <1>1, OneSlice DEF Kept
<1>2. ASSUME UNCHANGED buf
      PROVE  Kept(b)
  <2>1. BufShape'
    BY <1>2 DEF BufShape, Slices, Scratch, Block
  <2> QED
    BY <1>2, <2>1 DEF OthersKept, Kept
<1>3. ASSUME NEW sum, buf' = [buf EXCEPT !["residual"] = All(sum), !["xn"] = All(sum)],
             WindowAt(at[b]) \in {"norm", "ffnnorm"}
      PROVE  Kept(b)
  <2> DEFINE f == [buf EXCEPT !["residual"] = All(sum)]
             g == buf'
  <2>1. g = PutRow(f, "xn", sum) /\ "residual" \in Scratch /\ "xn" \in Scratch
    BY <1>3 DEF Scratch, PutRow
  <2>2. Slices(f) /\ \A m \in Scratch : m # "residual" => f[m] = buf[m]
    BY <2>1 DEF BufShape, Slices, All
  <2> HIDE DEF f, g
  <2>3. Slices(g) /\ \A m \in Scratch : m # "xn" => g[m] = f[m]
    BY <2>1, <2>2, WholeWrite
  <2>4. BufShape'
    BY <2>3 DEF BufShape, Slices, Scratch, Block, g
  <2> QED
    BY <1>3, <2>2, <2>3, <2>4 DEF OthersKept, Kept, g
<1>4. ASSUME NEW op, Turn(b, op, l)
      PROVE  op = WindowAt(at[b])
  BY <1>4 DEF Turn, Ready
<1>5. ASSUME NEW n \in Scratch, n # "xn", NEW m \in Scratch, m # "xn", m # n, NEW v, NEW u,
             buf' = Put(Put(buf, n, b, v), m, b, u)
      PROVE  Kept(b)
  BY <1>5, TwoSlices DEF Kept
<1>6. {"residual", "mixer_out", "k_stage", "conv_ws", "gdn_state", "fattn_q", "fattn_partial",
       "attn_out", "proj_out", "logits", "result_output"} \subseteq Scratch
  BY DEF Scratch
<1>7. CASE Embed(b, l)
  <2>1. PICK v : Write(b, "residual", v)
    BY <1>7 DEF Embed
  <2> QED
    BY <1>1, <1>6, <2>1
<1>8. CASE SsmConvSilu(b, l)
  <2>1. PICK v : Write(b, "mixer_out", v)
    BY <1>8 DEF SsmConvSilu
  <2> QED
    BY <1>1, <1>6, <2>1
<1>9. CASE FattnReduce(b, l)
  <2>1. PICK v : Write(b, "attn_out", v)
    BY <1>9 DEF FattnReduce
  <2> QED
    BY <1>1, <1>6, <2>1
<1>10. CASE Out(b, l)
  <2>1. PICK v : Write(b, "proj_out", v)
    BY <1>10 DEF Out
  <2> QED
    BY <1>1, <1>6, <2>1
<1>11. CASE Ffn(b, l)
  <2>1. PICK v : Write(b, "proj_out", v)
    BY <1>11 DEF Ffn
  <2> QED
    BY <1>1, <1>6, <2>1
<1>12. CASE HeadGemv(b, l)
  <2>1. PICK v : Write(b, "logits", v)
    BY <1>12 DEF HeadGemv
  <2> QED
    BY <1>1, <1>6, <2>1
<1>13. CASE LogitsEmit(b, l)
  <2>1. PICK v : Write(b, "result_output", v)
    BY <1>13 DEF LogitsEmit
  <2> QED
    BY <1>1, <1>6, <2>1
<1>14. CASE StateStore(b, l)
  BY <1>2, <1>14 DEF StateStore
<1>15. CASE KvAppend(b, l)
  BY <1>2, <1>15 DEF KvAppend
<1>16. CASE ConvShiftConcat(b, l)
  <2>1. PICK v : Write(b, "conv_ws", v)
    BY <1>16 DEF ConvShiftConcat
  <2> QED
    BY <1>1, <1>6, <2>1
<1>17. CASE FattnDecode(b, l)
  <2>1. PICK v : Write(b, "fattn_partial", v)
    BY <1>17 DEF FattnDecode
  <2> QED
    BY <1>1, <1>6, <2>1
<1>18. CASE GdnStep(b, l)
  <2>1. PICK v : buf' = Put(Put(buf, "gdn_state", b, v), "attn_out", b, v)
    BY <1>18 DEF GdnStep, Put
  <2> QED
    BY <1>5, <1>6, <2>1
<1>19. CASE QkNormRope(b, l)
  <2>1. PICK v, u : buf' = Put(Put(buf, "fattn_q", b, v), "k_stage", b, u)
    BY <1>19 DEF QkNormRope, Put
  <2> QED
    BY <1>5, <1>6, <2>1
<1>20. CASE Gemv(b, l)
  <2>1. \/ \E v, u : buf' = Put(Put(buf, "gdn_state", b, v), "mixer_out", b, u)
        \/ \E v, u : buf' = Put(Put(buf, "mixer_out", b, v), "k_stage", b, u)
    BY <1>20 DEF Gemv, StateLoad, Put
  <2>2. CASE \E v, u : buf' = Put(Put(buf, "gdn_state", b, v), "mixer_out", b, u)
    <3> PICK v, u : buf' = Put(Put(buf, "gdn_state", b, v), "mixer_out", b, u)
      BY <2>2
    <3> QED
      BY <1>5, <1>6
  <2>3. CASE \E v, u : buf' = Put(Put(buf, "mixer_out", b, v), "k_stage", b, u)
    <3> PICK v, u : buf' = Put(Put(buf, "mixer_out", b, v), "k_stage", b, u)
      BY <2>3
    <3> QED
      BY <1>5, <1>6
  <2> QED
    BY <2>1, <2>2, <2>3
<1>21. CASE Norm(b, l)
  <2>1. WindowAt(at[b]) = "norm"
    <3>1. Turn(b, "norm", l)
      BY <1>21 DEF Norm
    <3> QED
      BY <1>4, <3>1
  <2>2. CASE b = 0
    <3>1. PICK sum : buf' = [buf EXCEPT !["residual"] = All(sum), !["xn"] = All(sum)]
      BY <1>21, <2>2 DEF Norm
    <3> QED
      BY <1>3, <2>1, <3>1
  <2>3. CASE b # 0
    BY <1>2, <1>21, <2>3 DEF Norm
  <2> QED
    BY <2>2, <2>3
<1>22. CASE FfnNorm(b, l)
  <2>1. WindowAt(at[b]) = "ffnnorm"
    <3>1. Turn(b, "ffnnorm", l)
      BY <1>22 DEF FfnNorm
    <3> QED
      BY <1>4, <3>1
  <2>2. CASE b = 0
    <3>1. PICK sum : buf' = [buf EXCEPT !["residual"] = All(sum), !["xn"] = All(sum)]
      BY <1>22, <2>2 DEF FfnNorm
    <3> QED
      BY <1>3, <2>1, <3>1
  <2>3. CASE b # 0
    BY <1>2, <1>22, <2>3 DEF FfnNorm
  <2> QED
    BY <2>2, <2>3
<1> QED
  BY <1>7, <1>8, <1>9, <1>10, <1>11, <1>12, <1>13, <1>14, <1>15, <1>16, <1>17, <1>18, <1>19,
     <1>20, <1>21, <1>22

\* A state of a "dn" layer is committed by its own block alone, at one stage each.
LEMMA BlockKeepsStates ==
  ASSUME StateShape, Lockstep, NEW b \in Block, Execute(b)
  PROVE  /\ StateShape'
         /\ \A l \in Kind("dn"), c \in Block :
              /\ c # b \/ at[b] # Stage(l, 3) => hist'[l][c] = hist[l][c]
              /\ c # b \/ at[b] # Stage(l, 6) => ssm'[l][c] = ssm[l][c]
<1> PICK m \in 0 .. NLayers + 1 :
      \/ Embed(b, m) \/ Norm(b, m) \/ Gemv(b, m)
      \/ ConvShiftConcat(b, m) \/ SsmConvSilu(b, m) \/ GdnStep(b, m) \/ StateStore(b, m)
      \/ QkNormRope(b, m) \/ KvAppend(b, m) \/ FattnDecode(b, m) \/ FattnReduce(b, m)
      \/ Out(b, m) \/ FfnNorm(b, m) \/ Ffn(b, m) \/ HeadGemv(b, m) \/ LogitsEmit(b, m)
  BY DEF Execute
<1>1. at[b] \in 1 .. Last
  BY BlockAdvances
<1>2. Kind("dn")' = Kind("dn") /\ Block' = Block
  BY DEF Kind, NLayers, Block
<1>3. ASSUME UNCHANGED <<hist, ssm>>
      PROVE  /\ StateShape'
             /\ hist' = hist /\ ssm' = ssm
  BY <1>2, <1>3 DEF StateShape
<1>4. CASE ConvShiftConcat(b, m)
  <2>1. Turn(b, "conv", m) /\ UNCHANGED ssm
    BY <1>4 DEF ConvShiftConcat
  <2>2. PICK v : hist' = [hist EXCEPT ![m][b] = v]
    BY <1>4 DEF ConvShiftConcat
  <2>3. WindowAt(at[b]) = "conv" /\ m = LayerAt(at[b])
    BY <2>1 DEF Turn, Ready
  <2>4. m \in Kind("dn") /\ at[b] = Stage(m, 3)
    BY <1>1, <2>3, DnOnlyStages
  <2>5. \A l \in Kind("dn"), c \in Block : c # b \/ l # m => hist'[l][c] = hist[l][c]
    BY <2>2, <2>4 DEF StateShape
  <2>6. hist' = [l \in Kind("dn") |-> hist'[l]]
        /\ \A l \in Kind("dn") : hist'[l] = [c \in Block |-> hist'[l][c]]
    BY <2>2, <2>4 DEF StateShape
  <2>7. StateShape'
    BY <1>2, <2>1, <2>6 DEF StateShape
  <2>8. \A l \in Kind("dn") : l # m => at[b] # Stage(l, 3)
    BY <2>4 DEF Stage, Kind
  <2> QED
    BY <2>1, <2>4, <2>5, <2>7, <2>8
<1>5. CASE StateStore(b, m)
  <2>1. Turn(b, "store", m) /\ UNCHANGED hist
    BY <1>5 DEF StateStore
  <2>2. PICK v : ssm' = [ssm EXCEPT ![m][b] = v]
    BY <1>5 DEF StateStore
  <2>3. WindowAt(at[b]) = "store" /\ m = LayerAt(at[b])
    BY <2>1 DEF Turn, Ready
  <2>4. m \in Kind("dn") /\ at[b] = Stage(m, 6)
    BY <1>1, <2>3, DnOnlyStages
  <2>5. \A l \in Kind("dn"), c \in Block : c # b \/ l # m => ssm'[l][c] = ssm[l][c]
    BY <2>2, <2>4 DEF StateShape
  <2>6. ssm' = [l \in Kind("dn") |-> ssm'[l]]
        /\ \A l \in Kind("dn") : ssm'[l] = [c \in Block |-> ssm'[l][c]]
    BY <2>2, <2>4 DEF StateShape
  <2>7. StateShape'
    BY <1>2, <2>1, <2>6 DEF StateShape
  <2>8. \A l \in Kind("dn") : l # m => at[b] # Stage(l, 6)
    BY <2>4 DEF Stage, Kind
  <2> QED
    BY <2>1, <2>4, <2>5, <2>7, <2>8
<1>6. CASE \/ Embed(b, m) \/ Norm(b, m) \/ Gemv(b, m) \/ SsmConvSilu(b, m) \/ GdnStep(b, m)
           \/ QkNormRope(b, m)
  <2>1. UNCHANGED <<hist, ssm>>
    BY <1>6 DEF Embed, Norm, Gemv, SsmConvSilu, GdnStep, QkNormRope, persistent
  <2> QED
    BY <1>3, <2>1
<1>7. CASE \/ KvAppend(b, m) \/ FattnDecode(b, m) \/ FattnReduce(b, m) \/ Out(b, m)
           \/ FfnNorm(b, m) \/ Ffn(b, m) \/ HeadGemv(b, m) \/ LogitsEmit(b, m)
  <2>1. UNCHANGED <<hist, ssm>>
    BY <1>7 DEF KvAppend, FattnDecode, FattnReduce, Out, FfnNorm, Ffn, HeadGemv, LogitsEmit,
                persistent
  <2> QED
    BY <1>3, <2>1
<1> QED
  BY <1>4, <1>5, <1>6, <1>7

(***************************************************************************)
(* The inputs of a layer: sequences, and the window of the last of them.   *)
(***************************************************************************)
IsSequence(s) == \E S : s \in Seq(S)

LEMMA AppendIsSequence ==
  ASSUME NEW s, IsSequence(s), NEW x
  PROVE  /\ IsSequence(Append(s, x))
         /\ Len(s) \in Nat /\ Len(Append(s, x)) = Len(s) + 1
         /\ Append(s, x)[Len(s) + 1] = x
         /\ \A i \in 1 .. Len(s) : Append(s, x)[i] = s[i]
<1> PICK S : s \in Seq(S)
  BY DEF IsSequence
<1> DEFINE T == S \cup {x}
<1>1. s \in Seq(T)
  OBVIOUS
<1>2. x \in T
  OBVIOUS
<1> HIDE DEF T
<1> QED
  BY <1>1, <1>2 DEF IsSequence

LEMMA WindowIsSequence ==
  ASSUME NEW s, IsSequence(s)
  PROVE  /\ IsSequence(Window(s)) /\ Len(Window(s)) = Taps
         /\ Tail(Window(s)) = [i \in 1 .. Taps - 1 |-> Window(s)[i + 1]]
<1> PICK S : s \in Seq(S)
  BY DEF IsSequence
<1> DEFINE T == S \cup {Zero}
<1>1. Taps \in Nat \ {0, 1}
  BY DecodeAssumption
<1>2. Window(s) \in [1 .. Taps -> T]
  BY <1>1 DEF Window
<1> HIDE DEF T
<1>3. Window(s) \in Seq(T) /\ Len(Window(s)) = Taps
  BY <1>1, <1>2
<1> HIDE DEF Window
<1>4. Window(s) # <<>>
  BY <1>1, <1>3
<1>5. Tail(Window(s)) = [i \in 1 .. Taps - 1 |-> Window(s)[i + 1]]
  <2> DEFINE rest == Tail(Window(s))
  <2>1. /\ rest \in Seq(T) /\ Len(rest) = Taps - 1
        /\ \A i \in 1 .. Len(rest) : rest[i] = Window(s)[i + 1]
    BY <1>3, <1>4, HeadTailProperties
  <2> HIDE DEF rest
  <2>2. rest \in [1 .. Taps - 1 -> T]
    BY <1>1, <2>1, LenProperties
  <2> QED
    BY <2>1, <2>2 DEF rest
<1> QED
  BY <1>3, <1>5 DEF IsSequence

\* What op_conv_shift_concat builds from the history is the window of the inputs with
\* the new one.
LEMMA WindowOfNext ==
  ASSUME NEW s, IsSequence(s), NEW x
  PROVE  /\ Append(Tail(Window(s)), x) = Window(Append(s, x))
         /\ Window(Append(s, x))[Taps] = x
<1>1. Taps \in Nat \ {0, 1}
  BY DecodeAssumption
<1> DEFINE next == Append(s, x)
           old == Tail(Window(s))
           n == Len(s)
<1>2. /\ IsSequence(next) /\ n \in Nat /\ Len(next) = n + 1 /\ next[n + 1] = x
      /\ \A i \in 1 .. n : next[i] = s[i]
  BY AppendIsSequence
<1>3. old = [i \in 1 .. Taps - 1 |-> Window(s)[i + 1]]
  BY WindowIsSequence
<1> HIDE DEF next, old, n
<1>4. \A i \in 1 .. Taps - 1 : old[i] = IF n + i + 1 > Taps THEN s[n + i + 1 - Taps] ELSE Zero
  BY <1>1, <1>2, <1>3 DEF Window, n
<1>5. \A i \in 1 .. Taps :
        Window(next)[i] = IF n + 1 + i > Taps THEN next[n + 1 + i - Taps] ELSE Zero
  BY <1>1, <1>2 DEF Window
<1>6. Window(next)[Taps] = x
  BY <1>1, <1>2, <1>5
<1>7. old \in Seq(UNION {{old[i]} : i \in 1 .. Taps - 1}) /\ Len(old) = Taps - 1
  BY <1>1, <1>3
<1>8. Append(old, x) = [i \in 1 .. Taps |-> IF i = Taps THEN x ELSE old[i]]
  <2> DEFINE T == {x} \cup UNION {{old[i]} : i \in 1 .. Taps - 1}
             win == Append(old, x)
  <2>1. old \in Seq(T) /\ x \in T
    BY <1>7
  <2> HIDE DEF T
  <2>2. /\ win \in Seq(T) /\ Len(win) = Taps /\ win[Taps] = x
        /\ \A i \in 1 .. Taps - 1 : win[i] = old[i]
    BY <1>1, <1>7, <2>1, AppendProperties
  <2> HIDE DEF win
  <2>3. win \in [1 .. Taps -> T]
    BY <2>2, LenProperties
  <2>4. \A i \in 1 .. Taps : win[i] = IF i = Taps THEN x ELSE old[i]
    <3>1. \A i \in 1 .. Taps : i = Taps \/ i \in 1 .. Taps - 1
      BY <1>1
    <3> QED
      BY <2>2, <3>1
  <2>5. win = [i \in 1 .. Taps |-> win[i]]
    BY <2>3
  <2>6. win = [i \in 1 .. Taps |-> IF i = Taps THEN x ELSE old[i]]
    BY <2>4, <2>5
  <2> QED
    BY <2>6 DEF win
<1>9. \A i \in 1 .. Taps : Append(old, x)[i] = Window(next)[i]
  <2> TAKE i \in 1 .. Taps
  <2>1. CASE i = Taps
    BY <1>1, <1>6, <1>8, <2>1
  <2>2. CASE i # Taps
    <3>1. i \in 1 .. Taps - 1
      BY <1>1, <2>2
    <3>2. Append(old, x)[i] = old[i]
      BY <1>1, <1>8, <2>2
    <3>3. n + i + 1 = n + 1 + i /\ n + i + 1 - Taps = n + 1 + i - Taps
      BY <1>1, <1>2
    <3>4. ASSUME n + 1 + i > Taps PROVE next[n + 1 + i - Taps] = s[n + 1 + i - Taps]
      <4>1. n + 1 + i - Taps \in 1 .. n
        BY <1>1, <1>2, <3>1, <3>4
      <4> QED
        BY <1>2, <4>1
    <3> QED
      BY <1>4, <1>5, <3>1, <3>2, <3>3, <3>4
  <2> QED
    BY <2>1, <2>2
<1>10. Window(next) = [i \in 1 .. Taps |-> Window(next)[i]]
  BY DEF Window
<1>11. Append(old, x) = Window(next)
  BY <1>8, <1>9, <1>10
<1> QED
  BY <1>6, <1>11 DEF next, old

(***************************************************************************)
(* A "dn" layer in a pass: s is its state before the pass, x the input it  *)
(* gets, and a slice tells from the window its block is at how much of     *)
(* Append(s, x) it holds.                                                  *)
(***************************************************************************)
\* Zero, Bad and NonFinite are no data: none of them is a sequence.
MarkersAreNoSequences == \A v \in {Zero, Bad, NonFinite} : ~ IsSequence(v)

DnScratch(l, b, s, x) ==
  /\ at[b] = Stage(l, 3) => Whole(buf["xn"]) = x /\ buf["mixer_out"][b] = x
  /\ at[b] = Stage(l, 4) => buf["conv_ws"][b] = Window(Append(s, x))
  /\ at[b] \in {Stage(l, 5), Stage(l, 6)} => buf["mixer_out"][b] = Window(Append(s, x))
  /\ at[b] \in {Stage(l, 3), Stage(l, 4), Stage(l, 5)} => buf["gdn_state"][b] = s
  /\ at[b] = Stage(l, 6) => buf["gdn_state"][b] = Append(s, x)

DnStates(l, b, s, x) ==
  /\ hist[l][b] = Tail(Window(IF at[b] <= Stage(l, 3) THEN s ELSE Append(s, x)))
  /\ ssm[l][b] = IF at[b] <= Stage(l, 6) THEN s ELSE Append(s, x)

DnSlice(l, b, s, x) == DnScratch(l, b, s, x) /\ DnStates(l, b, s, x)

\* Between passes every slice holds the whole state.
DnSettled(l, b, s) == hist[l][b] = Tail(Window(s)) /\ ssm[l][b] = s

DnFlow ==
  \A l \in Kind("dn") :
    \E s, x :
      /\ IsSequence(s) /\ Len(s) = pos
      /\ \A b \in Block : IF phase = "running" THEN DnSlice(l, b, s, x) ELSE DnSettled(l, b, s)

LEMMA UpdateGivesNext ==
  ASSUME MarkersAreNoSequences, NEW s, IsSequence(s), NEW x
  PROVE  Update(s, Window(Append(s, x))) = Append(s, x)
<1> DEFINE win == Window(Append(s, x))
<1>1. IsSequence(Append(s, x))
  BY AppendIsSequence
<1>2. IsSequence(win)
  BY <1>1, WindowIsSequence
<1>3. win[Taps] = x
  BY WindowOfNext
<1>4. IsSeq(s) /\ IsSeq(win)
  BY <1>2 DEF MarkersAreNoSequences, IsSeq
<1> HIDE DEF win
<1>5. win = Window(Append(s, win[Taps]))
  BY <1>3 DEF win
<1> QED
  BY <1>3, <1>4, <1>5 DEF Update, win

LEMMA WholeOf ==
  ASSUME BufShape, NEW n \in Scratch, NEW v, \A c \in Block : buf[n][c] = v
  PROVE  Whole(buf[n]) = v
<1>1. 0 \in Block
  BY DecodeAssumption DEF Block
<1>2. buf[n] = [c \in Block |-> v]
  BY DEF BufShape, Slices
<1> QED
  BY <1>1, <1>2 DEF Whole, All

\* The stages of a layer follow each other, in windows that are numbers.
LEMMA StagesOfLayer ==
  ASSUME NEW l \in 1 .. NLayers
  PROVE  /\ \A i \in 1 .. 9 : Stage(l, i) \in Nat /\ Stage(l, i) \in 2 .. Last
         /\ \A i \in 1 .. 8 : Stage(l, i) + 1 = Stage(l, i + 1)
         /\ \A i, j \in 1 .. 9 : Stage(l, i) <= Stage(l, j) <=> i <= j
<1>1. NLayers \in Nat /\ Last \in Nat
  BY DecodeAssumption DEF NLayers, Last
<1>2. \A i \in 1 .. 9 : Stage(l, i) \in 2 .. Last - 3
  BY StageWindow
<1>3. \A i \in 1 .. 9 : Stage(l, i) \in Nat /\ Stage(l, i) \in 2 .. Last
  <2> TAKE i \in 1 .. 9
  <2>1. Stage(l, i) \in 2 .. Last - 3
    BY <1>2
  <2> QED
    BY <1>1, <2>1
<1> QED
  BY <1>1, <1>3 DEF Stage

\* The step of b, seen by the slice of another block.
LEMMA DnOthersStep ==
  ASSUME BufShape, StateShape, Lockstep, NEW b \in Block, Execute(b),
         NEW c \in Block, c # b, NEW l \in Kind("dn"), NEW s, NEW x, DnSlice(l, c, s, x)
  PROVE  DnSlice(l, c, s, x)'
<1>1. /\ \A name \in {"mixer_out", "conv_ws", "gdn_state"} : buf'[name][c] = buf[name][c]
      /\ WindowAt(at[b]) \notin {"norm", "ffnnorm"} => buf'["xn"] = buf["xn"]
  BY BlockKeepsOthers DEF Kept, OthersKept, Scratch
<1>2. hist'[l][c] = hist[l][c] /\ ssm'[l][c] = ssm[l][c]
  BY BlockKeepsStates
<1>3. /\ at[c] \in at[b] .. at[b] + 1 /\ at[b] \in 1 .. Last
      /\ at' = [at EXCEPT ![b] = at[b] + 1]
  BY BlockAdvances
<1>4. at'[c] = at[c]
  BY <1>3 DEF Lockstep
<1>5. l \in 1 .. NLayers
  BY DEF Kind
<1>6. ASSUME at[c] = Stage(l, 3)
      PROVE  buf'["xn"] = buf["xn"]
  <2>1. Stage(l, 2) + 1 = Stage(l, 3) /\ Stage(l, 2) \in Nat /\ Stage(l, 3) \in Nat
    BY <1>5, StagesOfLayer
  <2>2. at[b] = Stage(l, 2) \/ at[b] = Stage(l, 3)
    BY <1>3, <1>6, <2>1 DEF Lockstep
  <2>3. WindowAt(Stage(l, 2)) = "gemv" /\ WindowAt(Stage(l, 3)) = "conv"
    BY <1>5, StageWindow DEF DnBlock
  <2> QED
    BY <1>1, <2>2, <2>3
<1>7. DnScratch(l, c, s, x)'
  BY <1>1, <1>4, <1>6 DEF DnSlice, DnScratch, Whole
<1>8. DnStates(l, c, s, x)'
  BY <1>2, <1>4 DEF DnSlice, DnStates
<1> QED
  BY <1>7, <1>8 DEF DnSlice

\* The step of b, seen by its own slice.
LEMMA DnOwnStep ==
  ASSUME MarkersAreNoSequences, BufShape, StateShape, Lockstep,
         NEW b \in Block, Execute(b), NEW l \in Kind("dn"),
         NEW s, IsSequence(s), NEW x, \A c \in Block : DnSlice(l, c, s, x),
         at[b] = Stage(l, 2) => x = Whole(buf["xn"])
  PROVE  DnSlice(l, b, s, x)'
<1> DEFINE w == at[b]
           next == Append(s, x)
<1>1. l \in 1 .. NLayers
  BY DEF Kind
<1>2. /\ w \in 1 .. Last /\ at' = [at EXCEPT ![b] = w + 1]
      /\ \A c \in Block : at[c] \in w .. w + 1
  BY BlockAdvances
<1>3. at'[b] = w + 1 /\ w \in Nat
  BY <1>2 DEF Lockstep
<1>4. /\ \A i \in 1 .. 9 : Stage(l, i) \in Nat
      /\ \A i \in 1 .. 8 : Stage(l, i) + 1 = Stage(l, i + 1)
      /\ \A i, j \in 1 .. 9 : Stage(l, i) <= Stage(l, j) <=> i <= j
  BY <1>1, StagesOfLayer
<1>5. /\ WindowAt(Stage(l, 2)) = "gemv" /\ WindowAt(Stage(l, 3)) = "conv"
      /\ WindowAt(Stage(l, 4)) = "silu" /\ WindowAt(Stage(l, 5)) = "step"
      /\ WindowAt(Stage(l, 6)) = "store"
      /\ \A i \in 1 .. 9 : LayerAt(Stage(l, i)) = l
  BY <1>1, StageWindow DEF DnBlock
<1>6. DnScratch(l, b, s, x) /\ DnStates(l, b, s, x)
  BY DEF DnSlice
<1>7. /\ w # Stage(l, 3) => hist'[l][b] = hist[l][b]
      /\ w # Stage(l, 6) => ssm'[l][b] = ssm[l][b]
  BY BlockKeepsStates
<1>8. {"mixer_out", "conv_ws", "gdn_state", "k_stage", "attn_out"} \subseteq Scratch
  BY DEF Scratch
<1>9. ASSUME NEW n \in Scratch, NEW v, Write(b, n, v)
      PROVE  buf'[n][b] = v /\ \A m \in Scratch : m # n => buf'[m] = buf[m]
  <2> DEFINE g == buf'
  <2>1. g = Put(buf, n, b, v) /\ Slices(buf)
    BY <1>9 DEF Write, Put, BufShape
  <2> HIDE DEF g
  <2>2. g[n][b] = v /\ \A m \in Scratch : m # n => g[m] = buf[m]
    BY <2>1, SliceWrite
  <2> QED
    BY <2>2 DEF g
<1> HIDE DEF w
<1>11. \A i \in 2 .. 9 : w + 1 = Stage(l, i) <=> w = Stage(l, i - 1)
  <2> TAKE i \in 2 .. 9
  <2>1. i - 1 \in 1 .. 8 /\ i \in 1 .. 9 /\ i - 1 \in 1 .. 9 /\ (i - 1) + 1 = i
    OBVIOUS
  <2>2. Stage(l, i - 1) + 1 = Stage(l, i) /\ Stage(l, i - 1) \in Nat
    BY <1>4, <2>1
  <2> QED
    BY <1>3, <2>2
<1>12. /\ w + 1 = Stage(l, 3) <=> w = Stage(l, 2)
       /\ w + 1 = Stage(l, 4) <=> w = Stage(l, 3)
       /\ w + 1 = Stage(l, 5) <=> w = Stage(l, 4)
       /\ w + 1 = Stage(l, 6) <=> w = Stage(l, 5)
       /\ w + 1 = Stage(l, 7) <=> w = Stage(l, 6)
  BY <1>11
<1>13. /\ Stage(l, 2) \in Nat /\ Stage(l, 3) = Stage(l, 2) + 1 /\ Stage(l, 4) = Stage(l, 2) + 2
       /\ Stage(l, 5) = Stage(l, 2) + 3 /\ Stage(l, 6) = Stage(l, 2) + 4
       /\ Stage(l, 7) = Stage(l, 2) + 5
  BY <1>1 DEF Stage, Kind
<1>20. ASSUME w # Stage(l, 3), w # Stage(l, 6)
       PROVE  DnStates(l, b, s, x)'
  <2>1. hist'[l][b] = hist[l][b] /\ ssm'[l][b] = ssm[l][b]
    BY <1>7, <1>20
  <2>2. /\ w <= Stage(l, 3) <=> at'[b] <= Stage(l, 3)
        /\ w <= Stage(l, 6) <=> at'[b] <= Stage(l, 6)
    BY <1>3, <1>13, <1>20
  <2> QED
    BY <1>6, <2>1, <2>2 DEF DnStates, w
<1>14. CASE w = Stage(l, 2)
  <2>1. Gemv(b, l)
    <3>1. WindowAt(at[b]) = "gemv" /\ LayerAt(at[b]) = l
      BY <1>5, <1>14 DEF w
    <3> QED
      BY <3>1, BlockExecutes
  <2>2. buf' = Put(Put(buf, "gdn_state", b, ssm[l][b]), "mixer_out", b, Whole(buf["xn"]))
    BY <2>1 DEF Gemv, StateLoad, Put
  <2>3. /\ buf'["gdn_state"][b] = ssm[l][b] /\ buf'["mixer_out"][b] = Whole(buf["xn"])
        /\ buf'["xn"] = buf["xn"]
    BY <1>8, <2>2, TwoSlices
  <2>4. ssm[l][b] = s
    BY <1>6, <1>13, <1>14 DEF DnStates, w
  <2>5. x = Whole(buf["xn"])
    BY <1>14 DEF w
  <2>6. DnScratch(l, b, s, x)'
    BY <1>3, <1>12, <1>13, <1>14, <2>3, <2>4, <2>5 DEF DnScratch, Whole
  <2>7. DnStates(l, b, s, x)'
    BY <1>13, <1>14, <1>20
  <2> QED
    BY <2>6, <2>7 DEF DnSlice
<1>15. CASE w = Stage(l, 3)
  <2>1. ConvShiftConcat(b, l)
    <3>1. WindowAt(at[b]) = "conv" /\ LayerAt(at[b]) = l
      BY <1>5, <1>15 DEF w
    <3> QED
      BY <3>1, BlockExecutes
  <2>2. /\ buf["mixer_out"][b] = x /\ buf["gdn_state"][b] = s
        /\ hist[l][b] = Tail(Window(s)) /\ ssm[l][b] = s
    BY <1>6, <1>13, <1>15 DEF DnScratch, DnStates, w
  <2>3. Append(hist[l][b], buf["mixer_out"][b]) = Window(next)
    BY <2>2, WindowOfNext
  <2>4. Write(b, "conv_ws", Window(next)) /\ hist' = [hist EXCEPT ![l][b] = Tail(Window(next))]
    BY <2>1, <2>3 DEF ConvShiftConcat
  <2>5. buf'["conv_ws"][b] = Window(next) /\ buf'["gdn_state"] = buf["gdn_state"]
    BY <1>8, <1>9, <2>4
  <2>6. hist'[l][b] = Tail(Window(next))
    BY <2>4 DEF StateShape
  <2>7. ssm'[l][b] = s
    BY <1>7, <1>13, <1>15, <2>2
  <2>8. DnScratch(l, b, s, x)'
    BY <1>3, <1>12, <1>13, <1>15, <2>2, <2>5 DEF DnScratch
  <2>9. DnStates(l, b, s, x)'
    <3>1. ~ (at'[b] <= Stage(l, 3)) /\ at'[b] <= Stage(l, 6)
      BY <1>3, <1>13, <1>15
    <3> QED
      BY <2>6, <2>7, <3>1 DEF DnStates
  <2> QED
    BY <2>8, <2>9 DEF DnSlice
<1>16. CASE w = Stage(l, 4)
  <2>1. SsmConvSilu(b, l)
    <3>1. WindowAt(at[b]) = "silu" /\ LayerAt(at[b]) = l
      BY <1>5, <1>16 DEF w
    <3> QED
      BY <3>1, BlockExecutes
  <2>2. buf["conv_ws"][b] = Window(next) /\ buf["gdn_state"][b] = s
    BY <1>6, <1>16 DEF DnScratch, w
  <2>3. Write(b, "mixer_out", Window(next))
    BY <2>1, <2>2 DEF SsmConvSilu
  <2>4. buf'["mixer_out"][b] = Window(next) /\ buf'["gdn_state"] = buf["gdn_state"]
    BY <1>8, <1>9, <2>3
  <2>5. DnScratch(l, b, s, x)'
    BY <1>3, <1>12, <1>13, <1>16, <2>2, <2>4 DEF DnScratch
  <2>6. DnStates(l, b, s, x)'
    BY <1>13, <1>16, <1>20
  <2> QED
    BY <2>5, <2>6 DEF DnSlice
<1>17. CASE w = Stage(l, 5)
  <2>1. GdnStep(b, l)
    <3>1. WindowAt(at[b]) = "step" /\ LayerAt(at[b]) = l
      BY <1>5, <1>17 DEF w
    <3> QED
      BY <3>1, BlockExecutes
  <2>2. \A c \in Block : buf["mixer_out"][c] = Window(next)
    <3> TAKE c \in Block
    <3>1. at[c] = Stage(l, 5) \/ at[c] = Stage(l, 6)
      BY <1>2, <1>3, <1>13, <1>17
    <3> QED
      BY <3>1 DEF DnSlice, DnScratch
  <2>3. Whole(buf["mixer_out"]) = Window(next)
    BY <1>8, <2>2, WholeOf
  <2>4. buf["gdn_state"][b] = s
    BY <1>6, <1>17 DEF DnScratch, w
  <2>5. Update(buf["gdn_state"][b], Whole(buf["mixer_out"])) = next
    BY <2>3, <2>4, UpdateGivesNext
  <2>6. buf' = Put(Put(buf, "gdn_state", b, next), "attn_out", b, next)
    BY <2>1, <2>5 DEF GdnStep, Put
  <2>7. buf'["gdn_state"][b] = next /\ buf'["mixer_out"] = buf["mixer_out"]
    <3> HIDE DEF next
    <3>1. /\ "gdn_state" \in Scratch /\ "attn_out" \in Scratch /\ "mixer_out" \in Scratch
      BY <1>8
    <3> HIDE DEF Scratch
    <3> QED
      BY <2>6, <3>1, TwoSlices
  <2>8. DnScratch(l, b, s, x)'
    BY <1>3, <1>12, <1>13, <1>17, <2>2, <2>7 DEF DnScratch
  <2>9. DnStates(l, b, s, x)'
    BY <1>13, <1>17, <1>20
  <2> QED
    BY <2>8, <2>9 DEF DnSlice
<1>18. CASE w = Stage(l, 6)
  <2>1. StateStore(b, l)
    <3>1. WindowAt(at[b]) = "store" /\ LayerAt(at[b]) = l
      BY <1>5, <1>18 DEF w
    <3> QED
      BY <3>1, BlockExecutes
  <2>2. buf["gdn_state"][b] = next /\ hist[l][b] = Tail(Window(next))
    <3>1. ~ (at[b] <= Stage(l, 3)) /\ at[b] = Stage(l, 6)
      BY <1>13, <1>18 DEF w
    <3>2. hist[l][b] = Tail(Window(next))
      BY <1>6, <3>1 DEF DnStates
    <3> QED
      BY <1>6, <3>1, <3>2 DEF DnScratch
  <2>3. ssm'[l][b] = next
    BY <2>1, <2>2 DEF StateStore, StateShape
  <2>4. hist'[l][b] = hist[l][b]
    BY <1>7, <1>13, <1>18
  <2>5. DnScratch(l, b, s, x)'
    BY <1>3, <1>12, <1>13, <1>18 DEF DnScratch
  <2>6. DnStates(l, b, s, x)'
    <3>1. ~ (at'[b] <= Stage(l, 3)) /\ ~ (at'[b] <= Stage(l, 6))
      BY <1>3, <1>13, <1>18
    <3> QED
      BY <2>2, <2>3, <2>4, <3>1 DEF DnStates
  <2> QED
    BY <2>5, <2>6 DEF DnSlice
<1>19. CASE w < Stage(l, 2) \/ w > Stage(l, 6)
  <2>1. DnScratch(l, b, s, x)'
    BY <1>3, <1>12, <1>13, <1>19 DEF DnScratch
  <2>2. DnStates(l, b, s, x)'
    BY <1>3, <1>13, <1>19, <1>20
  <2> QED
    BY <2>1, <2>2 DEF DnSlice
<1> QED
  BY <1>3, <1>13, <1>14, <1>15, <1>16, <1>17, <1>18, <1>19

LEMMA DnBlockStep ==
  ASSUME MarkersAreNoSequences, BufShape, StateShape, Lockstep, DnFlow,
         NEW b \in Block, Execute(b)
  PROVE  DnFlow'
<1>1. phase = "running" /\ phase' = "running" /\ pos' = pos
  BY BlockAdvances, BlockLeavesCells
<1>2. Kind("dn")' = Kind("dn") /\ Block' = Block
  BY DEF Kind, NLayers, Block
<1>3. ASSUME NEW l \in Kind("dn")
      PROVE  \E s, x : /\ IsSequence(s) /\ Len(s) = pos
                       /\ \A c \in Block : DnSlice(l, c, s, x)'
  <2>1. PICK s, x : /\ IsSequence(s) /\ Len(s) = pos
                    /\ \A c \in Block : DnSlice(l, c, s, x)
    BY <1>1 DEF DnFlow
  <2>2. ASSUME NEW y, \A c \in Block : DnSlice(l, c, s, y),
               at[b] = Stage(l, 2) => y = Whole(buf["xn"])
        PROVE  \A c \in Block : DnSlice(l, c, s, y)'
    <3>1. DnSlice(l, b, s, y)'
      BY <2>1, <2>2, DnOwnStep
    <3>2. \A c \in Block \ {b} : DnSlice(l, c, s, y)'
      BY <2>2, DnOthersStep
    <3> QED
      BY <3>1, <3>2
  <2>3. CASE at[b] # Stage(l, 2)
    BY <2>1, <2>2, <2>3
  <2>4. CASE at[b] = Stage(l, 2)
    <3> DEFINE y == Whole(buf["xn"])
    <3>1. \A c \in Block : DnSlice(l, c, s, y)
      <4> TAKE c \in Block
      <4>1. /\ Stage(l, 2) \in Nat /\ Stage(l, 3) = Stage(l, 2) + 1
            /\ Stage(l, 4) = Stage(l, 2) + 2 /\ Stage(l, 5) = Stage(l, 2) + 3
            /\ Stage(l, 6) = Stage(l, 2) + 4
        BY DEF Stage, Kind
      <4>2. at[c] = Stage(l, 2) \/ at[c] = Stage(l, 3)
        BY <2>4, <4>1, BlockAdvances DEF Lockstep
      <4>3. DnSlice(l, c, s, x)
        BY <2>1
      <4>4. CASE at[c] = Stage(l, 3)
        BY <4>3, <4>4 DEF DnSlice, DnScratch
      <4>5. CASE at[c] = Stage(l, 2)
        <5>1. DnScratch(l, c, s, y)
          BY <4>1, <4>5 DEF DnScratch
        <5>2. DnStates(l, c, s, y)
          BY <4>1, <4>3, <4>5 DEF DnSlice, DnStates
        <5> QED
          BY <5>1, <5>2 DEF DnSlice
      <4> QED
        BY <4>2, <4>4, <4>5
    <3> QED
      BY <2>1, <2>2, <3>1
  <2> QED
    BY <2>3, <2>4
<1> QED
  BY <1>1, <1>2, <1>3 DEF DnFlow

LEMMA DnRunPass ==
  ASSUME StateShape, DnFlow, RunPass
  PROVE  DnFlow'
<1>1. /\ phase # "running" /\ phase' = "running" /\ at' = All(1)
      /\ UNCHANGED <<pos, hist, ssm>>
  BY DEF RunPass, persistent
<1>2. Kind("dn")' = Kind("dn") /\ Block' = Block
  BY DEF Kind, NLayers, Block
<1>3. ASSUME NEW l \in Kind("dn"), NEW b \in Block, NEW s, NEW x, DnSettled(l, b, s)
      PROVE  DnSlice(l, b, s, x)'
  <2>1. \A i \in 1 .. 9 : Stage(l, i) \in Nat /\ Stage(l, i) > 1
    BY DEF Stage, Kind
  <2>2. at'[b] = 1
    BY <1>1 DEF All
  <2>3. DnScratch(l, b, s, x)'
    BY <2>1, <2>2 DEF DnScratch
  <2>4. DnStates(l, b, s, x)'
    <3>1. hist'[l][b] = Tail(Window(s)) /\ ssm'[l][b] = s
      BY <1>1, <1>3 DEF DnSettled
    <3>2. at'[b] <= Stage(l, 3) /\ at'[b] <= Stage(l, 6)
      BY <2>1, <2>2
    <3> QED
      BY <3>1, <3>2 DEF DnStates
  <2> QED
    BY <2>3, <2>4 DEF DnSlice
<1> QED
  BY <1>1, <1>2, <1>3 DEF DnFlow

LEMMA DnEndPass ==
  ASSUME Lockstep, DnFlow, EndPass
  PROVE  DnFlow'
<1>1. /\ phase = "running" /\ phase' = "prepare" /\ pos' = pos + 1
      /\ \A b \in Block : at[b] > Last
      /\ UNCHANGED <<hist, ssm>>
  BY DEF EndPass, persistent
<1>2. Kind("dn")' = Kind("dn") /\ Block' = Block
  BY DEF Kind, NLayers, Block
<1>3. ASSUME NEW l \in Kind("dn")
      PROVE  \E s : /\ IsSequence(s) /\ Len(s) = pos + 1
                    /\ \A b \in Block : DnSettled(l, b, s)'
  <2>1. PICK s, x : /\ IsSequence(s) /\ Len(s) = pos
                    /\ \A b \in Block : DnSlice(l, b, s, x)
    BY <1>1 DEF DnFlow
  <2> DEFINE next == Append(s, x)
  <2>2. IsSequence(next) /\ Len(next) = pos + 1
    BY <2>1, AppendIsSequence
  <2>3. ASSUME NEW b \in Block
        PROVE  hist[l][b] = Tail(Window(next)) /\ ssm[l][b] = next
    <3>1. l \in 1 .. NLayers /\ Last \in Nat
      BY DecodeAssumption DEF Kind, Last, NLayers
    <3>2. Stage(l, 3) \in 2 .. Last /\ Stage(l, 6) \in 2 .. Last
      BY <3>1, StagesOfLayer
    <3>3. ~ at[b] <= Stage(l, 3) /\ ~ at[b] <= Stage(l, 6)
      BY <1>1, <3>1, <3>2 DEF Lockstep
    <3> QED
      BY <2>1, <3>3 DEF DnSlice, DnStates
  <2>4. \A b \in Block : DnSettled(l, b, next)'
    BY <1>1, <2>3 DEF DnSettled
  <2> QED
    BY <2>2, <2>4
<1> QED
  BY <1>1, <1>2, <1>3 DEF DnFlow

LEMMA DnStutter ==
  ASSUME DnFlow, phase # "running", phase' # "running", UNCHANGED <<pos, hist, ssm>>
  PROVE  DnFlow'
<1>1. Kind("dn")' = Kind("dn") /\ Block' = Block
  BY DEF Kind, NLayers, Block
<1> QED
  BY <1>1 DEF DnFlow, DnSettled

(***************************************************************************)
(* An "attn" layer in a pass: x is the input it gets, and the records its  *)
(* reduce folds are of this layer and position.                            *)
(***************************************************************************)
Fresh(record, l) ==
  \/ record = NonFinite
  \/ \E q, rws : record = [q |-> q, layer |-> l, kv |-> rws] /\ q.at = pos

AttnSlice(l, b, x) ==
  /\ at[b] = Stage(l, 3) => Whole(buf["xn"]) = x /\ buf["mixer_out"][b] = x
  /\ at[b] \in {Stage(l, 4), Stage(l, 5), Stage(l, 6)} =>
       buf["fattn_q"][b] = [at |-> pos, x |-> x]
  /\ at[b] \in {Stage(l, 6), Stage(l, 7)} => Fresh(buf["fattn_partial"][b], l)

AttnFlow ==
  phase = "running" =>
    \A l \in Kind("attn") : \E x : \A b \in Block : AttnSlice(l, b, x)

LEMMA AttnOthersStep ==
  ASSUME BufShape, Lockstep, NEW b \in Block, Execute(b),
         NEW c \in Block, c # b, NEW l \in Kind("attn"), NEW x, AttnSlice(l, c, x)
  PROVE  AttnSlice(l, c, x)'
<1>1. /\ \A name \in {"mixer_out", "fattn_q", "fattn_partial"} : buf'[name][c] = buf[name][c]
      /\ WindowAt(at[b]) \notin {"norm", "ffnnorm"} => buf'["xn"] = buf["xn"]
  BY BlockKeepsOthers DEF Kept, OthersKept, Scratch
<1>2. /\ at[c] \in at[b] .. at[b] + 1 /\ at[b] \in 1 .. Last
      /\ at' = [at EXCEPT ![b] = at[b] + 1]
  BY BlockAdvances
<1>3. at'[c] = at[c] /\ pos' = pos
  BY <1>2, BlockLeavesCells DEF Lockstep
<1>4. l \in 1 .. NLayers /\ l \notin Kind("dn")
  BY DEF Kind
<1>5. ASSUME at[c] = Stage(l, 3)
      PROVE  buf'["xn"] = buf["xn"]
  <2>1. Stage(l, 2) + 1 = Stage(l, 3) /\ Stage(l, 2) \in Nat /\ Stage(l, 3) \in Nat
    BY <1>4, StagesOfLayer
  <2>2. at[b] = Stage(l, 2) \/ at[b] = Stage(l, 3)
    BY <1>2, <1>5, <2>1 DEF Lockstep
  <2>3. WindowAt(Stage(l, 2)) = "gemv" /\ WindowAt(Stage(l, 3)) = "rope"
    BY <1>4, StageWindow DEF AttnBlock
  <2> QED
    BY <1>1, <2>2, <2>3
<1> QED
  BY <1>1, <1>3, <1>5 DEF AttnSlice, Fresh, Whole

LEMMA AttnOwnStep ==
  ASSUME DecodeInv, BufShape, Lockstep, NEW b \in Block, Execute(b),
         NEW l \in Kind("attn"), NEW x, \A c \in Block : AttnSlice(l, c, x),
         at[b] = Stage(l, 2) => x = Whole(buf["xn"])
  PROVE  AttnSlice(l, b, x)'
<1> DEFINE w == at[b]
<1>1. l \in 1 .. NLayers /\ l \notin Kind("dn")
  BY DEF Kind
<1>2. /\ w \in 1 .. Last /\ at' = [at EXCEPT ![b] = w + 1]
      /\ \A c \in Block : at[c] \in w .. w + 1
      /\ phase = "running"
  BY BlockAdvances
<1>3. at'[b] = w + 1 /\ w \in Nat /\ pos' = pos
  BY <1>2, BlockLeavesCells DEF Lockstep
<1>4. /\ WindowAt(Stage(l, 2)) = "gemv" /\ WindowAt(Stage(l, 3)) = "rope"
      /\ WindowAt(Stage(l, 4)) = "append" /\ WindowAt(Stage(l, 5)) = "decode"
      /\ WindowAt(Stage(l, 6)) = "reduce"
      /\ \A i \in 1 .. 9 : LayerAt(Stage(l, i)) = l
  BY <1>1, StageWindow DEF AttnBlock
<1>5. AttnSlice(l, b, x)
  OBVIOUS
<1>6. {"mixer_out", "k_stage", "fattn_q", "fattn_partial", "attn_out"} \subseteq Scratch
  BY DEF Scratch
<1>7. ASSUME NEW n \in Scratch, NEW v, Write(b, n, v)
      PROVE  buf'[n][b] = v /\ \A m \in Scratch : m # n => buf'[m] = buf[m]
  <2> DEFINE g == buf'
  <2>1. g = Put(buf, n, b, v) /\ Slices(buf)
    BY <1>7 DEF Write, Put, BufShape
  <2> HIDE DEF g
  <2>2. g[n][b] = v /\ \A m \in Scratch : m # n => g[m] = buf[m]
    BY <2>1, SliceWrite
  <2> QED
    BY <2>2 DEF g
<1> HIDE DEF w
<1>8. /\ Stage(l, 2) \in Nat /\ Stage(l, 3) = Stage(l, 2) + 1 /\ Stage(l, 4) = Stage(l, 2) + 2
      /\ Stage(l, 5) = Stage(l, 2) + 3 /\ Stage(l, 6) = Stage(l, 2) + 4
      /\ Stage(l, 7) = Stage(l, 2) + 5
  BY <1>1 DEF Stage, Kind
<1>9. CASE w = Stage(l, 2)
  <2>1. Gemv(b, l)
    BY <1>4, <1>9, BlockExecutes DEF w
  <2>2. buf' = Put(Put(buf, "mixer_out", b, Whole(buf["xn"])), "k_stage", b, Whole(buf["xn"]))
    BY <1>1, <2>1 DEF Gemv, Put
  <2>3. buf'["mixer_out"][b] = Whole(buf["xn"]) /\ buf'["xn"] = buf["xn"]
    BY <1>6, <2>2, TwoSlices
  <2>4. x = Whole(buf["xn"])
    BY <1>9 DEF w
  <2> QED
    BY <1>3, <1>8, <1>9, <2>3, <2>4 DEF AttnSlice, Whole
<1>10. CASE w = Stage(l, 3)
  <2>1. QkNormRope(b, l)
    BY <1>4, <1>10, BlockExecutes DEF w
  <2>2. buf["mixer_out"][b] = x /\ cell.positions = pos
    BY <1>2, <1>5, <1>10 DEF AttnSlice, w, DecodeInv, InputsOfPosition
  <2>3. PICK u : buf' = Put(Put(buf, "fattn_q", b, [at |-> pos, x |-> x]), "k_stage", b, u)
    BY <2>1, <2>2 DEF QkNormRope, Put
  <2>4. buf'["fattn_q"][b] = [at |-> pos, x |-> x]
    BY <1>6, <2>3, TwoSlices
  <2> QED
    BY <1>3, <1>8, <1>10, <2>4 DEF AttnSlice
<1>11. CASE w = Stage(l, 4)
  <2>1. KvAppend(b, l)
    BY <1>4, <1>11, BlockExecutes DEF w
  <2>2. buf["fattn_q"][b] = [at |-> pos, x |-> x] /\ buf' = buf
    BY <1>5, <1>11, <2>1 DEF AttnSlice, w, KvAppend
  <2> QED
    BY <1>3, <1>8, <1>11, <2>2 DEF AttnSlice
<1>12. CASE w = Stage(l, 5)
  <2>1. FattnDecode(b, l)
    BY <1>4, <1>12, BlockExecutes DEF w
  <2>2. \A c \in Block : buf["fattn_q"][c] = [at |-> pos, x |-> x]
    <3> TAKE c \in Block
    <3>1. at[c] = Stage(l, 5) \/ at[c] = Stage(l, 6)
      BY <1>2, <1>3, <1>8, <1>12
    <3> QED
      BY <3>1 DEF AttnSlice
  <2>3. Whole(buf["fattn_q"]) = [at |-> pos, x |-> x]
    BY <1>6, <2>2, WholeOf
  <2>4. PICK value : /\ Write(b, "fattn_partial", value)
                     /\ \/ value = NonFinite
                        \/ \E rws : value = [q |-> Whole(buf["fattn_q"]), layer |-> l, kv |-> rws]
    BY <2>1 DEF FattnDecode
  <2>5. Fresh(value, l)
    BY <2>3, <2>4 DEF Fresh
  <2>6. buf'["fattn_partial"][b] = value /\ buf'["fattn_q"] = buf["fattn_q"]
    BY <1>6, <1>7, <2>4
  <2>7. Fresh(buf["fattn_partial"][b], l)'
    BY <1>3, <2>5, <2>6 DEF Fresh
  <2> QED
    BY <1>3, <1>8, <1>12, <2>2, <2>6, <2>7 DEF AttnSlice
<1>13. CASE w = Stage(l, 6)
  <2>1. FattnReduce(b, l)
    BY <1>4, <1>13, BlockExecutes DEF w
  <2>2. PICK v : Write(b, "attn_out", v)
    BY <2>1 DEF FattnReduce
  <2>3. buf'["fattn_partial"] = buf["fattn_partial"] /\ Fresh(buf["fattn_partial"][b], l)
    BY <1>5, <1>6, <1>7, <1>13, <2>2 DEF AttnSlice, w
  <2>4. Fresh(buf["fattn_partial"][b], l)'
    BY <1>3, <2>3 DEF Fresh
  <2> QED
    BY <1>3, <1>8, <1>13, <2>4 DEF AttnSlice
<1>14. CASE w < Stage(l, 2) \/ w > Stage(l, 6)
  BY <1>3, <1>8, <1>14 DEF AttnSlice
<1> QED
  BY <1>3, <1>8, <1>9, <1>10, <1>11, <1>12, <1>13, <1>14

LEMMA AttnBlockStep ==
  ASSUME DecodeInv, BufShape, Lockstep, AttnFlow, NEW b \in Block, Execute(b)
  PROVE  AttnFlow'
<1>1. phase = "running" /\ phase' = "running" /\ pos' = pos
  BY BlockAdvances, BlockLeavesCells
<1>2. Kind("attn")' = Kind("attn") /\ Block' = Block
  BY DEF Kind, NLayers, Block
<1>3. ASSUME NEW l \in Kind("attn")
      PROVE  \E x : \A c \in Block : AttnSlice(l, c, x)'
  <2>1. PICK x : \A c \in Block : AttnSlice(l, c, x)
    BY <1>1 DEF AttnFlow
  <2>2. ASSUME NEW y, \A c \in Block : AttnSlice(l, c, y),
               at[b] = Stage(l, 2) => y = Whole(buf["xn"])
        PROVE  \A c \in Block : AttnSlice(l, c, y)'
    <3>1. AttnSlice(l, b, y)'
      BY <2>2, AttnOwnStep
    <3>2. \A c \in Block \ {b} : AttnSlice(l, c, y)'
      BY <2>2, AttnOthersStep
    <3> QED
      BY <3>1, <3>2
  <2>3. CASE at[b] # Stage(l, 2)
    BY <2>1, <2>2, <2>3
  <2>4. CASE at[b] = Stage(l, 2)
    <3> DEFINE y == Whole(buf["xn"])
    <3>1. \A c \in Block : AttnSlice(l, c, y)
      <4> TAKE c \in Block
      <4>1. /\ Stage(l, 2) \in Nat /\ Stage(l, 3) = Stage(l, 2) + 1
            /\ Stage(l, 4) = Stage(l, 2) + 2 /\ Stage(l, 5) = Stage(l, 2) + 3
            /\ Stage(l, 6) = Stage(l, 2) + 4 /\ Stage(l, 7) = Stage(l, 2) + 5
        BY DEF Stage, Kind
      <4>2. at[c] = Stage(l, 2) \/ at[c] = Stage(l, 3)
        BY <2>4, <4>1, BlockAdvances DEF Lockstep
      <4>3. AttnSlice(l, c, x)
        BY <2>1
      <4>4. CASE at[c] = Stage(l, 3)
        BY <4>3, <4>4 DEF AttnSlice
      <4>5. CASE at[c] = Stage(l, 2)
        BY <4>1, <4>5 DEF AttnSlice
      <4> QED
        BY <4>2, <4>4, <4>5
    <3> QED
      BY <2>1, <2>2, <3>1
  <2> QED
    BY <2>3, <2>4
<1> QED
  BY <1>1, <1>2, <1>3 DEF AttnFlow

LEMMA AttnRunPass ==
  ASSUME RunPass
  PROVE  AttnFlow'
<1>1. at' = All(1)
  BY DEF RunPass
<1>2. ASSUME NEW l \in Kind("attn"), NEW b \in Block
      PROVE  AttnSlice(l, b, Zero)'
  <2>1. \A i \in 1 .. 9 : Stage(l, i) \in Nat /\ Stage(l, i) > 1
    BY DEF Stage, Kind
  <2>2. at'[b] = 1
    BY <1>1 DEF All
  <2> QED
    BY <2>1, <2>2 DEF AttnSlice
<1>3. Kind("attn")' = Kind("attn") /\ Block' = Block
  BY DEF Kind, NLayers, Block
<1> QED
  BY <1>2, <1>3 DEF AttnFlow

(***************************************************************************)
(* The invariant of the blocks.                                            *)
(***************************************************************************)
FlowInv == /\ BufShape /\ StateShape /\ Lockstep
           /\ (MarkersAreNoSequences => DnFlow)
           /\ AttnFlow

LEMMA FlowInit ==
  ASSUME Init
  PROVE  FlowInv
<1>1. BufShape
  BY DEF Init, BufShape, Slices, All
<1>2. StateShape
  BY DEF Init, StateShape, All
<1>3. Lockstep
  BY DecodeAssumption DEF Init, Lockstep, All, Last, NLayers
<1>4. DnFlow
  <2>1. Len(<<>>) = 0 /\ IsSequence(<<>>)
    BY DEF IsSequence
  <2>2. Tail(Window(<<>>)) = NoInput
    <3>1. Tail(Window(<<>>)) = [i \in 1 .. Taps - 1 |-> Window(<<>>)[i + 1]]
      BY <2>1, WindowIsSequence
    <3>2. \A i \in 1 .. Taps - 1 : Window(<<>>)[i + 1] = Zero
      BY <2>1, DecodeAssumption DEF Window
    <3> QED
      BY <3>1, <3>2 DEF NoInput
  <2>3. \A l \in Kind("dn"), b \in Block : DnSettled(l, b, <<>>)
    BY <2>2 DEF Init, DnSettled, All
  <2>4. pos = 0 /\ phase # "running"
    BY DEF Init
  <2> QED
    BY <2>1, <2>3, <2>4 DEF DnFlow
<1>5. AttnFlow
  BY DEF Init, AttnFlow
<1> QED
  BY <1>1, <1>2, <1>3, <1>4, <1>5 DEF FlowInv

LEMMA FlowStep ==
  ASSUME DecodeInv, FlowInv, [Next]_vars
  PROVE  FlowInv'
<1> USE DEF FlowInv
<1>1. Kind("dn")' = Kind("dn") /\ Block' = Block /\ Last' = Last /\ Scratch' = Scratch
  BY DEF Kind, NLayers, Block, Last, Scratch
<1>2. ASSUME UNCHANGED <<buf, hist, ssm>>
      PROVE  BufShape' /\ StateShape'
  BY <1>1, <1>2 DEF BufShape, StateShape, Slices
<1>3. ASSUME phase # "running", phase' # "running", UNCHANGED <<pos, at, buf, hist, ssm>>
      PROVE  FlowInv'
  <2>1. Lockstep'
    BY <1>1, <1>3 DEF Lockstep
  <2>2. MarkersAreNoSequences' => DnFlow'
    BY <1>3, DnStutter DEF MarkersAreNoSequences
  <2>3. AttnFlow'
    BY <1>3 DEF AttnFlow
  <2> QED
    BY <1>2, <1>3, <2>1, <2>2, <2>3
<1>4. CASE Start
  <2>1. phase # "running" /\ phase' # "running" /\ UNCHANGED <<pos, at, buf, hist, ssm>>
    BY <1>4 DEF Start, persistent
  <2> QED
    BY <1>3, <2>1
<1>5. CASE SetPassInputs
  <2>1. phase # "running" /\ phase' # "running" /\ UNCHANGED <<pos, at, buf, hist, ssm>>
    BY <1>5 DEF SetPassInputs, persistent
  <2> QED
    BY <1>3, <2>1
<1>6. CASE RunPass
  <2>1. phase' = "running" /\ at' = All(1) /\ UNCHANGED <<buf, hist, ssm>>
    BY <1>6 DEF RunPass, persistent
  <2>2. Last \in Nat
    BY DecodeAssumption DEF Last, NLayers
  <2>3. Lockstep'
    BY <1>1, <2>1, <2>2 DEF Lockstep, All
  <2>4. MarkersAreNoSequences' => DnFlow'
    BY <1>6, DnRunPass DEF MarkersAreNoSequences
  <2> QED
    BY <1>2, <1>6, <2>1, <2>3, <2>4, AttnRunPass
<1>7. CASE EndPass
  <2>1. /\ phase' = "prepare" /\ UNCHANGED <<at, buf, hist, ssm>>
        /\ \A b \in Block : at[b] > Last
    BY <1>7 DEF EndPass, persistent
  <2>2. Last \in Nat
    BY DecodeAssumption DEF Last, NLayers
  <2>3. \A b \in Block : at[b] = Last + 1
    BY <2>1, <2>2 DEF Lockstep
  <2>4. Lockstep'
    BY <1>1, <2>1, <2>3 DEF Lockstep
  <2>5. MarkersAreNoSequences' => DnFlow'
    BY <1>7, DnEndPass DEF MarkersAreNoSequences
  <2>6. AttnFlow'
    BY <2>1 DEF AttnFlow
  <2> QED
    BY <1>2, <2>1, <2>4, <2>5, <2>6
<1>8. ASSUME NEW b \in Block, Execute(b)
      PROVE  FlowInv'
  <2>1. BufShape'
    BY <1>8, BlockKeepsOthers DEF Kept, OthersKept
  <2>2. StateShape'
    BY <1>8, BlockKeepsStates
  <2>3. Lockstep'
    BY <1>8, BlockAdvances
  <2>4. MarkersAreNoSequences' => DnFlow'
    BY <1>8, DnBlockStep DEF MarkersAreNoSequences
  <2>5. AttnFlow'
    BY <1>8, AttnBlockStep
  <2> QED
    BY <2>1, <2>2, <2>3, <2>4, <2>5
<1>9. CASE UNCHANGED vars
  <2>1. UNCHANGED <<phase, pos, at, buf, hist, ssm>>
    BY <1>9 DEF vars, host, persistent
  <2>2. Lockstep'
    BY <1>1, <2>1 DEF Lockstep
  <2>3. MarkersAreNoSequences' => DnFlow'
    <3>1. \A l, b, s, x : DnScratch(l, b, s, x)' <=> DnScratch(l, b, s, x)
      BY <2>1 DEF DnScratch, Whole
    <3>2. \A l, b, s, x : DnStates(l, b, s, x)' <=> DnStates(l, b, s, x)
      BY <2>1 DEF DnStates
    <3>3. \A l, b, s : DnSettled(l, b, s)' <=> DnSettled(l, b, s)
      BY <2>1 DEF DnSettled
    <3>4. \A l, b, s, x : DnSlice(l, b, s, x)' <=> DnSlice(l, b, s, x)
      BY <3>1, <3>2 DEF DnSlice
    <3>5. MarkersAreNoSequences' => MarkersAreNoSequences
      BY DEF MarkersAreNoSequences
    <3> QED
      BY <1>1, <2>1, <3>3, <3>4, <3>5 DEF DnFlow
  <2>4. AttnFlow'
    <3>1. \A l, b, x : AttnSlice(l, b, x)' <=> AttnSlice(l, b, x)
      BY <2>1 DEF AttnSlice, Fresh, Whole
    <3>2. Kind("attn")' = Kind("attn")
      BY DEF Kind, NLayers
    <3> QED
      BY <1>1, <2>1, <3>1, <3>2 DEF AttnFlow
  <2> QED
    BY <1>2, <2>1, <2>2, <2>3, <2>4
<1> QED
  BY <1>4, <1>5, <1>6, <1>7, <1>8, <1>9 DEF Next, HostStep

\* Scratch, states and records are what the windows behind each block make of them, at
\* every interleaving of the blocks.
THEOREM FlowInvariance == Spec => []FlowInv
<1>1. Init => FlowInv
  BY FlowInit
<1>2. DecodeInv /\ FlowInv /\ [Next]_vars => FlowInv'
  BY FlowStep
<1> QED
  BY <1>1, <1>2, DecodeInvariance, PTL DEF Spec

\* A zero-filled record is none that op_fattn_decode writes.
ZeroIsNoRecord == \A q, l, rws : Zero # [q |-> q, layer |-> l, kv |-> rws]

\* Every record a reduce folds is of its own layer and pass, however the blocks of
\* earlier layers and passes were scheduled and whatever they left in fattn_partial.
THEOREM ReduceFoldsFreshPartialsHolds ==
  ASSUME ZeroIsNoRecord
  PROVE  Spec => []ReduceFoldsFreshPartials
<1>1. FlowInv => ReduceFoldsFreshPartials
  <2> SUFFICES ASSUME FlowInv, NEW b \in Block, NEW l \in Kind("attn"), NEW c \in 0 .. NSplits-1,
                      Ready(b, "reduce", l)
               PROVE  LET record == buf["fattn_partial"][c]
                      IN \/ record = NonFinite
                         \/ record # Zero /\ record.layer = l /\ record.q.at = pos
    BY DEF ReduceFoldsFreshPartials
  <2>1. /\ phase = "running" /\ at[b] <= Last /\ WindowAt(at[b]) = "reduce"
        /\ LayerAt(at[b]) = l /\ \A d \in Block : at[d] >= at[b]
    BY DEF Ready
  <2>2. at[b] = Stage(l, 6)
    <3>1. l \in 1 .. NLayers /\ l \notin Kind("dn") /\ NLayers \in Nat /\ Last \in Nat
      BY DecodeAssumption DEF Kind, NLayers, Last
    <3>2. at[b] # 1
      BY <2>1 DEF WindowAt
    <3>3. at[b] \in 2 .. Last
      BY <2>1, <3>1, <3>2 DEF FlowInv, Lockstep
    <3>4. PICK i \in 1 .. 9 : at[b] = Stage(l, i)
      BY <2>1, <3>3, StageOfWindow
    <3>5. WindowAt(at[b]) = AttnBlock[i]
      BY <3>1, <3>4, StageWindow
    <3>6. i = 6
      BY <2>1, <3>5 DEF AttnBlock
    <3> QED
      BY <3>4, <3>6
  <2>3. c \in Block
    BY DEF Block, NSplits
  <2>4. at[c] = Stage(l, 6) \/ at[c] = Stage(l, 7)
    <3>1. Stage(l, 6) \in Nat /\ Stage(l, 7) = Stage(l, 6) + 1
      BY DEF Stage, Kind
    <3> QED
      BY <2>1, <2>2, <2>3, <3>1 DEF FlowInv, Lockstep
  <2>5. Fresh(buf["fattn_partial"][c], l)
    BY <2>1, <2>3, <2>4 DEF FlowInv, AttnFlow, AttnSlice
  <2>6. CASE buf["fattn_partial"][c] = NonFinite
    BY <2>6
  <2>7. CASE \E q, rws : /\ buf["fattn_partial"][c] = [q |-> q, layer |-> l, kv |-> rws]
                         /\ q.at = pos
    <3> PICK q, rws : /\ buf["fattn_partial"][c] = [q |-> q, layer |-> l, kv |-> rws]
                      /\ q.at = pos
      BY <2>7
    <3>1. buf["fattn_partial"][c] # Zero
      BY DEF ZeroIsNoRecord
    <3> QED
      BY <3>1
  <2> QED
    BY <2>5, <2>6, <2>7 DEF Fresh
<1> QED
  BY <1>1, FlowInvariance, PTL

\* Between passes the conv history of every slice is the last inputs of its recurrent
\* state, and the state has one input for each position.
THEOREM ConvAndSsmAgreeHolds ==
  ASSUME MarkersAreNoSequences
  PROVE  Spec => []ConvAndSsmAgree
<1>1. FlowInv => ConvAndSsmAgree
  <2> SUFFICES ASSUME FlowInv, phase # "running", NEW l \in Kind("dn"), NEW b \in Block
               PROVE  /\ IsSeq(ssm[l][b]) /\ Len(ssm[l][b]) = pos
                      /\ hist[l][b] = Tail(Window(ssm[l][b]))
    BY DEF ConvAndSsmAgree
  <2>1. DnFlow
    BY DEF FlowInv
  <2>2. PICK s : IsSequence(s) /\ Len(s) = pos /\ DnSettled(l, b, s)
    BY <2>1 DEF DnFlow
  <2>3. IsSeq(s)
    BY <2>2 DEF MarkersAreNoSequences, IsSeq
  <2> QED
    BY <2>2, <2>3 DEF DnSettled
<1> QED
  BY <1>1, FlowInvariance, PTL

(***************************************************************************)
(* The loop: how many greedy tokens there are at each position.            *)
(***************************************************************************)
\* Passes whose token has been chosen.
Chosen == IF phase \in {"ring", "running", "threw"} THEN pos + 1 ELSE pos

LoopInv ==
  /\ prompt \in Prompts /\ steps \in 0 .. MaxSteps
  /\ phase \in {"start", "refused", "prepare", "threw", "ring", "running"}
  /\ pos \in Nat /\ Chosen <= Tokens
  /\ IsSequence(emitted)
  /\ Len(emitted) = IF Chosen <= Len(prompt) THEN 0 ELSE Chosen - Len(prompt)
  /\ cell.positions \in Nat /\ cell.kv_row \in Nat
  /\ cell.mask_f16 \in [0 .. MaskCap-1 -> BOOLEAN]

\* No block writes what the loop keeps.
LEMMA BlockLeavesHost ==
  ASSUME NEW b \in Block, Execute(b)
  PROVE  UNCHANGED <<prompt, steps, emitted, phase, pos, rows, residuals, states>>
<1> PICK l \in 0 .. NLayers + 1 :
      \/ Embed(b, l) \/ Norm(b, l) \/ Gemv(b, l)
      \/ ConvShiftConcat(b, l) \/ SsmConvSilu(b, l) \/ GdnStep(b, l) \/ StateStore(b, l)
      \/ QkNormRope(b, l) \/ KvAppend(b, l) \/ FattnDecode(b, l) \/ FattnReduce(b, l)
      \/ Out(b, l) \/ FfnNorm(b, l) \/ Ffn(b, l) \/ HeadGemv(b, l) \/ LogitsEmit(b, l)
  BY DEF Execute
<1>1. UNCHANGED host
  BY DEF Embed, Norm, Gemv, ConvShiftConcat, SsmConvSilu, GdnStep, StateStore, QkNormRope,
         KvAppend, FattnDecode, FattnReduce, Out, FfnNorm, Ffn, HeadGemv, LogitsEmit
<1> QED
  BY <1>1 DEF host

LEMMA LoopInit ==
  ASSUME Init
  PROVE  LoopInv
<1>1. prompt \in Prompts /\ steps \in 0 .. MaxSteps /\ phase = "start" /\ pos = 0 /\ emitted = <<>>
  BY DEF Init
<1>2. Len(prompt) \in Nat \ {0} /\ steps \in Nat
  BY <1>1, DecodeAssumption
<1>3. Chosen = 0 /\ Chosen <= Tokens
  BY <1>1, <1>2 DEF Chosen, Tokens
<1>4. IsSequence(emitted) /\ Len(emitted) = 0
  BY <1>1 DEF IsSequence
<1>5. /\ cell.positions \in Nat /\ cell.kv_row \in Nat
      /\ cell.mask_f16 \in [0 .. MaskCap-1 -> BOOLEAN]
  BY DEF Init
<1> QED
  BY <1>1, <1>2, <1>3, <1>4, <1>5 DEF LoopInv

LEMMA LoopStep ==
  ASSUME DecodeInv, LoopInv, [Next]_vars
  PROVE  LoopInv'
<1>1. Len(prompt) \in Nat \ {0} /\ steps \in Nat /\ pos \in Nat /\ Tokens = Len(prompt) + steps
  BY DecodeAssumption DEF LoopInv, Tokens
<1>2. ASSUME UNCHANGED <<prompt, steps, emitted, Chosen>>,
             phase' \in {"start", "refused", "prepare", "threw", "ring", "running"},
             pos' \in Nat, cell'.positions \in Nat, cell'.kv_row \in Nat,
             cell'.mask_f16 \in [0 .. MaskCap-1 -> BOOLEAN]
      PROVE  LoopInv'
  <2>1. Tokens' = Tokens /\ MaskCap' = MaskCap /\ Chosen' = Chosen
    BY <1>2 DEF Tokens, MaskCap
  <2> HIDE DEF Chosen, Tokens, MaskCap
  <2> QED
    BY <1>2, <2>1 DEF LoopInv, IsSequence
<1>3. CASE Start
  <2>1. /\ phase = "start" /\ phase' \in {"refused", "prepare"}
        /\ UNCHANGED <<prompt, steps, emitted, pos, cell>>
    BY <1>3 DEF Start
  <2>2. UNCHANGED Chosen
    BY <2>1 DEF Chosen
  <2> QED
    BY <1>2, <2>1, <2>2 DEF LoopInv
<1>4. CASE SetPassInputs
  <2>1. /\ phase = "prepare" /\ pos < Tokens /\ phase' \in {"threw", "ring"}
        /\ UNCHANGED <<prompt, steps, pos>>
    BY <1>4 DEF SetPassInputs
  <2>2. Chosen = pos /\ Chosen' = pos + 1 /\ Tokens' = Tokens /\ MaskCap' = MaskCap
    BY <2>1 DEF Chosen, Tokens, MaskCap
  <2>3. /\ IsSequence(emitted')
        /\ Len(emitted') = IF pos + 1 <= Len(prompt) THEN 0 ELSE pos + 1 - Len(prompt)
    <3>1. /\ IsSequence(emitted)
          /\ Len(emitted) = IF pos <= Len(prompt) THEN 0 ELSE pos - Len(prompt)
      BY <2>2 DEF LoopInv
    <3>2. CASE pos < Len(prompt)
      <4>1. emitted' = emitted
        BY <1>4, <3>2 DEF SetPassInputs, ChooseToken
      <4> QED
        BY <1>1, <3>1, <3>2, <4>1
    <3>3. CASE ~ (pos < Len(prompt))
      <4>1. emitted' = Append(emitted, Argmax(rows[Len(rows)]))
        BY <1>4, <3>3 DEF SetPassInputs, ChooseToken
      <4>2. IsSequence(emitted') /\ Len(emitted') = Len(emitted) + 1
        BY <3>1, <4>1, AppendIsSequence
      <4> QED
        BY <1>1, <3>1, <3>3, <4>2
    <3> QED
      BY <3>2, <3>3
  <2>4. /\ cell'.positions \in Nat /\ cell'.kv_row \in Nat
        /\ cell'.mask_f16 \in [0 .. MaskCap-1 -> BOOLEAN]
    <3> DEFINE nkv == PadUp(pos + 1, Pad)
               mask == [j \in 0 .. MaskCap-1 |-> IF j < nkv THEN j <= pos ELSE cell.mask_f16[j]]
    <3>1. CASE nkv > MaskCap
      <4>1. cell' = cell
        BY <1>4, <3>1 DEF SetPassInputs
      <4> QED
        BY <4>1 DEF LoopInv
    <3>2. CASE ~ (nkv > MaskCap)
      <4>1. cell' = [cell EXCEPT !.positions = pos, !.kv_row = pos, !.n_kv = nkv,
                                 !.mask_f16 = mask]
        BY <1>4, <3>2 DEF SetPassInputs
      <4>2. mask \in [0 .. MaskCap-1 -> BOOLEAN]
        <5>1. \A j \in 0 .. MaskCap-1 : cell.mask_f16[j] \in BOOLEAN
          BY DEF LoopInv
        <5>2. \A j \in 0 .. MaskCap-1 : (j <= pos) \in BOOLEAN
          OBVIOUS
        <5> HIDE DEF nkv, MaskCap
        <5>3. \A j \in 0 .. MaskCap-1 :
                (IF j < nkv THEN j <= pos ELSE cell.mask_f16[j]) \in BOOLEAN
          BY <5>1, <5>2, Zenon
        <5> QED
          BY <5>3, Zenon
      <4> HIDE DEF nkv, mask
      <4>3. cell'.positions = pos /\ cell'.kv_row = pos /\ cell'.mask_f16 = mask
        BY <4>1 DEF DecodeInv, CellsTyped, CellName
      <4> QED
        BY <1>1, <4>2, <4>3
    <3> QED
      BY <3>1, <3>2
  <2>5. prompt' \in Prompts /\ steps' \in 0 .. MaxSteps /\ pos' \in Nat
        /\ prompt' = prompt /\ Chosen' <= Tokens'
    BY <1>1, <2>1, <2>2 DEF LoopInv
  <2> HIDE DEF Chosen, Tokens, MaskCap
  <2> QED
    BY <2>1, <2>2, <2>3, <2>4, <2>5 DEF LoopInv, IsSequence
<1>5. CASE RunPass
  <2>1. /\ phase = "ring" /\ phase' = "running"
        /\ UNCHANGED <<prompt, steps, emitted, pos>>
    BY <1>5 DEF RunPass
  <2>2. PICK token : cell' = [cell EXCEPT !.token = token]
    BY <1>5 DEF RunPass
  <2>3. /\ cell'.positions = cell.positions /\ cell'.kv_row = cell.kv_row
        /\ cell'.mask_f16 = cell.mask_f16
    BY <2>2 DEF DecodeInv, CellsTyped, CellName
  <2>4. UNCHANGED Chosen
    BY <2>1 DEF Chosen
  <2> QED
    BY <1>2, <2>1, <2>3, <2>4 DEF LoopInv
<1>6. CASE EndPass
  <2>1. /\ phase = "running" /\ phase' = "prepare" /\ pos' = pos + 1
        /\ UNCHANGED <<prompt, steps, emitted, cell>>
    BY <1>6 DEF EndPass
  <2>2. UNCHANGED Chosen
    BY <2>1 DEF Chosen
  <2> QED
    BY <1>1, <1>2, <2>1, <2>2 DEF LoopInv
<1>7. ASSUME NEW b \in Block, Execute(b)
      PROVE  LoopInv'
  <2>1. UNCHANGED <<phase, pos, cell>>
    BY <1>7, BlockLeavesCells
  <2>2. UNCHANGED <<prompt, steps, emitted>>
    BY <1>7, BlockLeavesHost
  <2>3. UNCHANGED Chosen
    BY <2>1 DEF Chosen
  <2> QED
    BY <1>2, <2>1, <2>2, <2>3 DEF LoopInv
<1>8. CASE UNCHANGED vars
  <2>1. UNCHANGED <<prompt, steps, emitted, phase, pos, cell>>
    BY <1>8 DEF vars, host
  <2>2. UNCHANGED Chosen
    BY <2>1 DEF Chosen
  <2> QED
    BY <1>2, <2>1, <2>2 DEF LoopInv
<1> QED
  BY <1>3, <1>4, <1>5, <1>6, <1>7, <1>8 DEF Next, HostStep

\* The cells, the buffers and the loop keep their types: no run emits more tokens than
\* it was asked for.
THEOREM TypesHold == Spec => []TypeOK
<1>1. Init => LoopInv
  BY LoopInit
<1>2. DecodeInv /\ LoopInv /\ [Next]_vars => LoopInv'
  BY LoopStep
<1>3. DecodeInv /\ FlowInv /\ LoopInv => TypeOK
  <2> SUFFICES ASSUME DecodeInv, FlowInv, LoopInv
               PROVE  TypeOK
    OBVIOUS
  <2>1. Len(emitted) \in 0 .. steps
    <3>1. Len(prompt) \in Nat \ {0} /\ steps \in Nat
      BY DecodeAssumption DEF LoopInv
    <3>2. Chosen \in Nat /\ Chosen <= Len(prompt) + steps
      BY DEF LoopInv, Chosen, Tokens
    <3>3. Len(emitted) = IF Chosen <= Len(prompt) THEN 0 ELSE Chosen - Len(prompt)
      BY DEF LoopInv
    <3> HIDE DEF Chosen
    <3> QED
      BY <3>1, <3>2, <3>3
  <2>2. DOMAIN buf = Scratch /\ \A name \in Scratch : DOMAIN buf[name] = Block
    <3>1. /\ buf = [name \in Scratch |-> buf[name]]
          /\ \A name \in Scratch : buf[name] = [b \in Block |-> buf[name][b]]
      BY DEF FlowInv, BufShape, Slices
    <3> HIDE DEF Scratch, Block
    <3> QED
      BY <3>1
  <2>3. at \in [Block -> 1 .. Last + 1]
    BY DEF FlowInv, Lockstep
  <2>4. cell.n_kv \in Nat
    BY DEF DecodeInv, CellsTyped
  <2> QED
    BY <2>1, <2>2, <2>3, <2>4 DEF TypeOK, LoopInv
<1> QED
  BY <1>1, <1>2, <1>3, DecodeInvariance, FlowInvariance, PTL DEF Spec
=============================================================================
