------------------------- MODULE DecodeRefinement -------------------------
(***************************************************************************)
(* Decode implements Decoder: for every grid, tile, padding, layer pattern *)
(* and schedule of the blocks, what the loop reads, emits and dumps is     *)
(* what greedy decoding with the free model gives for the tokens fed.      *)
(*                                                                         *)
(* The invariant ModelInv says where the values of the model are: in the   *)
(* cells of the pass, the states, the caches and, window by window, in the *)
(* scratch buffers.  A step that ends a pass is then a step of Decoder,    *)
(* every other one is none.                                                *)
(***************************************************************************)
EXTENDS DecodeProofs, Sums

(***************************************************************************)
(* The values of the free model.                                           *)
(***************************************************************************)
\* The values of a layer for len tokens, when those of the layer below are given.
Above(below, len) == [n \in 1 .. len |-> [i \in 1 .. n |-> below[i]]]

\* f has for each layer up to the k-th its values for the tokens toks.
Values(f, toks, k) ==
  f = [j \in 0 .. k |-> IF j = 0 THEN toks ELSE Above(f[j-1], Len(toks))]

ValuesOf(toks) == CHOOSE f : Values(f, toks, NLayers)

\* The abstract decoder's values are those.
LEMMA TrunkIsChosen ==
  ASSUME NEW toks, NEW l
  PROVE  Greedy!Trunk(toks, l) = ValuesOf(toks)[l][Len(toks)]
BY DEF Greedy!Trunk, ValuesOf, Values, Above

\* A layer's values are determined by those of the layer below: there is such a family.
LEMMA ValuesExist ==
  ASSUME NEW toks
  PROVE  Values(ValuesOf(toks), toks, NLayers)
<1> DEFINE N == {k \in Nat : \E f : Values(f, toks, k)}
<1>1. 0 \in N
  <2> DEFINE f == [j \in 0 .. 0 |-> toks]
  <2>1. Values(f, toks, 0)
    BY DEF Values
  <2> QED
    BY <2>1
<1>2. ASSUME NEW k \in Nat, k \in N
      PROVE  k + 1 \in N
  <2>1. PICK f : Values(f, toks, k)
    BY <1>2
  <2> DEFINE g == [j \in 0 .. k + 1 |-> IF j <= k THEN f[j] ELSE Above(f[k], Len(toks))]
  <2>2. /\ \A j \in 0 .. k : g[j] = f[j]
        /\ g[k + 1] = Above(f[k], Len(toks))
        /\ g = [j \in 0 .. k + 1 |-> g[j]]
    OBVIOUS
  <2>3. \A j \in 0 .. k : f[j] = IF j = 0 THEN toks ELSE Above(f[j-1], Len(toks))
    BY <2>1 DEF Values
  <2> HIDE DEF g
  <2>4. ASSUME NEW j \in 0 .. k + 1
        PROVE  g[j] = IF j = 0 THEN toks ELSE Above(g[j-1], Len(toks))
    <3>1. CASE j = 0
      <4>1. j \in 0 .. k
        BY <3>1
      <4> QED
        BY <2>2, <2>3, <3>1, <4>1
    <3>2. CASE j \in 1 .. k
      <4>1. j \in 0 .. k /\ j - 1 \in 0 .. k /\ j # 0
        BY <3>2
      <4> QED
        BY <2>2, <2>3, <4>1
    <3>3. CASE j = k + 1
      <4>1. j - 1 = k /\ k \in 0 .. k /\ j # 0
        BY <3>3
      <4> QED
        BY <2>2, <3>3, <4>1
    <3> QED
      BY <3>1, <3>2, <3>3
  <2>5. Values(g, toks, k + 1)
    BY <2>2, <2>4 DEF Values
  <2> QED
    BY <2>5
<1>3. NLayers \in N
  <2>1. NLayers \in Nat
    BY DecodeAssumption DEF NLayers
  <2> HIDE DEF N, NLayers
  <2> QED
    BY <1>1, <1>2, <2>1, SetOfNaturals
<1>4. \E f : Values(f, toks, NLayers)
  BY <1>3
<1> QED
  BY <1>4 DEF ValuesOf

\* What a layer has for one of the tokens does not depend on the tokens after it.
LEMMA PrefixHasItsValues ==
  ASSUME NEW toks, NEW head, Len(toks) \in Nat, Len(head) \in 0 .. Len(toks),
         \A n \in 1 .. Len(head) : head[n] = toks[n],
         NEW l \in 0 .. NLayers, NEW n \in 1 .. Len(head)
  PROVE  ValuesOf(head)[l][n] = ValuesOf(toks)[l][n]
<1> DEFINE f == ValuesOf(head)
           g == ValuesOf(toks)
           N == {k \in Nat : k <= NLayers => \A m \in 1 .. Len(head) : f[k][m] = g[k][m]}
<1>1. /\ \A j \in 0 .. NLayers : f[j] = IF j = 0 THEN head ELSE Above(f[j-1], Len(head))
      /\ \A j \in 0 .. NLayers : g[j] = IF j = 0 THEN toks ELSE Above(g[j-1], Len(toks))
  <2>1. \A t, k : Values(ValuesOf(t), t, k) =>
          \A j \in 0 .. k : ValuesOf(t)[j] = IF j = 0 THEN t ELSE Above(ValuesOf(t)[j-1], Len(t))
    BY DEF Values
  <2> QED
    BY <2>1, ValuesExist
<1>2. NLayers \in Nat
  BY DecodeAssumption DEF NLayers
<1> HIDE DEF f, g, NLayers
<1>3. 0 \in N
  BY <1>1, <1>2
<1>4. ASSUME NEW k \in Nat, k \in N
      PROVE  k + 1 \in N
  <2> SUFFICES ASSUME k + 1 <= NLayers, NEW m \in 1 .. Len(head)
               PROVE  f[k+1][m] = g[k+1][m]
    OBVIOUS
  <2>1. \A i \in 1 .. m : f[k][i] = g[k][i]
    BY <1>2, <1>4
  <2>2. k + 1 \in 0 .. NLayers /\ k + 1 # 0 /\ (k + 1) - 1 = k
    BY <1>2
  <2>3. f[k+1] = Above(f[k], Len(head)) /\ g[k+1] = Above(g[k], Len(toks))
    BY <1>1, <2>2
  <2>4. m \in 1 .. Len(toks)
    OBVIOUS
  <2>5. f[k+1][m] = [i \in 1 .. m |-> f[k][i]]
    BY <2>3 DEF Above
  <2>6. g[k+1][m] = [i \in 1 .. m |-> g[k][i]]
    BY <2>3, <2>4 DEF Above
  <2> QED
    BY <2>1, <2>5, <2>6
<1>5. \A k \in Nat : k \in N
  <2> HIDE DEF N
  <2> QED
    BY <1>3, <1>4, SetOfNaturals
<1>6. l \in N
  BY <1>2, <1>5
<1> QED
  BY <1>2, <1>6 DEF f, g

(***************************************************************************)
(* What the layers have for the tokens of a run.                           *)
(***************************************************************************)
\* The tokens known so far.
Known == prompt \o emitted

\* The value of layer l for the n-th of them.
Value(l, n) == Greedy!Trunk(SubSeq(Known, 1, n), l)

\* What layer l is given for the first n of them.
Inputs(l, n) == [i \in 1 .. n |-> Value(l - 1, i)]

\* The value for a token of a run: the token, and above it the values of the layer below.
LEMMA ValueOfLayer ==
  ASSUME Known \in Seq(UNION {{Known[i]} : i \in 1 .. Len(Known)}), NEW n \in 1 .. Len(Known)
  PROVE  /\ Value(0, n) = Known[n]
         /\ \A l \in 1 .. NLayers : Value(l, n) = Inputs(l, n)
<1> DEFINE toks == Known
<1>1. toks \in Seq(UNION {{toks[i]} : i \in 1 .. Len(toks)}) /\ Len(toks) \in Nat
      /\ n \in 1 .. Len(toks)
  OBVIOUS
<1>2. NLayers \in Nat
  BY DecodeAssumption DEF NLayers
<1> HIDE DEF Known
<1>3. ASSUME NEW m \in 1 .. Len(toks), NEW l \in 0 .. NLayers
      PROVE  Value(l, m) = ValuesOf(toks)[l][m]
  <2> DEFINE head == SubSeq(toks, 1, m)
  <2>1. Len(head) = m /\ \A i \in 1 .. m : head[i] = toks[i]
    BY <1>1
  <2>2. Value(l, m) = ValuesOf(head)[l][m]
    BY <2>1, TrunkIsChosen DEF Value
  <2> HIDE DEF head
  <2>3. /\ Len(head) \in 0 .. Len(toks) /\ m \in 1 .. Len(head)
        /\ \A i \in 1 .. Len(head) : head[i] = toks[i]
    BY <1>1, <2>1
  <2>4. ValuesOf(head)[l][m] = ValuesOf(toks)[l][m]
    <3>1. Len(toks) \in Nat /\ l \in 0 .. NLayers
      BY <1>1
    <3> HIDE DEF toks
    <3> QED
      BY ONLY <2>3, <3>1, PrefixHasItsValues
  <2> QED
    BY <2>2, <2>4
<1> DEFINE f == ValuesOf(toks)
<1>4. \A j \in 0 .. NLayers : f[j] = IF j = 0 THEN toks ELSE Above(f[j-1], Len(toks))
  <2>1. Values(ValuesOf(toks), toks, NLayers)
    BY ValuesExist
  <2> QED
    BY <2>1 DEF Values
<1>5. Value(0, n) = toks[n]
  <2>1. 0 \in 0 .. NLayers
    BY <1>2
  <2>2. f[0] = toks
    BY <1>4, <2>1
  <2> QED
    BY <1>1, <1>3, <2>1, <2>2
<1>6. ASSUME NEW l \in 1 .. NLayers
      PROVE  Value(l, n) = Inputs(l, n)
  <2>1. l \in 0 .. NLayers /\ l - 1 \in 0 .. NLayers /\ l # 0
    BY <1>2
  <2>2. \A i \in 1 .. n : i \in 1 .. Len(toks)
    BY <1>1
  <2>3. Value(l, n) = f[l][n] /\ \A i \in 1 .. n : Value(l - 1, i) = f[l-1][i]
    BY <1>1, <1>3, <2>1, <2>2
  <2> HIDE DEF toks, f
  <2>4. f[l] = Above(f[l-1], Len(toks))
    BY <1>4, <2>1
  <2>5. f[l][n] = [i \in 1 .. n |-> f[l-1][i]]
    BY <1>1, <2>4 DEF Above
  <2> QED
    BY <2>3, <2>5 DEF Inputs
<1> QED
  BY <1>5, <1>6 DEF toks

(***************************************************************************)
(* Attention: the chunks, put one after the other, have the rows up to the *)
(* query's.                                                                *)
(***************************************************************************)
\* The part of the first x rows that the mask leaves.
Cut(x) == Least(x, pos + 1)

\* The rows from a to b, in order.
RowsFrom(a, b) == [i \in 1 .. b - a |-> a + i - 1]

\* The mask lets the rows up to the position through.
MaskHolds == \A j \in 0 .. cell.n_kv - 1 : cell.mask_f16[j] = (j <= pos)

\* a[j] has the attended rows from lo up to j.
Attends(a, lo, hi) ==
  a = [j \in lo .. hi |->
         IF j = lo THEN <<>>
         ELSE a[j-1] \o (IF cell.mask_f16[j-1] THEN <<j-1>> ELSE <<>>)]

\* One more row.
LEMMA RowsFromNext ==
  ASSUME NEW a \in Nat, NEW b \in Nat, a <= b
  PROVE  RowsFrom(a, b) \o <<b>> = RowsFrom(a, b + 1)
<1> DEFINE s == RowsFrom(a, b)
           t == s \o <<b>>
<1>1. s \in Seq(Nat) /\ Len(s) = b - a /\ \A i \in 1 .. b - a : s[i] = a + i - 1
  BY DEF RowsFrom
<1> HIDE DEF s
<1>2. <<b>> \in Seq(Nat) /\ Len(<<b>>) = 1 /\ <<b>>[1] = b
  OBVIOUS
<1>3. /\ t \in Seq(Nat) /\ Len(t) = b - a + 1
      /\ \A i \in 1 .. b - a : t[i] = a + i - 1
      /\ t[b - a + 1] = b
  BY <1>1, <1>2
<1> HIDE DEF t
<1>4. t = [i \in 1 .. b - a + 1 |-> t[i]]
  BY <1>3
<1>5. \A i \in 1 .. b - a + 1 : t[i] = a + i - 1
  <2> TAKE i \in 1 .. b - a + 1
  <2>1. i \in 1 .. b - a \/ i = b - a + 1
    OBVIOUS
  <2> QED
    BY <1>3, <2>1
<1>6. b - a + 1 = (b + 1) - a
  OBVIOUS
<1>7. t = RowsFrom(a, b + 1)
  BY <1>4, <1>5, <1>6 DEF RowsFrom
<1> QED
  BY <1>7 DEF s, t

\* One step of the loop over a chunk: the row is attended if the mask lets it through.
LEMMA AttendsStep ==
  ASSUME pos \in Nat, NEW lo \in Nat, NEW j \in Nat, lo < j,
         cell.mask_f16[j-1] = (j - 1 <= pos)
  PROVE  RowsFrom(Cut(lo), Cut(j-1)) \o (IF cell.mask_f16[j-1] THEN <<j-1>> ELSE <<>>)
           = RowsFrom(Cut(lo), Cut(j))
<1>1. Cut(lo) \in Nat /\ Cut(j-1) \in Nat /\ Cut(lo) <= Cut(j-1)
  BY DEF Cut, Least
<1>2. CASE j - 1 <= pos
  <2>1. Cut(j-1) = j - 1 /\ Cut(j) = (j - 1) + 1
    BY <1>2 DEF Cut, Least
  <2>2. RowsFrom(Cut(lo), Cut(j-1)) \o <<j-1>> = RowsFrom(Cut(lo), Cut(j))
    BY <1>1, <2>1, RowsFromNext
  <2> QED
    BY <1>2, <2>2
<1>3. CASE ~ (j - 1 <= pos)
  <2>1. Cut(j-1) = Cut(j)
    BY <1>3 DEF Cut, Least
  <2>2. RowsFrom(Cut(lo), Cut(j-1)) \in Seq(Nat)
    BY <1>1 DEF RowsFrom
  <2>3. RowsFrom(Cut(lo), Cut(j-1)) \o <<>> = RowsFrom(Cut(lo), Cut(j-1))
    BY <2>2
  <2> QED
    BY <1>3, <2>1, <2>3
<1> QED
  BY <1>2, <1>3

\* The loop over the rows from lo to hi attends those up to the position.
LEMMA AttendedIsRows ==
  ASSUME pos \in Nat, NEW lo \in Nat, NEW hi \in Nat, lo <= hi,
         \A j \in lo .. hi - 1 : cell.mask_f16[j] = (j <= pos)
  PROVE  (CHOOSE a : Attends(a, lo, hi))[hi] = RowsFrom(Cut(lo), Cut(hi))
<1> DEFINE w == [j \in lo .. hi |-> RowsFrom(Cut(lo), Cut(j))]
           a == CHOOSE f : Attends(f, lo, hi)
<1>1. \A j \in lo .. hi : w[j] = RowsFrom(Cut(lo), Cut(j))
  OBVIOUS
<1>2. RowsFrom(Cut(lo), Cut(lo)) = <<>>
  <2>1. Cut(lo) \in Nat
    BY DEF Cut, Least
  <2>2. Cut(lo) - Cut(lo) = 0
    BY <2>1
  <2> QED
    BY <2>2 DEF RowsFrom
<1>3. \A j \in lo + 1 .. hi :
        RowsFrom(Cut(lo), Cut(j-1)) \o (IF cell.mask_f16[j-1] THEN <<j-1>> ELSE <<>>)
          = RowsFrom(Cut(lo), Cut(j))
  <2> TAKE j \in lo + 1 .. hi
  <2>1. j - 1 \in lo .. hi - 1 /\ j \in Nat /\ lo < j
    OBVIOUS
  <2>2. cell.mask_f16[j-1] = (j - 1 <= pos)
    BY <2>1
  <2> QED
    BY <2>1, <2>2, AttendsStep
<1>4. Attends(w, lo, hi)
  <2>1. ASSUME NEW j \in lo .. hi
        PROVE  w[j] = IF j = lo THEN <<>>
                      ELSE w[j-1] \o (IF cell.mask_f16[j-1] THEN <<j-1>> ELSE <<>>)
    <3>1. CASE j = lo
      BY <1>2, <3>1
    <3>2. CASE j # lo
      <4>1. j \in lo + 1 .. hi /\ j - 1 \in lo .. hi
        BY <3>2
      <4>2. w[j-1] = RowsFrom(Cut(lo), Cut(j-1))
        BY <4>1
      <4> HIDE DEF w
      <4> QED
        BY <1>1, <1>3, <3>2, <4>1, <4>2
    <3> QED
      BY <3>1, <3>2
  <2>2. w = [j \in lo .. hi |-> w[j]]
    OBVIOUS
  <2> HIDE DEF w
  <2> QED
    BY <2>1, <2>2 DEF Attends
<1>5. Attends(a, lo, hi)
  BY <1>4
<1> HIDE DEF w, a
<1>6. \A j \in lo .. hi :
        a[j] = IF j = lo THEN <<>>
               ELSE a[j-1] \o (IF cell.mask_f16[j-1] THEN <<j-1>> ELSE <<>>)
  BY <1>5 DEF Attends
<1> DEFINE N == {d \in Nat : lo + d <= hi => a[lo + d] = RowsFrom(Cut(lo), Cut(lo + d))}
<1>7. 0 \in N
  <2>1. lo \in lo .. hi /\ lo + 0 = lo
    OBVIOUS
  <2>2. a[lo] = <<>>
    BY <1>6, <2>1
  <2> QED
    BY <1>2, <2>1, <2>2
<1>8. ASSUME NEW d \in Nat, d \in N
      PROVE  d + 1 \in N
  <2> SUFFICES ASSUME lo + (d + 1) <= hi
               PROVE  a[lo + (d + 1)] = RowsFrom(Cut(lo), Cut(lo + (d + 1)))
    OBVIOUS
  <2> DEFINE j == lo + (d + 1)
  <2>1. j \in lo .. hi /\ j \in lo + 1 .. hi /\ j # lo /\ j - 1 = lo + d /\ lo + d <= hi
    OBVIOUS
  <2>2. a[j-1] = RowsFrom(Cut(lo), Cut(j-1))
    BY <1>8, <2>1
  <2> HIDE DEF j
  <2>3. a[j] = RowsFrom(Cut(lo), Cut(j))
    BY <1>3, <1>6, <2>1, <2>2
  <2> QED
    BY <2>3 DEF j
<1>9. \A d \in Nat : d \in N
  <2> HIDE DEF N
  <2> QED
    BY <1>7, <1>8, SetOfNaturals
<1>10. hi - lo \in N /\ lo + (hi - lo) = hi
  BY <1>9
<1> QED
  BY <1>10 DEF a

\* A chunk ends where the next begins; the first begins and the last ends the window.
LEMMA ChunksAreAdjacent ==
  ASSUME NEW nkv \in Nat, NEW n \in Nat \ {0}, NEW tile \in Nat \ {0}
  PROVE  /\ ChunkLo(nkv, n, tile, 0) = 0
         /\ ChunkLo(nkv, n, tile, n) = nkv
         /\ \A c \in 0 .. n-1 :
              /\ ChunkHi(nkv, n, tile, c) = ChunkLo(nkv, n, tile, c + 1)
              /\ ChunkLo(nkv, n, tile, c) \in Nat /\ ChunkHi(nkv, n, tile, c) \in Nat
              /\ ChunkLo(nkv, n, tile, c) <= ChunkHi(nkv, n, tile, c)
              /\ ChunkHi(nkv, n, tile, c) <= nkv
<1> DEFINE len == ChunkLen(nkv, n, tile)
<1>1. len \in Nat /\ n * len >= nkv
  BY ChunkLenCovers
<1> HIDE DEF len
<1>2. ChunkLo(nkv, n, tile, 0) = 0
  BY <1>1 DEF ChunkLo, Least, len
<1>3. ChunkLo(nkv, n, tile, n) = nkv
  BY <1>1 DEF ChunkLo, Least, len
<1>4. ASSUME NEW c \in 0 .. n-1
      PROVE  /\ ChunkHi(nkv, n, tile, c) = ChunkLo(nkv, n, tile, c + 1)
             /\ ChunkLo(nkv, n, tile, c) \in Nat /\ ChunkHi(nkv, n, tile, c) \in Nat
             /\ ChunkLo(nkv, n, tile, c) <= ChunkHi(nkv, n, tile, c)
             /\ ChunkHi(nkv, n, tile, c) <= nkv
  <2> DEFINE m == c * len
  <2>1. m \in Nat /\ (c + 1) * len = m + len
    BY <1>1, SMTT(30)
  <2>2. ChunkLo(nkv, n, tile, c) = Least(m, nkv)
    BY DEF ChunkLo, len
  <2>3. ChunkLo(nkv, n, tile, c + 1) = Least(m + len, nkv)
    BY <2>1 DEF ChunkLo, len
  <2>4. ChunkHi(nkv, n, tile, c) = Least(Least(m, nkv) + len, nkv)
    BY <2>2 DEF ChunkHi, len
  <2> HIDE DEF m
  <2> QED
    BY <1>1, <2>1, <2>2, <2>3, <2>4 DEF Least
<1> QED
  BY <1>2, <1>3, <1>4

\* The rows that chunk c attends are those of its range up to the position.
LEMMA ChunkAttends ==
  ASSUME pos \in Nat, cell.n_kv \in Nat, MaskHolds, NEW c \in Block
  PROVE  Attended(c) = RowsFrom(Cut(ChunkLo(cell.n_kv, Grid, Tile, c)),
                                Cut(ChunkHi(cell.n_kv, Grid, Tile, c)))
<1> DEFINE lo == ChunkLo(cell.n_kv, Grid, Tile, c)
           hi == ChunkHi(cell.n_kv, Grid, Tile, c)
<1>1. Attended(c) = (CHOOSE a : Attends(a, lo, hi))[hi]
  BY DEF Attended, Attends
<1>2. lo \in Nat /\ hi \in Nat /\ lo <= hi /\ hi <= cell.n_kv
  <2>1. c \in 0 .. Grid-1 /\ Grid \in Nat \ {0} /\ Tile \in Nat \ {0}
    BY DecodeAssumption DEF Block
  <2> QED
    BY <2>1, ChunksAreAdjacent
<1> HIDE DEF lo, hi
<1>3. \A j \in lo .. hi - 1 : cell.mask_f16[j] = (j <= pos)
  <2>1. \A j \in lo .. hi - 1 : j \in 0 .. cell.n_kv - 1
    BY <1>2
  <2> QED
    BY <2>1 DEF MaskHolds
<1>4. (CHOOSE a : Attends(a, lo, hi))[hi] = RowsFrom(Cut(lo), Cut(hi))
  BY <1>2, <1>3, AttendedIsRows
<1> QED
  BY <1>1, <1>4 DEF lo, hi

\* What layer l is given in the pass at pos.
Given(l) == Value(l - 1, pos + 1)

\* A row of layer l's cache: what the layer is given for the token at j, rotated by j.
RowAt(l, j) == [at |-> j, x |-> Value(l - 1, j + 1)]

\* The record of chunk c.
RowsOf(l, c) == [i \in 1 .. Len(Attended(c)) |-> RowAt(l, Attended(c)[i])]

Record(l, c) == [q |-> RowAt(l, pos), layer |-> l, kv |-> RowsOf(l, c)]

\* The first m rows of layer l's cache.
FirstRows(l, m) == [i \in 1 .. m |-> RowAt(l, i - 1)]

\* Zero, Bad and NonFinite are no rows and no records.
MarkersAreNoData ==
  /\ MarkersAreNoSequences
  /\ \A v \in {Zero, Bad, NonFinite} :
       /\ \A j, x : v # [at |-> j, x |-> x]
       /\ \A q, l, rws : v # [q |-> q, layer |-> l, kv |-> rws]

\* The rows of the chunks so far and those of the next are the rows up to its end.
LEMMA FirstRowsNext ==
  ASSUME NEW l, NEW a \in Nat, NEW b \in Nat, a <= b
  PROVE  FirstRows(l, a) \o [i \in 1 .. b - a |-> RowAt(l, a + i - 1)] = FirstRows(l, b)
<1> DEFINE S == UNION {{RowAt(l, j)} : j \in Nat}
           s == FirstRows(l, a)
           t == [i \in 1 .. b - a |-> RowAt(l, a + i - 1)]
           u == s \o t
<1>1. \A j \in Nat : RowAt(l, j) \in S
  OBVIOUS
<1> HIDE DEF S
<1>2. \A i \in 1 .. a : i - 1 \in Nat
  OBVIOUS
<1>3. \A i \in 1 .. b - a : a + i - 1 \in Nat
  OBVIOUS
<1>4. s \in Seq(S) /\ Len(s) = a /\ \A i \in 1 .. a : s[i] = RowAt(l, i - 1)
  <2> HIDE DEF RowAt
  <2>1. s \in [1 .. a -> S]
    BY <1>1, <1>2 DEF FirstRows
  <2> QED
    BY <2>1 DEF FirstRows
<1>5. t \in Seq(S) /\ Len(t) = b - a /\ \A i \in 1 .. b - a : t[i] = RowAt(l, a + i - 1)
  <2> HIDE DEF RowAt
  <2>1. t \in [1 .. b - a -> S] /\ b - a \in Nat
    BY <1>1, <1>3
  <2> QED
    BY <2>1
<1> HIDE DEF s, t, RowAt
<1>6. /\ u \in Seq(S) /\ Len(u) = b
      /\ \A i \in 1 .. a : u[i] = s[i]
      /\ \A i \in 1 .. b - a : u[a + i] = t[i]
  <2>1. b - a \in Nat /\ a + (b - a) = b
    OBVIOUS
  <2>2. /\ u \in Seq(S) /\ Len(u) = Len(s) + Len(t)
        /\ \A i \in 1 .. Len(s) + Len(t) :
             u[i] = IF i <= Len(s) THEN s[i] ELSE t[i - Len(s)]
    BY <1>4, <1>5, ConcatProperties
  <2> HIDE DEF u
  <2>3. /\ u \in Seq(S) /\ Len(u) = b
        /\ \A i \in 1 .. b : u[i] = IF i <= a THEN s[i] ELSE t[i - a]
    BY <1>4, <1>5, <2>1, <2>2
  <2>4. \A i \in 1 .. a : i \in 1 .. b /\ i <= a
    OBVIOUS
  <2>5. \A i \in 1 .. b - a : a + i \in 1 .. b /\ ~ (a + i <= a) /\ (a + i) - a = i
    OBVIOUS
  <2> QED
    BY <2>3, <2>4, <2>5
<1> HIDE DEF u
<1>7. ASSUME NEW i \in 1 .. b
      PROVE  u[i] = RowAt(l, i - 1)
  <2>1. CASE i <= a
    BY <1>4, <1>6, <2>1
  <2>2. CASE i > a
    <3> DEFINE k == i - a
    <3>1. k \in 1 .. b - a /\ i = a + k /\ a + k - 1 = i - 1
      BY <2>2
    <3> HIDE DEF k
    <3> QED
      BY <1>5, <1>6, <3>1
  <2> QED
    BY <2>1, <2>2
<1>8. u = [i \in 1 .. b |-> u[i]]
  BY <1>6
<1>9. u = FirstRows(l, b)
  BY <1>7, <1>8 DEF FirstRows
<1> QED
  BY <1>9 DEF u, s, t

\* m[c] has the rows of the first c of the records p.
Merges(m, p) == m = [c \in 0 .. Grid |-> IF c = 0 THEN <<>> ELSE m[c-1] \o p[c-1].kv]

\* What the reduce merges, as the chain over the records.
LEMMA MergeIsChosen == Merged = (CHOOSE m : Merges(m, buf["fattn_partial"]))[Grid]
BY DEF Merged, Merges, NSplits

\* If every chunk has left its record, the reduce merges the rows up to the position.
LEMMA MergedRows ==
  ASSUME pos \in Nat, cell.n_kv \in Nat, cell.n_kv > pos, MaskHolds, NEW l,
         \A c \in Block : buf["fattn_partial"][c] = Record(l, c)
  PROVE  Merged = FirstRows(l, pos + 1)
<1> DEFINE n == cell.n_kv
           p == buf["fattn_partial"]
           lo(c) == Cut(ChunkLo(n, Grid, Tile, c))
           w == [c \in 0 .. Grid |-> FirstRows(l, lo(c))]
           g == CHOOSE m : Merges(m, p)
<1>1. Grid \in Nat \ {0} /\ Tile \in Nat \ {0}
  BY DecodeAssumption
<1>2. /\ lo(0) = 0 /\ lo(Grid) = pos + 1
      /\ \A c \in 0 .. Grid : lo(c) \in Nat
      /\ \A c \in 0 .. Grid-1 : lo(c) <= lo(c + 1)
  <2>1. /\ ChunkLo(n, Grid, Tile, 0) = 0
        /\ ChunkLo(n, Grid, Tile, Grid) = n
        /\ \A c \in 0 .. Grid-1 :
             /\ ChunkHi(n, Grid, Tile, c) = ChunkLo(n, Grid, Tile, c + 1)
             /\ ChunkLo(n, Grid, Tile, c) \in Nat
             /\ ChunkLo(n, Grid, Tile, c) <= ChunkHi(n, Grid, Tile, c)
    <3>1. n \in Nat
      OBVIOUS
    <3> HIDE DEF n
    <3> QED
      BY ONLY <1>1, <3>1, ChunksAreAdjacent
  <2>2. \A c \in 0 .. Grid : c \in 0 .. Grid-1 \/ c = Grid
    BY <1>1
  <2>3. \A c \in 0 .. Grid : ChunkLo(n, Grid, Tile, c) \in Nat
    BY <2>1, <2>2
  <2>4. \A c \in 0 .. Grid-1 : c + 1 \in 0 .. Grid /\ c \in 0 .. Grid
    BY <1>1
  <2> HIDE DEF n
  <2>5. \A c \in 0 .. Grid-1 : ChunkLo(n, Grid, Tile, c) <= ChunkLo(n, Grid, Tile, c + 1)
    BY <2>1
  <2>6. n \in Nat /\ n > pos
    BY DEF n
  <2>7. lo(0) = 0 /\ lo(Grid) = pos + 1
    BY <2>1, <2>6 DEF Cut, Least
  <2>8. \A c \in 0 .. Grid : lo(c) \in Nat
    BY <2>3 DEF Cut, Least
  <2>9. \A x, y \in Nat : x <= y => Cut(x) <= Cut(y)
    BY DEF Cut, Least
  <2> QED
    BY <2>3, <2>4, <2>5, <2>7, <2>8, <2>9
<1>3. \A c \in 0 .. Grid-1 : p[c].kv = [i \in 1 .. lo(c + 1) - lo(c) |-> RowAt(l, lo(c) + i - 1)]
  <2> TAKE c \in 0 .. Grid-1
  <2>1. c \in Block
    BY DEF Block
  <2>2. p[c].kv = RowsOf(l, c)
    <3>1. p[c] = Record(l, c)
      BY <2>1
    <3>2. Record(l, c).kv = RowsOf(l, c)
      BY DEF Record
    <3> QED
      BY <3>1, <3>2
  <2>3. Attended(c) = RowsFrom(lo(c), lo(c + 1))
    <3>1. ChunkHi(n, Grid, Tile, c) = ChunkLo(n, Grid, Tile, c + 1)
      <4>1. n \in Nat /\ c \in 0 .. Grid-1
        OBVIOUS
      <4> HIDE DEF n
      <4> QED
        BY ONLY <1>1, <4>1, ChunksAreAdjacent
    <3> QED
      BY <2>1, <3>1, ChunkAttends
  <2> DEFINE a == lo(c)
             b == lo(c + 1)
  <2>4. a \in Nat /\ b \in Nat /\ a <= b
    <3>1. c \in 0 .. Grid /\ c + 1 \in 0 .. Grid
      BY <1>1
    <3> QED
      BY <1>2, <3>1
  <2> HIDE DEF a, b, RowAt, p
  <2>5. Attended(c) = RowsFrom(a, b)
    BY <2>3 DEF a, b
  <2>6. Len(RowsFrom(a, b)) = b - a /\ \A i \in 1 .. b - a : RowsFrom(a, b)[i] = a + i - 1
    BY <2>4 DEF RowsFrom
  <2>7. RowsOf(l, c) = [i \in 1 .. b - a |-> RowAt(l, a + i - 1)]
    BY <2>5, <2>6 DEF RowsOf
  <2> QED
    BY <2>2, <2>7 DEF a, b
<1> HIDE DEF n, p, lo
<1>4. \A c \in 1 .. Grid : FirstRows(l, lo(c-1)) \o p[c-1].kv = FirstRows(l, lo(c))
  <2> TAKE c \in 1 .. Grid
  <2>1. c - 1 \in 0 .. Grid-1 /\ c - 1 \in 0 .. Grid /\ c \in 0 .. Grid /\ (c - 1) + 1 = c
    BY <1>1
  <2>2. lo(c-1) \in Nat /\ lo(c) \in Nat /\ lo(c-1) <= lo(c)
    BY <1>2, <2>1
  <2>3. p[c-1].kv = [i \in 1 .. lo(c) - lo(c-1) |-> RowAt(l, lo(c-1) + i - 1)]
    BY <1>3, <2>1
  <2> QED
    BY <2>2, <2>3, FirstRowsNext
<1>5. FirstRows(l, 0) = <<>>
  BY DEF FirstRows
<1>6. Merges(w, p)
  <2>1. ASSUME NEW c \in 0 .. Grid
        PROVE  w[c] = IF c = 0 THEN <<>> ELSE w[c-1] \o p[c-1].kv
    <3>1. CASE c = 0
      BY <1>2, <1>5, <3>1
    <3>2. CASE c # 0
      <4>1. c \in 1 .. Grid /\ c - 1 \in 0 .. Grid
        BY <1>1, <3>2
      <4>2. w[c-1] = FirstRows(l, lo(c-1)) /\ w[c] = FirstRows(l, lo(c))
        BY <4>1
      <4> HIDE DEF w
      <4> QED
        BY <1>4, <3>2, <4>1, <4>2
    <3> QED
      BY <3>1, <3>2
  <2>2. w = [c \in 0 .. Grid |-> w[c]]
    OBVIOUS
  <2> HIDE DEF w
  <2> QED
    BY <2>1, <2>2 DEF Merges
<1>7. Merges(g, p)
  BY <1>6
<1> HIDE DEF w, g
<1>8. \A c \in 0 .. Grid : g[c] = IF c = 0 THEN <<>> ELSE g[c-1] \o p[c-1].kv
  BY <1>7 DEF Merges
<1> DEFINE N == {c \in Nat : c <= Grid => g[c] = FirstRows(l, lo(c))}
<1>9. 0 \in N
  <2>1. 0 \in 0 .. Grid
    BY <1>1
  <2> QED
    BY <1>2, <1>5, <1>8, <2>1
<1>10. ASSUME NEW c \in Nat, c \in N
       PROVE  c + 1 \in N
  <2> SUFFICES ASSUME c + 1 <= Grid PROVE g[c+1] = FirstRows(l, lo(c+1))
    OBVIOUS
  <2> DEFINE d == c + 1
  <2>1. d \in 0 .. Grid /\ d \in 1 .. Grid /\ d # 0 /\ d - 1 = c /\ c <= Grid
    BY <1>1
  <2>2. g[d-1] = FirstRows(l, lo(d-1))
    BY <1>10, <2>1
  <2> HIDE DEF d
  <2>3. g[d] = FirstRows(l, lo(d))
    BY <1>4, <1>8, <2>1, <2>2
  <2> QED
    BY <2>3 DEF d
<1>11. \A c \in Nat : c \in N
  <2> HIDE DEF N
  <2> QED
    BY <1>9, <1>10, SetOfNaturals
<1>12. g[Grid] = FirstRows(l, lo(Grid))
  BY <1>1, <1>11
<1> QED
  BY <1>2, <1>12, MergeIsChosen DEF g, p

\* Then its result is attention over what the layer was given up to the position.
LEMMA AttentionOverInputs ==
  ASSUME MarkersAreNoData, pos \in Nat, cell.n_kv \in Nat, cell.n_kv > pos, MaskHolds, NEW l,
         \A c \in Block : buf["fattn_partial"][c] = Record(l, c)
  PROVE  Attention = Inputs(l, pos + 1)
<1> DEFINE q == buf["fattn_partial"][0].q
<1>1. 0 \in Block /\ 0 .. NSplits-1 = Block
  BY DecodeAssumption DEF Block, NSplits
<1>2. /\ \A c \in 0 .. NSplits-1 : buf["fattn_partial"][c] = Record(l, c)
      /\ q = RowAt(l, pos)
  <2>1. \A c \in 0 .. NSplits-1 : buf["fattn_partial"][c] = Record(l, c)
    BY <1>1
  <2>2. q = Record(l, 0).q
    BY <1>1
  <2>3. Record(l, 0).q = RowAt(l, pos)
    BY DEF Record
  <2> QED
    BY <2>1, <2>2, <2>3
<1>3. \A c \in 0 .. NSplits-1 : IsSeq(buf["fattn_partial"][c]) /\ buf["fattn_partial"][c].q = q
  <2> TAKE c \in 0 .. NSplits-1
  <2>1. buf["fattn_partial"][c] = Record(l, c)
    BY <1>2
  <2>2. Record(l, c) \notin {Zero, Bad, NonFinite}
    BY DEF MarkersAreNoData, Record
  <2>3. Record(l, c).q = RowAt(l, pos)
    BY DEF Record
  <2> QED
    BY <1>2, <2>1, <2>2, <2>3 DEF IsSeq
<1>4. \A j : RowAt(l, j) \notin {Zero, Bad, NonFinite} /\ RowAt(l, j).at = j
             /\ RowAt(l, j).x = Value(l - 1, j + 1)
  BY DEF MarkersAreNoData, RowAt
<1>5. /\ Len(Merged) = pos + 1
      /\ \A i \in 1 .. pos + 1 : Merged[i] = RowAt(l, i - 1)
  <2> HIDE DEF RowAt
  <2>1. Merged = FirstRows(l, pos + 1)
    BY MergedRows
  <2> QED
    BY <2>1 DEF FirstRows
<1>6. q # Bad /\ q.at = pos /\ q.x = Value(l - 1, pos + 1)
  BY <1>2, <1>4
<1> HIDE DEF q
<1>7. \A i \in 1 .. pos + 1 : /\ IsSeq(Merged[i]) /\ Merged[i].at = i - 1
                              /\ Merged[i].x = Value(l - 1, i)
  <2> TAKE i \in 1 .. pos + 1
  <2>1. Merged[i] = RowAt(l, i - 1) /\ (i - 1) + 1 = i
    BY <1>5
  <2> QED
    BY <1>4, <2>1 DEF IsSeq
<1>8. Merged[Len(Merged)].x = q.x
  BY <1>5, <1>6, <1>7
<1>9. Attention = [i \in 1 .. Len(Merged) |-> Merged[i].x]
  <2> HIDE DEF RowAt
  <2> QED
    BY <1>3, <1>5, <1>6, <1>7, <1>8 DEF Attention, q
<1> QED
  BY <1>5, <1>7, <1>9 DEF Inputs

(***************************************************************************)
(* Which windows write which buffers.                                      *)
(***************************************************************************)
\* The buffers that a window with operation op writes.
WrittenBy(op) ==
  CASE op = "embed" -> {"residual"}
    [] op \in {"norm", "ffnnorm"} -> {"residual", "xn"}
    [] op = "gemv" -> {"mixer_out", "k_stage", "gdn_state"}
    [] op = "conv" -> {"conv_ws"}
    [] op = "silu" -> {"mixer_out"}
    [] op = "step" -> {"gdn_state", "attn_out"}
    [] op = "rope" -> {"fattn_q", "k_stage"}
    [] op = "decode" -> {"fattn_partial"}
    [] op = "reduce" -> {"attn_out"}
    [] op \in {"out", "ffn"} -> {"proj_out"}
    [] op = "head" -> {"logits"}
    [] op = "emit" -> {"result_output"}
    [] OTHER -> {}

\* Only the first block's norms write the rows.
Untouched(b, name) ==
  \/ name \notin WrittenBy(WindowAt(at[b]))
  \/ b # 0 /\ WindowAt(at[b]) \in {"norm", "ffnnorm"}

\* A write leaves its value in the block's slice and all other buffers as they are.
LEMMA OneWritten ==
  ASSUME BufShape, NEW b \in Block, NEW n \in Scratch, NEW v, Write(b, n, v)
  PROVE  buf'[n][b] = v /\ \A m \in Scratch : m # n => buf'[m] = buf[m]
<1> DEFINE g == buf'
<1>1. g = Put(buf, n, b, v) /\ Slices(buf)
  BY DEF Write, Put, BufShape
<1> HIDE DEF g
<1>2. g[n][b] = v /\ \A m \in Scratch : m # n => g[m] = buf[m]
  BY <1>1, SliceWrite
<1> QED
  BY <1>2 DEF g

\* A block's window writes no buffer but its own.
LEMMA BlockWrites ==
  ASSUME BufShape, Lockstep, NEW b \in Block, Execute(b), NEW name \in Scratch,
         Untouched(b, name)
  PROVE  buf'[name] = buf[name]
<1> PICK l \in 0 .. NLayers + 1 :
      \/ Embed(b, l) \/ Norm(b, l) \/ Gemv(b, l)
      \/ ConvShiftConcat(b, l) \/ SsmConvSilu(b, l) \/ GdnStep(b, l) \/ StateStore(b, l)
      \/ QkNormRope(b, l) \/ KvAppend(b, l) \/ FattnDecode(b, l) \/ FattnReduce(b, l)
      \/ Out(b, l) \/ FfnNorm(b, l) \/ Ffn(b, l) \/ HeadGemv(b, l) \/ LogitsEmit(b, l)
  BY DEF Execute
<1>1. ASSUME NEW op, Turn(b, op, l)
      PROVE  op = WindowAt(at[b])
  BY <1>1 DEF Turn, Ready
<1>2. ASSUME NEW n \in Scratch, NEW v, Write(b, n, v), n # name
      PROVE  buf'[name] = buf[name]
  BY <1>2, OneWritten
<1>3. ASSUME NEW n \in Scratch, NEW m \in Scratch, NEW v, NEW u, n # m, n # "xn", m # "xn",
             buf' = Put(Put(buf, n, b, v), m, b, u), name \notin {n, m}
      PROVE  buf'[name] = buf[name]
  BY <1>3, TwoSlices
<1>4. CASE Embed(b, l)
  <2>1. Turn(b, "embed", l) /\ Write(b, "residual", cell.token)
    BY <1>4 DEF Embed
  <2>2. name # "residual" /\ "residual" \in Scratch
    BY <1>1, <2>1 DEF Untouched, WrittenBy, Scratch
  <2> QED
    BY <1>2, <2>1, <2>2
<1>5. CASE Norm(b, l)
  <2>1. Turn(b, "norm", l)
    BY <1>5 DEF Norm
  <2>2. b # 0 \/ name \notin {"residual", "xn"}
    BY <1>1, <2>1 DEF Untouched, WrittenBy
  <2>3. \/ buf' = buf
        \/ \E sum : buf' = [buf EXCEPT !["residual"] = All(sum), !["xn"] = All(sum)] /\ b = 0
    BY <1>5 DEF Norm
  <2>4. buf = [n \in Scratch |-> buf[n]]
    BY DEF BufShape, Slices
  <2> QED
    BY <2>2, <2>3, <2>4
<1>6. CASE FfnNorm(b, l)
  <2>1. Turn(b, "ffnnorm", l)
    BY <1>6 DEF FfnNorm
  <2>2. b # 0 \/ name \notin {"residual", "xn"}
    BY <1>1, <2>1 DEF Untouched, WrittenBy
  <2>3. \/ buf' = buf
        \/ \E sum : buf' = [buf EXCEPT !["residual"] = All(sum), !["xn"] = All(sum)] /\ b = 0
    BY <1>6 DEF FfnNorm
  <2>4. buf = [n \in Scratch |-> buf[n]]
    BY DEF BufShape, Slices
  <2> QED
    BY <2>2, <2>3, <2>4
<1>7. CASE Gemv(b, l)
  <2>1. Turn(b, "gemv", l)
    BY <1>7 DEF Gemv
  <2>2. name \notin {"mixer_out", "k_stage", "gdn_state"}
    BY <1>1, <2>1 DEF Untouched, WrittenBy
  <2>3. \/ \E v, u : buf' = Put(Put(buf, "gdn_state", b, v), "mixer_out", b, u)
        \/ \E v, u : buf' = Put(Put(buf, "mixer_out", b, v), "k_stage", b, u)
    BY <1>7 DEF Gemv, StateLoad, Put
  <2>4. {"mixer_out", "k_stage", "gdn_state"} \subseteq Scratch
    BY DEF Scratch
  <2> QED
    BY <1>3, <2>2, <2>3, <2>4
<1>8. CASE ConvShiftConcat(b, l)
  <2>1. Turn(b, "conv", l) /\ \E v : Write(b, "conv_ws", v)
    BY <1>8 DEF ConvShiftConcat
  <2>2. name # "conv_ws" /\ "conv_ws" \in Scratch
    BY <1>1, <2>1 DEF Untouched, WrittenBy, Scratch
  <2> QED
    BY <1>2, <2>1, <2>2
<1>9. CASE SsmConvSilu(b, l)
  <2>1. Turn(b, "silu", l) /\ \E v : Write(b, "mixer_out", v)
    BY <1>9 DEF SsmConvSilu
  <2>2. name # "mixer_out" /\ "mixer_out" \in Scratch
    BY <1>1, <2>1 DEF Untouched, WrittenBy, Scratch
  <2> QED
    BY <1>2, <2>1, <2>2
<1>10. CASE GdnStep(b, l)
  <2>1. Turn(b, "step", l)
    BY <1>10 DEF GdnStep
  <2>2. name \notin {"gdn_state", "attn_out"}
    BY <1>1, <2>1 DEF Untouched, WrittenBy
  <2>3. \E v : buf' = Put(Put(buf, "gdn_state", b, v), "attn_out", b, v)
    BY <1>10 DEF GdnStep, Put
  <2>4. {"gdn_state", "attn_out"} \subseteq Scratch
    BY DEF Scratch
  <2> QED
    BY <1>3, <2>2, <2>3, <2>4
<1>11. CASE StateStore(b, l) \/ KvAppend(b, l)
  BY <1>11 DEF StateStore, KvAppend
<1>12. CASE QkNormRope(b, l)
  <2>1. Turn(b, "rope", l)
    BY <1>12 DEF QkNormRope
  <2>2. name \notin {"fattn_q", "k_stage"}
    BY <1>1, <2>1 DEF Untouched, WrittenBy
  <2>3. \E v, u : buf' = Put(Put(buf, "fattn_q", b, v), "k_stage", b, u)
    BY <1>12 DEF QkNormRope, Put
  <2>4. {"fattn_q", "k_stage"} \subseteq Scratch
    BY DEF Scratch
  <2> QED
    BY <1>3, <2>2, <2>3, <2>4
<1>13. CASE FattnDecode(b, l)
  <2>1. Turn(b, "decode", l) /\ \E v : Write(b, "fattn_partial", v)
    BY <1>13 DEF FattnDecode
  <2>2. name # "fattn_partial" /\ "fattn_partial" \in Scratch
    BY <1>1, <2>1 DEF Untouched, WrittenBy, Scratch
  <2> QED
    BY <1>2, <2>1, <2>2
<1>14. CASE FattnReduce(b, l)
  <2>1. Turn(b, "reduce", l) /\ \E v : Write(b, "attn_out", v)
    BY <1>14 DEF FattnReduce
  <2>2. name # "attn_out" /\ "attn_out" \in Scratch
    BY <1>1, <2>1 DEF Untouched, WrittenBy, Scratch
  <2> QED
    BY <1>2, <2>1, <2>2
<1>15. CASE Out(b, l) \/ Ffn(b, l)
  <2>1. \E op \in {"out", "ffn"} : Turn(b, op, l) /\ \E v : Write(b, "proj_out", v)
    BY <1>15 DEF Out, Ffn
  <2>2. name # "proj_out" /\ "proj_out" \in Scratch
    BY <1>1, <2>1 DEF Untouched, WrittenBy, Scratch
  <2> QED
    BY <1>2, <2>1, <2>2
<1>16. CASE HeadGemv(b, l)
  <2>1. Turn(b, "head", l) /\ \E v : Write(b, "logits", v)
    BY <1>16 DEF HeadGemv
  <2>2. name # "logits" /\ "logits" \in Scratch
    BY <1>1, <2>1 DEF Untouched, WrittenBy, Scratch
  <2> QED
    BY <1>2, <2>1, <2>2
<1>17. CASE LogitsEmit(b, l)
  <2>1. Turn(b, "emit", l) /\ \E v : Write(b, "result_output", v)
    BY <1>17 DEF LogitsEmit
  <2>2. name # "result_output" /\ "result_output" \in Scratch
    BY <1>1, <2>1 DEF Untouched, WrittenBy, Scratch
  <2> QED
    BY <1>2, <2>1, <2>2
<1> QED
  BY <1>4, <1>5, <1>6, <1>7, <1>8, <1>9, <1>10, <1>11, <1>12, <1>13, <1>14, <1>15, <1>16, <1>17

\* Only the first block's norms write dbg_lout, only an append a cache.
LEMMA BlockKeepsMirrors ==
  ASSUME NEW b \in Block, Execute(b)
  PROVE  /\ b # 0 \/ WindowAt(at[b]) # "norm" => lout' = lout
         /\ WindowAt(at[b]) # "append" => kv' = kv
<1> PICK l \in 0 .. NLayers + 1 :
      \/ Embed(b, l) \/ Norm(b, l) \/ Gemv(b, l)
      \/ ConvShiftConcat(b, l) \/ SsmConvSilu(b, l) \/ GdnStep(b, l) \/ StateStore(b, l)
      \/ QkNormRope(b, l) \/ KvAppend(b, l) \/ FattnDecode(b, l) \/ FattnReduce(b, l)
      \/ Out(b, l) \/ FfnNorm(b, l) \/ Ffn(b, l) \/ HeadGemv(b, l) \/ LogitsEmit(b, l)
  BY DEF Execute
<1>1. CASE Norm(b, l)
  <2>1. Turn(b, "norm", l) /\ (b # 0 => lout' = lout) /\ kv' = kv
    BY <1>1 DEF Norm, persistent
  <2> QED
    BY <2>1 DEF Turn, Ready
<1>2. CASE KvAppend(b, l)
  <2>1. Turn(b, "append", l) /\ lout' = lout
    BY <1>2 DEF KvAppend
  <2> QED
    BY <2>1 DEF Turn, Ready
<1>3. CASE ~ Norm(b, l) /\ ~ KvAppend(b, l)
  BY <1>3 DEF Embed, Gemv, ConvShiftConcat, SsmConvSilu, GdnStep, StateStore, QkNormRope,
              FattnDecode, FattnReduce, Out, FfnNorm, Ffn, HeadGemv, LogitsEmit, persistent
<1> QED
  BY <1>1, <1>2, <1>3

(***************************************************************************)
(* Where the values of the model are: in the cells, the states, the caches *)
(* and, window by window, in the scratch buffers.                          *)
(***************************************************************************)
\* The cells of the pass: a window past the position, and the mask up to it.
CellsHold ==
  phase \in {"ring", "running"} =>
    /\ cell.n_kv > pos /\ cell.n_kv <= NCtx
    /\ MaskHolds
    /\ phase = "running" => cell.token = Known[pos + 1]

\* The states of each DeltaNet layer: every token so far, and this pass's in its window.
StatesHold ==
  \A l \in Kind("dn"), b \in Block :
    IF phase = "running" THEN DnSlice(l, b, Inputs(l, pos), Given(l))
                         ELSE DnSettled(l, b, Inputs(l, pos))

\* Block b has appended the row of this pass to layer l's cache.
Appended(l, b) == phase = "running" /\ at[b] > Stage(l, 4)

\* The caches: the row of every token before this one, and of this one once appended.
CachesHold ==
  \A l \in Kind("attn"), j \in 0 .. NCtx-1 :
    /\ kv[l][j] = [b \in Block |-> kv[l][j][b]]
    /\ \A b \in Block : j < pos \/ (j = pos /\ Appended(l, b)) => kv[l][j][b] = RowAt(l, j)

\* The residual stream and its norm, which the first block writes.
RowsHold(v) == \A b \in Block : buf["residual"][b] = v /\ buf["xn"][b] = v

\* The residual stream, at the windows that read it.
StreamHolds ==
  /\ at[0] <= 2 => \A b \in Block : at[b] >= 2 => buf["residual"][b] = Given(1)
  /\ \A l \in 1 .. NLayers + 1 : at[0] \in Stage(l, 2) .. Stage(l, 8) => RowsHold(Given(l))
  /\ \A l \in 1 .. NLayers : at[0] \in Stage(l, 9) .. Stage(l, 10) => RowsHold(Given(l + 1))

\* What a layer's mixer and its FFN leave for the stream.
OutHolds(l, b) ==
  /\ at[b] \in Stage(l, 7) .. Stage(l, 8) => buf["attn_out"][b] = Given(l + 1)
  /\ l \in Kind("dn") /\ at[b] = Stage(l, 6) => buf["attn_out"][b] = Given(l + 1)
  /\ at[b] \in Stage(l, 8) .. Stage(l, 11) => buf["proj_out"][b] = Given(l + 1)

\* What an attention layer leaves for its own later windows.
AttnHolds(l, b) ==
  /\ AttnSlice(l, b, Given(l))
  /\ at[b] = Stage(l, 3) => buf["k_stage"][b] = Given(l)
  /\ at[b] = Stage(l, 4) => buf["k_stage"][b] = RowAt(l, pos)
  /\ at[b] \in Stage(l, 6) .. Stage(l, 7) => buf["fattn_partial"][b] = Record(l, b)

\* The logits, once the head has run.
LogitsHold == \A b \in Block : at[b] >= Last => buf["logits"][b] = Given(NLayers + 1)

\* The layer outputs the host mirrors.
MirrorsHold == \A l \in 2 .. NLayers : at[0] > Stage(l, 1) => lout[l - 1] = Given(l)

\* The buffers of a pass.
PassHolds ==
  phase = "running" =>
    /\ StreamHolds
    /\ \A l \in 1 .. NLayers, b \in Block : OutHolds(l, b)
    /\ \A l \in Kind("attn"), b \in Block : AttnHolds(l, b)
    /\ LogitsHold
    /\ MirrorsHold

MirrorShape == lout = [l \in 1 .. NLayers - 1 |-> lout[l]]

\* The model invariant: every value is where the windows ahead of it read it.
ModelInv == CellsHold /\ StatesHold /\ CachesHold /\ PassHolds /\ MirrorShape

(***************************************************************************)
(* The tokens and values of a run.                                         *)
(***************************************************************************)
LEMMA KnownTokens ==
  ASSUME LoopInv
  PROVE  /\ Known \in Seq(UNION {{Known[i]} : i \in 1 .. Len(Known)})
         /\ Len(prompt) \in Nat \ {0} /\ Len(emitted) \in Nat /\ pos \in Nat
         /\ Len(Known) = Len(prompt) + Len(emitted)
         /\ \A i \in 1 .. Len(prompt) : Known[i] = prompt[i]
         /\ \A i \in 1 .. Len(emitted) : Known[Len(prompt) + i] = emitted[i]
         /\ pos <= Len(Known)
         /\ phase \in {"ring", "running"} => pos + 1 \in 1 .. Len(Known)
<1>1. /\ Len(prompt) \in Nat \ {0}
      /\ prompt = [i \in 1 .. Len(prompt) |-> prompt[i]]
  BY DecodeAssumption DEF LoopInv
<1>2. PICK S : emitted \in Seq(S)
  BY DEF LoopInv, IsSequence
<1> DEFINE P == UNION {{prompt[i]} : i \in 1 .. Len(prompt)}
           T == P \cup S
           k == Known
<1>3. prompt \in Seq(T)
  <2>1. \A i \in 1 .. Len(prompt) : prompt[i] \in T
    OBVIOUS
  <2> HIDE DEF T
  <2> QED
    BY <1>1, <2>1
<1>4. emitted \in Seq(T)
  BY <1>2
<1> HIDE DEF T
<1>5. /\ k \in Seq(T) /\ Len(k) = Len(prompt) + Len(emitted)
      /\ \A i \in 1 .. Len(prompt) + Len(emitted) :
           k[i] = IF i <= Len(prompt) THEN prompt[i] ELSE emitted[i - Len(prompt)]
  BY <1>3, <1>4, ConcatProperties DEF Known
<1>6. Len(emitted) \in Nat
  BY <1>2
<1> HIDE DEF k
<1>7. k \in Seq(UNION {{k[i]} : i \in 1 .. Len(k)})
  <2>1. k = [i \in 1 .. Len(k) |-> k[i]] /\ Len(k) \in Nat
    BY <1>5
  <2> DEFINE U == UNION {{k[i]} : i \in 1 .. Len(k)}
  <2>2. \A i \in 1 .. Len(k) : k[i] \in U
    OBVIOUS
  <2> HIDE DEF U
  <2>3. k \in Seq(U)
    BY <2>1, <2>2
  <2> QED
    BY <2>3 DEF U
<1>8. \A i \in 1 .. Len(prompt) : k[i] = prompt[i]
  BY <1>1, <1>5, <1>6
<1>9. \A i \in 1 .. Len(emitted) : k[Len(prompt) + i] = emitted[i]
  <2> TAKE i \in 1 .. Len(emitted)
  <2>1. /\ Len(prompt) + i \in 1 .. Len(prompt) + Len(emitted)
        /\ ~ (Len(prompt) + i <= Len(prompt)) /\ (Len(prompt) + i) - Len(prompt) = i
    BY <1>1, <1>6
  <2> QED
    BY <1>5, <2>1
<1>10. /\ pos \in Nat /\ Chosen \in Nat
       /\ Len(emitted) = IF Chosen <= Len(prompt) THEN 0 ELSE Chosen - Len(prompt)
       /\ Chosen >= pos
       /\ phase \in {"ring", "running"} => Chosen = pos + 1
  BY DEF LoopInv, Chosen
<1>11. Len(k) >= Chosen
  BY <1>1, <1>5, <1>6, <1>10
<1>12. pos <= Len(k) /\ (phase \in {"ring", "running"} => pos + 1 \in 1 .. Len(k))
  BY <1>1, <1>5, <1>6, <1>10, <1>11
<1> QED
  BY <1>1, <1>5, <1>6, <1>7, <1>8, <1>9, <1>10, <1>12 DEF k

\* What the layers are given in a pass.
LEMMA GivenInPass ==
  ASSUME LoopInv, phase \in {"ring", "running"}
  PROVE  /\ Given(1) = Known[pos + 1]
         /\ \A l \in 1 .. NLayers : /\ Given(l + 1) = Inputs(l, pos + 1)
                                    /\ Given(l + 1) = Append(Inputs(l, pos), Given(l))
                                    /\ IsSequence(Given(l + 1)) /\ Len(Given(l + 1)) = pos + 1
                                    /\ Given(l + 1)[pos + 1] = Given(l)
<1>1. /\ Known \in Seq(UNION {{Known[i]} : i \in 1 .. Len(Known)})
      /\ pos \in Nat /\ pos + 1 \in 1 .. Len(Known)
  BY KnownTokens
<1>2. NLayers \in Nat
  BY DecodeAssumption DEF NLayers
<1> HIDE DEF NLayers
<1>3. Given(1) = Known[pos + 1]
  BY <1>1, ValueOfLayer DEF Given
<1>4. ASSUME NEW l \in 1 .. NLayers
      PROVE  /\ Given(l + 1) = Inputs(l, pos + 1)
             /\ Given(l + 1) = Append(Inputs(l, pos), Given(l))
             /\ IsSequence(Given(l + 1)) /\ Len(Given(l + 1)) = pos + 1
             /\ Given(l + 1)[pos + 1] = Given(l)
  <2>1. (l + 1) - 1 = l
    BY <1>2
  <2>2. Value(l, pos + 1) = Inputs(l, pos + 1)
    BY <1>1, ValueOfLayer
  <2>3. Given(l + 1) = Inputs(l, pos + 1)
    BY <2>1, <2>2 DEF Given
  <2> DEFINE v(i) == Value(l - 1, i)
             S == UNION {{v(i)} : i \in 1 .. pos + 1}
             s == [i \in 1 .. pos |-> v(i)]
             t == [i \in 1 .. pos + 1 |-> v(i)]
  <2>4. \A i \in 1 .. pos + 1 : v(i) \in S
    OBVIOUS
  <2> HIDE DEF S, v
  <2>5. s \in Seq(S) /\ Len(s) = pos /\ t \in Seq(S) /\ Len(t) = pos + 1
    BY <1>1, <2>4
  <2>6. pos + 1 \in 1 .. pos + 1
    BY <1>1
  <2>7. t[pos + 1] = v(pos + 1) /\ v(pos + 1) \in S
    BY <2>4, <2>6
  <2>8. t = Append(s, v(pos + 1))
    BY <1>1, <2>5, <2>7
  <2>9. IsSequence(t)
    BY <2>5 DEF IsSequence
  <2>10. Inputs(l, pos) = s /\ Inputs(l, pos + 1) = t /\ Given(l) = v(pos + 1)
    BY DEF Inputs, Given, v
  <2> QED
    BY <2>3, <2>5, <2>7, <2>8, <2>9, <2>10
<1> QED
  BY <1>3, <1>4

\* While the loop's tokens and cells stay, so do the values of the model.
LEMMA ValuesKept ==
  ASSUME UNCHANGED <<prompt, emitted, pos, cell>>
  PROVE  /\ Known' = Known
         /\ \A l, n : Value(l, n)' = Value(l, n) /\ Inputs(l, n)' = Inputs(l, n)
                      /\ RowAt(l, n)' = RowAt(l, n)
         /\ \A l : Given(l)' = Given(l) /\ Inputs(l, pos)' = Inputs(l, pos)
                   /\ RowAt(l, pos)' = RowAt(l, pos)
         /\ \A l, c : Record(l, c)' = Record(l, c)
<1>1. Known' = Known
  BY DEF Known
<1>2. \A l, n : Value(l, n)' = Value(l, n)
  BY <1>1 DEF Value
<1>3. \A l, n : Inputs(l, n)' = Inputs(l, n) /\ RowAt(l, n)' = RowAt(l, n)
  BY <1>2 DEF Inputs, RowAt
<1>4. \A l : Given(l)' = Given(l) /\ Inputs(l, pos)' = Inputs(l, pos)
             /\ RowAt(l, pos)' = RowAt(l, pos)
  BY <1>2 DEF Given, Inputs, RowAt
<1>5. \A c : Attended(c)' = Attended(c)
  BY DEF Attended
<1>6. \A l, c : RowsOf(l, c)' = RowsOf(l, c)
  BY <1>2, <1>5 DEF RowsOf, RowAt
<1>7. \A l, c : Record(l, c)' = Record(l, c)
  BY <1>4, <1>6 DEF Record
<1> QED
  BY <1>1, <1>2, <1>3, <1>4, <1>7

(***************************************************************************)
(* The operation of every window.                                          *)
(***************************************************************************)
LEMMA StageOps ==
  /\ NLayers \in Nat /\ Last = Stage(NLayers + 1, 3) /\ Last \in Nat
  /\ WindowAt(1) = "embed"
  /\ \A l \in 1 .. NLayers :
       /\ \A i \in 1 .. 9 : LayerAt(Stage(l, i)) = l
       /\ WindowAt(Stage(l, 1)) = "norm" /\ WindowAt(Stage(l, 2)) = "gemv"
       /\ WindowAt(Stage(l, 7)) = "out" /\ WindowAt(Stage(l, 8)) = "ffnnorm"
       /\ WindowAt(Stage(l, 9)) = "ffn"
       /\ l \in Kind("dn") => /\ WindowAt(Stage(l, 3)) = "conv" /\ WindowAt(Stage(l, 4)) = "silu"
                              /\ WindowAt(Stage(l, 5)) = "step" /\ WindowAt(Stage(l, 6)) = "store"
       /\ l \notin Kind("dn") =>
            /\ WindowAt(Stage(l, 3)) = "rope" /\ WindowAt(Stage(l, 4)) = "append"
            /\ WindowAt(Stage(l, 5)) = "decode" /\ WindowAt(Stage(l, 6)) = "reduce"
  /\ \A i \in 1 .. 3 : /\ LayerAt(Stage(NLayers + 1, i)) = NLayers + 1
                       /\ WindowAt(Stage(NLayers + 1, i)) = <<"norm", "head", "emit">>[i]
<1>1. NLayers \in Nat
  BY DecodeAssumption DEF NLayers
<1>2. WindowAt(1) = "embed"
  BY DEF WindowAt
<1>3. ASSUME NEW l \in 1 .. NLayers, NEW i \in 1 .. 9
      PROVE  /\ LayerAt(Stage(l, i)) = l
             /\ WindowAt(Stage(l, i)) = (IF l \in Kind("dn") THEN DnBlock ELSE AttnBlock)[i]
  BY <1>3, StageWindow
<1>4. ASSUME NEW i \in 1 .. 3
      PROVE  /\ LayerAt(Stage(NLayers + 1, i)) = NLayers + 1
             /\ WindowAt(Stage(NLayers + 1, i)) = <<"norm", "head", "emit">>[i]
  <2> DEFINE w == Stage(NLayers + 1, i)
             n == NLayers
  <2>1. w + 7 = 9 * (n + 1) + (i - 1) /\ n \in Nat /\ w # 1
    <3> HIDE DEF n
    <3> QED
      BY <1>1 DEF Stage, n
  <2> HIDE DEF w, n
  <2>2. (w + 7) \div 9 = n + 1 /\ (w + 7) % 9 = i - 1
    BY <2>1, SMTT(30)
  <2>3. LayerAt(w) = n + 1 /\ ~ (n + 1 <= n) /\ (i - 1) + 1 = i
    BY <2>1, <2>2 DEF LayerAt
  <2>4. WindowAt(w) = <<"norm", "head", "emit">>[i]
    BY <2>1, <2>2, <2>3 DEF WindowAt, n
  <2> QED
    BY <2>3, <2>4 DEF w, n
<1>5. ASSUME NEW l \in 1 .. NLayers
      PROVE  /\ WindowAt(Stage(l, 1)) = "norm" /\ WindowAt(Stage(l, 2)) = "gemv"
             /\ WindowAt(Stage(l, 7)) = "out" /\ WindowAt(Stage(l, 8)) = "ffnnorm"
             /\ WindowAt(Stage(l, 9)) = "ffn"
             /\ l \in Kind("dn") =>
                  /\ WindowAt(Stage(l, 3)) = "conv" /\ WindowAt(Stage(l, 4)) = "silu"
                  /\ WindowAt(Stage(l, 5)) = "step" /\ WindowAt(Stage(l, 6)) = "store"
             /\ l \notin Kind("dn") =>
                  /\ WindowAt(Stage(l, 3)) = "rope" /\ WindowAt(Stage(l, 4)) = "append"
                  /\ WindowAt(Stage(l, 5)) = "decode" /\ WindowAt(Stage(l, 6)) = "reduce"
  <2>1. CASE l \in Kind("dn")
    <3>1. \A i \in 1 .. 9 : WindowAt(Stage(l, i)) = DnBlock[i]
      BY <1>3, <2>1
    <3> QED
      BY <2>1, <3>1 DEF DnBlock
  <2>2. CASE l \notin Kind("dn")
    <3>1. \A i \in 1 .. 9 : WindowAt(Stage(l, i)) = AttnBlock[i]
      BY <1>3, <2>2
    <3> QED
      BY <2>2, <3>1 DEF AttnBlock
  <2> QED
    BY <2>1, <2>2
<1>6. Last = Stage(NLayers + 1, 3) /\ Last \in Nat
  BY <1>1 DEF Last, Stage
<1> QED
  BY <1>1, <1>2, <1>3, <1>4, <1>5, <1>6

\* Where the first block's norms are.
LEMMA NormStages ==
  ASSUME NEW w \in 1 .. Last
  PROVE  /\ WindowAt(w) = "embed" => w = 1
         /\ WindowAt(w) = "norm" => LayerAt(w) \in 1 .. NLayers + 1 /\ w = Stage(LayerAt(w), 1)
         /\ WindowAt(w) = "ffnnorm" => LayerAt(w) \in 1 .. NLayers /\ w = Stage(LayerAt(w), 8)
<1>1. CASE w = 1
  BY <1>1, StageOps
<1>2. CASE w # 1
  <2> DEFINE l == LayerAt(w)
  <2>1. w \in 2 .. Last
    BY <1>2, StageOps
  <2>2. PICK i \in 1 .. 9 : w = Stage(l, i)
    BY <2>1, StageOfWindow
  <2>3. l \in 1 .. NLayers + 1 /\ NLayers \in Nat
    BY <2>1, StageOfWindow, StageOps
  <2>4. CASE l \in 1 .. NLayers
    <3>1. WindowAt(w) = (IF l \in Kind("dn") THEN DnBlock ELSE AttnBlock)[i]
      BY <2>2, <2>4, StageWindow
    <3>2. l \in 1 .. NLayers + 1
      BY <2>3
    <3> HIDE DEF l
    <3>3. /\ WindowAt(w) # "embed"
          /\ WindowAt(w) = "norm" => i = 1
          /\ WindowAt(w) = "ffnnorm" => i = 8
      BY <3>1 DEF DnBlock, AttnBlock
    <3> QED
      BY <2>2, <2>4, <3>2, <3>3 DEF l
  <2>5. CASE l = NLayers + 1
    <3>1. i \in 1 .. 3
      <4> HIDE DEF l
      <4>1. 9 * l - 8 + i <= 9 * l - 8 + 3
        BY <2>1, <2>2, <2>3, <2>5, StageOps DEF Stage
      <4> QED
        BY <2>3, <4>1
    <3>2. WindowAt(w) = <<"norm", "head", "emit">>[i]
      BY <2>2, <2>5, <3>1, StageOps
    <3>3. /\ WindowAt(w) \notin {"embed", "ffnnorm"}
          /\ WindowAt(w) = "norm" => i = 1
      BY <3>1, <3>2
    <3> QED
      BY <2>2, <2>3, <3>3
  <2> QED
    BY <2>3, <2>4, <2>5
<1> QED
  BY <1>1, <1>2

\* How the windows of different stages lie.
LEMMA StageArithmetic ==
  /\ \A l \in Nat : /\ \A i \in 1 .. 11 : Stage(l, i) \in Int
                    /\ \A i \in 1 .. 10 : Stage(l, i) + 1 = Stage(l, i + 1)
                    /\ Stage(l, 10) = Stage(l + 1, 1) /\ Stage(l, 11) = Stage(l + 1, 2)
                    /\ \A i, j \in 1 .. 11 : Stage(l, i) < Stage(l, j) <=> i < j
  /\ Stage(1, 1) = 2
  /\ \A l \in Nat \ {0} : \A i \in 1 .. 11 : Stage(l, i) >= 2
  /\ \A l, m \in Nat :
       /\ Stage(m, 2) \in Stage(l, 2) .. Stage(l, 8) => l = m
       /\ Stage(m, 2) \notin Stage(l, 9) .. Stage(l, 10)
       /\ Stage(m, 9) \notin Stage(l, 2) .. Stage(l, 8)
       /\ Stage(m, 9) \in Stage(l, 9) .. Stage(l, 10) => l = m
BY DEF Stage

(***************************************************************************)
(* A block's step preserves the model invariant.                           *)
(***************************************************************************)
\* What a block that executes a window knows.
LEMMA InPass ==
  ASSUME DecodeInv, LoopInv, FlowInv, ModelInv, NEW b \in Block, Execute(b)
  PROVE  /\ phase = "running" /\ phase' = "running" /\ pos' = pos /\ cell' = cell
         /\ pos \in Nat /\ cell.n_kv \in Nat /\ cell.n_kv > pos /\ cell.n_kv <= NCtx
         /\ cell.kv_row = pos /\ cell.positions = pos /\ cell.token = Given(1) /\ MaskHolds
         /\ at[b] \in 1 .. Last /\ at'[b] = at[b] + 1
         /\ \A c \in Block : at[c] \in Nat /\ (at[c] = at[b] \/ at[c] = at[b] + 1)
         /\ \A c \in Block : c # b => at'[c] = at[c]
         /\ BufShape /\ StateShape /\ Lockstep
<1>1. /\ phase = "running" /\ at[b] \in 1 .. Last
      /\ \A c \in Block : at[c] \in at[b] .. at[b] + 1
      /\ at' = [at EXCEPT ![b] = at[b] + 1]
  BY BlockAdvances DEF FlowInv
<1>2. UNCHANGED <<phase, pos, cell>>
  BY BlockLeavesCells
<1>3. cell.n_kv \in Nat /\ pos \in Nat /\ cell.kv_row = pos /\ cell.positions = pos
  BY <1>1 DEF DecodeInv, CellsTyped, InputsOfPosition
<1>4. cell.n_kv > pos /\ cell.n_kv <= NCtx /\ MaskHolds /\ cell.token = Known[pos + 1]
  BY <1>1 DEF ModelInv, CellsHold
<1>5. Given(1) = Known[pos + 1]
  BY <1>1, GivenInPass
<1>6. \A c \in Block : at'[c] = IF c = b THEN at[b] + 1 ELSE at[c]
  BY <1>1 DEF FlowInv, Lockstep
<1>7. \A c \in Block : at[c] \in Nat /\ (at[c] = at[b] \/ at[c] = at[b] + 1)
  <2>1. Last \in Nat
    BY StageOps
  <2> HIDE DEF Last
  <2> QED
    BY <1>1, <2>1
<1> QED
  BY <1>1, <1>2, <1>3, <1>4, <1>5, <1>6, <1>7 DEF FlowInv

\* ... as they do in a block's step.
LEMMA ValuesInPass ==
  ASSUME DecodeInv, LoopInv, FlowInv, ModelInv, NEW b \in Block, Execute(b)
  PROVE  /\ \A l : Given(l)' = Given(l) /\ Inputs(l, pos)' = Inputs(l, pos)
                   /\ RowAt(l, pos)' = RowAt(l, pos)
         /\ \A l, n : RowAt(l, n)' = RowAt(l, n)
         /\ \A l, c : Record(l, c)' = Record(l, c)
         /\ Known' = Known
<1>1. UNCHANGED <<pos, cell>>
  BY BlockLeavesCells
<1>2. UNCHANGED <<prompt, emitted>>
  BY BlockLeavesHost
<1> QED
  BY <1>1, <1>2, ValuesKept

\* A layer is a DeltaNet layer or an attention layer.
LEMMA KindsOfLayers ==
  /\ NLayers \in Nat
  /\ \A l \in 1 .. NLayers : l \notin Kind("dn") <=> l \in Kind("attn")
  /\ \A kind \in {"dn", "attn"} : Kind(kind) \subseteq 1 .. NLayers
BY DecodeAssumption DEF NLayers, Kind

\* What a layer is given is a sequence, one value per token.
LEMMA InputsAreSequence ==
  ASSUME NEW l, NEW n \in Nat
  PROVE  IsSequence(Inputs(l, n)) /\ Len(Inputs(l, n)) = n
<1> DEFINE v(i) == Value(l - 1, i)
           S == UNION {{v(i)} : i \in 1 .. n}
           s == [i \in 1 .. n |-> v(i)]
<1>1. \A i \in 1 .. n : v(i) \in S
  OBVIOUS
<1> HIDE DEF S, v
<1>2. s \in Seq(S) /\ Len(s) = n
  BY <1>1
<1> QED
  BY <1>2 DEF Inputs, IsSequence, v

\* The window after a layer's norm reads what the norm has published.
LEMMA NormIsRead ==
  ASSUME DecodeInv, LoopInv, FlowInv, ModelInv, NEW b \in Block, Execute(b),
         NEW l \in 1 .. NLayers + 1, at[b] = Stage(l, 2)
  PROVE  Whole(buf["xn"]) = Given(l)
<1>1. /\ phase = "running" /\ BufShape
      /\ \A d \in Block : at[d] = at[b] \/ at[d] = at[b] + 1
  BY InPass
<1>2. 0 \in Block /\ NLayers \in Nat /\ "xn" \in Scratch
  BY DecodeAssumption, StageOps DEF Block, Scratch
<1>3. Stage(l, 2) \in Nat /\ Stage(l, 8) = Stage(l, 2) + 6
  BY <1>2 DEF Stage
<1>4. at[0] \in Stage(l, 2) .. Stage(l, 8)
  BY <1>1, <1>2, <1>3
<1>5. \A d \in Block : buf["xn"][d] = Given(l)
  BY <1>1, <1>4 DEF ModelInv, PassHolds, StreamHolds, RowsHold
<1> QED
  BY <1>1, <1>2, <1>5, WholeOf

\* A boundary is between a block that has written a buffer and one that reads it.
LEMMA OutStep ==
  ASSUME MarkersAreNoData, DecodeInv, LoopInv, FlowInv, ModelInv, NEW b \in Block, Execute(b),
         NEW l \in 1 .. NLayers, NEW c \in Block
  PROVE  OutHolds(l, c)'
<1>1. /\ phase = "running" /\ pos \in Nat /\ cell.n_kv \in Nat /\ cell.n_kv > pos /\ MaskHolds
      /\ at[b] \in 1 .. Last /\ at'[b] = at[b] + 1
      /\ \A d \in Block : at[d] \in Nat /\ (at[d] = at[b] \/ at[d] = at[b] + 1)
      /\ \A d \in Block : d # b => at'[d] = at[d]
      /\ BufShape /\ StateShape /\ Lockstep
  BY InPass
<1>2. Given(l + 1)' = Given(l + 1)
  BY ValuesInPass
<1>3. /\ StreamHolds
      /\ \A d \in Block : OutHolds(l, d)
      /\ \A m \in Kind("attn"), d \in Block : AttnHolds(m, d)
  BY <1>1 DEF ModelInv, PassHolds
<1>4. {"attn_out", "proj_out", "xn", "gdn_state", "mixer_out"} \subseteq Scratch
  BY DEF Scratch
<1>5. CASE c # b
  <2>1. buf'["attn_out"][c] = buf["attn_out"][c] /\ buf'["proj_out"][c] = buf["proj_out"][c]
    BY <1>1, <1>4, <1>5, BlockKeepsOthers DEF Kept, OthersKept
  <2>2. at'[c] = at[c]
    BY <1>1, <1>5
  <2> QED
    BY <1>2, <1>3, <2>1, <2>2 DEF OutHolds
<1>6. CASE c = b
  <2> DEFINE w == at[b]
             s == Stage(l, 5)
  <2>1. w \in Nat /\ at'[b] = w + 1 /\ \A d \in Block : at[d] = w \/ at[d] = w + 1
    BY <1>1
  <2>2. /\ s \in Nat /\ Stage(l, 6) = s + 1 /\ Stage(l, 7) = s + 2 /\ Stage(l, 8) = s + 3
        /\ Stage(l, 9) = s + 4 /\ Stage(l, 10) = s + 5 /\ Stage(l, 11) = s + 6
    BY DEF Stage
  <2>3. /\ \A i \in 1 .. 9 : LayerAt(Stage(l, i)) = l
        /\ WindowAt(Stage(l, 7)) = "out" /\ WindowAt(Stage(l, 8)) = "ffnnorm"
        /\ WindowAt(Stage(l, 9)) = "ffn"
        /\ l \in Kind("dn") => WindowAt(s) = "step" /\ WindowAt(Stage(l, 6)) = "store"
        /\ l \notin Kind("dn") => WindowAt(Stage(l, 6)) = "reduce"
    BY StageOps
  <2>4. WindowAt(Stage(l, 10)) \in {"norm"}
    <3>1. Stage(l, 10) = Stage(l + 1, 1) /\ NLayers \in Nat
      BY StageArithmetic, StageOps
    <3>2. CASE l = NLayers
      BY <3>1, <3>2, StageOps
    <3>3. CASE l # NLayers
      <4>1. l + 1 \in 1 .. NLayers
        BY <3>1, <3>3
      <4> QED
        BY <3>1, <4>1, StageOps
    <3> QED
      BY <3>2, <3>3
  <2> HIDE DEF s, w
  <2>5. /\ w = Stage(l, 7) => Out(b, l)
        /\ w = Stage(l, 9) => Ffn(b, l)
        /\ w = s /\ l \in Kind("dn") => GdnStep(b, l)
        /\ w = Stage(l, 6) /\ l \notin Kind("dn") => FattnReduce(b, l)
    BY <2>3, BlockExecutes DEF s, w
  <2>6. /\ w \in {Stage(l, 8), Stage(l, 9), Stage(l, 10)} => buf'["attn_out"] = buf["attn_out"]
        /\ w = Stage(l, 7) => buf'["attn_out"] = buf["attn_out"]
        /\ w = Stage(l, 6) /\ l \in Kind("dn") => buf'["attn_out"] = buf["attn_out"]
        /\ w \in {Stage(l, 8), Stage(l, 10)} => buf'["proj_out"] = buf["proj_out"]
    <3>1. ASSUME NEW n \in Scratch, n \notin WrittenBy(WindowAt(w))
          PROVE  buf'[n] = buf[n]
      BY <1>1, <3>1, BlockWrites DEF Untouched, w
    <3>2. /\ "attn_out" \notin WrittenBy("out") \cup WrittenBy("ffnnorm") \cup WrittenBy("ffn")
                               \cup WrittenBy("norm") \cup WrittenBy("store")
          /\ "proj_out" \notin WrittenBy("ffnnorm") \cup WrittenBy("norm")
      BY DEF WrittenBy
    <3> HIDE DEF WrittenBy
    <3> QED
      BY <1>4, <2>3, <2>4, <3>1, <3>2
  <2>7. ASSUME w = s, l \in Kind("dn")
        PROVE  buf'["attn_out"][b] = Given(l + 1)
    <3> DEFINE before == Inputs(l, pos)
               win == Window(Append(before, Given(l)))
    <3>1. \A d \in Block : DnSlice(l, d, before, Given(l))
      BY <1>1, <2>7 DEF ModelInv, StatesHold
    <3>2. \A d \in Block : buf["mixer_out"][d] = win
      <4> TAKE d \in Block
      <4>1. at[d] \in {Stage(l, 5), Stage(l, 6)}
        BY <2>1, <2>2, <2>7 DEF s
      <4> QED
        BY <3>1, <4>1 DEF DnSlice, DnScratch
    <3>3. Whole(buf["mixer_out"]) = win
      BY <1>1, <1>4, <3>2, WholeOf
    <3>4. buf["gdn_state"][b] = before
      BY <2>7, <3>1 DEF DnSlice, DnScratch, s, w
    <3>5. IsSequence(before) /\ Append(before, Given(l)) = Given(l + 1)
      <4>1. IsSequence(before)
        BY <1>1, InputsAreSequence
      <4> QED
        BY <1>1, <4>1, GivenInPass
    <3> HIDE DEF before
    <3>6. Update(before, win) = Given(l + 1)
      BY <3>5, UpdateGivesNext DEF MarkersAreNoData
    <3>7. buf' = Put(Put(buf, "gdn_state", b, Given(l + 1)), "attn_out", b, Given(l + 1))
      BY <2>5, <2>7, <3>3, <3>4, <3>6 DEF GdnStep, Put
    <3>8. "gdn_state" \in Scratch /\ "attn_out" \in Scratch /\ "gdn_state" # "attn_out"
      BY <1>4
    <3> HIDE DEF Scratch
    <3> QED
      BY <1>1, <3>7, <3>8, TwoSlices
  <2>8. ASSUME w = Stage(l, 6), l \notin Kind("dn")
        PROVE  buf'["attn_out"][b] = Given(l + 1)
    <3>1. l \in Kind("attn")
      BY <2>8, KindsOfLayers
    <3>2. \A d \in Block : buf["fattn_partial"][d] = Record(l, d)
      <4> TAKE d \in Block
      <4>1. at[d] \in Stage(l, 6) .. Stage(l, 7)
        BY <2>1, <2>2, <2>8
      <4> QED
        BY <1>3, <3>1, <4>1 DEF AttnHolds
    <3>3. Attention = Inputs(l, pos + 1)
      BY <1>1, <3>2, AttentionOverInputs
    <3>4. Write(b, "attn_out", Given(l + 1))
      BY <1>1, <2>5, <2>8, <3>3, GivenInPass DEF FattnReduce
    <3> QED
      BY <1>1, <1>4, <3>4, OneWritten
  <2>9. ASSUME w = Stage(l, 7)
        PROVE  buf'["proj_out"][b] = Given(l + 1)
    <3>1. \A d \in Block : buf["attn_out"][d] = Given(l + 1)
      <4> TAKE d \in Block
      <4>1. at[d] \in Stage(l, 7) .. Stage(l, 8)
        BY <2>1, <2>2, <2>9
      <4> QED
        BY <1>3, <4>1 DEF OutHolds
    <3>2. Whole(buf["attn_out"]) = Given(l + 1)
      BY <1>1, <1>4, <3>1, WholeOf
    <3>3. Write(b, "proj_out", Given(l + 1))
      BY <2>5, <2>9, <3>2 DEF Out
    <3> QED
      BY <1>1, <1>4, <3>3, OneWritten
  <2>10. ASSUME w = Stage(l, 9)
         PROVE  buf'["proj_out"][b] = Given(l + 1)
    <3>1. 0 \in Block
      BY DecodeAssumption DEF Block
    <3>2. at[0] \in Stage(l, 9) .. Stage(l, 10)
      BY <2>1, <2>2, <2>10, <3>1
    <3>3. \A d \in Block : buf["xn"][d] = Given(l + 1)
      BY <1>3, <3>2 DEF StreamHolds, RowsHold
    <3>4. Whole(buf["xn"]) = Given(l + 1)
      BY <1>1, <1>4, <3>3, WholeOf
    <3>5. Write(b, "proj_out", Given(l + 1))
      BY <2>5, <2>10, <3>4 DEF Ffn
    <3> QED
      BY <1>1, <1>4, <3>5, OneWritten
  <2>11. /\ w \in Stage(l, 7) .. Stage(l, 8) => buf["attn_out"][b] = Given(l + 1)
         /\ l \in Kind("dn") /\ w = Stage(l, 6) => buf["attn_out"][b] = Given(l + 1)
         /\ w \in Stage(l, 8) .. Stage(l, 11) => buf["proj_out"][b] = Given(l + 1)
    BY <1>3 DEF OutHolds, w
  <2>12. w + 1 \in Stage(l, 7) .. Stage(l, 8) => buf'["attn_out"][b] = Given(l + 1)
    BY <2>1, <2>2, <2>6, <2>8, <2>11
  <2>13. l \in Kind("dn") /\ w + 1 = Stage(l, 6) => buf'["attn_out"][b] = Given(l + 1)
    BY <2>1, <2>2, <2>7
  <2>14. w + 1 \in Stage(l, 8) .. Stage(l, 11) => buf'["proj_out"][b] = Given(l + 1)
    BY <2>1, <2>2, <2>6, <2>9, <2>10, <2>11
  <2>15. Kind("dn")' = Kind("dn")
    BY DEF Kind, NLayers
  <2> QED
    BY <1>2, <1>6, <2>1, <2>12, <2>13, <2>14, <2>15 DEF OutHolds
<1> QED
  BY <1>5, <1>6

\* Every row that a chunk attends has been appended by all blocks.
LEMMA AttendedRows ==
  ASSUME pos \in Nat, cell.n_kv \in Nat, MaskHolds, NEW c \in Block
  PROVE  /\ Len(Attended(c)) \in Nat
         /\ \A i \in 1 .. Len(Attended(c)) : Attended(c)[i] \in 0 .. pos
<1> DEFINE lo == ChunkLo(cell.n_kv, Grid, Tile, c)
           hi == ChunkHi(cell.n_kv, Grid, Tile, c)
           s == Attended(c)
<1>1. lo \in Nat /\ hi \in Nat /\ lo <= hi
  <2>1. Grid \in Nat \ {0} /\ Tile \in Nat \ {0} /\ c \in 0 .. Grid-1
    BY DecodeAssumption DEF Block
  <2> QED
    BY <2>1, ChunksAreAdjacent
<1>2. s = RowsFrom(Cut(lo), Cut(hi))
  BY ChunkAttends
<1> HIDE DEF lo, hi, s
<1> DEFINE n == Cut(hi) - Cut(lo)
<1>3. Cut(lo) \in Nat /\ n \in Nat /\ Cut(lo) + n <= pos + 1
  BY <1>1 DEF Cut, Least
<1>4. s = [i \in 1 .. n |-> Cut(lo) + i - 1]
  BY <1>2 DEF RowsFrom
<1> HIDE DEF n, Cut
<1>5. Len(s) = n
  <2>1. \A i \in 1 .. n : Cut(lo) + i - 1 \in Int
    BY <1>3
  <2>2. s \in Seq(Int)
    BY <1>3, <1>4, <2>1
  <2> QED
    BY <1>3, <1>4, <2>2
<1>6. \A i \in 1 .. n : s[i] \in 0 .. pos
  BY <1>3, <1>4
<1> QED
  BY <1>3, <1>5, <1>6 DEF s

\* A block's step leaves an attention layer's values in its buffers.
LEMMA AttnStep ==
  ASSUME MarkersAreNoData, DecodeInv, LoopInv, FlowInv, ModelInv, NEW b \in Block, Execute(b),
         NEW l \in Kind("attn"), NEW c \in Block
  PROVE  AttnHolds(l, c)'
<1>1. /\ phase = "running" /\ pos \in Nat /\ cell.n_kv \in Nat /\ cell.n_kv > pos /\ MaskHolds
      /\ cell.n_kv <= NCtx /\ cell.positions = pos
      /\ at[b] \in 1 .. Last /\ at'[b] = at[b] + 1
      /\ \A d \in Block : at[d] \in Nat /\ (at[d] = at[b] \/ at[d] = at[b] + 1)
      /\ \A d \in Block : d # b => at'[d] = at[d]
      /\ BufShape /\ Lockstep
  BY InPass
<1>2. /\ Given(l)' = Given(l) /\ RowAt(l, pos)' = RowAt(l, pos) /\ Record(l, c)' = Record(l, c)
  BY ValuesInPass
<1>3. /\ StreamHolds /\ \A d \in Block : AttnHolds(l, d)
  BY <1>1 DEF ModelInv, PassHolds
<1>4. l \in 1 .. NLayers /\ l \notin Kind("dn") /\ l \in Nat
  BY KindsOfLayers
<1>5. {"k_stage", "mixer_out", "fattn_q", "fattn_partial", "xn"} \subseteq Scratch
  BY DEF Scratch
<1> DEFINE w == at[b]
           s == Stage(l, 2)
<1>6. w \in Nat /\ at'[b] = w + 1 /\ \A d \in Block : at[d] = w \/ at[d] = w + 1
  BY <1>1
<1>7. /\ s \in Nat /\ Stage(l, 3) = s + 1 /\ Stage(l, 4) = s + 2 /\ Stage(l, 5) = s + 3
      /\ Stage(l, 6) = s + 4 /\ Stage(l, 7) = s + 5 /\ Stage(l, 8) = s + 6
  BY <1>4 DEF Stage
<1>8. RowAt(l, pos) = [at |-> pos, x |-> Given(l)]
  BY DEF RowAt, Given
<1>9. w = s => Whole(buf["xn"]) = Given(l)
  <2>1. l \in 1 .. NLayers + 1
    BY <1>4, KindsOfLayers
  <2> QED
    BY <2>1, NormIsRead
<1>10. ASSUME NEW x, x = Given(l)
       PROVE  AttnSlice(l, c, x)'
  <2>1. \A d \in Block : AttnSlice(l, d, x)
    BY <1>3, <1>10 DEF AttnHolds
  <2>2. at[b] = Stage(l, 2) => x = Whole(buf["xn"])
    BY <1>9, <1>10
  <2>3. CASE c = b
    BY <1>1, <2>1, <2>2, <2>3, AttnOwnStep
  <2>4. CASE c # b
    BY <1>1, <2>1, <2>4, AttnOthersStep
  <2> QED
    BY <2>3, <2>4
<1>11. AttnSlice(l, c, Given(l))'
  BY <1>2, <1>10 DEF AttnSlice
<1>12. CASE c # b
  <2>1. /\ buf'["k_stage"][c] = buf["k_stage"][c]
        /\ buf'["fattn_partial"][c] = buf["fattn_partial"][c]
    BY <1>1, <1>5, <1>12, BlockKeepsOthers DEF Kept, OthersKept
  <2>2. at'[c] = at[c]
    BY <1>1, <1>12
  <2> QED
    BY <1>2, <1>3, <1>11, <2>1, <2>2 DEF AttnHolds
<1>13. CASE c = b
  <2>1. /\ \A i \in 1 .. 9 : LayerAt(Stage(l, i)) = l
        /\ WindowAt(s) = "gemv" /\ WindowAt(Stage(l, 3)) = "rope"
        /\ WindowAt(Stage(l, 5)) = "decode" /\ WindowAt(Stage(l, 6)) = "reduce"
    BY <1>4, StageOps
  <2> HIDE DEF s, w
  <2>2. /\ w = s => Gemv(b, l)
        /\ w = Stage(l, 3) => QkNormRope(b, l)
        /\ w = Stage(l, 5) => FattnDecode(b, l)
    BY <2>1, BlockExecutes DEF s, w
  <2>3. w = Stage(l, 6) => buf'["fattn_partial"] = buf["fattn_partial"]
    <3>1. "fattn_partial" \notin WrittenBy("reduce")
      BY DEF WrittenBy
    <3> QED
      BY <1>1, <1>5, <2>1, <3>1, BlockWrites DEF Untouched, w
  <2>4. ASSUME w = s
        PROVE  buf'["k_stage"][b] = Given(l)
    <3>1. buf' = Put(Put(buf, "mixer_out", b, Whole(buf["xn"])), "k_stage", b, Whole(buf["xn"]))
      BY <1>4, <2>2, <2>4 DEF Gemv, Put
    <3>2. "mixer_out" \in Scratch /\ "k_stage" \in Scratch /\ "mixer_out" # "k_stage"
      BY <1>5
    <3> HIDE DEF Scratch
    <3>3. buf'["k_stage"][b] = Whole(buf["xn"])
      BY <1>1, <3>1, <3>2, TwoSlices
    <3> QED
      BY <1>9, <2>4, <3>3
  <2>5. ASSUME w = Stage(l, 3)
        PROVE  buf'["k_stage"][b] = RowAt(l, pos)
    <3>1. buf["k_stage"][b] = Given(l)
      BY <1>3, <2>5 DEF AttnHolds, w
    <3> DEFINE q == [at |-> cell.positions, x |-> buf["mixer_out"][b]]
               k == [at |-> cell.positions, x |-> buf["k_stage"][b]]
    <3>2. buf' = Put(Put(buf, "fattn_q", b, q), "k_stage", b, k)
      <4>1. buf' = [buf EXCEPT !["fattn_q"][b] = q,
                               !["k_stage"][b] = [at |-> cell.positions, x |-> @]]
        BY <2>2, <2>5 DEF QkNormRope
      <4>2. "fattn_q" \in Scratch /\ "k_stage" \in Scratch /\ Slices(buf)
        BY <1>1, <1>5 DEF BufShape
      <4>3. \A f : f = Put(buf, "fattn_q", b, q) => f["k_stage"][b] = buf["k_stage"][b]
        BY <4>2, SliceWrite
      <4>4. Put(buf, "fattn_q", b, q)["k_stage"][b] = buf["k_stage"][b]
        BY <4>3
      <4> HIDE DEF q
      <4> QED
        BY <4>1, <4>4 DEF Put
    <3>3. "fattn_q" \in Scratch /\ "k_stage" \in Scratch /\ "fattn_q" # "k_stage"
      BY <1>5
    <3> HIDE DEF Scratch, q, k
    <3>4. buf'["k_stage"][b] = k
      BY <1>1, <3>2, <3>3, TwoSlices
    <3> QED
      BY <1>1, <1>8, <3>1, <3>4 DEF k
  <2>6. ASSUME w = Stage(l, 5)
        PROVE  buf'["fattn_partial"][b] = Record(l, b)
    <3>1. ~ Overruns(b)
      <4>1. b \in 0 .. Grid-1 /\ Grid \in Nat \ {0} /\ Tile \in Nat \ {0}
        BY DecodeAssumption DEF Block
      <4>2. ChunkRows(cell.n_kv, Grid, Tile, b) \subseteq 0 .. cell.n_kv - 1
        BY <1>1, <4>1, ChunksOfAnyWindow
      <4>3. NCtx \in Nat
        BY DecodeAssumption
      <4> QED
        BY <1>1, <4>2, <4>3 DEF Overruns
    <3>2. Whole(buf["fattn_q"]) = RowAt(l, pos)
      <4>1. \A d \in Block : buf["fattn_q"][d] = RowAt(l, pos)
        <5> TAKE d \in Block
        <5>1. at[d] \in {Stage(l, 4), Stage(l, 5), Stage(l, 6)}
          BY <1>6, <1>7, <2>6
        <5> QED
          BY <1>3, <1>8, <5>1 DEF AttnHolds, AttnSlice
      <4> QED
        BY <1>1, <1>5, <4>1, WholeOf
    <3>3. ASSUME NEW j \in 0 .. pos
          PROVE  Whole(kv[l][j]) = RowAt(l, j)
      <4>1. j \in 0 .. NCtx-1 /\ (j < pos \/ j = pos)
        BY <1>1, DecodeAssumption
      <4>2. \A d \in Block : Appended(l, d)
        BY <1>1, <1>6, <1>7, <2>6 DEF Appended
      <4>3. kv[l][j] = [d \in Block |-> kv[l][j][d]] /\ \A d \in Block : kv[l][j][d] = RowAt(l, j)
        BY <4>1, <4>2 DEF ModelInv, CachesHold
      <4>4. 0 \in Block
        BY DecodeAssumption DEF Block
      <4> QED
        BY <4>3, <4>4 DEF Whole, All
    <3> DEFINE data == [i \in 1 .. Len(Attended(b)) |-> Whole(kv[l][Attended(b)[i]])]
    <3>4. data = RowsOf(l, b)
      <4>1. \A i \in 1 .. Len(Attended(b)) : Attended(b)[i] \in 0 .. pos
        BY <1>1, AttendedRows
      <4> QED
        BY <3>3, <4>1 DEF RowsOf
    <3>5. Write(b, "fattn_partial", [q |-> Whole(buf["fattn_q"]), layer |-> l, kv |-> data])
      BY <2>2, <2>6, <3>1 DEF FattnDecode
    <3>6. Write(b, "fattn_partial", Record(l, b))
      BY <3>2, <3>4, <3>5 DEF Record
    <3> QED
      BY <1>1, <1>5, <3>6, OneWritten
  <2>7. w + 1 = Stage(l, 3) => buf'["k_stage"][b] = Given(l)
    BY <1>6, <1>7, <2>4
  <2>8. w + 1 = Stage(l, 4) => buf'["k_stage"][b] = RowAt(l, pos)
    BY <1>6, <1>7, <2>5
  <2>9. w + 1 \in Stage(l, 6) .. Stage(l, 7) => buf'["fattn_partial"][b] = Record(l, b)
    <3>1. w = Stage(l, 6) => buf["fattn_partial"][b] = Record(l, b)
      BY <1>3, <1>6, <1>7 DEF AttnHolds, w
    <3> QED
      BY <1>6, <1>7, <2>3, <2>6, <3>1
  <2> QED
    BY <1>2, <1>6, <1>11, <1>13, <2>7, <2>8, <2>9 DEF AttnHolds
<1> QED
  BY <1>12, <1>13

\* What the first block's norms publish.
Published(l, v) == buf' = [buf EXCEPT !["residual"] = All(v), !["xn"] = All(v)]

\* What is published is in every block's rows.
LEMMA PublishedRows ==
  ASSUME BufShape, NEW l, NEW v, Published(l, v)
  PROVE  \A c \in Block : buf'["residual"][c] = v /\ buf'["xn"][c] = v
<1>1. buf = [name \in Scratch |-> buf[name]] /\ "residual" \in Scratch /\ "xn" \in Scratch
  BY DEF BufShape, Slices, Scratch
<1>2. buf'["residual"] = All(v) /\ buf'["xn"] = All(v)
  BY <1>1 DEF Published
<1> QED
  BY <1>2 DEF All

\* The layer's norm folds the FFN of the layer below, the FFN's norm the mixer.
LEMMA NormPublishes ==
  ASSUME MarkersAreNoData, DecodeInv, LoopInv, FlowInv, ModelInv, Execute(0),
         NEW l \in 1 .. NLayers + 1, at[0] = Stage(l, 1)
  PROVE  /\ Published(l, Given(l))
         /\ lout' = IF l \in 2 .. NLayers THEN [lout EXCEPT ![l-1] = Given(l)] ELSE lout
<1>1. 0 \in Block /\ NLayers \in Nat
  BY DecodeAssumption, KindsOfLayers DEF Block
<1>2. /\ phase = "running" /\ pos \in Nat
      /\ \A d \in Block : at[d] = at[0] \/ at[d] = at[0] + 1
      /\ BufShape /\ Lockstep
  BY <1>1, InPass
<1>3. /\ StreamHolds /\ \A m \in 1 .. NLayers, d \in Block : OutHolds(m, d)
  BY <1>2 DEF ModelInv, PassHolds
<1>4. {"residual", "proj_out"} \subseteq Scratch
  BY DEF Scratch
<1>5. WindowAt(Stage(l, 1)) = "norm" /\ LayerAt(Stage(l, 1)) = l
  <2>1. l \in 1 .. NLayers \/ l = NLayers + 1
    BY <1>1
  <2>2. 1 \in 1 .. 9 /\ 1 \in 1 .. 3 /\ <<"norm", "head", "emit">>[1] = "norm"
    OBVIOUS
  <2> QED
    BY <2>1, <2>2, StageOps
<1>6. Norm(0, l)
  BY <1>1, <1>5, BlockExecutes
<1> DEFINE sum == IF l = 1 THEN Whole(buf["residual"])
                  ELSE FoldFfn(Whole(buf["residual"]), Whole(buf["proj_out"]))
<1>7. /\ buf' = [buf EXCEPT !["residual"] = All(sum), !["xn"] = All(sum)]
      /\ lout' = IF l \in 2 .. NLayers THEN [lout EXCEPT ![l-1] = sum] ELSE lout
  BY <1>6 DEF Norm
<1>8. sum = Given(l)
  <2>1. CASE l = 1
    <3>1. at[0] = 2 /\ \A d \in Block : at[d] >= 2
      BY <1>2, <2>1 DEF Stage
    <3>2. \A d \in Block : buf["residual"][d] = Given(1)
      BY <1>3, <3>1 DEF StreamHolds
    <3> QED
      BY <1>2, <1>4, <2>1, <3>2, WholeOf
  <2>2. CASE l # 1
    <3> DEFINE m == l - 1
    <3>1. m \in 1 .. NLayers /\ m + 1 = l /\ m \in Nat
      BY <1>1, <2>2
    <3>2. /\ Stage(m, 9) + 1 = Stage(m, 10) /\ Stage(m, 10) = Stage(l, 1)
          /\ Stage(m, 8) + 2 = Stage(m, 10) /\ Stage(m, 11) = Stage(m, 10) + 1
          /\ Stage(m, 8) \in Nat /\ Stage(m, 9) \in Nat /\ Stage(m, 10) \in Nat
          /\ Stage(m, 11) \in Nat
      BY <1>1, <2>2, <3>1 DEF Stage
    <3> HIDE DEF m
    <3>3. at[0] \in Stage(m, 9) .. Stage(m, 10)
      BY <3>2
    <3>4. \A d \in Block : buf["residual"][d] = Given(l)
      BY <1>3, <3>1, <3>3 DEF StreamHolds, RowsHold
    <3>5. \A d \in Block : buf["proj_out"][d] = Given(l)
      <4> TAKE d \in Block
      <4>1. at[d] \in Stage(m, 8) .. Stage(m, 11)
        BY <1>2, <3>2
      <4> QED
        BY <1>3, <3>1, <4>1 DEF OutHolds
    <3>6. Whole(buf["residual"]) = Given(l) /\ Whole(buf["proj_out"]) = Given(l)
      BY <1>2, <1>4, <3>4, <3>5, WholeOf
    <3>7. IsSeq(Given(l))
      <4>1. IsSequence(Given(l))
        BY <1>2, <3>1, GivenInPass
      <4> QED
        BY <4>1 DEF MarkersAreNoData, MarkersAreNoSequences, IsSeq
    <3> QED
      BY <2>2, <3>6, <3>7 DEF FoldFfn
  <2> QED
    BY <2>1, <2>2
<1> QED
  BY <1>7, <1>8 DEF Published

\* The norm before the FFN publishes the mixer's value.
LEMMA FfnNormPublishes ==
  ASSUME MarkersAreNoData, DecodeInv, LoopInv, FlowInv, ModelInv, Execute(0),
         NEW l \in 1 .. NLayers, at[0] = Stage(l, 8)
  PROVE  Published(l, Given(l + 1))
<1>1. 0 \in Block /\ NLayers \in Nat
  BY DecodeAssumption, KindsOfLayers DEF Block
<1>2. /\ phase = "running" /\ pos \in Nat
      /\ \A d \in Block : at[d] = at[0] \/ at[d] = at[0] + 1
      /\ BufShape /\ Lockstep
  BY <1>1, InPass
<1>3. /\ StreamHolds /\ \A d \in Block : OutHolds(l, d)
  BY <1>2 DEF ModelInv, PassHolds
<1>4. {"residual", "proj_out"} \subseteq Scratch
  BY DEF Scratch
<1>5. WindowAt(Stage(l, 8)) = "ffnnorm" /\ LayerAt(Stage(l, 8)) = l
  BY StageOps
<1>6. FfnNorm(0, l)
  BY <1>1, <1>5, BlockExecutes
<1>7. /\ Stage(l, 2) + 6 = Stage(l, 8) /\ Stage(l, 9) = Stage(l, 8) + 1
      /\ Stage(l, 11) = Stage(l, 8) + 3 /\ Stage(l, 8) \in Nat /\ Stage(l, 2) \in Nat
  BY DEF Stage
<1>8. Whole(buf["residual"]) = Given(l)
  <2>1. at[0] \in Stage(l, 2) .. Stage(l, 8) /\ l \in 1 .. NLayers + 1
    BY <1>1, <1>7
  <2>2. \A d \in Block : buf["residual"][d] = Given(l)
    BY <1>3, <2>1 DEF StreamHolds, RowsHold
  <2> QED
    BY <1>2, <1>4, <2>2, WholeOf
<1>9. Whole(buf["proj_out"]) = Given(l + 1)
  <2>1. \A d \in Block : buf["proj_out"][d] = Given(l + 1)
    <3> TAKE d \in Block
    <3>1. at[d] \in Stage(l, 8) .. Stage(l, 11)
      BY <1>2, <1>7
    <3> QED
      BY <1>3, <3>1 DEF OutHolds
  <2> QED
    BY <1>2, <1>4, <2>1, WholeOf
<1>10. Fold(Given(l), Given(l + 1)) = Given(l + 1)
  <2>1. IsSequence(Given(l + 1)) /\ Len(Given(l + 1)) = pos + 1 /\ Given(l + 1)[pos + 1] = Given(l)
    BY <1>2, GivenInPass
  <2>2. IsSeq(Given(l + 1))
    BY <2>1 DEF MarkersAreNoData, MarkersAreNoSequences, IsSeq
  <2>3. Given(l + 1) # <<>>
    BY <1>2, <2>1
  <2> QED
    BY <2>1, <2>2, <2>3 DEF Fold
<1> QED
  BY <1>6, <1>8, <1>9, <1>10 DEF FfnNorm, Published

\* A block's step leaves the residual stream the value the windows ahead read.
LEMMA StreamStep ==
  ASSUME MarkersAreNoData, DecodeInv, LoopInv, FlowInv, ModelInv, NEW b \in Block, Execute(b)
  PROVE  StreamHolds'
<1>1. /\ phase = "running" /\ pos \in Nat /\ cell.token = Given(1)
      /\ at[b] \in 1 .. Last /\ at'[b] = at[b] + 1
      /\ \A d \in Block : at[d] \in Nat /\ (at[d] = at[b] \/ at[d] = at[b] + 1)
      /\ \A d \in Block : d # b => at'[d] = at[d]
      /\ BufShape /\ Lockstep
  BY InPass
<1>2. \A l : Given(l)' = Given(l)
  BY ValuesInPass
<1>3. StreamHolds
  BY <1>1 DEF ModelInv, PassHolds
<1>4. "residual" \in Scratch /\ "xn" \in Scratch
  BY DEF Scratch
<1>5. 0 \in Block /\ NLayers \in Nat /\ NLayers' = NLayers /\ Block' = Block
  BY DecodeAssumption, StageOps DEF Block, NLayers
<1>6. \A l \in 1 .. NLayers + 1 :
        /\ Stage(l, 2) \in Nat /\ Stage(l, 2) >= 3 /\ Stage(l, 1) = Stage(l, 2) - 1
        /\ Stage(l, 8) = Stage(l, 2) + 6 /\ Stage(l, 9) = Stage(l, 2) + 7
        /\ Stage(l, 10) = Stage(l, 2) + 8
  BY <1>5 DEF Stage
<1> DEFINE early == at'[0] <= 2 => \A c \in Block : at'[c] >= 2 => buf'["residual"][c] = Given(1)
           before == \A l \in 1 .. NLayers + 1 : at'[0] \in Stage(l, 2) .. Stage(l, 8) =>
                       \A c \in Block : buf'["residual"][c] = Given(l) /\ buf'["xn"][c] = Given(l)
           after == \A l \in 1 .. NLayers : at'[0] \in Stage(l, 9) .. Stage(l, 10) =>
                      \A c \in Block : buf'["residual"][c] = Given(l + 1) /\ buf'["xn"][c] = Given(l + 1)
<1>7. SUFFICES early /\ before /\ after
  BY <1>2, <1>5 DEF StreamHolds, RowsHold
<1>8. CASE WindowAt(at[b]) = "embed"
  <2>1. at[b] = 1
    BY <1>1, <1>8, NormStages
  <2>2. at'[0] <= 2
    BY <1>1, <1>5, <2>1
  <2>3. before /\ after
    BY <1>1, <1>5, <1>6, <2>1, <2>2
  <2>4. early
    <3>1. Write(b, "residual", Given(1))
      BY <1>1, <1>8, BlockExecutes DEF Embed
    <3> DEFINE g == buf'
    <3>2. g = Put(buf, "residual", b, Given(1)) /\ Slices(buf)
      BY <1>1, <3>1 DEF Write, Put, BufShape
    <3> HIDE DEF g
    <3>3. g["residual"][b] = Given(1) /\ \A c \in Block : c # b => g["residual"][c] = buf["residual"][c]
      BY <1>4, <3>2, SliceWrite
    <3>4. \A c \in Block : at[c] >= 2 => buf["residual"][c] = Given(1)
      BY <1>1, <1>3, <1>5, <2>1 DEF StreamHolds
    <3> QED
      BY <1>1, <3>3, <3>4 DEF g
  <2> QED
    BY <2>3, <2>4
<1>9. CASE b = 0 /\ WindowAt(at[b]) = "norm"
  <2> DEFINE m == LayerAt(at[0])
  <2>1. m \in 1 .. NLayers + 1 /\ at[0] = Stage(m, 1)
    BY <1>1, <1>9, NormStages
  <2> HIDE DEF m
  <2>2. \A c \in Block : buf'["residual"][c] = Given(m) /\ buf'["xn"][c] = Given(m)
    <3>1. Published(m, Given(m))
      BY <1>9, <2>1, NormPublishes
    <3> QED
      BY <1>1, <3>1, PublishedRows
  <2>3. at'[0] = Stage(m, 2) /\ ~ (at'[0] <= 2) /\ m \in Nat
    BY <1>1, <1>5, <1>6, <1>9, <2>1
  <2>4. early
    BY <2>3
  <2>5. before
    <3> SUFFICES ASSUME NEW l \in 1 .. NLayers + 1, at'[0] \in Stage(l, 2) .. Stage(l, 8)
                 PROVE  \A c \in Block : buf'["residual"][c] = Given(l) /\ buf'["xn"][c] = Given(l)
      OBVIOUS
    <3>1. l = m
      <4>1. l \in Nat /\ Stage(m, 2) \in Stage(l, 2) .. Stage(l, 8)
        BY <2>3
      <4> QED
        BY <2>3, <4>1, StageArithmetic
    <3> QED
      BY <2>2, <3>1
  <2>6. after
    <3> SUFFICES ASSUME NEW l \in 1 .. NLayers, at'[0] \in Stage(l, 9) .. Stage(l, 10) PROVE FALSE
      OBVIOUS
    <3>1. l \in Nat /\ Stage(m, 2) \in Stage(l, 9) .. Stage(l, 10)
      BY <2>3
    <3> QED
      BY <2>3, <3>1, StageArithmetic
  <2> QED
    BY <2>4, <2>5, <2>6
<1>10. CASE b = 0 /\ WindowAt(at[b]) = "ffnnorm"
  <2> DEFINE m == LayerAt(at[0])
  <2>1. m \in 1 .. NLayers /\ at[0] = Stage(m, 8)
    BY <1>1, <1>10, NormStages
  <2> HIDE DEF m
  <2>2. \A c \in Block : buf'["residual"][c] = Given(m + 1) /\ buf'["xn"][c] = Given(m + 1)
    <3>1. Published(m, Given(m + 1))
      BY <1>10, <2>1, FfnNormPublishes
    <3> QED
      BY <1>1, <3>1, PublishedRows
  <2>3. at'[0] = Stage(m, 9) /\ ~ (at'[0] <= 2) /\ m \in Nat
    <3>1. m \in 1 .. NLayers + 1
      BY <1>5, <2>1
    <3> QED
      BY <1>1, <1>5, <1>6, <1>10, <2>1, <3>1
  <2>4. early
    BY <2>3
  <2>5. before
    <3> SUFFICES ASSUME NEW l \in 1 .. NLayers + 1, at'[0] \in Stage(l, 2) .. Stage(l, 8) PROVE FALSE
      OBVIOUS
    <3>1. l \in Nat /\ Stage(m, 9) \in Stage(l, 2) .. Stage(l, 8)
      BY <2>3
    <3> QED
      BY <2>3, <3>1, StageArithmetic
  <2>6. after
    <3> SUFFICES ASSUME NEW l \in 1 .. NLayers, at'[0] \in Stage(l, 9) .. Stage(l, 10)
                 PROVE  \A c \in Block : buf'["residual"][c] = Given(l + 1) /\ buf'["xn"][c] = Given(l + 1)
      OBVIOUS
    <3>1. l = m
      <4>1. l \in Nat /\ Stage(m, 9) \in Stage(l, 9) .. Stage(l, 10)
        BY <2>3
      <4> QED
        BY <2>3, <4>1, StageArithmetic
    <3> QED
      BY <2>2, <3>1
  <2> QED
    BY <2>4, <2>5, <2>6
<1>11. CASE /\ WindowAt(at[b]) # "embed"
            /\ b # 0 \/ WindowAt(at[b]) \notin {"norm", "ffnnorm"}
  <2>1. buf'["residual"] = buf["residual"] /\ buf'["xn"] = buf["xn"]
    <3>1. ASSUME WindowAt(at[b]) \notin {"embed", "norm", "ffnnorm"}
          PROVE  {"residual", "xn"} \cap WrittenBy(WindowAt(at[b])) = {}
      BY <3>1 DEF WrittenBy
    <3>2. Untouched(b, "residual") /\ Untouched(b, "xn")
      BY <1>11, <3>1 DEF Untouched
    <3> QED
      BY <1>1, <1>4, <3>2, BlockWrites
  <2>2. at[b] # 1
    BY <1>11, StageOps
  <2>3. CASE b # 0
    <3>1. at'[0] = at[0]
      BY <1>1, <1>5, <2>3
    <3>2. \A c \in Block : at'[c] >= 2 => at[c] >= 2
      BY <1>1, <2>2
    <3> QED
      BY <1>3, <2>1, <3>1, <3>2 DEF StreamHolds, RowsHold
  <2>4. CASE b = 0
    <3> DEFINE w == at[0]
    <3>1. w \in Nat /\ w >= 2 /\ at'[0] = w + 1
      BY <1>1, <2>2, <2>4
    <3>2. early
      BY <3>1
    <3>3. \A l \in 1 .. NLayers + 1 : w # Stage(l, 1)
      <4> TAKE l \in 1 .. NLayers + 1
      <4>1. l \in 1 .. NLayers \/ l = NLayers + 1
        BY <1>5
      <4>2. 1 \in 1 .. 9 /\ 1 \in 1 .. 3 /\ <<"norm", "head", "emit">>[1] = "norm"
        OBVIOUS
      <4>3. WindowAt(Stage(l, 1)) = "norm"
        BY <4>1, <4>2, StageOps
      <4> QED
        BY <1>11, <2>4, <4>3
    <3>4. \A l \in 1 .. NLayers : w # Stage(l, 8)
      BY <1>11, <2>4, StageOps
    <3> HIDE DEF w
    <3>5. before
      <4> SUFFICES ASSUME NEW l \in 1 .. NLayers + 1, w + 1 \in Stage(l, 2) .. Stage(l, 8)
                   PROVE  \A c \in Block : buf'["residual"][c] = Given(l) /\ buf'["xn"][c] = Given(l)
        BY <3>1
      <4>1. w \in Stage(l, 2) .. Stage(l, 8)
        BY <1>6, <3>1, <3>3
      <4> QED
        BY <1>3, <2>1, <4>1 DEF StreamHolds, RowsHold, w
    <3>6. after
      <4> SUFFICES ASSUME NEW l \in 1 .. NLayers, w + 1 \in Stage(l, 9) .. Stage(l, 10)
                   PROVE  \A c \in Block : buf'["residual"][c] = Given(l + 1) /\ buf'["xn"][c] = Given(l + 1)
        BY <3>1
      <4>1. l \in 1 .. NLayers + 1
        BY <1>5
      <4>2. w \in Stage(l, 9) .. Stage(l, 10)
        BY <1>6, <3>1, <3>4, <4>1
      <4> QED
        BY <1>3, <2>1, <4>2 DEF StreamHolds, RowsHold, w
    <3> QED
      BY <3>2, <3>5, <3>6
  <2> QED
    BY <2>3, <2>4
<1> QED
  BY <1>8, <1>9, <1>10, <1>11

\* ... the logits the value of the last layer,
LEMMA LogitsStep ==
  ASSUME DecodeInv, LoopInv, FlowInv, ModelInv, NEW b \in Block, Execute(b)
  PROVE  LogitsHold'
<1>1. /\ phase = "running" /\ at[b] \in 1 .. Last /\ at'[b] = at[b] + 1
      /\ \A d \in Block : d # b => at'[d] = at[d]
      /\ BufShape /\ Lockstep
  BY InPass
<1>2. Given(NLayers + 1)' = Given(NLayers + 1) /\ Block' = Block /\ Last' = Last
  <2>1. \A l : Given(l)' = Given(l)
    BY ValuesInPass
  <2>2. NLayers' = NLayers
    BY DEF NLayers
  <2> QED
    BY <2>1, <2>2 DEF Block, Last
<1>3. \A c \in Block : at[c] >= Last => buf["logits"][c] = Given(NLayers + 1)
  BY <1>1 DEF ModelInv, PassHolds, LogitsHold
<1>4. "logits" \in Scratch
  BY DEF Scratch
<1>5. Last \in Nat /\ Last = Stage(NLayers + 1, 3) /\ Last = Stage(NLayers + 1, 2) + 1
  BY StageOps DEF Stage
<1>6. /\ WindowAt(Stage(NLayers + 1, 2)) = "head" /\ WindowAt(Stage(NLayers + 1, 3)) = "emit"
      /\ NLayers + 1 \in 1 .. NLayers + 1
  BY StageOps
<1>7. \A c \in Block : at'[c] >= Last => buf'["logits"][c] = Given(NLayers + 1)
  <2> TAKE c \in Block
  <2>1. CASE c # b
    <3>1. buf'["logits"][c] = buf["logits"][c] /\ at'[c] = at[c]
      BY <1>1, <1>4, <2>1, BlockKeepsOthers DEF Kept, OthersKept
    <3> QED
      BY <1>3, <3>1
  <2>2. CASE c = b /\ at[b] = Last
    <3>1. "logits" \notin WrittenBy("emit")
      BY DEF WrittenBy
    <3>2. buf'["logits"] = buf["logits"]
      BY <1>1, <1>4, <1>5, <1>6, <2>2, <3>1, BlockWrites DEF Untouched
    <3> QED
      BY <1>3, <1>5, <2>2, <3>2
  <2>3. CASE c = b /\ at[b] = Last - 1
    <3>1. at[b] = Stage(NLayers + 1, 2)
      <4> DEFINE s == Stage(NLayers + 1, 2)
      <4>1. Last = s + 1 /\ s \in Nat
        BY <1>5, StageOps DEF Stage
      <4> HIDE DEF s, Last
      <4>2. at[b] = s
        BY <2>3, <4>1
      <4> QED
        BY <4>2 DEF s
    <3>2. Whole(buf["xn"]) = Given(NLayers + 1)
      BY <1>6, <3>1, NormIsRead
    <3>3. Write(b, "logits", Given(NLayers + 1))
      BY <1>6, <3>1, <3>2, BlockExecutes DEF HeadGemv
    <3> QED
      BY <1>1, <1>4, <2>3, <3>3, OneWritten
  <2>4. CASE c = b /\ at[b] < Last - 1
    <3> HIDE DEF Last
    <3> QED
      BY <1>1, <1>5, <2>4
  <2>5. at[b] \in Nat /\ at[b] <= Last
    <3> HIDE DEF Last
    <3> QED
      BY <1>1, <1>5
  <2> QED
    BY <1>5, <2>1, <2>2, <2>3, <2>4, <2>5
<1> QED
  BY <1>2, <1>7 DEF LogitsHold

\* ... the layer outputs the value of each layer,
LEMMA MirrorsStep ==
  ASSUME MarkersAreNoData, DecodeInv, LoopInv, FlowInv, ModelInv, NEW b \in Block, Execute(b)
  PROVE  MirrorsHold' /\ MirrorShape'
<1>1. /\ phase = "running" /\ at[b] \in 1 .. Last /\ at'[b] = at[b] + 1
      /\ \A d \in Block : at[d] \in Nat
      /\ \A d \in Block : d # b => at'[d] = at[d]
  BY InPass
<1>2. \A l : Given(l)' = Given(l)
  BY ValuesInPass
<1>3. 0 \in Block /\ NLayers \in Nat /\ NLayers' = NLayers
  BY DecodeAssumption, StageOps DEF Block, NLayers
<1>4. \A l \in 2 .. NLayers : at[0] > Stage(l, 1) => lout[l - 1] = Given(l)
  BY <1>1 DEF ModelInv, PassHolds, MirrorsHold
<1>5. lout = [l \in 1 .. NLayers - 1 |-> lout[l]]
  BY DEF ModelInv, MirrorShape
<1>6. \A l \in 1 .. NLayers + 1 : Stage(l, 1) \in Nat
  BY <1>3 DEF Stage
<1>7. CASE b # 0 \/ WindowAt(at[b]) # "norm"
  <2>1. lout' = lout
    BY <1>7, BlockKeepsMirrors
  <2>2. \A l \in 2 .. NLayers : at'[0] > Stage(l, 1) => at[0] > Stage(l, 1)
    <3> SUFFICES ASSUME NEW l \in 2 .. NLayers, at'[0] > Stage(l, 1) PROVE at[0] > Stage(l, 1)
      OBVIOUS
    <3>1. l \in 1 .. NLayers /\ Stage(l, 1) \in Nat
      BY <1>3, <1>6
    <3>2. WindowAt(Stage(l, 1)) = "norm"
      BY <3>1, StageOps
    <3> QED
      BY <1>1, <1>3, <1>7, <3>1, <3>2
  <2>3. MirrorsHold'
    BY <1>2, <1>3, <1>4, <2>1, <2>2 DEF MirrorsHold
  <2> QED
    BY <1>3, <1>5, <2>1, <2>3 DEF MirrorShape
<1>8. CASE b = 0 /\ WindowAt(at[b]) = "norm"
  <2> DEFINE m == LayerAt(at[0])
  <2>1. m \in 1 .. NLayers + 1 /\ at[0] = Stage(m, 1)
    BY <1>1, <1>8, NormStages
  <2> HIDE DEF m
  <2>2. lout' = IF m \in 2 .. NLayers THEN [lout EXCEPT ![m-1] = Given(m)] ELSE lout
    BY <1>8, <2>1, NormPublishes
  <2>3. lout' = [l \in 1 .. NLayers - 1 |-> lout'[l]]
    BY <1>5, <2>2
  <2>4. ASSUME NEW l \in 2 .. NLayers, at'[0] > Stage(l, 1)
        PROVE  lout'[l - 1] = Given(l)
    <3>1. m >= l
      <4>1. at'[0] = Stage(m, 1) + 1
        BY <1>1, <1>8, <2>1
      <4>2. Stage(m, 1) = 9 * m - 7 /\ Stage(l, 1) = 9 * l - 7
        BY <1>3, <2>1 DEF Stage
      <4> QED
        BY <1>3, <2>1, <2>4, <4>1, <4>2
    <3>2. l - 1 \in 1 .. NLayers - 1
      BY <1>3
    <3>3. CASE m = l
      BY <1>5, <2>2, <2>4, <3>2, <3>3
    <3>4. CASE m # l
      <4>1. at[0] > Stage(l, 1) /\ m - 1 # l - 1
        BY <1>3, <2>1, <3>1, <3>4 DEF Stage
      <4> QED
        BY <1>4, <1>5, <2>2, <2>4, <3>2, <4>1
    <3> QED
      BY <3>3, <3>4
  <2> QED
    BY <1>2, <1>3, <2>3, <2>4 DEF MirrorsHold, MirrorShape
<1> QED
  BY <1>7, <1>8

\* Only an "attn" layer has an append.
LEMMA AppendStage ==
  ASSUME NEW w \in 1 .. Last, WindowAt(w) = "append"
  PROVE  LayerAt(w) \in Kind("attn") /\ w = Stage(LayerAt(w), 4)
<1> DEFINE l == LayerAt(w)
<1>1. w # 1 /\ w \in 2 .. Last
  BY StageOps
<1>2. PICK i \in 1 .. 9 : w = Stage(l, i)
  BY <1>1, StageOfWindow
<1>3. l \in 1 .. NLayers + 1 /\ NLayers \in Nat
  BY <1>1, StageOfWindow, StageOps
<1>4. l # NLayers + 1
  <2> SUFFICES ASSUME l = NLayers + 1 PROVE FALSE
    OBVIOUS
  <2>1. i \in 1 .. 3
    <3> HIDE DEF l
    <3>1. 9 * l - 8 + i <= 9 * l - 8 + 3
      BY <1>1, <1>2, <1>3, StageOps DEF Stage
    <3> QED
      BY <1>3, <3>1
  <2>2. WindowAt(w) = <<"norm", "head", "emit">>[i]
    BY <1>2, <2>1, StageOps
  <2> QED
    BY <2>1, <2>2
<1>5. l \in 1 .. NLayers
  BY <1>3, <1>4
<1>6. WindowAt(w) = (IF l \in Kind("dn") THEN DnBlock ELSE AttnBlock)[i]
  BY <1>2, <1>5, StageWindow
<1> HIDE DEF l
<1>7. l \notin Kind("dn") /\ i = 4
  BY <1>6 DEF DnBlock, AttnBlock
<1> QED
  BY <1>2, <1>5, <1>7, KindsOfLayers DEF l

\* ... a cache the row of the pass, and every earlier one as it was,
LEMMA CachesStep ==
  ASSUME DecodeInv, LoopInv, FlowInv, ModelInv, NEW b \in Block, Execute(b)
  PROVE  CachesHold'
<1>1. /\ phase = "running" /\ phase' = "running" /\ pos' = pos /\ pos \in Nat
      /\ cell.kv_row = pos /\ pos \in 0 .. NCtx-1
      /\ at[b] \in 1 .. Last /\ at'[b] = at[b] + 1
      /\ \A d \in Block : at[d] \in Nat
      /\ \A d \in Block : d # b => at'[d] = at[d]
  <2>1. NCtx \in Nat
    BY DecodeAssumption
  <2> QED
    BY <2>1, InPass
<1>2. \A l, j : RowAt(l, j)' = RowAt(l, j)
  BY ValuesInPass
<1>3. Kind("attn")' = Kind("attn") /\ Block' = Block /\ NCtx' = NCtx
  BY DEF Kind, NLayers, Block
<1>4. \A l \in Kind("attn") : Stage(l, 4) \in Nat
  BY DEF Kind, Stage
<1>5. /\ \A l \in Kind("attn"), j \in 0 .. NCtx-1 : kv[l][j] = [c \in Block |-> kv[l][j][c]]
      /\ \A l \in Kind("attn"), j \in 0 .. NCtx-1, c \in Block :
           j < pos \/ (j = pos /\ at[c] > Stage(l, 4)) => kv[l][j][c] = RowAt(l, j)
  BY <1>1 DEF ModelInv, CachesHold, Appended
<1>6. SUFFICES
        /\ \A l \in Kind("attn"), j \in 0 .. NCtx-1 : kv'[l][j] = [c \in Block |-> kv'[l][j][c]]
        /\ \A l \in Kind("attn"), j \in 0 .. NCtx-1, c \in Block :
             j < pos \/ (j = pos /\ at'[c] > Stage(l, 4)) => kv'[l][j][c] = RowAt(l, j)
  BY <1>1, <1>2, <1>3 DEF CachesHold, Appended
<1>7. CASE WindowAt(at[b]) # "append"
  <2>1. kv' = kv
    BY <1>7, BlockKeepsMirrors
  <2>2. \A l \in Kind("attn"), c \in Block : at'[c] > Stage(l, 4) => at[c] > Stage(l, 4)
    <3> SUFFICES ASSUME NEW l \in Kind("attn"), NEW c \in Block, at'[c] > Stage(l, 4)
                 PROVE  at[c] > Stage(l, 4)
      OBVIOUS
    <3>1. l \in 1 .. NLayers /\ l \notin Kind("dn")
      BY KindsOfLayers
    <3>2. WindowAt(Stage(l, 4)) = "append"
      BY <3>1, StageOps
    <3> QED
      BY <1>1, <1>4, <1>7, <3>2
  <2> QED
    BY <1>5, <2>1, <2>2
<1>8. CASE WindowAt(at[b]) = "append"
  <2> DEFINE m == LayerAt(at[b])
  <2>1. m \in Kind("attn") /\ at[b] = Stage(m, 4)
    BY <1>1, <1>8, AppendStage
  <2>2. KvAppend(b, m)
    BY <1>8, BlockExecutes
  <2> HIDE DEF m
  <2>3. buf["k_stage"][b] = RowAt(m, pos)
    BY <1>1, <2>1 DEF ModelInv, PassHolds, AttnHolds
  <2> DEFINE cache == [kv[m] EXCEPT ![pos] = [kv[m][pos] EXCEPT ![b] = RowAt(m, pos)]]
  <2>4. kv' = [kv EXCEPT ![m] = cache]
    BY <1>1, <2>2, <2>3 DEF KvAppend
  <2>5. /\ kv = [l \in Kind("attn") |-> kv[l]]
        /\ kv[m] = [j \in 0 .. NCtx-1 |-> kv[m][j]]
    BY <2>1 DEF DecodeInv, CachesKeepTheirShape
  <2>6. \A l \in Kind("attn") : kv'[l] = IF l = m THEN cache ELSE kv[l]
    BY <2>1, <2>4, <2>5
  <2>7. \A j \in 0 .. NCtx-1 :
          cache[j] = IF j = pos THEN [kv[m][pos] EXCEPT ![b] = RowAt(m, pos)] ELSE kv[m][j]
    BY <1>1, <2>5
  <2>8. /\ [kv[m][pos] EXCEPT ![b] = RowAt(m, pos)] =
             [c \in Block |-> IF c = b THEN RowAt(m, pos) ELSE kv[m][pos][c]]
    <3>1. kv[m][pos] = [c \in Block |-> kv[m][pos][c]]
      BY <1>1, <1>5, <2>1
    <3> QED
      BY ONLY <3>1, Zenon
  <2> HIDE DEF cache
  <2>9. \A l \in Kind("attn"), j \in 0 .. NCtx-1 : kv'[l][j] = [c \in Block |-> kv'[l][j][c]]
    BY <1>1, <1>5, <2>6, <2>7, <2>8
  <2>10. ASSUME NEW l \in Kind("attn"), NEW j \in 0 .. NCtx-1, NEW c \in Block,
                j < pos \/ (j = pos /\ at'[c] > Stage(l, 4))
         PROVE  kv'[l][j][c] = RowAt(l, j)
    <3>1. CASE l = m /\ j = pos /\ c = b
      BY <2>6, <2>7, <2>8, <3>1
    <3>2. CASE ~ (l = m /\ j = pos /\ c = b)
      <4>1. kv'[l][j][c] = kv[l][j][c]
        BY <2>6, <2>7, <2>8, <3>2
      <4>2. j = pos => at[c] > Stage(l, 4)
        <5> SUFFICES ASSUME j = pos PROVE at[c] > Stage(l, 4)
          OBVIOUS
        <5>1. at'[c] > Stage(l, 4)
          BY <1>1, <2>10
        <5>2. CASE c # b
          BY <1>1, <5>1, <5>2
        <5>3. CASE c = b
          <6>1. l # m
            BY <3>2, <5>3
          <6>2. Stage(m, 4) # Stage(l, 4) /\ Stage(m, 4) \in Nat
            BY <1>4, <2>1, <6>1 DEF Stage, Kind
          <6> QED
            BY <1>1, <1>4, <2>1, <5>1, <5>3, <6>2
        <5> QED
          BY <5>2, <5>3
      <4> QED
        BY <1>5, <2>10, <4>1, <4>2
    <3> QED
      BY <3>1, <3>2
  <2> QED
    BY <2>9, <2>10
<1> QED
  BY <1>7, <1>8

\* ... and the states of the DeltaNet layers every token's value in turn.
LEMMA StatesStep ==
  ASSUME MarkersAreNoData, DecodeInv, LoopInv, FlowInv, ModelInv, NEW b \in Block, Execute(b)
  PROVE  StatesHold'
<1>1. /\ phase = "running" /\ phase' = "running" /\ pos \in Nat
      /\ BufShape /\ StateShape /\ Lockstep
  BY InPass
<1>2. \A l : Given(l)' = Given(l) /\ Inputs(l, pos)' = Inputs(l, pos)
  BY ValuesInPass
<1>3. Kind("dn")' = Kind("dn") /\ Block' = Block
  BY DEF Kind, NLayers, Block
<1>4. ASSUME NEW l \in Kind("dn"), NEW c \in Block, NEW s, s = Inputs(l, pos), NEW x, x = Given(l)
      PROVE  DnSlice(l, c, s, x)'
  <2>1. \A d \in Block : DnSlice(l, d, s, x)
    BY <1>1, <1>4 DEF ModelInv, StatesHold
  <2>2. IsSequence(s)
    BY <1>1, <1>4, InputsAreSequence
  <2>3. at[b] = Stage(l, 2) => x = Whole(buf["xn"])
    <3>1. l \in 1 .. NLayers + 1
      BY KindsOfLayers
    <3> QED
      BY <1>4, <3>1, NormIsRead
  <2>4. CASE c = b
    BY <1>1, <2>1, <2>2, <2>3, <2>4, DnOwnStep DEF MarkersAreNoData
  <2>5. CASE c # b
    BY <1>1, <2>1, <2>5, DnOthersStep
  <2> QED
    BY <2>4, <2>5
<1>5. ASSUME NEW l \in Kind("dn"), NEW c \in Block
      PROVE  DnSlice(l, c, Inputs(l, pos), Given(l))'
  <2>1. PICK s, x : s = Inputs(l, pos) /\ x = Given(l)
    OBVIOUS
  <2>2. DnSlice(l, c, s, x)'
    BY <1>4, <2>1
  <2> QED
    BY <1>2, <2>1, <2>2 DEF DnSlice, DnScratch, DnStates
<1> QED
  BY <1>1, <1>3, <1>5 DEF StatesHold

\* A block's step preserves the model invariant.
LEMMA ModelBlockStep ==
  ASSUME MarkersAreNoData, DecodeInv, LoopInv, FlowInv, ModelInv, NEW b \in Block, Execute(b)
  PROVE  ModelInv'
<1>1. /\ phase = "running" /\ phase' = "running" /\ pos' = pos /\ cell' = cell
      /\ cell.n_kv > pos /\ cell.n_kv <= NCtx /\ MaskHolds
  BY InPass
<1>2. Known' = Known
  BY ValuesInPass
<1>3. CellsHold'
  BY <1>1, <1>2 DEF ModelInv, CellsHold, MaskHolds
<1>4. Kind("attn")' = Kind("attn") /\ Block' = Block /\ NLayers' = NLayers
  BY DEF Kind, NLayers, Block
<1>5. PassHolds'
  BY <1>4, StreamStep, OutStep, AttnStep, LogitsStep, MirrorsStep DEF PassHolds
<1> QED
  BY <1>3, <1>5, CachesStep, StatesStep, MirrorsStep DEF ModelInv

(***************************************************************************)
(* The host's steps.                                                       *)
(***************************************************************************)
\* The context is a whole number of padded windows.
ContextIsPadded == NCtx % Pad = 0

\* Then the padded window of a pass fits the context and holds its position.
LEMMA PaddedWindow ==
  ASSUME ContextIsPadded
  PROVE  /\ MaskCap = NCtx /\ NCtx \in Nat
         /\ \A n \in Nat : PadUp(n, Pad) \in Nat /\ PadUp(n, Pad) >= n
<1>1. NCtx \in Nat /\ Pad \in Nat \ {0}
  BY DecodeAssumption
<1>2. ASSUME NEW n \in Nat
      PROVE  PadUp(n, Pad) \in Nat /\ PadUp(n, Pad) >= n
  <2>1. PadUp(n, Pad) \in Nat
    BY <1>1, PadUpIsNat
  <2>2. CeilDiv(n, Pad) * Pad >= n
    BY <1>1, CeilDivCovers
  <2> QED
    BY <2>1, <2>2 DEF PadUp
<1>3. MaskCap = NCtx
  <2> DEFINE q == NCtx \div Pad
  <2>1. q \in Nat /\ NCtx = q * Pad
    BY <1>1, SMTT(30) DEF ContextIsPadded
  <2> HIDE DEF q
  <2>2. (q * Pad + Pad - 1) \div Pad = q
    BY <1>1, <2>1, SMTT(30)
  <2> QED
    BY <2>1, <2>2 DEF MaskCap, PadUp, CeilDiv
<1> QED
  BY <1>1, <1>2, <1>3

\* A step that keeps the first n tokens known keeps their values.
LEMMA PrefixKept ==
  ASSUME LoopInv, LoopInv', NEW m \in 0 .. Len(Known), m <= Len(Known'),
         \A i \in 1 .. m : Known'[i] = Known[i]
  PROVE  /\ SubSeq(Known, 1, m)' = SubSeq(Known, 1, m)
         /\ \A n \in 1 .. m : \A l : Value(l, n)' = Value(l, n)
<1> DEFINE k == Known
           j == Known'
<1>1. /\ k \in Seq(UNION {{k[i]} : i \in 1 .. Len(k)}) /\ Len(k) \in Nat
  BY KnownTokens
<1>2. /\ j \in Seq(UNION {{j[i]} : i \in 1 .. Len(j)}) /\ Len(j) \in Nat
  <2>1. (Known \in Seq(UNION {{Known[i]} : i \in 1 .. Len(Known)}))'
    BY KnownTokens, PTL
  <2> QED
    BY <2>1
<1> HIDE DEF k, j
<1>3. ASSUME NEW n \in 0 .. m
      PROVE  SubSeq(j, 1, n) = SubSeq(k, 1, n)
  <2>1. n \in Nat /\ n <= Len(k) /\ n <= Len(j) /\ \A i \in 1 .. n : j[i] = k[i]
    BY <1>1 DEF k, j
  <2>2. SubSeq(k, 1, n) = [i \in 1 .. n |-> k[i]]
    BY <1>1, <2>1
  <2>3. SubSeq(j, 1, n) = [i \in 1 .. n |-> j[i]]
    BY <1>2, <2>1
  <2> QED
    BY <2>1, <2>2, <2>3
<1>4. m \in 0 .. m
  BY <1>1 DEF k
<1>5. SubSeq(Known, 1, m)' = SubSeq(Known, 1, m)
  BY <1>3, <1>4 DEF k, j
<1>6. \A n \in 1 .. m : \A l : Value(l, n)' = Value(l, n)
  <2> TAKE n \in 1 .. m
  <2>1. SubSeq(Known, 1, n)' = SubSeq(Known, 1, n)
    <3>1. n \in 0 .. m
      BY <1>1 DEF k
    <3> QED
      BY <1>3, <3>1 DEF k, j
  <2> HIDE DEF Known
  <2> QED
    BY <2>1 DEF Value
<1> QED
  BY <1>5, <1>6

\* The invariant holds before the first pass, ...
LEMMA ModelInit ==
  ASSUME Init
  PROVE  ModelInv
<1>1. phase = "start" /\ pos = 0
  BY DEF Init
<1>2. CellsHold /\ PassHolds
  BY <1>1 DEF CellsHold, PassHolds
<1>3. StatesHold
  <2>1. IsSequence(<<>>)
    BY DEF IsSequence
  <2>2. Tail(Window(<<>>)) = NoInput
    <3>1. Tail(Window(<<>>)) = [i \in 1 .. Taps - 1 |-> Window(<<>>)[i + 1]]
      BY <2>1, WindowIsSequence
    <3>2. \A i \in 1 .. Taps - 1 : Window(<<>>)[i + 1] = Zero
      BY <2>1, DecodeAssumption DEF Window
    <3> QED
      BY <3>1, <3>2 DEF NoInput
  <2>3. \A l : Inputs(l, 0) = <<>>
    <3> TAKE l
    <3>1. IsSequence(Inputs(l, 0)) /\ Len(Inputs(l, 0)) = 0
      BY InputsAreSequence
    <3> QED
      BY <3>1 DEF IsSequence
  <2>4. \A l \in Kind("dn"), b \in Block : DnSettled(l, b, <<>>)
    BY <2>2 DEF Init, DnSettled, All
  <2> QED
    BY <1>1, <2>3, <2>4 DEF StatesHold
<1>4. CachesHold
  <2>1. kv = [l \in Kind("attn") |-> [j \in 0 .. NCtx-1 |-> [b \in Block |-> Zero]]]
    BY DEF Init, All
  <2> QED
    BY <1>1, <2>1 DEF CachesHold, Appended
<1>5. MirrorShape
  BY DEF Init, MirrorShape
<1> QED
  BY <1>2, <1>3, <1>4, <1>5 DEF ModelInv

\* Between passes the model invariant depends on what persists and on the values of the
\* tokens that were fed.
LEMMA ModelIdle ==
  ASSUME DecodeInv, LoopInv, ModelInv, phase # "running", phase' # "running",
         UNCHANGED <<pos, lout, persistent>>,
         \A n \in 1 .. pos : \A l : Value(l, n)' = Value(l, n)
  PROVE  StatesHold' /\ CachesHold' /\ PassHolds' /\ MirrorShape'
<1>1. pos \in Nat
  BY DEF LoopInv
<1>2. UNCHANGED <<hist, ssm, kv>>
  BY DEF persistent
<1>3. \A l : Inputs(l, pos)' = Inputs(l, pos)
  BY DEF Inputs
<1>4. \A l : \A j \in 0 .. pos - 1 : RowAt(l, j)' = RowAt(l, j)
  <2> TAKE l
  <2> TAKE j \in 0 .. pos - 1
  <2>1. j + 1 \in 1 .. pos
    BY <1>1
  <2> QED
    BY <2>1 DEF RowAt
<1>5. Kind("dn")' = Kind("dn") /\ Kind("attn")' = Kind("attn") /\ Block' = Block
      /\ NLayers' = NLayers
  BY DEF Kind, NLayers, Block
<1>6. StatesHold'
  BY <1>2, <1>3, <1>5 DEF ModelInv, StatesHold, DnSettled
<1>7. CachesHold'
  <2>1. ASSUME NEW l \in Kind("attn"), NEW j \in 0 .. NCtx-1, j < pos
        PROVE  RowAt(l, j)' = RowAt(l, j)
    BY <1>1, <1>4, <2>1, DecodeAssumption
  <2> QED
    BY <1>2, <1>5, <2>1 DEF ModelInv, CachesHold, Appended
<1>8. PassHolds' /\ MirrorShape'
  BY <1>5 DEF ModelInv, PassHolds, MirrorShape
<1> QED
  BY <1>6, <1>7, <1>8

\* ... after the arguments are checked, ...
LEMMA ModelStart ==
  ASSUME DecodeInv, LoopInv, ModelInv, Start
  PROVE  ModelInv'
<1>1. /\ phase # "running" /\ phase' \notin {"ring", "running"}
      /\ UNCHANGED <<prompt, emitted, pos, cell, lout, persistent>>
  BY DEF Start
<1>2. \A l, n : Value(l, n)' = Value(l, n)
  BY <1>1, ValuesKept
<1>3. CellsHold'
  BY <1>1 DEF CellsHold
<1> QED
  BY <1>1, <1>2, <1>3, ModelIdle DEF ModelInv

\* The tokens known before a greedy choice stay.
LEMMA KnownGrows ==
  ASSUME LoopInv, LoopInv', UNCHANGED <<prompt, pos>>,
         emitted' = emitted \/ \E x : emitted' = Append(emitted, x)
  PROVE  /\ SubSeq(Known, 1, pos)' = SubSeq(Known, 1, pos)
         /\ \A n \in 1 .. pos : \A l : Value(l, n)' = Value(l, n)
<1> DEFINE k == Known
           j == Known'
           e == emitted'
<1>1. /\ Len(k) = Len(prompt) + Len(emitted) /\ pos \in 0 .. Len(k)
      /\ Len(prompt) \in Nat \ {0} /\ Len(emitted) \in Nat
      /\ \A i \in 1 .. Len(prompt) : k[i] = prompt[i]
      /\ \A i \in 1 .. Len(emitted) : k[Len(prompt) + i] = emitted[i]
  BY KnownTokens
<1>2. /\ Len(j) = Len(prompt) + Len(e) /\ Len(e) \in Nat
      /\ \A i \in 1 .. Len(prompt) : j[i] = prompt[i]
      /\ \A i \in 1 .. Len(e) : j[Len(prompt) + i] = e[i]
  <2>1. (/\ Len(Known) = Len(prompt) + Len(emitted) /\ Len(emitted) \in Nat
         /\ \A i \in 1 .. Len(prompt) : Known[i] = prompt[i]
         /\ \A i \in 1 .. Len(emitted) : Known[Len(prompt) + i] = emitted[i])'
    BY KnownTokens, PTL
  <2> QED
    BY <2>1
<1>3. Len(e) >= Len(emitted) /\ \A i \in 1 .. Len(emitted) : e[i] = emitted[i]
  <2>1. CASE emitted' = emitted
    BY <1>1, <2>1
  <2>2. CASE \E x : emitted' = Append(emitted, x)
    <3> PICK x : e = Append(emitted, x)
      BY <2>2
    <3>1. IsSequence(emitted)
      BY DEF LoopInv
    <3> HIDE DEF e
    <3> QED
      BY <1>1, <3>1, AppendIsSequence
  <2> QED
    BY <2>1, <2>2
<1> HIDE DEF k, j, e
<1>4. Len(j) >= Len(k) /\ \A i \in 1 .. Len(k) : j[i] = k[i]
  <2>1. Len(j) >= Len(k)
    BY <1>1, <1>2, <1>3
  <2>2. ASSUME NEW i \in 1 .. Len(k)
        PROVE  j[i] = k[i]
    <3>1. CASE i <= Len(prompt)
      <4>1. i \in 1 .. Len(prompt)
        BY <1>1, <3>1
      <4> QED
        BY <1>1, <1>2, <4>1
    <3>2. CASE ~ (i <= Len(prompt))
      <4> DEFINE m == i - Len(prompt)
      <4>1. m \in 1 .. Len(emitted) /\ m \in 1 .. Len(e) /\ Len(prompt) + m = i
        BY <1>1, <1>2, <1>3, <3>2
      <4> HIDE DEF m
      <4> QED
        BY <1>1, <1>2, <1>3, <4>1
    <3> QED
      BY <3>1, <3>2
  <2> QED
    BY <2>1, <2>2
<1>5. pos \in 0 .. Len(Known) /\ pos <= Len(Known') /\ \A i \in 1 .. pos : Known'[i] = Known[i]
  <2>1. \A i \in 1 .. pos : i \in 1 .. Len(k)
    BY <1>1
  <2>2. Len(k) \in Nat /\ Len(j) \in Nat
    BY <1>1, <1>2
  <2> QED
    BY <1>1, <1>4, <2>1, <2>2 DEF k, j
<1>6. PICK m : m = pos
  OBVIOUS
<1>7. m \in 0 .. Len(Known) /\ m <= Len(Known') /\ \A i \in 1 .. m : Known'[i] = Known[i]
  BY <1>5, <1>6
<1>8. /\ SubSeq(Known, 1, m)' = SubSeq(Known, 1, m)
      /\ \A n \in 1 .. m : \A l : Value(l, n)' = Value(l, n)
  BY <1>7, PrefixKept
<1> QED
  BY <1>6, <1>8

\* ... when the cells of a pass are set, ...
LEMMA ModelSetPassInputs ==
  ASSUME ContextIsPadded, DecodeInv, LoopInv, LoopInv', ModelInv, SetPassInputs
  PROVE  ModelInv' /\ SubSeq(Known, 1, pos)' = SubSeq(Known, 1, pos)
<1>1. /\ phase = "prepare" /\ phase' \in {"ring", "threw"}
      /\ UNCHANGED <<prompt, pos, lout, persistent>>
      /\ emitted' = emitted \/ \E x : emitted' = Append(emitted, x)
  BY DEF SetPassInputs, ChooseToken
<1>2. /\ SubSeq(Known, 1, pos)' = SubSeq(Known, 1, pos)
      /\ \A n \in 1 .. pos : \A l : Value(l, n)' = Value(l, n)
  BY <1>1, KnownGrows
<1>3. CellsHold'
  <2> DEFINE nkv == PadUp(pos + 1, Pad)
             mask == [j \in 0 .. MaskCap-1 |-> IF j < nkv THEN j <= pos ELSE cell.mask_f16[j]]
  <2>1. pos \in Nat /\ nkv \in Nat /\ nkv > pos /\ MaskCap = NCtx /\ NCtx \in Nat
    <3>1. pos \in Nat /\ pos + 1 \in Nat
      BY DEF LoopInv
    <3>2. PadUp(pos + 1, Pad) \in Nat /\ PadUp(pos + 1, Pad) >= pos + 1
      BY <3>1, PaddedWindow
    <3> QED
      BY <3>1, <3>2, PaddedWindow
  <2>2. CASE nkv > MaskCap
    <3>1. phase' = "threw"
      BY <2>2 DEF SetPassInputs
    <3> QED
      BY <3>1 DEF CellsHold
  <2>3. CASE ~ (nkv > MaskCap)
    <3>1. phase' = "ring" /\ cell' = [cell EXCEPT !.positions = pos, !.kv_row = pos,
                                                  !.n_kv = nkv, !.mask_f16 = mask]
      BY <2>3 DEF SetPassInputs
    <3> HIDE DEF nkv, mask
    <3>2. cell'.n_kv = nkv /\ cell'.mask_f16 = mask
      BY <3>1 DEF DecodeInv, CellsTyped, CellName
    <3>3. nkv > pos /\ nkv <= NCtx
      BY <2>1, <2>3
    <3>4. ASSUME NEW j \in 0 .. nkv - 1
          PROVE  mask[j] = (j <= pos)
      <4>1. j \in 0 .. MaskCap-1 /\ j < nkv
        BY <2>1, <3>3
      <4> HIDE DEF MaskCap
      <4> QED
        BY <4>1 DEF mask
    <3>5. MaskHolds'
      BY <1>1, <3>2, <3>4 DEF MaskHolds
    <3> QED
      BY <1>1, <3>1, <3>2, <3>3, <3>5 DEF CellsHold
  <2> QED
    BY <2>2, <2>3
<1>4. phase # "running" /\ phase' # "running"
  BY <1>1
<1>5. StatesHold' /\ CachesHold' /\ PassHolds' /\ MirrorShape'
  BY <1>1, <1>2, <1>4, ModelIdle
<1> QED
  BY <1>2, <1>3, <1>5 DEF ModelInv

\* ... when its blocks start, ...
LEMMA ModelRunPass ==
  ASSUME DecodeInv, LoopInv, FlowInv, ModelInv, RunPass
  PROVE  ModelInv'
<1>1. /\ phase = "ring" /\ phase' = "running" /\ at' = All(1)
      /\ cell' = [cell EXCEPT !.token = Known[pos + 1]]
      /\ UNCHANGED <<prompt, emitted, pos, buf, lout, hist, ssm, kv>>
  BY DEF RunPass, persistent, Known
<1>2. /\ cell'.n_kv = cell.n_kv /\ cell'.mask_f16 = cell.mask_f16 /\ cell'.token = Known[pos + 1]
  BY <1>1 DEF DecodeInv, CellsTyped, CellName
<1>3. Known' = Known
  BY <1>1 DEF Known
<1>4. \A l, n : Value(l, n)' = Value(l, n)
  BY <1>3 DEF Value
<1>5. \A l : /\ Inputs(l, pos)' = Inputs(l, pos)
             /\ \A j : RowAt(l, j)' = RowAt(l, j)
  BY <1>1, <1>4 DEF Inputs, RowAt
<1>6. /\ Kind("dn")' = Kind("dn") /\ Kind("attn")' = Kind("attn") /\ Block' = Block
      /\ NLayers' = NLayers /\ Last' = Last
  BY DEF Kind, NLayers, Block, Last
<1>7. 0 \in Block /\ \A b \in Block : at'[b] = 1
  BY <1>1, DecodeAssumption DEF All, Block
<1>8. /\ \A l \in 1 .. NLayers + 1 : \A i \in 1 .. 11 : Stage(l, i) \in Nat /\ Stage(l, i) >= 2
      /\ Last \in Nat /\ Last >= 4
      /\ \A l : l \in Kind("dn") \cup Kind("attn") \cup 2 .. NLayers \cup 1 .. NLayers =>
           l \in 1 .. NLayers + 1
  BY KindsOfLayers DEF Stage, Last
<1>9. CellsHold'
  BY <1>1, <1>2, <1>3 DEF ModelInv, CellsHold, MaskHolds
<1>10. CachesHold'
  BY <1>1, <1>5, <1>6, <1>7, <1>8 DEF ModelInv, CachesHold, Appended
<1>11. StatesHold'
  <2> SUFFICES ASSUME NEW l \in Kind("dn"), NEW b \in Block
               PROVE  DnSlice(l, b, Inputs(l, pos), Given(l))'
    BY <1>1, <1>6 DEF StatesHold
  <2>1. DnSettled(l, b, Inputs(l, pos))
    BY <1>1 DEF ModelInv, StatesHold
  <2>2. at'[b] = 1 /\ \A i \in 1 .. 11 : Stage(l, i) \in Nat /\ Stage(l, i) >= 2
    BY <1>7, <1>8
  <2>3. at'[b] <= Stage(l, 3) /\ at'[b] <= Stage(l, 6) /\ \A i \in 1 .. 9 : at'[b] # Stage(l, i)
    BY <2>2
  <2>4. DnScratch(l, b, Inputs(l, pos), Given(l))'
    BY <2>3 DEF DnScratch
  <2>5. DnStates(l, b, Inputs(l, pos), Given(l))'
    BY <1>1, <1>5, <2>1, <2>3 DEF DnStates, DnSettled
  <2> QED
    BY <2>4, <2>5 DEF DnSlice
<1>12. PassHolds'
  <2>1. StreamHolds'
    <3>1. \A l \in 1 .. NLayers + 1 : ~ (1 \in Stage(l, 2) .. Stage(l, 8))
      BY <1>8
    <3>2. \A l \in 1 .. NLayers : ~ (1 \in Stage(l, 9) .. Stage(l, 10))
      BY <1>8
    <3> QED
      BY <1>6, <1>7, <3>1, <3>2 DEF StreamHolds
  <2>2. \A l \in 1 .. NLayers, b \in Block : OutHolds(l, b)'
    <3> TAKE l \in 1 .. NLayers, b \in Block
    <3>1. /\ ~ (1 \in Stage(l, 7) .. Stage(l, 8)) /\ 1 # Stage(l, 6)
          /\ ~ (1 \in Stage(l, 8) .. Stage(l, 11))
      BY <1>8
    <3> QED
      BY <1>7, <3>1 DEF OutHolds
  <2>3. \A l \in Kind("attn"), b \in Block : AttnHolds(l, b)'
    <3> TAKE l \in Kind("attn"), b \in Block
    <3>1. /\ \A i \in 1 .. 9 : 1 # Stage(l, i)
          /\ ~ (1 \in Stage(l, 6) .. Stage(l, 7))
      BY <1>8
    <3> QED
      BY <1>7, <3>1 DEF AttnHolds, AttnSlice
  <2>4. LogitsHold'
    BY <1>6, <1>7, <1>8 DEF LogitsHold
  <2>5. MirrorsHold'
    BY <1>6, <1>7, <1>8 DEF MirrorsHold
  <2> QED
    BY <1>6, <2>1, <2>2, <2>3, <2>4, <2>5 DEF PassHolds
<1>13. MirrorShape'
  BY <1>1, <1>6 DEF ModelInv, MirrorShape
<1> QED
  BY <1>9, <1>10, <1>11, <1>12, <1>13 DEF ModelInv

\* What a pass that is done has left.
LEMMA PassIsDone ==
  ASSUME LoopInv, FlowInv, ModelInv, EndPass
  PROVE  /\ phase = "running" /\ pos \in Nat
         /\ \A l \in Kind("dn"), b \in Block : DnSettled(l, b, Given(l + 1))
         /\ \A l \in Kind("attn"), b \in Block : Appended(l, b)
         /\ \A b \in Block : buf["logits"][b] = Given(NLayers + 1)
         /\ lout = [l \in 1 .. NLayers - 1 |-> Given(l + 1)]
<1>1. phase = "running" /\ (\A b \in Block : at[b] > Last) /\ pos \in Nat
  BY DEF EndPass, LoopInv
<1>2. Last \in Nat /\ NLayers \in Nat /\ 0 \in Block
  BY StageOps, DecodeAssumption DEF Block
<1>3. \A b \in Block : at[b] = Last + 1
  BY <1>1, <1>2 DEF FlowInv, Lockstep
<1>4. \A l \in 1 .. NLayers : \A i \in 1 .. 9 : Stage(l, i) \in Nat /\ Stage(l, i) <= Last
  BY <1>2 DEF Stage, Last
<1>5. /\ Kind("dn") \subseteq 1 .. NLayers /\ Kind("attn") \subseteq 1 .. NLayers
  BY KindsOfLayers
<1> HIDE DEF Last
<1>6. ASSUME NEW l \in Kind("dn"), NEW b \in Block
      PROVE  DnSettled(l, b, Given(l + 1))
  <2>1. DnStates(l, b, Inputs(l, pos), Given(l))
    BY <1>1 DEF ModelInv, StatesHold, DnSlice
  <2>2. Append(Inputs(l, pos), Given(l)) = Given(l + 1)
    BY <1>1, <1>5, GivenInPass
  <2>3. ~ (at[b] <= Stage(l, 3)) /\ ~ (at[b] <= Stage(l, 6))
    BY <1>2, <1>3, <1>4, <1>5
  <2> QED
    BY <2>1, <2>2, <2>3 DEF DnStates, DnSettled
<1>7. \A l \in Kind("attn"), b \in Block : Appended(l, b)
  BY <1>1, <1>2, <1>3, <1>4, <1>5 DEF Appended
<1>8. \A b \in Block : buf["logits"][b] = Given(NLayers + 1)
  BY <1>1, <1>2, <1>3 DEF ModelInv, PassHolds, LogitsHold
<1>9. lout = [l \in 1 .. NLayers - 1 |-> Given(l + 1)]
  <2>1. ASSUME NEW l \in 1 .. NLayers - 1
        PROVE  lout[l] = Given(l + 1)
    <3>1. l + 1 \in 2 .. NLayers /\ (l + 1) - 1 = l /\ l + 1 \in 1 .. NLayers
      BY <1>2
    <3>2. at[0] > Stage(l + 1, 1)
      BY <1>2, <1>3, <1>4, <3>1
    <3>3. lout[(l + 1) - 1] = Given(l + 1)
      BY <1>1, <3>1, <3>2 DEF ModelInv, PassHolds, MirrorsHold
    <3> QED
      BY <3>1, <3>3
  <2>2. lout = [l \in 1 .. NLayers - 1 |-> lout[l]]
    BY DEF ModelInv, MirrorShape
  <2> QED
    BY <2>1, <2>2
<1> QED
  BY <1>1, <1>6, <1>7, <1>8, <1>9

\* ... and when it has ended.
LEMMA ModelEndPass ==
  ASSUME DecodeInv, LoopInv, FlowInv, ModelInv, EndPass
  PROVE  ModelInv'
<1>1. /\ phase = "running" /\ phase' = "prepare" /\ pos' = pos + 1 /\ pos \in Nat
      /\ UNCHANGED <<prompt, emitted, lout, hist, ssm, kv>>
  BY DEF EndPass, persistent, LoopInv
<1>2. /\ \A l \in Kind("dn"), b \in Block : DnSettled(l, b, Given(l + 1))
      /\ \A l \in Kind("attn"), b \in Block : Appended(l, b)
  BY PassIsDone
<1>3. Known' = Known
  BY <1>1 DEF Known
<1>4. \A l, n : Value(l, n)' = Value(l, n)
  BY <1>3 DEF Value
<1>5. /\ Kind("dn")' = Kind("dn") /\ Kind("attn")' = Kind("attn") /\ Block' = Block
      /\ NLayers' = NLayers
  BY DEF Kind, NLayers, Block
<1>6. CellsHold' /\ PassHolds'
  BY <1>1 DEF CellsHold, PassHolds
<1>7. StatesHold'
  <2> SUFFICES ASSUME NEW l \in Kind("dn"), NEW b \in Block
               PROVE  DnSettled(l, b, Inputs(l, pos))'
    BY <1>1, <1>5 DEF StatesHold
  <2>1. Inputs(l, pos)' = Inputs(l, pos + 1)
    BY <1>1, <1>4 DEF Inputs
  <2>2. Given(l + 1) = Inputs(l, pos + 1)
    BY <1>1, KindsOfLayers, GivenInPass
  <2> QED
    BY <1>1, <1>2, <2>1, <2>2 DEF DnSettled
<1>8. CachesHold'
  <2>1. \A l, j : RowAt(l, j)' = RowAt(l, j)
    BY <1>4 DEF RowAt
  <2>2. ASSUME NEW j \in 0 .. NCtx-1, j < pos + 1
        PROVE  j < pos \/ j = pos
    BY <1>1, <2>2, DecodeAssumption
  <2> QED
    BY <1>1, <1>2, <1>5, <2>1, <2>2 DEF ModelInv, CachesHold, Appended
<1>9. MirrorShape'
  BY <1>1, <1>5 DEF ModelInv, MirrorShape
<1> QED
  BY <1>6, <1>7, <1>8, <1>9 DEF ModelInv

\* A step that changes nothing keeps it.
LEMMA ModelStutter ==
  ASSUME ModelInv, UNCHANGED vars
  PROVE  ModelInv'
<1>1. UNCHANGED <<prompt, emitted, phase, pos, cell, at, buf, lout, hist, ssm, kv>>
  BY DEF vars, host, persistent
<1>2. /\ Known' = Known
      /\ \A l, n : Value(l, n)' = Value(l, n) /\ RowAt(l, n)' = RowAt(l, n)
      /\ \A l : Given(l)' = Given(l) /\ Inputs(l, pos)' = Inputs(l, pos)
                /\ RowAt(l, pos)' = RowAt(l, pos)
      /\ \A l, c : Record(l, c)' = Record(l, c)
  BY <1>1, ValuesKept
<1>3. /\ Kind("dn")' = Kind("dn") /\ Kind("attn")' = Kind("attn") /\ Block' = Block
      /\ NLayers' = NLayers /\ Last' = Last
  BY DEF Kind, NLayers, Block, Last
<1>4. CellsHold'
  BY <1>1, <1>2 DEF ModelInv, CellsHold, MaskHolds
<1>5. StatesHold'
  BY <1>1, <1>2, <1>3 DEF ModelInv, StatesHold, DnSlice, DnScratch, DnStates, DnSettled, Whole
<1>6. CachesHold'
  BY <1>1, <1>2, <1>3 DEF ModelInv, CachesHold, Appended
<1>7. PassHolds'
  <2>1. StreamHolds' <=> StreamHolds
    BY <1>1, <1>2, <1>3 DEF StreamHolds, RowsHold
  <2>2. \A l, b : OutHolds(l, b)' <=> OutHolds(l, b)
    BY <1>1, <1>2, <1>3 DEF OutHolds
  <2>3. \A l, b : AttnHolds(l, b)' <=> AttnHolds(l, b)
    <3>1. \A r, l : Fresh(r, l)' <=> Fresh(r, l)
      BY <1>1 DEF Fresh
    <3>2. \A l, b : Fresh(buf["fattn_partial"][b], l)' <=> Fresh(buf["fattn_partial"][b], l)
      BY <1>1, <3>1 DEF Fresh
    <3>3. ASSUME NEW l, NEW b
          PROVE  AttnSlice(l, b, Given(l))' <=> AttnSlice(l, b, Given(l))
      BY <1>1, <1>2, <3>2 DEF AttnSlice, Whole
    <3> QED
      BY <1>1, <1>2, <3>3 DEF AttnHolds
  <2>4. (LogitsHold' <=> LogitsHold) /\ (MirrorsHold' <=> MirrorsHold)
    BY <1>1, <1>2, <1>3 DEF LogitsHold, MirrorsHold
  <2> QED
    BY <1>1, <1>3, <2>1, <2>2, <2>3, <2>4 DEF ModelInv, PassHolds
<1>8. MirrorShape'
  BY <1>1, <1>3 DEF ModelInv, MirrorShape
<1> QED
  BY <1>4, <1>5, <1>6, <1>7, <1>8 DEF ModelInv

\* Every step keeps the model invariant.
LEMMA ModelStep ==
  ASSUME MarkersAreNoData, ContextIsPadded, DecodeInv, LoopInv, FlowInv, ModelInv, [Next]_vars
  PROVE  ModelInv'
<1>1. LoopInv'
  BY LoopStep
<1>2. CASE Start
  BY <1>2, ModelStart
<1>3. CASE SetPassInputs
  BY <1>1, <1>3, ModelSetPassInputs
<1>4. CASE RunPass
  BY <1>4, ModelRunPass
<1>5. CASE EndPass
  BY <1>5, ModelEndPass
<1>6. ASSUME NEW b \in Block, Execute(b)
      PROVE  ModelInv'
  BY <1>6, ModelBlockStep
<1>7. CASE UNCHANGED vars
  BY <1>7, ModelStutter
<1> QED
  BY <1>2, <1>3, <1>4, <1>5, <1>6, <1>7 DEF Next, HostStep

\* Whatever the interleaving of the blocks, caches, states and scratch hold the values
\* of the tokens fed so far.
THEOREM ModelInvariance ==
  ASSUME MarkersAreNoData, ContextIsPadded
  PROVE  Spec => []ModelInv
<1>1. Init => ModelInv
  BY ModelInit
<1>2. DecodeInv /\ LoopInv /\ FlowInv /\ ModelInv /\ [Next]_vars => ModelInv'
  BY ModelStep
<1>3. Init => LoopInv
  BY LoopInit
<1>4. DecodeInv /\ LoopInv /\ [Next]_vars => LoopInv'
  BY LoopStep
<1> QED
  BY <1>1, <1>2, <1>3, <1>4, DecodeInvariance, FlowInvariance, PTL DEF Spec

(***************************************************************************)
(* The loop is greedy decoding.                                            *)
(***************************************************************************)
\* The rows read so far, and the token of a step, which is the choice of the last.
GreedyLoop ==
  /\ IsSequence(rows)
  /\ Len(rows) = IF pos < Len(prompt) THEN 0 ELSE pos - Len(prompt) + 1
  /\ phase \notin {"start", "refused"} => Tokens <= NCtx
  /\ phase \in {"ring", "running"} /\ pos >= Len(prompt) =>
       emitted[pos - Len(prompt) + 1] = Argmax(rows[Len(rows)])

\* Nothing is read before the first pass.
LEMMA GreedyLoopInit ==
  ASSUME Init
  PROVE  GreedyLoop
<1>1. phase = "start" /\ pos = 0 /\ rows = <<>> /\ prompt \in Prompts
  BY DEF Init
<1>2. Len(prompt) \in Nat \ {0}
  BY <1>1, DecodeAssumption
<1>3. IsSequence(rows) /\ Len(rows) = 0
  BY <1>1 DEF IsSequence
<1> QED
  BY <1>1, <1>2, <1>3 DEF GreedyLoop

\* Every step of the host reads one row per pass, past the prompt, and feeds its choice.
LEMMA GreedyLoopStep ==
  ASSUME DecodeInv, LoopInv, GreedyLoop, [Next]_vars
  PROVE  GreedyLoop'
<1>1. Len(prompt) \in Nat \ {0} /\ pos \in Nat /\ steps \in Nat /\ Tokens = Len(prompt) + steps
  BY DecodeAssumption DEF LoopInv, Tokens
<1>2. IsSequence(rows) /\ Len(rows) \in Nat
  BY <1>1 DEF GreedyLoop
<1>3. ASSUME UNCHANGED <<prompt, steps, pos, rows, emitted>>,
             phase' \notin {"start", "refused"} => phase \notin {"start", "refused"},
             phase' \in {"ring", "running"} => phase \in {"ring", "running"}
      PROVE  GreedyLoop'
  <2>1. Tokens' = Tokens
    BY <1>3 DEF Tokens
  <2> HIDE DEF Tokens
  <2> QED
    BY <1>3, <2>1 DEF GreedyLoop, IsSequence
<1>4. CASE Start
  <2>1. /\ phase' = IF Tokens > NCtx THEN "refused" ELSE "prepare"
        /\ UNCHANGED <<prompt, steps, pos, rows, emitted>>
    BY <1>4 DEF Start
  <2>2. Tokens' = Tokens /\ NCtx \in Nat /\ Tokens \in Nat
    BY <1>1, <2>1, DecodeAssumption DEF Tokens
  <2> HIDE DEF Tokens
  <2> QED
    BY <2>1, <2>2 DEF GreedyLoop, IsSequence
<1>5. CASE SetPassInputs
  <2>1. /\ phase = "prepare" /\ UNCHANGED <<prompt, steps, pos, rows>>
    BY <1>5 DEF SetPassInputs
  <2>2. Tokens' = Tokens /\ Tokens <= NCtx
    BY <2>1 DEF Tokens, GreedyLoop
  <2>3. pos >= Len(prompt) => emitted'[pos - Len(prompt) + 1] = Argmax(rows[Len(rows)])
    <3> SUFFICES ASSUME pos >= Len(prompt)
                 PROVE  emitted'[pos - Len(prompt) + 1] = Argmax(rows[Len(rows)])
      OBVIOUS
    <3>1. emitted' = Append(emitted, Argmax(rows[Len(rows)]))
      BY <1>1, <1>5 DEF SetPassInputs, ChooseToken
    <3>2. IsSequence(emitted) /\ Len(emitted) = pos - Len(prompt)
      BY <1>1, <2>1 DEF LoopInv, Chosen
    <3> QED
      BY <3>1, <3>2, AppendIsSequence
  <2> HIDE DEF Tokens
  <2> QED
    BY <2>1, <2>2, <2>3 DEF GreedyLoop, IsSequence
<1>6. CASE RunPass
  <2>1. phase = "ring" /\ UNCHANGED <<prompt, steps, pos, rows, emitted>>
    BY <1>6 DEF RunPass
  <2> QED
    BY <1>3, <2>1
<1>7. CASE EndPass
  <2>1. /\ phase = "running" /\ phase' = "prepare" /\ pos' = pos + 1
        /\ rows' = IF pos + 1 >= Len(prompt) THEN Append(rows, Whole(buf["logits"])) ELSE rows
        /\ UNCHANGED <<prompt, steps, emitted>>
    BY <1>7 DEF EndPass
  <2>2. Tokens' = Tokens /\ Tokens <= NCtx
    BY <2>1 DEF Tokens, GreedyLoop
  <2>3. /\ IsSequence(rows')
        /\ Len(rows') = IF pos + 1 < Len(prompt) THEN 0 ELSE pos + 1 - Len(prompt) + 1
    <3>1. Len(rows) = IF pos < Len(prompt) THEN 0 ELSE pos - Len(prompt) + 1
      BY DEF GreedyLoop
    <3>2. CASE pos + 1 >= Len(prompt)
      <4>1. rows' = Append(rows, Whole(buf["logits"]))
        BY <2>1, <3>2
      <4>2. IsSequence(rows') /\ Len(rows') = Len(rows) + 1
        BY <1>2, <4>1, AppendIsSequence
      <4> QED
        BY <1>1, <3>1, <3>2, <4>2
    <3>3. CASE ~ (pos + 1 >= Len(prompt))
      BY <1>1, <1>2, <2>1, <3>1, <3>3
    <3> QED
      BY <3>2, <3>3
  <2>4. IsSequence(rows)'
    BY <2>3 DEF IsSequence
  <2>5. Len(rows') = IF pos' < Len(prompt') THEN 0 ELSE pos' - Len(prompt') + 1
    <3>1. pos' = pos + 1 /\ prompt' = prompt
      BY <2>1
    <3> QED
      BY ONLY <1>1, <2>3, <3>1
  <2>6. Tokens' <= NCtx /\ phase' \notin {"ring", "running"}
    BY <2>1, <2>2
  <2>7. phase' \in {"ring", "running"} /\ pos' >= Len(prompt') =>
          emitted'[pos' - Len(prompt') + 1] = Argmax(rows'[Len(rows')])
    BY <2>6
  <2> HIDE DEF Tokens
  <2> QED
    BY ONLY <2>4, <2>5, <2>6, <2>7, Zenon DEF GreedyLoop
<1>8. ASSUME NEW b \in Block, Execute(b)
      PROVE  GreedyLoop'
  BY <1>3, <1>8, BlockLeavesHost
<1>9. CASE UNCHANGED vars
  <2>1. UNCHANGED <<prompt, steps, emitted, phase, pos, rows>>
    BY <1>9 DEF vars, host
  <2> QED
    BY <1>3, <2>1
<1> QED
  BY <1>4, <1>5, <1>6, <1>7, <1>8, <1>9 DEF Next, HostStep

\* The tokens fed so far.
Fed == SubSeq(Known, 1, pos)

\* A pass feeds one token.
LEMMA FeedOne ==
  ASSUME LoopInv, phase = "running", UNCHANGED <<prompt, emitted>>, pos' = pos + 1
  PROVE  Len(Fed) = pos /\ Fed' = Append(Fed, Known[pos + 1]) /\ Len(Fed') = pos + 1
         /\ Fed' = SubSeq(Known, 1, pos + 1)
<1> DEFINE k == Known
           S == UNION {{k[i]} : i \in 1 .. Len(k)}
<1>1. k \in Seq(S) /\ pos \in Nat /\ pos + 1 \in 1 .. Len(k) /\ Len(k) \in Nat
  BY KnownTokens
<1>2. Known' = Known
  BY DEF Known
<1> HIDE DEF k, S
<1>3. /\ SubSeq(k, 1, pos) = [i \in 1 .. pos |-> k[i]]
      /\ SubSeq(k, 1, pos + 1) = [i \in 1 .. pos + 1 |-> k[i]]
      /\ SubSeq(k, 1, pos) \in Seq(S) /\ SubSeq(k, 1, pos + 1) \in Seq(S)
      /\ Len(SubSeq(k, 1, pos)) = pos /\ Len(SubSeq(k, 1, pos + 1)) = pos + 1
  BY <1>1
<1>4. k[pos + 1] \in S
  BY <1>1
<1>5. SubSeq(k, 1, pos + 1) = Append(SubSeq(k, 1, pos), k[pos + 1])
  BY <1>1, <1>3, <1>4
<1> QED
  BY <1>2, <1>3, <1>5 DEF Fed, k

\* A step of the loop is one of greedy decoding, or none.
LEMMA GreedyStep ==
  ASSUME MarkersAreNoData, ContextIsPadded, DecodeInv, LoopInv, FlowInv, ModelInv, GreedyLoop,
         [Next]_vars
  PROVE  [Greedy!Next]_(Greedy!decoderVars)
<1>1. ASSUME UNCHANGED <<prompt, steps, rows, residuals, states>>, Fed' = Fed
      PROVE  UNCHANGED Greedy!decoderVars
  BY <1>1 DEF Greedy!decoderVars, Fed, Known
<1>2. ASSUME UNCHANGED <<prompt, emitted, pos>>
      PROVE  Fed' = Fed
  BY <1>2 DEF Fed, Known
<1>3. CASE Start \/ RunPass
  <2>1. UNCHANGED <<prompt, steps, emitted, pos, rows, residuals, states>>
    BY <1>3 DEF Start, RunPass
  <2> QED
    BY <1>1, <1>2, <2>1
<1>4. CASE SetPassInputs
  <2>1. UNCHANGED <<prompt, steps, rows, residuals, states>>
    BY <1>4 DEF SetPassInputs
  <2>2. Fed' = Fed
    BY <1>4, LoopStep, ModelSetPassInputs DEF Fed
  <2> QED
    BY <1>1, <2>1, <2>2
<1>5. CASE EndPass
  <2>1. /\ phase = "running" /\ pos' = pos + 1 /\ UNCHANGED <<prompt, steps, emitted>>
        /\ rows' = IF pos + 1 >= Len(prompt) THEN Append(rows, Whole(buf["logits"])) ELSE rows
        /\ IF pos < Len(prompt) THEN UNCHANGED <<residuals, states>>
           ELSE /\ residuals' = Append(residuals, lout)
                /\ states' = Append(states, [l \in Kind("dn") |-> Whole(ssm[l])])
    BY <1>5 DEF EndPass
  <2>2. /\ Len(Fed) = pos /\ Fed' = Append(Fed, Known[pos + 1]) /\ Len(Fed') = pos + 1
        /\ Fed' = SubSeq(Known, 1, pos + 1)
    BY <2>1, FeedOne
  <2>3. /\ pos \in Nat
        /\ \A l \in Kind("dn"), b \in Block : DnSettled(l, b, Given(l + 1))
        /\ \A b \in Block : buf["logits"][b] = Given(NLayers + 1)
        /\ lout = [l \in 1 .. NLayers - 1 |-> Given(l + 1)]
    BY <1>5, PassIsDone
  <2>4. NLayers \in Nat /\ Kind("dn") \subseteq 1 .. NLayers
    BY KindsOfLayers
  <2>5. \A l \in 0 .. NLayers : Given(l + 1) = Greedy!Trunk(Fed', l)
    <3> TAKE l \in 0 .. NLayers
    <3>1. (l + 1) - 1 = l
      BY <2>4
    <3> QED
      BY <2>2, <3>1 DEF Given, Value
  <2>6. Whole(buf["logits"]) = Greedy!Trunk(Fed', NLayers)
    <3>1. "logits" \in Scratch /\ BufShape
      BY DEF Scratch, FlowInv
    <3>2. Whole(buf["logits"]) = Given(NLayers + 1)
      BY <2>3, <3>1, WholeOf
    <3> QED
      BY <2>4, <2>5, <3>2
  <2>7. lout = [l \in 1 .. NLayers - 1 |-> Greedy!Trunk(Fed', l)]
    <3>1. \A l \in 1 .. NLayers - 1 : l \in 0 .. NLayers
      BY <2>4
    <3> QED
      BY <2>3, <2>5, <3>1
  <2>8. [l \in Kind("dn") |-> Whole(ssm[l])] = [l \in Kind("dn") |-> Greedy!Trunk(Fed', l)]
    <3>1. ASSUME NEW l \in Kind("dn")
          PROVE  Whole(ssm[l]) = Greedy!Trunk(Fed', l)
      <4>1. \A b \in Block : ssm[l][b] = Given(l + 1)
        BY <2>3 DEF DnSettled
      <4>2. ssm[l] = [b \in Block |-> ssm[l][b]] /\ 0 \in Block
        BY DecodeAssumption DEF FlowInv, StateShape, Block
      <4>3. Whole(ssm[l]) = Given(l + 1)
        BY <4>1, <4>2 DEF Whole, All
      <4> QED
        BY <2>4, <2>5, <4>3
    <3> QED
      BY <3>1
  <2>9. /\ Len(prompt) \in Nat \ {0} /\ Len(rows) \in Nat
        /\ Len(rows) = IF pos < Len(prompt) THEN 0 ELSE pos - Len(prompt) + 1
        /\ Tokens <= NCtx /\ pos + 1 <= Tokens /\ steps \in Nat
        /\ \A i \in 1 .. Len(prompt) : Known[i] = prompt[i]
        /\ \A i \in 1 .. Len(emitted) : Known[Len(prompt) + i] = emitted[i]
        /\ Len(emitted) = IF pos + 1 <= Len(prompt) THEN 0 ELSE pos + 1 - Len(prompt)
    <3>1. /\ Len(prompt) \in Nat \ {0}
          /\ \A i \in 1 .. Len(prompt) : Known[i] = prompt[i]
          /\ \A i \in 1 .. Len(emitted) : Known[Len(prompt) + i] = emitted[i]
      BY KnownTokens
    <3>2. /\ Chosen = pos + 1 /\ Chosen <= Tokens /\ steps \in Nat
          /\ Len(emitted) = IF Chosen <= Len(prompt) THEN 0 ELSE Chosen - Len(prompt)
      BY <2>1, DecodeAssumption DEF LoopInv, Chosen
    <3>3. /\ Len(rows) = IF pos < Len(prompt) THEN 0 ELSE pos - Len(prompt) + 1
          /\ Tokens <= NCtx
      BY <2>1 DEF GreedyLoop
    <3> QED
      BY <2>3, <3>1, <3>2, <3>3
  <2>10. Fed = SubSeq(prompt \o emitted, 1, pos) /\ Fed' = SubSeq(prompt \o emitted, 1, pos)'
    BY DEF Fed, Known
  <2>11. CASE pos < Len(prompt)
    <3>1. Known[pos + 1] = prompt[pos + 1]
      <4>1. pos + 1 \in 1 .. Len(prompt)
        BY <2>3, <2>9, <2>11
      <4> QED
        BY <2>9, <4>1
    <3>2. Append(rows, Whole(buf["logits"])) = <<Whole(buf["logits"])>>
      <4>1. IsSequence(rows) /\ Len(rows) = 0
        BY <2>9, <2>11 DEF GreedyLoop
      <4>2. rows = <<>>
        BY <4>1 DEF IsSequence
      <4> QED
        BY <4>2
    <3>3. rows' = IF Len(Fed') = Len(prompt) THEN <<Greedy!Trunk(Fed', NLayers)>> ELSE rows
      <4>1. Len(Fed') = Len(prompt) <=> pos + 1 >= Len(prompt)
        BY <2>2, <2>3, <2>9, <2>11
      <4> QED
        BY <2>1, <2>6, <3>2, <4>1
    <3>4. Len(prompt) + steps <= NCtx /\ UNCHANGED <<prompt, steps, residuals, states>>
      BY <2>1, <2>9, <2>11 DEF Tokens
    <3>5. Greedy!Prefill
      <4> HIDE DEF Fed, Greedy!Trunk
      <4> QED
        BY <2>2, <2>10, <2>11, <3>1, <3>3, <3>4 DEF Greedy!Prefill, Greedy!Fed
    <3> QED
      BY <3>4, <3>5 DEF Greedy!Next
  <2>12. CASE ~ (pos < Len(prompt))
    <3>1. Known[pos + 1] = Argmax(rows[Len(rows)])
      <4>1. pos - Len(prompt) + 1 \in 1 .. Len(emitted) /\ pos >= Len(prompt)
            /\ Len(prompt) + (pos - Len(prompt) + 1) = pos + 1
        BY <2>3, <2>9, <2>12
      <4>2. Known[pos + 1] = emitted[pos - Len(prompt) + 1]
        BY <2>9, <4>1
      <4> QED
        BY <2>1, <4>1, <4>2 DEF GreedyLoop
    <3>2. Len(rows) \in 1 .. steps
      BY <2>3, <2>9, <2>12 DEF Tokens
    <3>3. rows' = Append(rows, Greedy!Trunk(Fed', NLayers))
      <4>1. pos + 1 >= Len(prompt)
        BY <2>3, <2>9, <2>12
      <4> QED
        BY <2>1, <2>6, <4>1
    <3>4. /\ residuals' = Append(residuals, [l \in 1 .. NLayers - 1 |-> Greedy!Trunk(Fed', l)])
          /\ states' = Append(states, [l \in Kind("dn") |-> Greedy!Trunk(Fed', l)])
      BY <2>1, <2>7, <2>8, <2>12
    <3>5. Len(prompt) + steps <= NCtx /\ UNCHANGED <<prompt, steps>>
      BY <2>1, <2>9 DEF Tokens
    <3>6. Greedy!Generate
      <4> HIDE DEF Fed, Greedy!Trunk
      <4> QED
        BY <2>2, <2>10, <3>1, <3>2, <3>3, <3>4, <3>5 DEF Greedy!Generate, Greedy!Fed
    <3> QED
      BY <3>5, <3>6 DEF Greedy!Next
  <2> QED
    BY <2>11, <2>12
<1>6. ASSUME NEW b \in Block, Execute(b)
      PROVE  UNCHANGED Greedy!decoderVars
  BY <1>1, <1>2, <1>6, BlockLeavesHost
<1>7. CASE UNCHANGED vars
  <2>1. UNCHANGED <<prompt, steps, emitted, pos, rows, residuals, states>>
    BY <1>7 DEF vars, host
  <2> QED
    BY <1>1, <1>2, <2>1
<1> QED
  BY <1>3, <1>4, <1>5, <1>6, <1>7 DEF Next, HostStep

\* For every grid, layer pattern and schedule of the blocks, the loop decodes greedily:
\* what it reads, emits and dumps is what the abstract decoder gives for the tokens fed.
THEOREM DecodesGreedily ==
  ASSUME MarkersAreNoData, ContextIsPadded
  PROVE  Spec => Greedy!SafeSpec
<1>1. Init => Greedy!Init
  <2> SUFFICES ASSUME Init PROVE Greedy!Init
    OBVIOUS
  <2>1. /\ prompt \in Prompts /\ pos = 0 /\ emitted = <<>>
        /\ rows = <<>> /\ residuals = <<>> /\ states = <<>>
    BY DEF Init
  <2>2. prompt # <<>>
    <3>1. Len(prompt) # 0
      BY <2>1, DecodeAssumption
    <3> QED
      BY <3>1
  <2>3. SubSeq(prompt \o emitted, 1, pos) = <<>>
    <3>1. LoopInv
      BY LoopInit
    <3>2. Known \in Seq(UNION {{Known[i]} : i \in 1 .. Len(Known)})
      BY <3>1, KnownTokens
    <3> DEFINE k == Known
               S == UNION {{k[i]} : i \in 1 .. Len(k)}
    <3>3. k \in Seq(S)
      BY <3>2
    <3> HIDE DEF k, S
    <3>4. SubSeq(k, 1, 0) = <<>>
      BY <3>3
    <3> QED
      BY <2>1, <3>4 DEF k, Known
  <2> QED
    BY <2>1, <2>2, <2>3 DEF Greedy!Init
<1>2. DecodeInv /\ LoopInv /\ FlowInv /\ ModelInv /\ GreedyLoop /\ [Next]_vars
        => [Greedy!Next]_(Greedy!decoderVars)
  BY GreedyStep
<1>3. Init => LoopInv
  BY LoopInit
<1>4. DecodeInv /\ LoopInv /\ [Next]_vars => LoopInv'
  BY LoopStep
<1>5. Init => GreedyLoop
  BY GreedyLoopInit
<1>6. DecodeInv /\ LoopInv /\ GreedyLoop /\ [Next]_vars => GreedyLoop'
  BY GreedyLoopStep
<1> QED
  BY <1>1, <1>2, <1>3, <1>4, <1>5, <1>6, DecodeInvariance, FlowInvariance, ModelInvariance, PTL
  DEF Spec, Greedy!SafeSpec
=============================================================================
