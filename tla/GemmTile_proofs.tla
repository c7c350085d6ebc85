-------------------------- MODULE GemmTile_proofs ---------------------------
(***************************************************************************)
(* The execution of a GGUF matrix multiplication, for every call and every *)
(* number of counters, splits and k-blocks.  The split-K arrival protocol: *)
(* the CTA that adds up a tile sees every split's partial, and every       *)
(* launch leaves the arrival counters at zero for the next.  The pipeline: *)
(* a warp that decodes a stage finds its own k-block's weights and         *)
(* activations there, whatever the order in which the copies land.  And    *)
(* the product: when the call returns, every cell of the output has been   *)
(* multiplied with every chunk of its tile exactly once (ProductAlways).   *)
(***************************************************************************)
EXTENDS GemmLaunch_proofs

-----------------------------------------------------------------------------
(* The weights of a stage.                                                 *)

\* The call is packed.
CallInv == PackedCall(call)

\* The k-block of a stage, and which half of it.
LEMMA StageInLoop ==
    ASSUME NEW c, c.kernel.nst \in {1, 2}, c.kb0 \in Nat, c.kb1 \in Nat, NEW s \in Nat, s < Steps(c)
    PROVE  /\ KBlock(c, s) \in c.kb0 .. c.kb1 - 1 /\ HalfOf(c, s) \in 0 .. c.kernel.nst - 1
           /\ s \div c.kernel.nst \in Nat /\ s \div c.kernel.nst < NTiles(c)
           /\ c.kernel.nst = 1 => s \div c.kernel.nst = s /\ HalfOf(c, s) = 0
  <1>1. NTiles(c) \in Nat /\ (NTiles(c) > 0 => NTiles(c) = c.kb1 - c.kb0)
    BY DEF NTiles
  <1>2. CASE c.kernel.nst = 1
    <2>1. s \div 1 = s /\ s % 1 = 0 /\ NTiles(c) * 1 = NTiles(c)
      BY <1>1
    <2> QED
      BY <1>1, <1>2, <2>1 DEF Steps, KBlock, HalfOf
  <1>3. CASE c.kernel.nst = 2
    <2>1. s \div 2 \in Nat /\ s % 2 \in 0 .. 1 /\ 2 * (s \div 2) <= s
      OBVIOUS
    <2> QED
      BY <1>1, <1>3, <2>1 DEF Steps, KBlock, HalfOf
  <1> QED
    BY <1>2, <1>3

\* CTA x works on a tile of the call.
OnCall(x) == (\E i : \E n \in Nat : OnTile(call, x, i, n)) /\ x.kb0 \in Nat /\ x.kb1 \in 0 .. call.nb

\* Its kernel's shared memory, and the size of its chunks.
LEMMA CtaKernel ==
    ASSUME CallInv, NEW x, NEW i, NEW n \in Nat, OnTile(call, x, i, n)
    PROVE  LET sh == call.shards[i]
               k == x.kernel
           IN  /\ i \in DOMAIN call.shards /\ n \in 0 .. Tiles(sh) - 1 /\ Layout(k) /\ k.type = sh.type /\ call.nb \in Nat \ {0}
               /\ k.raw = (call.op = "raw") /\ x.per \in Nat \ {0}
               /\ IF k.raw THEN k.nst = 1 /\ x.per = Size[sh.type] /\ x.off = n * (64 * call.nb * x.per)
                  ELSE /\ k.nst = Halves[sh.type] /\ k.words \in Nat /\ 64 * k.words * k.nst = x.per
                       /\ x.per = TileWords(sh.type) /\ x.off = sh.base + n * (call.nb * x.per)
  <1>1. /\ i \in DOMAIN call.shards /\ n \in 0 .. Tiles(call.shards[i]) - 1 /\ RunsKernel(call, call.shards[i].type, x.kernel)
        /\ IF call.op = "raw" THEN x.per = Size[call.shards[i].type] /\ x.off = n * (64 * call.nb * x.per)
           ELSE x.per = TileWords(call.shards[i].type) /\ x.off = call.shards[i].base + n * (call.nb * x.per)
    BY DEF OnTile
  <1>2. PackedCall(call)
    BY DEF CallInv
  <1>3. LET t == call.shards[i].type
        IN  /\ Layout(x.kernel) /\ x.kernel.type = t /\ x.kernel.raw = (call.op = "raw")
            /\ IF x.kernel.raw THEN x.kernel.nst = 1
               ELSE x.kernel.nst = Halves[t] /\ x.kernel.words \in Nat /\ 64 * x.kernel.words * x.kernel.nst = TileWords(t)
    BY <1>1, <1>2, KernelLayout
  <1>4. x.per \in Nat \ {0} /\ call.nb \in Nat \ {0}
    <2>1. call.shards[i].type \in Types /\ call.nb \in Nat \ {0}
      BY <1>1, <1>2 DEF PackedCall
    <2>2. call.op # "raw" => call.shards[i].type \in DOMAIN RowBytes
      BY <1>1, <1>2 DEF PackedCall, TypesOf
    <2> QED
      BY <1>1, <2>1, <2>2, RowWords
  <1> QED
    BY <1>1, <1>3, <1>4

\* A number written in two digits, in one way.
LEMMA TwoDigits ==
    ASSUME NEW b \in Nat \ {0}, NEW q \in Nat, NEW r \in 0 .. b - 1, NEW p \in Nat, NEW s \in 0 .. b - 1,
           b * q + r = b * p + s
    PROVE  q = p /\ r = s
  <1>1. (b * q + r) \div b = q /\ (b * q + r) % b = r
    BY QuotientOf
  <1>2. (b * p + s) \div b = p /\ (b * p + s) % b = s
    BY QuotientOf
  <1> QED
    BY <1>1, <1>2

\* Equal products by the same factor have equal other factors.
LEMMA EqualFactors ==
    ASSUME NEW z \in Nat \ {0}, NEW p \in Nat, NEW q \in Nat, p * z = q * z
    PROVE  p = q
  <1>1. z * p + 0 = z * q + 0 /\ 0 \in 0 .. z - 1
    <2>1. p * z = z * p /\ q * z = z * q
      OBVIOUS
    <2>2. z * p \in Nat /\ z * q \in Nat
      OBVIOUS
    <2> QED
      BY <2>1, <2>2
  <1> QED
    BY <1>1, TwoDigits

\* Where a chunk lies in its shard's tiles, the digits of the number.
LEMMA ChunkDigits ==
    ASSUME NEW nb \in Nat \ {0}, NEW V \in Nat \ {0}, NEW nst \in Nat \ {0},
           NEW i \in Nat, NEW b \in 0 .. nb - 1, NEW u \in 0 .. nst - 1,
           NEW j \in Nat, NEW d \in 0 .. nb - 1, NEW v \in 0 .. nst - 1,
           (i * nb + b) * (V * nst) + u * V = (j * nb + d) * (V * nst) + v * V
    PROVE  i = j /\ b = d /\ u = v
  <1>1. V * nst \in Nat \ {0} /\ u \in Nat /\ v \in Nat /\ b \in Nat /\ d \in Nat
    OBVIOUS
  <1>2. u * V \in 0 .. V * nst - 1 /\ v * V \in 0 .. V * nst - 1
    <2>1. V * (u + 1) <= V * nst /\ V * (v + 1) <= V * nst
      <3>1. u + 1 <= nst /\ v + 1 <= nst
        OBVIOUS
      <3> QED
        BY <1>1, <3>1, TimesLeq
    <2>2. V * (u + 1) = u * V + V /\ V * (v + 1) = v * V + V /\ u * V \in Nat /\ v * V \in Nat
      BY <1>1
    <2> QED
      BY <1>1, <2>1, <2>2
  <1>3. i * nb + b \in Nat /\ j * nb + d \in Nat
    BY <1>1
  <1> DEFINE W == V * nst
             x == i * nb + b
             y == j * nb + d
  <1>4. x = y /\ u * V = v * V
    <2> DEFINE r == u * V
               s == v * V
    <2>1. W * x = x * W /\ W * y = y * W
      <3>1. W \in Int /\ x \in Int /\ y \in Int
        BY <1>1, <1>3
      <3> HIDE DEF W, x, y
      <3> QED
        BY <3>1
    <2>2. W * x + r = W * y + s
      BY <2>1
    <2>3. W \in Nat \ {0} /\ x \in Nat /\ y \in Nat /\ r \in 0 .. W - 1 /\ s \in 0 .. W - 1
      BY <1>1, <1>2, <1>3
    <2> HIDE DEF W, x, y, r, s
    <2>4. x = y /\ r = s
      BY <2>2, <2>3, TwoDigits
    <2> QED
      BY <2>4 DEF r, s
  <1>5. u = v
    <2>1. V * u = V * v
      BY <1>1, <1>4
    <2>2. V * u + 0 = V * v + 0 /\ 0 \in 0 .. V - 1
      BY <2>1
    <2> QED
      BY <1>1, <2>2, TwoDigits
  <1>6. i = j /\ b = d
    <2>1. nb * i + b = nb * j + d
      BY <1>1, <1>4
    <2> QED
      BY <2>1, TwoDigits
  <1> QED
    BY <1>5, <1>6

\* The chunks a kernel may meet, and where they lie.
ChunksOf(c, k) ==
    UNION {{sh} \X (0 .. Tiles(c.shards[sh]) - 1) \X (0 .. c.nb - 1) \X (0 .. k.nst - 1) :
              sh \in {i \in DOMAIN c.shards : c.shards[i].type = k.type}}
AddressOf(c, k, sh, i, kb, h) ==
    IF k.raw THEN (i * 64 * c.nb + kb) * Size[c.shards[sh].type]
    ELSE Placed(c.shards, c.nb, sh) + (i * c.nb + kb) * TileWords(c.shards[sh].type) + h * 64 * k.words

\* A kernel that reads the call's blocks.
ReadsBlocks(c, k) ==
    /\ k.raw = (c.op = "raw")
    /\ IF k.raw THEN k.nst = 1 ELSE k.nst \in {1, 2} /\ k.words \in Nat /\ 64 * k.words * k.nst = TileWords(k.type)

\* The fields of a chunk.
LEMMA ChunkParts ==
    ASSUME NEW c, NEW k, NEW x \in ChunksOf(c, k)
    PROVE  /\ x = <<x[1], x[2], x[3], x[4]>>
           /\ x[1] \in DOMAIN c.shards /\ c.shards[x[1]].type = k.type
           /\ x[2] \in 0 .. Tiles(c.shards[x[1]]) - 1 /\ x[3] \in 0 .. c.nb - 1 /\ x[4] \in 0 .. k.nst - 1
  <1> DEFINE S == {i \in DOMAIN c.shards : c.shards[i].type = k.type}
             of(sh) == {sh} \X (0 .. Tiles(c.shards[sh]) - 1) \X (0 .. c.nb - 1) \X (0 .. k.nst - 1)
  <1>1. PICK sh \in S : x \in of(sh)
    BY DEF ChunksOf
  <1>2. /\ x = <<x[1], x[2], x[3], x[4]>> /\ x[1] = sh
        /\ x[2] \in 0 .. Tiles(c.shards[sh]) - 1 /\ x[3] \in 0 .. c.nb - 1 /\ x[4] \in 0 .. k.nst - 1
    BY <1>1
  <1> QED
    BY <1>1, <1>2

\* A tile ends where the next begins: the address of a chunk is within its shard.
LEMMA ChunkWithin ==
    ASSUME NEW c, PackedCall(c), NEW k, ReadsBlocks(c, k), c.op # "raw", NEW sh \in DOMAIN c.shards,
           c.shards[sh].type = k.type,
           NEW i \in 0 .. Tiles(c.shards[sh]) - 1, NEW kb \in 0 .. c.nb - 1, NEW h \in 0 .. k.nst - 1
    PROVE  LET s == c.shards[sh]
               W == TileWords(s.type)
               a == AddressOf(c, k, sh, i, kb, h)
           IN  /\ 64 * k.words \in Nat \ {0} /\ W = (64 * k.words) * k.nst
               /\ a = s.base + ((i * c.nb + kb) * W + h * (64 * k.words))
               /\ a \in Nat /\ s.base <= a /\ a < s.base + Tiles(s) * c.nb * W
  <1> DEFINE s == c.shards[sh]
             W == TileWords(s.type)
             V == 64 * k.words
             a == AddressOf(c, k, sh, i, kb, h)
             T == Tiles(s)
             nb == c.nb
  <1>1. /\ s.base \in Nat /\ s.base = Placed(c.shards, c.nb, sh) /\ nb \in Nat \ {0} /\ s.type \in DOMAIN RowBytes
        /\ T \in Nat \ {0} /\ W \in Nat \ {0}
    <2>1. s.type \in DOMAIN RowBytes /\ s.n \in Nat \ {0}
      BY DEF PackedCall, TypesOf
    <2>2. T \in Nat \ {0}
      BY <2>1, TilesWhole
    <2>3. W \in Nat \ {0}
      BY <2>1, RowWords
    <2> QED
      BY <2>1, <2>2, <2>3 DEF PackedCall
  <1>2. k.raw = FALSE /\ k.nst \in {1, 2} /\ V * k.nst = W
    BY DEF ReadsBlocks
  <1>3. V \in Nat \ {0} /\ W = V * k.nst
    <2>1. k.words \in Nat
      BY DEF ReadsBlocks
    <2> HIDE DEF W
    <2> QED
      BY <1>1, <1>2, <2>1
  <1>4. h * 64 * k.words = h * V
    <2>1. k.words \in Nat /\ h \in Nat
      BY <1>2 DEF ReadsBlocks
    <2> QED
      BY <2>1
  <1> DEFINE q == i * nb + kb
             r == h * V
  <1>5. q \in Nat /\ q + 1 <= T * nb /\ r \in Nat /\ r < W
    <2>1. i \in Nat /\ kb \in Nat /\ h \in Nat /\ h + 1 <= k.nst /\ i + 1 <= T
      BY <1>1, <1>2
    <2>2. V * (h + 1) <= V * k.nst
      BY <1>2, <1>3, <2>1, TimesLeq
    <2>3. V * (h + 1) = h * V + V /\ h * V \in Nat
      BY <1>3, <2>1
    <2>4. nb * (i + 1) <= nb * T
      BY <1>1, <2>1, TimesLeq
    <2>5. nb * (i + 1) = i * nb + nb /\ nb * T = T * nb /\ i * nb \in Nat
      <3> HIDE DEF nb, T
      <3> QED
        BY <1>1, <2>1
    <2>6. i * nb + kb \in Nat /\ i * nb + kb + 1 <= T * nb
      BY <1>1, <2>1, <2>4, <2>5
    <2>7. r < W
      <3> HIDE DEF V, W
      <3> QED
        BY <1>1, <1>3, <2>2, <2>3
    <2> QED
      BY <2>3, <2>6, <2>7
  <1>6. a = s.base + (q * W + r)
    <2>1. a = s.base + q * W + h * 64 * k.words
      BY <1>1, <1>2 DEF AddressOf
    <2> HIDE DEF a, q, W, V
    <2> QED
      BY <1>1, <1>4, <1>5, <2>1
  <1>7. q * W + r \in Nat /\ q * W + r < T * nb * W
    <2> HIDE DEF q, r
    <2>1. W * (q + 1) <= W * (T * nb)
      BY <1>1, <1>5, TimesLeq
    <2>2. W * (q + 1) = q * W + W /\ W * (T * nb) = T * nb * W /\ q * W \in Nat
      BY <1>1, <1>5
    <2> QED
      BY <1>1, <1>5, <2>1, <2>2
  <1> DEFINE z == q * W + r
             e == T * nb * W
  <1>8. a = s.base + z /\ z \in Nat /\ z < e /\ e \in Nat
    BY <1>1, <1>6, <1>7
  <1> HIDE DEF z, e, a
  <1>9. a \in Nat /\ s.base <= a /\ a < s.base + e
    BY <1>1, <1>8
  <1> QED
    BY <1>3, <1>6, <1>9 DEF e, a

\* No two chunks lie at the same address.
LEMMA ChunksApart ==
    ASSUME NEW c, PackedCall(c), NEW k, ReadsBlocks(c, k), NEW x \in ChunksOf(c, k), NEW y \in ChunksOf(c, k),
           AddressOf(c, k, x[1], x[2], x[3], x[4]) = AddressOf(c, k, y[1], y[2], y[3], y[4])
    PROVE  x = y
  <1>1. /\ x = <<x[1], x[2], x[3], x[4]>>
        /\ x[1] \in DOMAIN c.shards /\ c.shards[x[1]].type = k.type
        /\ x[2] \in 0 .. Tiles(c.shards[x[1]]) - 1 /\ x[3] \in 0 .. c.nb - 1 /\ x[4] \in 0 .. k.nst - 1
    BY ChunkParts
  <1>2. /\ y = <<y[1], y[2], y[3], y[4]>>
        /\ y[1] \in DOMAIN c.shards /\ c.shards[y[1]].type = k.type
        /\ y[2] \in 0 .. Tiles(c.shards[y[1]]) - 1 /\ y[3] \in 0 .. c.nb - 1 /\ y[4] \in 0 .. k.nst - 1
    BY ChunkParts
  <1>3. c.nb \in Nat \ {0} /\ DOMAIN c.shards = 1 .. Len(c.shards) /\ Len(c.shards) \in Nat
        /\ Tiles(c.shards[x[1]]) \in Nat \ {0} /\ Tiles(c.shards[y[1]]) \in Nat \ {0}
    <2>1. c.shards[x[1]].n \in Nat \ {0} /\ c.shards[y[1]].n \in Nat \ {0}
      BY <1>1, <1>2 DEF PackedCall
    <2> QED
      BY <2>1, TilesWhole DEF PackedCall
  <1>4. x[2] \in Nat /\ y[2] \in Nat
    BY <1>1, <1>2, <1>3
  <1>5. CASE c.op = "raw"
    <2>1. k.raw = TRUE /\ k.nst = 1 /\ x[1] = 1 /\ y[1] = 1 /\ c.shards[1].type \in Types
      <3>1. Len(c.shards) = 1 /\ k.raw = TRUE /\ k.nst = 1
        BY <1>5 DEF PackedCall, ReadsBlocks
      <3>2. x[1] = 1 /\ y[1] = 1
        BY <1>1, <1>2, <1>3, <3>1
      <3> QED
        BY <1>1, <3>1, <3>2 DEF PackedCall
    <2> DEFINE z == Size[c.shards[1].type]
    <2>2. z \in Nat \ {0}
      BY <2>1, RowWords
    <2>3. (x[2] * 64 * c.nb + x[3]) * z = (y[2] * 64 * c.nb + y[3]) * z
      BY <2>1 DEF AddressOf
    <2> HIDE DEF z
    <2> DEFINE i == x[2]
               j == y[2]
               b == x[3]
               d == y[3]
               B == 64 * c.nb
    <2>a. i \in Nat /\ j \in Nat /\ b \in 0 .. c.nb - 1 /\ d \in 0 .. c.nb - 1
      BY <1>1, <1>2, <1>4
    <2>b. B \in Nat \ {0}
      BY <1>3
    <2>4. i \in Nat /\ j \in Nat /\ b \in 0 .. c.nb - 1 /\ d \in 0 .. c.nb - 1 /\ B \in Nat \ {0}
      BY <2>a, <2>b
    <2>5. i * 64 * c.nb = B * i /\ j * 64 * c.nb = B * j /\ b \in 0 .. B - 1 /\ d \in 0 .. B - 1
      <3> DEFINE nb == c.nb
      <3>1. nb \in Nat \ {0} /\ B = 64 * nb /\ b \in 0 .. nb - 1 /\ d \in 0 .. nb - 1
        BY <1>3, <2>4
      <3> HIDE DEF i, j, b, d, nb, B
      <3>2. i * 64 * nb = B * i /\ j * 64 * nb = B * j
        BY <2>4, <3>1
      <3>3. b \in 0 .. B - 1 /\ d \in 0 .. B - 1
        BY <2>4, <3>1
      <3> QED
        BY <3>2, <3>3 DEF nb
    <2> HIDE DEF i, j, b, d, B
    <2>6. B * i + b \in Nat /\ B * j + d \in Nat
      BY <2>4, <2>5
    <2>7. (B * i + b) * z = (B * j + d) * z
      BY <2>3, <2>5 DEF i, j, b, d
    <2>8. B * i + b = B * j + d
      <3> DEFINE p == B * i + b
                 q == B * j + d
      <3>1. p \in Nat /\ q \in Nat /\ p * z = q * z
        BY <2>6, <2>7
      <3> HIDE DEF p, q
      <3>3. p = q
        BY <2>2, <3>1, EqualFactors
      <3> QED
        BY <3>3 DEF p, q
    <2>9. i = j /\ b = d
      <3>1. B \in Nat \ {0} /\ i \in Nat /\ j \in Nat /\ b \in 0 .. B - 1 /\ d \in 0 .. B - 1
        BY <2>4, <2>5
      <3> QED
        BY <2>8, <3>1, TwoDigits, Zenon
    <2>10. x[4] = 0 /\ y[4] = 0
      BY <1>1, <1>2, <2>1
    <2> QED
      BY <1>1, <1>2, <2>1, <2>9, <2>10 DEF i, j, b, d
  <1>6. CASE c.op # "raw"
    <2> DEFINE ax == AddressOf(c, k, x[1], x[2], x[3], x[4])
               ay == AddressOf(c, k, y[1], y[2], y[3], y[4])
               V == 64 * k.words
               W == TileWords(k.type)
    <2>1. /\ V \in Nat \ {0} /\ W = V * k.nst
          /\ ax = c.shards[x[1]].base + ((x[2] * c.nb + x[3]) * W + x[4] * V)
          /\ ax \in Nat /\ c.shards[x[1]].base <= ax /\ ax < c.shards[x[1]].base + Tiles(c.shards[x[1]]) * c.nb * W
      BY <1>1, <1>6, ChunkWithin
    <2>2. /\ ay = c.shards[y[1]].base + ((y[2] * c.nb + y[3]) * W + y[4] * V)
          /\ ay \in Nat /\ c.shards[y[1]].base <= ay /\ ay < c.shards[y[1]].base + Tiles(c.shards[y[1]]) * c.nb * W
      BY <1>2, <1>6, ChunkWithin
    <2>3. ASSUME NEW i \in DOMAIN c.shards, NEW j \in DOMAIN c.shards, i < j, c.shards[i].type = k.type,
                 NEW a \in Nat, a < c.shards[i].base + Tiles(c.shards[i]) * c.nb * W, c.shards[j].base <= a
          PROVE  FALSE
      <3> DEFINE e == c.shards[i].base + Tiles(c.shards[i]) * c.nb * W
      <3>1. e <= c.shards[j].base /\ c.shards[j].base \in Nat
        BY <2>3 DEF PackedCall
      <3>2. e \in Int
        <4>1. c.shards[i].base \in Nat /\ Tiles(c.shards[i]) \in Nat /\ W \in Nat /\ c.nb \in Nat
          <5>1. c.shards[i].n \in Nat \ {0} /\ c.shards[i].base \in Nat
            BY DEF PackedCall
          <5>2. W \in Nat
            <6>1. k.type \in DOMAIN RowBytes
              BY <1>1, <1>6 DEF PackedCall, TypesOf
            <6> QED
              BY <6>1, RowWords
          <5> QED
            BY <1>3, <5>1, <5>2, TilesWhole
        <4> QED
          BY <4>1
      <3> HIDE DEF e, W
      <3>3. a < e
        BY <2>3 DEF e
      <3> QED
        BY <2>3, <3>1, <3>2, <3>3
    <2>4. x[1] = y[1]
      <3>1. ax = ay
        OBVIOUS
      <3>2. x[1] \in Nat /\ y[1] \in Nat
        <4> DEFINE i == x[1]
                   j == y[1]
                   n == Len(c.shards)
        <4>1. i \in 1 .. n /\ j \in 1 .. n /\ n \in Nat
          BY <1>1, <1>2, <1>3
        <4> HIDE DEF i, j, n
        <4>2. i \in Nat /\ j \in Nat
          BY <4>1
        <4> QED
          BY <4>2 DEF i, j
      <3> HIDE DEF ax, ay, W, V
      <3>3. ~(x[1] < y[1])
        BY <1>1, <1>2, <2>1, <2>2, <2>3, <3>1
      <3>4. ~(y[1] < x[1])
        BY <1>1, <1>2, <2>1, <2>2, <2>3, <3>1
      <3> QED
        BY <3>2, <3>3, <3>4
    <2>5. (x[2] * c.nb + x[3]) * (V * k.nst) + x[4] * V = (y[2] * c.nb + y[3]) * (V * k.nst) + y[4] * V
      <3> DEFINE p == (x[2] * c.nb + x[3]) * W + x[4] * V
                 q == (y[2] * c.nb + y[3]) * W + y[4] * V
                 o == c.shards[x[1]].base
      <3>1. o + p = o + q /\ o \in Nat
        BY <1>1, <2>1, <2>2, <2>4 DEF PackedCall
      <3>2. p \in Nat /\ q \in Nat
        <4>1. k.nst \in Nat /\ x[4] \in Nat /\ y[4] \in Nat /\ x[3] \in Nat /\ y[3] \in Nat /\ W \in Nat
          <5>1. k.nst \in Nat
            BY <1>6 DEF ReadsBlocks
          <5>2. W \in Nat
            <6> HIDE DEF W, V
            <6> QED
              BY <2>1, <5>1
          <5>3. x[4] \in Nat /\ y[4] \in Nat
            BY <1>1, <1>2, <5>1
          <5>4. x[3] \in Nat /\ y[3] \in Nat
            BY <1>1, <1>2, <1>3
          <5> QED
            BY <5>1, <5>2, <5>3, <5>4
        <4> DEFINE x2 == x[2]
                   x3 == x[3]
                   x4 == x[4]
                   y2 == y[2]
                   y3 == y[3]
                   y4 == y[4]
                   nb == c.nb
        <4>2. x2 \in Nat /\ x3 \in Nat /\ x4 \in Nat /\ y2 \in Nat /\ y3 \in Nat /\ y4 \in Nat /\ nb \in Nat /\ W \in Nat /\ V \in Nat
          BY <1>3, <1>4, <2>1, <4>1
        <4> HIDE DEF V, W, x2, x3, x4, y2, y3, y4, nb
        <4>3. (x2 * nb + x3) * W + x4 * V \in Nat /\ (y2 * nb + y3) * W + y4 * V \in Nat
          <5>1. x2 * nb \in Nat /\ y2 * nb \in Nat
            BY <4>2
          <5>2. x2 * nb + x3 \in Nat /\ y2 * nb + y3 \in Nat
            BY <4>2, <5>1
          <5>3. (x2 * nb + x3) * W \in Nat /\ (y2 * nb + y3) * W \in Nat
            BY <4>2, <5>2
          <5>4. x4 * V \in Nat /\ y4 * V \in Nat
            BY <4>2
          <5> QED
            BY <5>3, <5>4
        <4> QED
          BY <4>3 DEF x2, x3, x4, y2, y3, y4, nb
      <3> HIDE DEF p, q, o
      <3>3. p = q
        BY <3>1, <3>2
      <3> QED
        BY <2>1, <3>3 DEF p, q
    <2>6. k.nst \in Nat \ {0}
      BY <1>6 DEF ReadsBlocks
    <2> HIDE DEF V
    <2>7. x[2] = y[2] /\ x[3] = y[3] /\ x[4] = y[4]
      <3> DEFINE x2 == x[2]
                 x3 == x[3]
                 x4 == x[4]
                 y2 == y[2]
                 y3 == y[3]
                 y4 == y[4]
                 nb == c.nb
                 nst == k.nst
      <3>1. /\ nb \in Nat \ {0} /\ V \in Nat \ {0} /\ nst \in Nat \ {0} /\ x2 \in Nat /\ y2 \in Nat
            /\ x3 \in 0 .. nb - 1 /\ y3 \in 0 .. nb - 1 /\ x4 \in 0 .. nst - 1 /\ y4 \in 0 .. nst - 1
        BY <1>1, <1>2, <1>3, <1>4, <2>1, <2>6
      <3>2. (x2 * nb + x3) * (V * nst) + x4 * V = (y2 * nb + y3) * (V * nst) + y4 * V
        BY <2>5
      <3> HIDE DEF x2, x3, x4, y2, y3, y4, nb, nst
      <3>3. x2 = y2 /\ x3 = y3 /\ x4 = y4
        BY <3>1, <3>2, ChunkDigits
      <3> QED
        BY <3>3 DEF x2, x3, x4, y2, y3, y4
    <2> QED
      BY <1>1, <1>2, <2>4, <2>7
  <1> QED
    BY <1>5, <1>6

\* A stage's weights are the chunk of the CTA's own tile at its k-block and half,
\* and no other.
LEMMA StageWeights ==
    ASSUME CallInv, NEW c, NEW i, NEW n \in Nat, OnTile(call, c, i, n), c.kb0 \in Nat, c.kb1 \in 0 .. call.nb,
           NEW s \in Nat, s < Steps(c)
    PROVE  Weights(c, s) = [chunk |-> <<i, n, KBlock(c, s), HalfOf(c, s)>>]
  <1> DEFINE k == c.kernel
             kb == KBlock(c, s)
             h == HalfOf(c, s)
             shards == call.shards
             addr == c.off + kb * c.per + (IF k.raw THEN 0 ELSE h * 64 * k.words)
             at == {x \in ChunksOf(call, k) : AddressOf(call, k, x[1], x[2], x[3], x[4]) = addr}
             own == <<i, n, kb, h>>
  <1>1. LET sh == shards[i]
        IN  /\ i \in DOMAIN shards /\ n \in 0 .. Tiles(sh) - 1 /\ Layout(k) /\ k.type = sh.type /\ call.nb \in Nat \ {0}
            /\ k.raw = (call.op = "raw") /\ c.per \in Nat \ {0}
            /\ IF k.raw THEN k.nst = 1 /\ c.per = Size[sh.type] /\ c.off = n * (64 * call.nb * c.per)
               ELSE /\ k.nst = Halves[sh.type] /\ k.words \in Nat /\ 64 * k.words * k.nst = c.per
                    /\ c.per = TileWords(sh.type) /\ c.off = sh.base + n * (call.nb * c.per)
    BY CtaKernel
  <1>2. PackedCall(call) /\ shards[i].base \in Nat /\ shards[i].base = Placed(shards, call.nb, i)
    BY <1>1 DEF CallInv, PackedCall
  <1>3. k.nst \in {1, 2}
    BY <1>1 DEF Layout
  <1>4. kb \in c.kb0 .. c.kb1 - 1 /\ h \in 0 .. k.nst - 1
    BY <1>3, StageInLoop
  <1>5. kb \in 0 .. call.nb - 1
    BY <1>1, <1>4
  <1>6. own \in ChunksOf(call, k)
    BY <1>1, <1>4, <1>5 DEF ChunksOf
  <1>7. AddressOf(call, k, i, n, kb, h) = addr
    <2> DEFINE per == c.per
               nb == call.nb
    <2>0. per \in Nat /\ nb \in Nat /\ kb \in Nat
      BY <1>1, <1>5
    <2>1. /\ n * (64 * nb * per) + kb * per = (n * 64 * nb + kb) * per
          /\ n * (nb * per) + kb * per = (n * nb + kb) * per
      <3> HIDE DEF kb, per, nb
      <3> QED
        BY <2>0
    <2>2. CASE k.raw
      <3> DEFINE a == n * (64 * nb * per)
                 b == kb * per
      <3>1. a \in Nat /\ b \in Nat /\ (n * 64 * nb + kb) * per = a + b
        <4>1. a \in Nat /\ b \in Nat
          <5> HIDE DEF kb, per, nb
          <5> QED
            BY <2>0
        <4> QED
          BY <2>1, <4>1
      <3>2. AddressOf(call, k, i, n, kb, h) = a + b
        BY <1>1, <2>2, <3>1 DEF AddressOf
      <3>3. addr = (a + b) + 0
        BY <1>1, <2>2
      <3> HIDE DEF a, b
      <3>4. (a + b) + 0 = a + b
        BY <3>1
      <3> QED
        BY <3>2, <3>3, <3>4
    <2>3. CASE ~k.raw
      <3> DEFINE a == n * (nb * per)
                 b == kb * per
                 p == shards[i].base
                 q == h * 64 * k.words
      <3>1. a \in Nat /\ b \in Nat /\ p \in Nat /\ (n * nb + kb) * per = a + b
        <4>1. a \in Nat /\ b \in Nat
          <5> HIDE DEF kb, per, nb
          <5> QED
            BY <2>0
        <4> QED
          BY <1>2, <2>1, <4>1
      <3>2. AddressOf(call, k, i, n, kb, h) = p + (a + b) + q
        BY <1>1, <1>2, <2>3, <3>1 DEF AddressOf
      <3>3. addr = ((p + a) + b) + q
        BY <1>1, <2>3
      <3>4. (p + a) + b = p + (a + b)
        <4> HIDE DEF a, b, p
        <4> QED
          BY <3>1
      <3> HIDE DEF a, b, p, q
      <3> QED
        BY <3>2, <3>3, <3>4
    <2> QED
      BY <2>2, <2>3
  <1>8. own[1] = i /\ own[2] = n /\ own[3] = kb /\ own[4] = h
    OBVIOUS
  <1>9. Weights(c, s) = IF at = {} THEN Garbled ELSE [chunk |-> CHOOSE x \in at : TRUE]
    BY Zenon DEF Weights, ChunkAt, ChunksOf, AddressOf
  <1>10. ReadsBlocks(call, k)
    BY <1>1, <1>3 DEF ReadsBlocks
  <1> HIDE DEF own
  <1>11. own \in at
    BY <1>6, <1>7, <1>8
  <1>12. ASSUME NEW x \in at
         PROVE  x = own
    <2>1. x \in ChunksOf(call, k) /\ AddressOf(call, k, x[1], x[2], x[3], x[4]) = addr
      OBVIOUS
    <2>2. AddressOf(call, k, own[1], own[2], own[3], own[4]) = addr
      BY <1>7, <1>8
    <2> HIDE DEF addr, k
    <2> QED
      BY <1>2, <1>6, <1>10, <2>1, <2>2, ChunksApart
  <1> HIDE DEF at
  <1>13. (CHOOSE x \in at : TRUE) = own
    BY <1>11, <1>12
  <1> QED
    BY <1>9, <1>11, <1>13 DEF own

\* It is never a garbled one.
LEMMA StageLoaded ==
    ASSUME CallInv, NEW c, OnCall(c), NEW s \in Nat, s < Steps(c)
    PROVE  Weights(c, s) # Garbled
  <1>1. PICK i : \E n \in Nat : OnTile(call, c, i, n)
    BY DEF OnCall
  <1>2. PICK n \in Nat : OnTile(call, c, i, n)
    BY <1>1
  <1>3. Weights(c, s) = [chunk |-> <<i, n, KBlock(c, s), HalfOf(c, s)>>]
    BY <1>2, StageWeights DEF OnCall
  <1>4. <<i, n, KBlock(c, s), HalfOf(c, s)>> # <<>>
    OBVIOUS
  <1> QED
    BY <1>3, <1>4 DEF Garbled

-----------------------------------------------------------------------------
(* A launch whose last CTAs add up its splits is a grid: tiles x splits.   *)

\* The launches still to run are launches of the call.
StreamInv ==
    /\ CallInv
    /\ stream \in Seq({Stream(call)[l] : l \in DOMAIN Stream(call)})

\* The CTAs of a launch of the call.
LEMMA LaunchedCtas ==
    ASSUME NEW c, NEW L, Launched(c, L)
    PROVE  /\ Len(L.ctas) \in Nat \ {0} /\ DOMAIN L.ctas = 1 .. Len(L.ctas)
           /\ L.splits \in 1 .. c.nb /\ L.reduce \in BOOLEAN /\ (L.reduce => L.splits # 1)
           /\ \A j \in DOMAIN L.ctas : /\ \E i : \E n \in Nat : OnTile(c, L.ctas[j], i, n)
                                       /\ L.ctas[j].kb0 \in Nat /\ L.ctas[j].kb1 \in 0 .. c.nb
  <1>1. PICK S, first, past : Spans(c, L, S, first, past)
    BY DEF Launched
  <1>2. PICK cut : \A j \in DOMAIN L.ctas : OnSplit(c, L.ctas[j], cut, L.splits)
    BY <1>1 DEF Spans
  <1>3. \A j \in DOMAIN L.ctas : \E i : \E n \in Nat : OnTile(c, L.ctas[j], i, n)
    BY <1>1, Zenon DEF Spans
  <1>4. /\ Len(L.ctas) \in Nat \ {0} /\ DOMAIN L.ctas = 1 .. Len(L.ctas)
        /\ L.splits \in 1 .. c.nb /\ L.reduce \in BOOLEAN /\ (L.reduce => L.splits # 1)
    BY <1>1 DEF Spans
  <1> QED
    BY <1>2, <1>3, <1>4 DEF OnSplit, RunOfSplit

\* The running launch is one of the call, with at least one CTA.
LEMMA LaunchShape ==
    ASSUME StreamInv, Running
    PROVE  /\ Launched(call, stream[1]) /\ Ctas = stream[1].ctas
           /\ Len(Ctas) \in Nat \ {0} /\ DOMAIN Ctas = 1 .. Len(Ctas)
           /\ Splits \in 1 .. call.nb /\ call.nb \in Nat \ {0} /\ Reduces \in BOOLEAN /\ (Reduces => Splits # 1)
           /\ \A j \in DOMAIN Ctas : OnCall(Ctas[j])
  <1>1. PICK l \in DOMAIN Stream(call) : stream[1] = Stream(call)[l]
    BY DEF StreamInv, Running
  <1>2. Launched(call, stream[1])
    BY <1>1, LaunchesReach DEF StreamInv, CallInv
  <1>3. Ctas = stream[1].ctas /\ Splits = stream[1].splits /\ Reduces = stream[1].reduce
    BY DEF Ctas, Splits, Reduces
  <1>4. call.nb \in Nat \ {0}
    BY DEF StreamInv, CallInv, PackedCall
  <1>5. LET L == stream[1] IN
           /\ Len(L.ctas) \in Nat \ {0} /\ DOMAIN L.ctas = 1 .. Len(L.ctas)
           /\ L.splits \in 1 .. call.nb /\ L.reduce \in BOOLEAN /\ (L.reduce => L.splits # 1)
           /\ \A j \in DOMAIN L.ctas : /\ \E i : \E n \in Nat : OnTile(call, L.ctas[j], i, n)
                                       /\ L.ctas[j].kb0 \in Nat /\ L.ctas[j].kb1 \in 0 .. call.nb
    BY <1>2, LaunchedCtas
  <1> QED
    BY <1>2, <1>3, <1>4, <1>5 DEF OnCall

\* The CTAs of a summing launch: tile by tile, a tile's splits beside each other.
Grid(tiles, shard, first, past) ==
    /\ tiles \in 1 .. Counters /\ tiles = CeilDiv(shard.n, 64)
    /\ shard.col0 \in Nat /\ shard.n \in Nat \ {0}
    /\ first \in 0 .. call.m - 1 /\ past \in 1 .. call.m
    /\ DOMAIN Ctas = 1 .. tiles * Splits
    /\ \A i \in DOMAIN Ctas :
          /\ Ctas[i].counter = (i - 1) \div Splits /\ Ctas[i].split = (i - 1) % Splits
          /\ Ctas[i].col0 = shard.col0 + 64 * Ctas[i].counter /\ Ctas[i].limit = shard.col0 + shard.n
          /\ Ctas[i].rows[1] = first /\ Ctas[i].rows[2] = past

\* A launch whose last CTAs add up its splits is such a grid.
LEMMA LaunchGrid ==
    ASSUME StreamInv, Running, Reduces
    PROVE  /\ Splits \in Nat \ {0, 1}
           /\ \E tiles, shard, first, past : Grid(tiles, shard, first, past)
  <1>1. /\ Launched(call, stream[1]) /\ Ctas = stream[1].ctas /\ Splits \in 1 .. call.nb /\ call.nb \in Nat /\ Splits # 1
        /\ stream[1].splits = Splits /\ stream[1].reduce = Reduces
    BY LaunchShape DEF Splits, Reduces
  <1>2. PICK S, first, past : Spans(call, stream[1], S, first, past)
    BY <1>1 DEF Launched
  <1>3. PICK i \in S : GridOf(call, stream[1], i, first, past)
    BY <1>1, <1>2 DEF Spans
  <1> DEFINE shard == call.shards[i]
  <1>4. i \in DOMAIN call.shards /\ first \in Nat /\ past \in first + 1 .. call.m
    BY <1>2 DEF Spans
  <1>5. call.m \in Nat /\ shard.n \in Nat \ {0} /\ shard.col0 \in Nat
    BY <1>4 DEF StreamInv, CallInv, PackedCall
  <1>6. Tiles(shard) \in Nat \ {0} /\ Tiles(shard) = CeilDiv(shard.n, 64)
    BY <1>5, TilesWhole DEF Tiles
  <1> HIDE DEF shard
  <1>7. Tiles(shard) <= Counters
    BY <1>3 DEF GridOf, shard
  <1>8. /\ DOMAIN Ctas = 1 .. Tiles(shard) * Splits
        /\ \A j \in DOMAIN Ctas :
              /\ Ctas[j].counter = (j - 1) \div Splits /\ Ctas[j].split = (j - 1) % Splits
              /\ Ctas[j].col0 = shard.col0 + 64 * Ctas[j].counter /\ Ctas[j].limit = shard.col0 + shard.n
              /\ Ctas[j].rows[1] = first /\ Ctas[j].rows[2] = past
    BY <1>1, <1>3, Zenon DEF GridOf, shard
  <1>9. Tiles(shard) \in 1 .. Counters /\ first \in 0 .. call.m - 1 /\ past \in 1 .. call.m
    BY <1>4, <1>5, <1>6, <1>7, CountersAssumption
  <1>10. Grid(Tiles(shard), shard, first, past)
    BY <1>5, <1>6, <1>8, <1>9 DEF Grid
  <1> QED
    BY <1>1, <1>10

\* Consecutive runs of s numbers: i lies in run n exactly when (i - 1) \div s is n.
LEMMA RunOf ==
    ASSUME NEW s \in Nat \ {0}, NEW n \in Nat, NEW i \in Nat \ {0}
    PROVE  (i - 1) \div s = n <=> i \in n * s + 1 .. n * s + s
  <1>1. (i - 1) \div s \in Nat /\ s * ((i - 1) \div s) <= i - 1 /\ i - 1 < s * ((i - 1) \div s) + s
    BY DivBounds
  <1>2. n * s \in Nat /\ s * n = n * s
    OBVIOUS
  <1>3. ASSUME i \in n * s + 1 .. n * s + s
        PROVE  (i - 1) \div s = n
    <2>1. s * n <= i - 1 /\ i - 1 < s * (n + 1)
      <3>1. s * (n + 1) = s * n + s
        OBVIOUS
      <3> QED
        BY <1>2, <1>3, <3>1
    <2>2. (i - 1) \div s <= n
      BY <2>1, DivAtMost
    <2>3. n <= (i - 1) \div s
      BY <2>1, DivAtLeast
    <2> QED
      BY <1>1, <2>2, <2>3
  <1> QED
    BY <1>1, <1>2, <1>3

\* A number is its quotient and remainder.
LEMMA DivMod ==
    ASSUME NEW a \in Nat, NEW s \in Nat \ {0}
    PROVE  a % s \in 0 .. s - 1 /\ a = s * (a \div s) + (a % s)
  <1>1. a % s \in 0 .. s - 1
    OBVIOUS
  <1>2. a = s * (a \div s) + (a % s)
    OBVIOUS
  <1> QED
    BY <1>1, <1>2

\* The CTAs that share an arrival counter, and those of them that have arrived.
Ticket(n) == {i \in DOMAIN Ctas : Ctas[i].counter = n}
Arrived(n) == {i \in Ticket(n) : epi[i][0] \in {"last", "done"}}

\* A counter in use is shared by exactly as many CTAs as the tile has splits.
LEMMA TicketsWhole ==
    ASSUME StreamInv, Running, Reduces
    PROVE  /\ \A i \in DOMAIN Ctas : Ctas[i].counter \in 0 .. Counters - 1
           /\ \A n \in 0 .. Counters - 1 :
                 /\ IsFiniteSet(Ticket(n))
                 /\ Ticket(n) = {} \/ Cardinality(Ticket(n)) = Splits
  <1>1. Splits \in Nat \ {0, 1}
    BY LaunchGrid
  <1>2. PICK tiles, shard, first, past : Grid(tiles, shard, first, past)
    BY LaunchGrid
  <1>3. tiles \in Nat \ {0} /\ tiles <= Counters /\ Counters \in Nat
    BY <1>2, CountersAssumption DEF Grid
  <1>4. DOMAIN Ctas = 1 .. tiles * Splits /\ \A i \in DOMAIN Ctas : Ctas[i].counter = (i - 1) \div Splits
    BY <1>2 DEF Grid
  <1>5. tiles * Splits \in Nat
    BY <1>1, <1>3
  <1>6. ASSUME NEW i \in DOMAIN Ctas
        PROVE  Ctas[i].counter \in 0 .. tiles - 1
    <2>1. i \in Nat \ {0} /\ i <= tiles * Splits
      BY <1>4, <1>5
    <2>2. i - 1 < Splits * ((tiles - 1) + 1)
      <3>1. Splits * ((tiles - 1) + 1) = tiles * Splits
        BY <1>1, <1>3
      <3> QED
        BY <2>1, <3>1, <1>5
    <2>3. (i - 1) \div Splits <= tiles - 1
      BY <2>1, <2>2, <1>1, <1>3, DivAtMost
    <2>4. (i - 1) \div Splits \in Nat
      BY <2>1, <1>1, DivBounds
    <2> QED
      BY <1>3, <1>4, <2>3, <2>4
  <1>7. ASSUME NEW n \in 0 .. tiles - 1
        PROVE  Ticket(n) = n * Splits + 1 .. n * Splits + Splits
    <2>1. n \in Nat /\ n * Splits \in Nat
      BY <1>1, <1>3
    <2>2. n * Splits + Splits <= tiles * Splits
      <3>1. Splits * (n + 1) <= Splits * tiles
        BY <1>1, <1>3, TimesLeq
      <3>2. Splits * (n + 1) = n * Splits + Splits /\ Splits * tiles = tiles * Splits
        BY <1>1, <1>3
      <3> QED
        BY <3>1, <3>2
    <2>3. n * Splits + 1 .. n * Splits + Splits \subseteq 1 .. tiles * Splits
      BY <1>1, <1>5, <2>1, <2>2
    <2>4. \A i \in 1 .. tiles * Splits : (i - 1) \div Splits = n <=> i \in n * Splits + 1 .. n * Splits + Splits
      BY <1>1, <1>5, <2>1, RunOf
    <2> QED
      BY <1>4, <2>3, <2>4 DEF Ticket
  <1>8. ASSUME NEW n \in 0 .. Counters - 1
        PROVE  /\ IsFiniteSet(Ticket(n))
               /\ Ticket(n) = {} \/ Cardinality(Ticket(n)) = Splits
    <2>1. CASE n \in 0 .. tiles - 1
      <3>1. n * Splits + 1 \in Int /\ n * Splits + Splits \in Int
        BY <1>1, <1>3
      <3> DEFINE a == n * Splits + 1
                 b == n * Splits + Splits
      <3>2. Ticket(n) = a .. b /\ ~(a > b) /\ b - a + 1 = Splits
        BY <1>1, <1>3, <1>7, <2>1
      <3> HIDE DEF a, b
      <3>3. IsFiniteSet(a .. b) /\ Cardinality(a .. b) = IF a > b THEN 0 ELSE b - a + 1
        BY <3>1, FS_Interval DEF a, b
      <3> QED
        BY <3>2, <3>3
    <2>2. CASE n \notin 0 .. tiles - 1
      <3>1. Ticket(n) = {}
        BY <1>6, <2>2 DEF Ticket
      <3> QED
        BY <3>1, FS_EmptySet
    <2> QED
      BY <2>1, <2>2
  <1> QED
    BY <1>3, <1>6, <1>8

\* The partials buffer of the running launch, and the slots a warp stores to.
SlotBuffer == (0 .. Splits - 1) \X RowUnits(call) \X ColHalves(call)
SlotOf(i, y) == Slot16(Ctas[i].split, y)

\* A launch's rows count from a unit of its own.
LEMMA FirstUnitIs ==
    ASSUME StreamInv, Running
    PROVE  FirstUnit \in Nat /\ \A j \in DOMAIN Ctas : Ctas[j].rows[1] \in Nat /\ FirstUnit <= Ctas[j].rows[1] \div 16
  <1> DEFINE R == {Ctas[j].rows[1] : j \in DOMAIN Ctas}
  <1>1. /\ Launched(call, stream[1]) /\ Ctas = stream[1].ctas /\ 1 \in DOMAIN Ctas
    BY LaunchShape
  <1>2. PICK S, first, past : Spans(call, stream[1], S, first, past)
    BY <1>1 DEF Launched
  <1>3. \A j \in DOMAIN Ctas : Ctas[j].rows[1] \in first .. past - 1 /\ first \in Nat /\ past \in Int
    <2>1. first \in Nat /\ past \in first + 1 .. call.m /\ \A j \in DOMAIN Ctas : OnRows(Ctas[j], first, past)
      BY <1>1, <1>2 DEF Spans
    <2>2. past \in Int
      BY <2>1
    <2> QED
      BY <2>1, <2>2 DEF OnRows
  <1>4. \A j \in DOMAIN Ctas : Ctas[j].rows[1] \in Nat
    BY <1>3
  <1>5. R \subseteq Nat /\ R # {}
    BY <1>1, <1>4
  <1>6. \A j \in DOMAIN Ctas : Ctas[j].rows[1] \in R
    OBVIOUS
  <1> HIDE DEF R
  <1>7. \E x \in R : \A y \in R : x <= y
    BY <1>5, LeastNat
  <1>8. Min(R) \in R /\ \A y \in R : Min(R) <= y
    BY <1>7 DEF Min
  <1>9. FirstUnit = Min(R) \div 16
    BY DEF FirstUnit, R
  <1>10. Min(R) \in Nat
    BY <1>5, <1>8
  <1>11. FirstUnit \in Nat
    BY <1>9, <1>10
  <1>12. ASSUME NEW j \in DOMAIN Ctas
         PROVE  FirstUnit <= Ctas[j].rows[1] \div 16
    <2> DEFINE a == Min(R)
               b == Ctas[j].rows[1]
    <2>1. a \in Nat /\ b \in Nat /\ a <= b
      BY <1>4, <1>6, <1>8, <1>10
    <2> HIDE DEF a, b
    <2>2. a \div 16 <= b \div 16
      BY <2>1
    <2> QED
      BY <1>9, <2>2 DEF a, b
  <1> QED
    BY <1>4, <1>11, <1>12

\* A cell a warp stores to: in its CTA's rows and tile, half w of the tile's columns.
LEMMA CellsOfWarp ==
    ASSUME StreamInv, Running, NEW i \in DOMAIN Ctas, NEW w \in Warp, NEW y \in Stores(Ctas[i], w)
    PROVE  /\ y = <<y[1], y[2]>> /\ y[2] = Ctas[i].col0 + 32 * w
           /\ y[1] \in RowUnits(call) /\ y[1] \in Nat /\ Ctas[i].rows[1] <= 16 * y[1] /\ 16 * y[1] < Ctas[i].rows[2]
           /\ y[2] \in ColHalves(call)
           /\ FirstUnit <= y[1] /\ Ctas[i].split \in 0 .. Splits - 1
           /\ SlotOf(i, y) = <<Ctas[i].split, y[1] - FirstUnit, y[2]>>
  <1> DEFINE x == Ctas[i]
             a == x.rows[1]
             b == x.rows[2]
  <1>1. /\ Launched(call, stream[1]) /\ Ctas = stream[1].ctas /\ Splits = stream[1].splits
    BY LaunchShape DEF Splits
  <1>2. PICK S, first, past : Spans(call, stream[1], S, first, past)
    BY <1>1 DEF Launched
  <1>3. OnRows(x, first, past) /\ first \in Nat /\ past \in first + 1 .. call.m
    BY <1>1, <1>2 DEF Spans
  <1>4. x.split \in 0 .. Splits - 1
    BY <1>1, <1>2 DEF Spans, OnSplit
  <1>5. PICK sh \in S : \E n \in Nat : OnTile(call, x, sh, n)
    BY <1>1, <1>2, Zenon DEF Spans
  <1>6. PICK n \in Nat : OnTile(call, x, sh, n)
    BY <1>5
  <1>7. call.m \in Nat /\ sh \in DOMAIN call.shards /\ call.shards[sh].n \in Nat \ {0} /\ call.shards[sh].col0 \in Nat
    BY <1>6 DEF StreamInv, CallInv, PackedCall, OnTile
  <1>8. PICK u \in Units(x) : y = <<u, ColHalf(x, w)>> /\ ColHalf(x, w) < x.limit
    BY DEF Stores
  <1>9. /\ y[1] = u /\ y = <<y[1], y[2]>> /\ y[2] = x.col0 + 32 * w /\ x.col0 + 32 * w < x.limit
    BY <1>8 DEF ColHalf
  <1>10. /\ a \in Nat /\ b \in a + 1 .. past /\ a % 16 = 0 /\ past \in Nat /\ past <= call.m
    BY <1>3, <1>7 DEF OnRows
  <1>11. u \in a \div 16 .. CeilDiv(b, 16) - 1
    BY <1>8 DEF Units
  <1>12. u \in Nat /\ a <= 16 * u /\ 16 * u < b /\ u \in 0 .. CeilDiv(call.m, 16) - 1 /\ a \div 16 <= u
    <2> HIDE DEF a, b
    <2> DEFINE m == call.m
    <2>1. m \in Nat /\ past <= m
      BY <1>7, <1>10
    <2> HIDE DEF m
    <2>2. u \in Nat /\ a <= 16 * u /\ 16 * u < b
      BY <1>10, <1>11 DEF CeilDiv
    <2>3. 16 * u < m
      BY <1>10, <2>1, <2>2
    <2>4. u \in 0 .. CeilDiv(m, 16) - 1
      BY <2>1, <2>2, <2>3 DEF CeilDiv
    <2>5. a \div 16 <= u
      BY <1>10, <2>2
    <2> QED
      BY <2>2, <2>4, <2>5 DEF m
  <1>13. y[2] \in ColHalves(call)
    <2> DEFINE col0 == call.shards[sh].col0
               N == call.shards[sh].n
               h == 2 * n + w
    <2>1. x.col0 = col0 + 64 * n /\ 64 * n + 32 * w < N /\ col0 \in Nat /\ N \in Nat /\ w \in {0, 1}
      BY <1>6, <1>7, <1>9 DEF OnTile, Warp
    <2> HIDE DEF col0, N
    <2>2. x.col0 + 32 * w = col0 + 32 * h /\ h \in 0 .. CeilDiv(N, 32) - 1
      BY <2>1 DEF CeilDiv
    <2>3. y[2] = col0 + 32 * h
      BY <1>9, <2>2
    <2> HIDE DEF h
    <2> QED
      BY <1>7, <2>2, <2>3 DEF ColHalves, col0, N
  <1>14. FirstUnit <= y[1]
    <2>1. FirstUnit \in Nat /\ FirstUnit <= a \div 16 /\ a \div 16 \in Nat
      BY <1>10, FirstUnitIs
    <2> HIDE DEF a
    <2> QED
      BY <1>9, <1>12, <2>1
  <1> QED
    BY <1>4, <1>9, <1>12, <1>13, <1>14 DEF RowUnits, SlotOf, Slot16

\* Two warps of a summing launch never store to the same slot.
LEMMA SlotsApart ==
    ASSUME StreamInv, Running, Reduces,
           NEW i \in DOMAIN Ctas, NEW v \in Warp, NEW y \in Stores(Ctas[i], v),
           NEW j \in DOMAIN Ctas, NEW w \in Warp, NEW z \in Stores(Ctas[j], w),
           SlotOf(i, y) = SlotOf(j, z)
    PROVE  i = j /\ v = w
  <1>1. Splits \in Nat \ {0, 1}
    BY LaunchGrid
  <1>2. PICK tiles, shard, first, past : Grid(tiles, shard, first, past)
    BY LaunchGrid
  <1> DEFINE m == Ctas[i].counter
             n == Ctas[j].counter
             c == shard.col0
  <1>3. y[2] = c + 64 * m + 32 * v /\ SlotOf(i, y) = <<Ctas[i].split, y[1] - FirstUnit, y[2]>>
    <2>1. Ctas[i].col0 = c + 64 * m
      BY <1>2 DEF Grid
    <2> QED
      BY <2>1, CellsOfWarp
  <1>4. z[2] = c + 64 * n + 32 * w /\ SlotOf(j, z) = <<Ctas[j].split, z[1] - FirstUnit, z[2]>>
    <2>1. Ctas[j].col0 = c + 64 * n
      BY <1>2 DEF Grid
    <2> QED
      BY <2>1, CellsOfWarp
  <1>5. c \in Nat /\ m \in Nat /\ n \in Nat
    BY <1>2, TicketsWhole, CountersAssumption DEF Grid
  <1>6. v \in {0, 1} /\ w \in {0, 1}
    BY DEF Warp
  <1>7. /\ i \in 1 .. tiles * Splits /\ m = (i - 1) \div Splits /\ Ctas[i].split = (i - 1) % Splits
        /\ j \in 1 .. tiles * Splits /\ n = (j - 1) \div Splits /\ Ctas[j].split = (j - 1) % Splits
    BY <1>2 DEF Grid
  <1> HIDE DEF m, n, c
  <1>8. Ctas[i].split = Ctas[j].split /\ c + 64 * m + 32 * v = c + 64 * n + 32 * w
    <2>1. <<Ctas[i].split, y[1] - FirstUnit, y[2]>> = <<Ctas[j].split, z[1] - FirstUnit, z[2]>>
      BY <1>3, <1>4
    <2>2. Ctas[i].split = Ctas[j].split /\ y[2] = z[2]
      BY <2>1
    <2> QED
      BY <2>2, <1>3, <1>4
  <1>9. m = n /\ v = w
    BY <1>5, <1>6, <1>8
  <1>10. i \in Nat \ {0} /\ j \in Nat \ {0} /\ i - 1 \in Nat /\ j - 1 \in Nat
    BY <1>7
  <1>11. i - 1 = Splits * ((i - 1) \div Splits) + ((i - 1) % Splits)
    BY <1>1, <1>10, DivMod
  <1>12. j - 1 = Splits * ((j - 1) \div Splits) + ((j - 1) % Splits)
    BY <1>1, <1>10, DivMod
  <1>13. i - 1 = j - 1
    BY <1>7, <1>8, <1>9, <1>11, <1>12
  <1> QED
    BY <1>9, <1>10, <1>13

\* Every slot lies in the buffer.
LEMMA SlotsInBuffer ==
    ASSUME StreamInv, Running, NEW i \in DOMAIN Ctas, NEW w \in Warp, NEW y \in Stores(Ctas[i], w)
    PROVE  SlotOf(i, y) \in SlotBuffer
  <1>1. /\ y[1] \in RowUnits(call) /\ y[1] \in Nat /\ y[2] \in ColHalves(call) /\ FirstUnit <= y[1]
        /\ Ctas[i].split \in 0 .. Splits - 1
        /\ SlotOf(i, y) = <<Ctas[i].split, y[1] - FirstUnit, y[2]>>
    BY CellsOfWarp
  <1>2. FirstUnit \in Nat
    BY FirstUnitIs
  <1>3. y[1] - FirstUnit \in RowUnits(call)
    <2>1. CeilDiv(call.m, 16) \in Int
      BY DEF CeilDiv, StreamInv, CallInv, PackedCall
    <2> HIDE DEF CeilDiv
    <2>2. y[1] \in 0 .. CeilDiv(call.m, 16) - 1
      BY <1>1 DEF RowUnits
    <2>3. y[1] - FirstUnit \in 0 .. CeilDiv(call.m, 16) - 1
      BY <1>1, <1>2, <2>1, <2>2
    <2> QED
      BY <2>3 DEF RowUnits
  <1> QED
    BY <1>1, <1>3 DEF SlotBuffer

-----------------------------------------------------------------------------
(* The epilogues.                                                          *)

EpilogueState == {"sum", "fence", "arrive", "last", "done"}

\* The types of the epilogues' state.
EpilogueTypes ==
    /\ counter \in [0 .. Counters - 1 -> Nat]
    /\ pending \subseteq (DOMAIN epi) \X Warp
    /\ Running => /\ cta \in 1 .. Len(Ctas) + 1
                  /\ epi \in [DOMAIN Ctas -> [Warp -> EpilogueState]]
                  /\ DOMAIN partial = SlotBuffer
    /\ ~Running => epi = <<>> /\ cta = 1

Idle == pending = {} /\ \A n \in DOMAIN counter : counter[n] = 0

\* Nothing is stored or counted outside the epilogues, nor in those of a launch
\* that leaves its slices to the launcher.
QuietLoop == ~InEpilogue => Idle /\ \A i \in DOMAIN epi, w \in Warp : epi[i][w] = "sum"
QuietSlices == InEpilogue /\ ~Reduces => Idle /\ \A i \in DOMAIN epi, w \in Warp : epi[i][w] \in {"sum", "done"}

\* The warps of a CTA arrive in one step: behind their barrier.
ArriveTogether ==
    InEpilogue => \A i \in DOMAIN epi : epi[i][0] \in {"last", "done"} <=> epi[i][1] \in {"last", "done"}

\* A counter counts its tile's arrivals until every split has arrived; then one
\* CTA adds the tile up and puts it back to zero.
Gathering(n) ==
    /\ counter[n] = Cardinality(Arrived(n)) /\ Cardinality(Arrived(n)) < Splits
    /\ \A i \in Arrived(n), w \in Warp : epi[i][w] = "done"
Summing(n) ==
    /\ Arrived(n) = Ticket(n)
    /\ \E last \in Ticket(n) :
          /\ \A i \in Ticket(n) \ {last}, w \in Warp : epi[i][w] = "done"
          /\ epi[last][0] = "done" => counter[n] = 0
TicketsCounted == InEpilogue /\ Reduces => \A n \in 0 .. Counters - 1 : Gathering(n) \/ Summing(n)

\* A warp past its fence has its partial in memory, for every CTA to see.
PartialsInPlace ==
    InEpilogue /\ Reduces => \A i \in DOMAIN epi, w \in Warp :
        /\ <<i, w>> \in pending => epi[i][w] = "fence"
        /\ epi[i][w] # "sum" /\ <<i, w>> \notin pending =>
              \A y \in Stores(Ctas[i], w) : partial[SlotOf(i, y)] = sums[i][w]

\* The invariant of the epilogues.
EpilogueInv ==
    StreamInv /\ EpilogueTypes /\ QuietLoop /\ QuietSlices /\ ArriveTogether /\ TicketsCounted /\ PartialsInPlace

\* Within a launch its CTAs, its splits and its slots stay what they are.
LEMMA SameLaunch ==
    ASSUME UNCHANGED <<call, stream>>
    PROVE  /\ Ctas' = Ctas /\ Splits' = Splits /\ Reduces' = Reduces /\ Running' = Running
           /\ SlotBuffer' = SlotBuffer
           /\ \A i, y : SlotOf(i, y)' = SlotOf(i, y)
           /\ \A n : Ticket(n)' = Ticket(n)
           /\ StreamInv => StreamInv'
  <1>1. Ctas' = Ctas /\ Splits' = Splits /\ Reduces' = Reduces /\ Running' = Running
    BY DEF Ctas, Splits, Reduces, Running
  <1>2. SlotBuffer' = SlotBuffer
    BY <1>1 DEF SlotBuffer
  <1>3. \A i, y : SlotOf(i, y)' = SlotOf(i, y)
    BY <1>1 DEF SlotOf, Slot16, FirstUnit
  <1>4. \A n : Ticket(n)' = Ticket(n)
    BY <1>1 DEF Ticket
  <1>5. StreamInv => StreamInv'
    BY DEF StreamInv, CallInv
  <1> QED
    BY <1>1, <1>2, <1>3, <1>4, <1>5

\* The k-loop's steps leave the epilogues alone.
LEMMA LoopStep ==
    ASSUME EpilogueInv, UNCHANGED <<call, stream, cta, sums, epi, pending, partial, counter>>
    PROVE  EpilogueInv'
  <1>1. /\ Ctas' = Ctas /\ Splits' = Splits /\ Reduces' = Reduces /\ Running' = Running
        /\ SlotBuffer' = SlotBuffer
        /\ \A i, y : SlotOf(i, y)' = SlotOf(i, y)
        /\ \A n : Ticket(n)' = Ticket(n)
        /\ StreamInv'
    BY SameLaunch DEF EpilogueInv
  <1>2. InEpilogue' = InEpilogue
    BY <1>1 DEF InEpilogue
  <1>3. \A n : Arrived(n)' = Arrived(n)
    BY <1>1 DEF Arrived
  <1>4. EpilogueTypes'
    BY <1>1 DEF EpilogueInv, EpilogueTypes
  <1>5. QuietLoop' /\ QuietSlices' /\ ArriveTogether'
    BY <1>1, <1>2 DEF EpilogueInv, QuietLoop, QuietSlices, ArriveTogether, Idle
  <1>6. TicketsCounted'
    <2>1. \A n : Gathering(n) => Gathering(n)'
      BY <1>1, <1>3 DEF Gathering
    <2>2. \A n : Summing(n) => Summing(n)'
      BY <1>1, <1>3 DEF Summing
    <2> QED
      BY <1>1, <1>2, <2>1, <2>2 DEF EpilogueInv, TicketsCounted
  <1>7. PartialsInPlace'
    BY <1>1, <1>2 DEF EpilogueInv, PartialsInPlace
  <1> QED
    BY <1>1, <1>4, <1>5, <1>6, <1>7 DEF EpilogueInv

\* No CTA of a launch has stored anything: what its epilogues start from.
NothingStored == Idle /\ \A i \in DOMAIN epi, w \in Warp : epi[i][w] = "sum"

\* From there the invariant holds.
LEMMA FreshEpilogues == StreamInv /\ EpilogueTypes /\ NothingStored => EpilogueInv
  <1> SUFFICES ASSUME StreamInv, EpilogueTypes, NothingStored
               PROVE  EpilogueInv
    OBVIOUS
  <1> USE DEF NothingStored
  <1>1. QuietLoop /\ QuietSlices /\ ArriveTogether
    BY DEF QuietLoop, QuietSlices, ArriveTogether, Warp
  <1>2. TicketsCounted
    <2> SUFFICES ASSUME InEpilogue, Reduces, NEW n \in 0 .. Counters - 1
                 PROVE  Gathering(n)
      BY DEF TicketsCounted
    <2>1. Running /\ DOMAIN epi = DOMAIN Ctas
      BY DEF InEpilogue, EpilogueTypes
    <2>2. Arrived(n) = {}
      BY <2>1 DEF Arrived, Ticket, Warp
    <2>3. Cardinality(Arrived(n)) = 0
      BY <2>2, FS_EmptySet
    <2>4. Splits \in Nat \ {0, 1}
      BY <2>1, LaunchGrid
    <2>5. counter[n] = 0
      BY DEF Idle, EpilogueTypes
    <2> QED
      BY <2>2, <2>3, <2>4, <2>5 DEF Gathering
  <1>3. PartialsInPlace
    BY DEF PartialsInPlace, Idle
  <1> QED
    BY <1>1, <1>2, <1>3 DEF EpilogueInv

LEMMA FreshNext == StreamInv' /\ EpilogueTypes' /\ NothingStored' => EpilogueInv'
  BY FreshEpilogues, PTL

\* The end of a k-loop keeps it.
LEMMA FinishStep ==
    ASSUME EpilogueInv, Finish
    PROVE  EpilogueInv'
  <1>1. UNCHANGED <<call, stream, epi, pending, partial, counter>> /\ cta' = cta + 1 /\ InLoop
    BY DEF Finish
  <1>2. /\ Ctas' = Ctas /\ Running' = Running /\ SlotBuffer' = SlotBuffer /\ StreamInv'
    BY <1>1, SameLaunch DEF EpilogueInv
  <1>3. Running
    BY <1>1 DEF InLoop, Ctas
  <1>5. Len(Ctas) \in Nat /\ DOMAIN Ctas = 1 .. Len(Ctas)
    BY <1>3, LaunchShape DEF EpilogueInv
  <1>6. cta \in 1 .. Len(Ctas) /\ ~InEpilogue
    BY <1>1, <1>5 DEF InLoop, InEpilogue
  <1>7. EpilogueTypes'
    BY <1>1, <1>2, <1>3, <1>5, <1>6 DEF EpilogueInv, EpilogueTypes
  <1>8. NothingStored'
    BY <1>1, <1>6 DEF EpilogueInv, QuietLoop, Idle, NothingStored
  <1> QED
    BY <1>2, <1>7, <1>8, FreshNext

\* What an epilogue step of a summing launch has to show.
LEMMA SummingStep ==
    ASSUME EpilogueInv, InEpilogue, Reduces, UNCHANGED <<call, stream, cta>>,
           EpilogueTypes',
           \A i \in DOMAIN epi' : epi'[i][0] \in {"last", "done"} <=> epi'[i][1] \in {"last", "done"},
           \A n \in 0 .. Counters - 1 : Gathering(n)' \/ Summing(n)',
           \A i \in DOMAIN epi', w \in Warp :
               /\ <<i, w>> \in pending' => epi'[i][w] = "fence"
               /\ epi'[i][w] # "sum" /\ <<i, w>> \notin pending' =>
                     \A y \in Stores(Ctas[i], w) : partial'[SlotOf(i, y)] = sums'[i][w]
    PROVE  EpilogueInv'
  <1>1. /\ Ctas' = Ctas /\ Reduces' = Reduces /\ Running' = Running
        /\ \A i, y : SlotOf(i, y)' = SlotOf(i, y)
        /\ StreamInv'
    BY SameLaunch DEF EpilogueInv
  <1>2. InEpilogue' /\ Reduces'
    BY <1>1 DEF InEpilogue
  <1>3. QuietLoop' /\ QuietSlices' /\ ArriveTogether' /\ TicketsCounted'
    BY <1>2 DEF QuietLoop, QuietSlices, ArriveTogether, TicketsCounted
  <1>4. ASSUME NEW i \in DOMAIN epi', NEW w \in Warp
        PROVE  /\ <<i, w>> \in pending' => epi'[i][w] = "fence"
               /\ epi'[i][w] # "sum" /\ <<i, w>> \notin pending' =>
                     \A y \in Stores(Ctas'[i], w) : partial'[SlotOf(i, y)'] = sums'[i][w]
    BY <1>1
  <1>5. PartialsInPlace'
    BY <1>4, Zenon DEF PartialsInPlace
  <1> QED
    BY <1>1, <1>3, <1>5 DEF EpilogueInv

\* A step that arrives at no counter and leaves none.
LEMMA SameArrivals ==
    ASSUME UNCHANGED <<call, stream, counter>>,
           \A i \in DOMAIN Ctas : epi[i][0] \in {"last", "done"} <=> epi'[i][0] \in {"last", "done"},
           \A i \in DOMAIN Ctas, w \in Warp : epi[i][w] = "done" => epi'[i][w] = "done",
           \A i \in DOMAIN Ctas : epi'[i][0] = "done" => epi[i][0] = "done",
           NEW n, Gathering(n) \/ Summing(n)
    PROVE  Gathering(n)' \/ Summing(n)'
  <1>1. Ctas' = Ctas /\ Splits' = Splits /\ Ticket(n)' = Ticket(n)
    BY SameLaunch
  <1>2. Arrived(n)' = Arrived(n)
    BY <1>1 DEF Arrived, Ticket
  <1>3. Ticket(n) \subseteq DOMAIN Ctas /\ Arrived(n) \subseteq DOMAIN Ctas
    BY DEF Ticket, Arrived
  <1>4. Gathering(n) => Gathering(n)'
    BY <1>1, <1>2, <1>3 DEF Gathering
  <1>5. Summing(n) => Summing(n)'
    BY <1>1, <1>2, <1>3 DEF Summing
  <1> QED
    BY <1>4, <1>5

\* A partial on its way to memory is not in place yet.
LEMMA StorePartialStep ==
    ASSUME EpilogueInv, NEW i \in DOMAIN epi, NEW w \in Warp, StorePartial(i, w)
    PROVE  EpilogueInv'
  <1>1. /\ InEpilogue /\ Reduces /\ epi[i][w] = "sum"
        /\ pending' = pending \cup {<<i, w>>}
        /\ epi' = [epi EXCEPT ![i][w] = "fence"]
        /\ UNCHANGED <<call, stream, cta, sums, partial, counter>>
    BY DEF StorePartial
  <1>2. Running /\ DOMAIN epi = DOMAIN Ctas /\ epi \in [DOMAIN Ctas -> [Warp -> EpilogueState]]
    BY <1>1 DEF InEpilogue, EpilogueInv, EpilogueTypes
  <1>3. Ctas' = Ctas /\ Running' = Running /\ SlotBuffer' = SlotBuffer
    BY <1>1, SameLaunch
  <1>4. \A j \in DOMAIN Ctas, v \in Warp :
            epi'[j][v] = (IF j = i /\ v = w THEN "fence" ELSE epi[j][v])
    BY <1>1, <1>2
  <1>5. EpilogueTypes'
    <2>1. epi' \in [DOMAIN Ctas -> [Warp -> EpilogueState]]
      BY <1>1, <1>2 DEF EpilogueState
    <2> QED
      BY <1>1, <1>2, <1>3, <2>1 DEF EpilogueInv, EpilogueTypes
  <1>6. \A j \in DOMAIN epi' : epi'[j][0] \in {"last", "done"} <=> epi'[j][1] \in {"last", "done"}
    BY <1>1, <1>2, <1>4 DEF EpilogueInv, ArriveTogether, Warp
  <1>7. \A n \in 0 .. Counters - 1 : Gathering(n)' \/ Summing(n)'
    <2>1. \A n \in 0 .. Counters - 1 : Gathering(n) \/ Summing(n)
      BY <1>1 DEF EpilogueInv, TicketsCounted
    <2> QED
      BY <1>1, <1>4, <2>1, SameArrivals DEF Warp
  <1>8. ASSUME NEW j \in DOMAIN epi', NEW v \in Warp
        PROVE  /\ <<j, v>> \in pending' => epi'[j][v] = "fence"
               /\ epi'[j][v] # "sum" /\ <<j, v>> \notin pending' =>
                     \A y \in Stores(Ctas[j], v) : partial'[SlotOf(j, y)] = sums'[j][v]
    BY <1>1, <1>2, <1>4 DEF EpilogueInv, PartialsInPlace
  <1> QED
    BY <1>1, <1>5, <1>6, <1>7, <1>8, SummingStep

\* Behind its fence a warp's partial is in place.
LEMMA FenceStep ==
    ASSUME EpilogueInv, NEW i \in DOMAIN epi, NEW w \in Warp, Fence(i, w)
    PROVE  EpilogueInv'
  <1>1. /\ InEpilogue /\ epi[i][w] = "fence" /\ <<i, w>> \notin pending
        /\ epi' = [epi EXCEPT ![i][w] = "arrive"]
        /\ UNCHANGED <<call, stream, cta, sums, pending, partial, counter>>
    BY DEF Fence
  <1>2. Running /\ DOMAIN epi = DOMAIN Ctas /\ epi \in [DOMAIN Ctas -> [Warp -> EpilogueState]]
    BY <1>1 DEF InEpilogue, EpilogueInv, EpilogueTypes
  <1>3. Reduces
    BY <1>1 DEF EpilogueInv, QuietSlices
  <1>4. Ctas' = Ctas /\ Running' = Running /\ SlotBuffer' = SlotBuffer
    BY <1>1, SameLaunch
  <1>5. \A j \in DOMAIN Ctas, v \in Warp :
            epi'[j][v] = (IF j = i /\ v = w THEN "arrive" ELSE epi[j][v])
    BY <1>1, <1>2
  <1>6. EpilogueTypes'
    <2>1. epi' \in [DOMAIN Ctas -> [Warp -> EpilogueState]]
      BY <1>1, <1>2 DEF EpilogueState
    <2> QED
      BY <1>1, <1>2, <1>4, <2>1 DEF EpilogueInv, EpilogueTypes
  <1>7. \A j \in DOMAIN epi' : epi'[j][0] \in {"last", "done"} <=> epi'[j][1] \in {"last", "done"}
    BY <1>1, <1>2, <1>5 DEF EpilogueInv, ArriveTogether, Warp
  <1>8. \A n \in 0 .. Counters - 1 : Gathering(n)' \/ Summing(n)'
    <2>1. \A n \in 0 .. Counters - 1 : Gathering(n) \/ Summing(n)
      BY <1>1, <1>3 DEF EpilogueInv, TicketsCounted
    <2> QED
      BY <1>1, <1>5, <2>1, SameArrivals DEF Warp
  <1>9. ASSUME NEW j \in DOMAIN epi', NEW v \in Warp
        PROVE  /\ <<j, v>> \in pending' => epi'[j][v] = "fence"
               /\ epi'[j][v] # "sum" /\ <<j, v>> \notin pending' =>
                     \A y \in Stores(Ctas[j], v) : partial'[SlotOf(j, y)] = sums'[j][v]
    BY <1>1, <1>2, <1>3, <1>5 DEF EpilogueInv, PartialsInPlace
  <1> QED
    BY <1>1, <1>3, <1>6, <1>7, <1>8, <1>9, SummingStep

\* A partial becomes visible in its own slots and in no other warp's.
LEMMA VisibleStep ==
    ASSUME EpilogueInv, NEW x \in pending, Visible(x[1], x[2])
    PROVE  EpilogueInv'
  <1> DEFINE i == x[1]
             w == x[2]
  <1>1. /\ <<i, w>> \in pending /\ pending' = pending \ {<<i, w>>}
        /\ partial' = [s \in DOMAIN partial |->
               IF s \in {Slot16(Ctas[i].split, y) : y \in Stores(Ctas[i], w)} THEN sums[i][w] ELSE partial[s]]
        /\ UNCHANGED <<call, stream, cta, sums, epi, counter>>
    BY DEF Visible
  <1>2. InEpilogue /\ Reduces
    BY <1>1 DEF EpilogueInv, QuietLoop, QuietSlices, Idle
  <1>3. /\ Running /\ DOMAIN epi = DOMAIN Ctas /\ epi \in [DOMAIN Ctas -> [Warp -> EpilogueState]]
        /\ DOMAIN partial = SlotBuffer
    BY <1>2 DEF InEpilogue, EpilogueInv, EpilogueTypes
  <1>4. i \in DOMAIN Ctas /\ w \in Warp
    BY <1>3 DEF EpilogueInv, EpilogueTypes
  <1>5. Ctas' = Ctas /\ Running' = Running /\ SlotBuffer' = SlotBuffer
    BY <1>1, SameLaunch
  <1> HIDE DEF i, w
  <1>6. EpilogueTypes'
    BY <1>1, <1>3, <1>5 DEF EpilogueInv, EpilogueTypes
  <1>7. \A j \in DOMAIN epi' : epi'[j][0] \in {"last", "done"} <=> epi'[j][1] \in {"last", "done"}
    BY <1>1, <1>2 DEF EpilogueInv, ArriveTogether
  <1>8. \A n \in 0 .. Counters - 1 : Gathering(n)' \/ Summing(n)'
    <2>1. \A n \in 0 .. Counters - 1 : Gathering(n) \/ Summing(n)
      BY <1>2 DEF EpilogueInv, TicketsCounted
    <2> QED
      BY <1>1, <2>1, SameArrivals
  <1>9. ASSUME NEW j \in DOMAIN epi', NEW v \in Warp
        PROVE  /\ <<j, v>> \in pending' => epi'[j][v] = "fence"
               /\ epi'[j][v] # "sum" /\ <<j, v>> \notin pending' =>
                     \A y \in Stores(Ctas[j], v) : partial'[SlotOf(j, y)] = sums'[j][v]
    <2>1. j \in DOMAIN Ctas
      BY <1>1, <1>3
    <2>2. <<j, v>> \in pending' => epi'[j][v] = "fence"
      BY <1>1, <1>2, <2>1, <1>3 DEF EpilogueInv, PartialsInPlace
    <2>3. ASSUME epi'[j][v] # "sum", <<j, v>> \notin pending', NEW y \in Stores(Ctas[j], v)
          PROVE  partial'[SlotOf(j, y)] = sums'[j][v]
      <3>1. SlotOf(j, y) \in DOMAIN partial
        BY <1>2, <1>3, <2>1, SlotsInBuffer DEF EpilogueInv
      <3>2. CASE j = i /\ v = w
        BY <1>1, <2>3, <3>1, <3>2 DEF SlotOf
      <3>3. CASE ~(j = i /\ v = w)
        <4>1. SlotOf(j, y) \notin {Slot16(Ctas[i].split, z) : z \in Stores(Ctas[i], w)}
          BY <1>2, <1>3, <1>4, <2>1, <3>3, SlotsApart DEF EpilogueInv, SlotOf
        <4>2. partial'[SlotOf(j, y)] = partial[SlotOf(j, y)]
          BY <1>1, <3>1, <4>1
        <4>3. <<j, v>> \notin pending /\ epi[j][v] # "sum"
          BY <1>1, <2>3, <3>3
        <4> QED
          BY <1>1, <1>2, <1>3, <2>1, <2>3, <4>2, <4>3 DEF EpilogueInv, PartialsInPlace
      <3> QED
        BY <3>2, <3>3
    <2> QED
      BY <2>2, <2>3
  <1> QED
    BY <1>1, <1>2, <1>6, <1>7, <1>8, <1>9, SummingStep

\* The arrival that completes a tile finds the counter one short of its splits.
LEMMA ArriveStep ==
    ASSUME EpilogueInv, NEW i \in DOMAIN epi, Arrive(i)
    PROVE  EpilogueInv'
  <1>0. PICK n : n = Ctas[i].counter
    OBVIOUS
  <1> DEFINE state == IF counter[n] = Splits - 1 THEN "last" ELSE "done"
  <1>1. /\ InEpilogue /\ \A w \in Warp : epi[i][w] = "arrive"
        /\ counter' = [counter EXCEPT ![n] = @ + 1]
        /\ epi' = [epi EXCEPT ![i] = [w \in Warp |-> state]]
        /\ UNCHANGED <<call, stream, cta, sums, pending, partial>>
    BY <1>0 DEF Arrive
  <1>2. Running /\ DOMAIN epi = DOMAIN Ctas /\ epi \in [DOMAIN Ctas -> [Warp -> EpilogueState]]
    BY <1>1 DEF InEpilogue, EpilogueInv, EpilogueTypes
  <1>3. 0 \in Warp /\ 1 \in Warp
    BY DEF Warp
  <1>4. Reduces
    BY <1>1, <1>3 DEF EpilogueInv, QuietSlices
  <1>5. Ctas' = Ctas /\ Running' = Running /\ SlotBuffer' = SlotBuffer /\ Splits' = Splits /\ \A m : Ticket(m)' = Ticket(m)
    BY <1>1, SameLaunch
  <1>6. /\ n \in 0 .. Counters - 1 /\ Splits \in Nat \ {0, 1}
        /\ IsFiniteSet(Ticket(n)) /\ (Ticket(n) = {} \/ Cardinality(Ticket(n)) = Splits)
    BY <1>0, <1>2, <1>4, TicketsWhole, LaunchGrid DEF EpilogueInv
  <1>7. counter \in [0 .. Counters - 1 -> Nat]
    BY DEF EpilogueInv, EpilogueTypes
  <1>8. /\ state \in {"last", "done"}
        /\ \A j \in DOMAIN Ctas, v \in Warp : epi'[j][v] = (IF j = i THEN state ELSE epi[j][v])
    BY <1>1, <1>2
  <1>9. i \in Ticket(n) /\ \A m : i \in Ticket(m) => m = n
    BY <1>0, <1>2 DEF Ticket
  <1>10. EpilogueTypes'
    <2>1. epi' \in [DOMAIN Ctas -> [Warp -> EpilogueState]]
      BY <1>1, <1>2, <1>8 DEF EpilogueState
    <2>2. counter' \in [0 .. Counters - 1 -> Nat]
      BY <1>1, <1>6, <1>7
    <2> QED
      BY <1>1, <1>2, <1>5, <2>1, <2>2 DEF EpilogueInv, EpilogueTypes
  <1>11. \A j \in DOMAIN epi' : epi'[j][0] \in {"last", "done"} <=> epi'[j][1] \in {"last", "done"}
    BY <1>1, <1>2, <1>3, <1>8 DEF EpilogueInv, ArriveTogether
  <1>12. ASSUME NEW m \in 0 .. Counters - 1, m # n
         PROVE  Gathering(m)' \/ Summing(m)'
    <2>1. counter'[m] = counter[m] /\ i \notin Ticket(m)
      BY <1>1, <1>7, <1>9, <1>12
    <2>2. \A j \in Ticket(m), v \in Warp : epi'[j][v] = epi[j][v]
      BY <1>8, <2>1 DEF Ticket
    <2>3. Arrived(m)' = Arrived(m) /\ Arrived(m) \subseteq Ticket(m)
      BY <1>3, <1>5, <2>2 DEF Arrived
    <2>4. Gathering(m) \/ Summing(m)
      BY <1>1, <1>4 DEF EpilogueInv, TicketsCounted
    <2>5. Gathering(m) => Gathering(m)'
      BY <1>5, <2>1, <2>2, <2>3 DEF Gathering
    <2>6. Summing(m) => Summing(m)'
      BY <1>3, <1>5, <2>1, <2>2, <2>3 DEF Summing
    <2> QED
      BY <2>4, <2>5, <2>6
  <1>13. Gathering(n)' \/ Summing(n)'
    <2>1. i \notin Arrived(n) /\ Arrived(n) \subseteq Ticket(n)
      BY <1>1, <1>3 DEF Arrived
    <2>2. Gathering(n) \/ Summing(n)
      BY <1>1, <1>4, <1>6 DEF EpilogueInv, TicketsCounted
    <2>3. Gathering(n)
      BY <1>9, <2>1, <2>2 DEF Summing
    <2>4. Arrived(n)' = Arrived(n) \cup {i}
      <3>1. \A j \in Ticket(n) : epi'[j][0] = (IF j = i THEN state ELSE epi[j][0])
        BY <1>3, <1>8 DEF Ticket
      <3> QED
        BY <1>5, <1>8, <1>9, <3>1 DEF Arrived
    <2>5. IsFiniteSet(Arrived(n)) /\ Cardinality(Arrived(n)) \in Nat
      BY <1>6, <2>1, FS_Subset, FS_CardinalityType
    <2>6. Cardinality(Arrived(n)') = Cardinality(Arrived(n)) + 1 /\ IsFiniteSet(Arrived(n)')
      BY <2>1, <2>4, <2>5, FS_AddElement
    <2>7. counter[n] = Cardinality(Arrived(n)) /\ Cardinality(Arrived(n)) < Splits
      BY <2>3 DEF Gathering
    <2>8. counter'[n] = counter[n] + 1
      BY <1>1, <1>6, <1>7
    <2>9. CASE counter[n] = Splits - 1
      <3>1. Cardinality(Arrived(n)') = Splits
        BY <1>6, <2>6, <2>7, <2>9
      <3>2. Arrived(n)' \subseteq Ticket(n) /\ Cardinality(Ticket(n)) = Splits
        BY <1>6, <1>9, <2>1, <2>4
      <3>3. Arrived(n)' = Ticket(n)
        BY <1>6, <3>1, <3>2, FS_Subset
      <3>4. \A j \in Ticket(n) \ {i}, v \in Warp : epi'[j][v] = "done"
        <4>1. \A j \in Ticket(n) \ {i} : j \in Arrived(n) /\ j \in DOMAIN Ctas
          BY <2>4, <3>3 DEF Ticket
        <4>2. \A j \in Arrived(n), v \in Warp : epi[j][v] = "done"
          BY <2>3 DEF Gathering
        <4> QED
          BY <1>8, <4>1, <4>2
      <3>5. epi'[i][0] = "last"
        BY <1>2, <1>3, <1>8, <2>9
      <3> QED
        BY <1>5, <1>9, <3>3, <3>4, <3>5 DEF Summing
    <2>10. CASE counter[n] # Splits - 1
      <3>1. Cardinality(Arrived(n)') < Splits /\ counter'[n] = Cardinality(Arrived(n)')
        BY <1>6, <2>5, <2>6, <2>7, <2>8, <2>10
      <3>2. \A j \in Arrived(n)', v \in Warp : epi'[j][v] = "done"
        <4>1. Arrived(n)' \subseteq DOMAIN Ctas
          BY <1>2, <2>1, <2>4 DEF Ticket
        <4>2. \A j \in Arrived(n), v \in Warp : epi[j][v] = "done"
          BY <2>3 DEF Gathering
        <4> QED
          BY <1>8, <2>4, <2>10, <4>1, <4>2
      <3> QED
        BY <1>5, <3>1, <3>2 DEF Gathering
    <2> QED
      BY <2>9, <2>10
  <1>14. ASSUME NEW j \in DOMAIN epi', NEW v \in Warp
         PROVE  /\ <<j, v>> \in pending' => epi'[j][v] = "fence"
                /\ epi'[j][v] # "sum" /\ <<j, v>> \notin pending' =>
                      \A y \in Stores(Ctas[j], v) : partial'[SlotOf(j, y)] = sums'[j][v]
    BY <1>1, <1>2, <1>4, <1>8 DEF EpilogueInv, PartialsInPlace
  <1>15. \A m \in 0 .. Counters - 1 : Gathering(m)' \/ Summing(m)'
    BY <1>12, <1>13
  <1> QED
    BY <1>1, <1>4, <1>10, <1>11, <1>14, <1>15, SummingStep

\* The CTA that adds up a tile is the only one, and its first warp zeroes the counter.
LEMMA OnlyLast ==
    ASSUME EpilogueInv, InEpilogue, NEW i \in DOMAIN epi, NEW w \in Warp, epi[i][w] = "last"
    PROVE  LET n == Ctas[i].counter
           IN  /\ Reduces /\ n \in 0 .. Counters - 1 /\ i \in Ticket(n) /\ Arrived(n) = Ticket(n)
               /\ \A j \in Ticket(n) \ {i}, v \in Warp : epi[j][v] = "done"
               /\ epi[i][0] = "done" => counter[n] = 0
  <1> DEFINE n == Ctas[i].counter
  <1>1. Reduces
    BY DEF EpilogueInv, QuietSlices
  <1>2. Running /\ DOMAIN epi = DOMAIN Ctas
    BY DEF InEpilogue, EpilogueInv, EpilogueTypes
  <1>3. n \in 0 .. Counters - 1
    BY <1>1, <1>2, TicketsWhole DEF EpilogueInv
  <1>4. i \in Ticket(n)
    BY <1>2 DEF Ticket
  <1>5. epi[i][0] \in {"last", "done"}
    BY DEF EpilogueInv, ArriveTogether, Warp
  <1>6. i \in Arrived(n)
    BY <1>4, <1>5 DEF Arrived
  <1>7. Gathering(n) \/ Summing(n)
    BY <1>1, <1>3 DEF EpilogueInv, TicketsCounted
  <1>8. Summing(n)
    BY <1>6, <1>7 DEF Gathering
  <1>9. PICK last \in Ticket(n) :
            /\ \A j \in Ticket(n) \ {last}, v \in Warp : epi[j][v] = "done"
            /\ epi[last][0] = "done" => counter[n] = 0
    BY <1>8 DEF Summing
  <1>10. last = i
    BY <1>4, <1>9
  <1> QED
    BY <1>1, <1>3, <1>4, <1>8, <1>9, <1>10 DEF Summing

\* Adding a tile up keeps the invariant: its counter is back at zero.
LEMMA ReduceStep ==
    ASSUME EpilogueInv, NEW i \in DOMAIN epi, NEW w \in Warp, Reduce(i, w)
    PROVE  EpilogueInv'
  <1>0. PICK n : n = Ctas[i].counter
    OBVIOUS
  <1>1. /\ InEpilogue /\ epi[i][w] = "last"
        /\ counter' = IF w = 0 THEN [counter EXCEPT ![n] = 0] ELSE counter
        /\ epi' = [epi EXCEPT ![i][w] = "done"]
        /\ UNCHANGED <<call, stream, cta, sums, pending, partial>>
    BY <1>0 DEF Reduce
  <1>2. Running /\ DOMAIN epi = DOMAIN Ctas /\ epi \in [DOMAIN Ctas -> [Warp -> EpilogueState]]
    BY <1>1 DEF InEpilogue, EpilogueInv, EpilogueTypes
  <1>3. /\ Reduces /\ n \in 0 .. Counters - 1 /\ i \in Ticket(n) /\ Arrived(n) = Ticket(n)
        /\ \A j \in Ticket(n) \ {i}, v \in Warp : epi[j][v] = "done"
        /\ epi[i][0] = "done" => counter[n] = 0
    BY <1>0, <1>1, OnlyLast
  <1>4. Ctas' = Ctas /\ Running' = Running /\ SlotBuffer' = SlotBuffer /\ Splits' = Splits /\ \A m : Ticket(m)' = Ticket(m)
    BY <1>1, SameLaunch
  <1>5. counter \in [0 .. Counters - 1 -> Nat] /\ w \in {0, 1}
    BY DEF EpilogueInv, EpilogueTypes, Warp
  <1>6. \A j \in DOMAIN Ctas, v \in Warp : epi'[j][v] = (IF j = i /\ v = w THEN "done" ELSE epi[j][v])
    BY <1>1, <1>2
  <1>7. EpilogueTypes'
    <2>1. epi' \in [DOMAIN Ctas -> [Warp -> EpilogueState]]
      BY <1>1, <1>2 DEF EpilogueState
    <2>2. counter' \in [0 .. Counters - 1 -> Nat]
      BY <1>1, <1>3, <1>5
    <2> QED
      BY <1>1, <1>2, <1>4, <2>1, <2>2 DEF EpilogueInv, EpilogueTypes
  <1>8. epi[i][0] \in {"last", "done"} /\ epi[i][1] \in {"last", "done"}
    BY <1>1, <1>5 DEF EpilogueInv, ArriveTogether
  <1>9. \A j \in DOMAIN epi' : epi'[j][0] \in {"last", "done"} <=> epi'[j][1] \in {"last", "done"}
    BY <1>1, <1>2, <1>6, <1>8 DEF EpilogueInv, ArriveTogether, Warp
  <1>10. \A m : Arrived(m)' = Arrived(m)
    <2>1. \A j \in DOMAIN Ctas : epi'[j][0] \in {"last", "done"} <=> epi[j][0] \in {"last", "done"}
      BY <1>6, <1>8 DEF Warp
    <2> QED
      BY <1>4, <2>1 DEF Arrived, Ticket
  <1>11. ASSUME NEW m \in 0 .. Counters - 1, m # n
         PROVE  Gathering(m)' \/ Summing(m)'
    <2>1. counter'[m] = counter[m] /\ i \notin Ticket(m)
      BY <1>0, <1>1, <1>3, <1>5, <1>11 DEF Ticket
    <2>2. \A j \in Ticket(m), v \in Warp : epi'[j][v] = epi[j][v]
      BY <1>6, <2>1 DEF Ticket
    <2>3. Arrived(m) \subseteq Ticket(m) /\ 0 \in Warp
      BY DEF Arrived, Warp
    <2>4. Gathering(m) \/ Summing(m)
      BY <1>1, <1>3 DEF EpilogueInv, TicketsCounted
    <2>5. Gathering(m) => Gathering(m)'
      BY <1>4, <1>10, <2>1, <2>2, <2>3 DEF Gathering
    <2>6. Summing(m) => Summing(m)'
      BY <1>4, <1>10, <2>1, <2>2, <2>3 DEF Summing
    <2> QED
      BY <2>4, <2>5, <2>6
  <1>12. Summing(n)'
    <2>1. \A j \in Ticket(n) \ {i}, v \in Warp : epi'[j][v] = "done"
      BY <1>3, <1>6 DEF Ticket
    <2>2. epi'[i][0] = "done" => counter'[n] = 0
      BY <1>1, <1>2, <1>3, <1>5, <1>6 DEF Warp
    <2> QED
      BY <1>3, <1>4, <1>10, <2>1, <2>2 DEF Summing
  <1>13. ASSUME NEW j \in DOMAIN epi', NEW v \in Warp
         PROVE  /\ <<j, v>> \in pending' => epi'[j][v] = "fence"
                /\ epi'[j][v] # "sum" /\ <<j, v>> \notin pending' =>
                      \A y \in Stores(Ctas[j], v) : partial'[SlotOf(j, y)] = sums'[j][v]
    BY <1>1, <1>2, <1>3, <1>6 DEF EpilogueInv, PartialsInPlace
  <1>14. \A m \in 0 .. Counters - 1 : Gathering(m)' \/ Summing(m)'
    BY <1>11, <1>12
  <1> QED
    BY <1>1, <1>3, <1>7, <1>9, <1>13, <1>14, SummingStep

\* A launch that leaves its slices to the launcher stores nothing but them.
LEMMA StoreSliceStep ==
    ASSUME EpilogueInv, NEW i \in DOMAIN epi, StoreSlice(i)
    PROVE  EpilogueInv'
  <1>1. /\ InEpilogue /\ ~Reduces
        /\ epi' = [epi EXCEPT ![i] = [w \in Warp |-> "done"]]
        /\ UNCHANGED <<call, stream, cta, sums, pending, counter>>
    BY DEF StoreSlice, EachWarp
  <1>2. DOMAIN partial' = DOMAIN partial
    BY DEF StoreSlice
  <1>3. Running /\ DOMAIN epi = DOMAIN Ctas /\ epi \in [DOMAIN Ctas -> [Warp -> EpilogueState]]
    BY <1>1 DEF InEpilogue, EpilogueInv, EpilogueTypes
  <1>4. /\ Ctas' = Ctas /\ Running' = Running /\ SlotBuffer' = SlotBuffer /\ Reduces' = Reduces /\ StreamInv'
    BY <1>1, SameLaunch DEF EpilogueInv
  <1>5. InEpilogue' /\ ~Reduces'
    BY <1>1, <1>4 DEF InEpilogue
  <1>6. \A j \in DOMAIN Ctas, v \in Warp : epi'[j][v] = (IF j = i THEN "done" ELSE epi[j][v])
    BY <1>1, <1>3
  <1>7. EpilogueTypes'
    <2>1. epi' \in [DOMAIN Ctas -> [Warp -> EpilogueState]]
      BY <1>1, <1>3 DEF EpilogueState
    <2> QED
      BY <1>1, <1>2, <1>3, <1>4, <2>1 DEF EpilogueInv, EpilogueTypes
  <1>8. QuietSlices'
    <2>1. Idle /\ \A j \in DOMAIN epi, w \in Warp : epi[j][w] \in {"sum", "done"}
      BY <1>1 DEF EpilogueInv, QuietSlices
    <2>2. Idle'
      BY <1>1, <2>1 DEF Idle
    <2>3. \A j \in DOMAIN epi', w \in Warp : epi'[j][w] \in {"sum", "done"}
      BY <1>1, <1>3, <1>6, <2>1
    <2> QED
      BY <2>2, <2>3 DEF QuietSlices
  <1>9. ArriveTogether'
    <2>1. \A j \in DOMAIN epi' : epi'[j][0] \in {"last", "done"} <=> epi'[j][1] \in {"last", "done"}
      BY <1>1, <1>3, <1>6 DEF EpilogueInv, ArriveTogether, Warp
    <2> QED
      BY <2>1 DEF ArriveTogether
  <1> QED
    BY <1>4, <1>5, <1>7, <1>8, <1>9 DEF EpilogueInv, QuietLoop, TicketsCounted, PartialsInPlace

\* Once every epilogue is done no counter holds an arrival.
LEMMA CountersReturned ==
    ASSUME EpilogueInv, InEpilogue, pending = {}, \A i \in DOMAIN epi, w \in Warp : epi[i][w] = "done"
    PROVE  Idle
  <1> SUFFICES ASSUME Reduces, NEW n \in 0 .. Counters - 1
               PROVE  counter[n] = 0
    BY DEF EpilogueInv, QuietSlices, Idle, EpilogueTypes
  <1>1. Running /\ DOMAIN epi = DOMAIN Ctas
    BY DEF InEpilogue, EpilogueInv, EpilogueTypes
  <1>2. Arrived(n) = Ticket(n)
    BY <1>1 DEF Arrived, Ticket, Warp
  <1>3. CASE Gathering(n)
    <2>1. Splits \in Nat /\ (Ticket(n) = {} \/ Cardinality(Ticket(n)) = Splits)
      BY <1>1, TicketsWhole, LaunchGrid DEF EpilogueInv
    <2>2. counter[n] = Cardinality(Ticket(n)) /\ Cardinality(Ticket(n)) < Splits
      BY <1>2, <1>3 DEF Gathering
    <2>3. Ticket(n) = {}
      BY <2>1, <2>2
    <2> QED
      BY <2>2, <2>3, FS_EmptySet
  <1>4. CASE Summing(n)
    BY <1>1, <1>4 DEF Summing, Ticket, Warp
  <1> QED
    BY <1>3, <1>4 DEF EpilogueInv, TicketsCounted

HasCtas == Len(Ctas) \in Nat \ {0} /\ DOMAIN Ctas = 1 .. Len(Ctas)

\* The next launch, if there is one, has CTAs too.
LEMMA ShapeNext == StreamInv' /\ Running' => HasCtas'
  <1>1. StreamInv /\ Running => HasCtas
    BY LaunchShape DEF HasCtas
  <1> QED
    BY <1>1, PTL

\* The next launch starts with nothing stored and its counters at zero.
LEMMA EndLaunchStep ==
    ASSUME EpilogueInv, EndLaunch
    PROVE  EpilogueInv'
  <1>1. /\ InEpilogue /\ pending = {} /\ \A i \in DOMAIN epi, w \in Warp : epi[i][w] = "done"
        /\ stream' = Tail(stream) /\ cta' = 1
        /\ IF Len(stream) > 1 THEN epi' = Epilogues(stream[2]) /\ partial' = Partials(stream[2])
           ELSE epi' = <<>>
        /\ UNCHANGED <<call, pending, counter>>
    BY DEF EndLaunch
  <1>2. Idle
    BY <1>1, CountersReturned
  <1>3. Idle'
    BY <1>1, <1>2 DEF Idle
  <1>4. stream \in Seq({Stream(call)[l] : l \in DOMAIN Stream(call)}) /\ stream # <<>>
    BY <1>1 DEF EpilogueInv, StreamInv, InEpilogue, Running
  <1>5. StreamInv'
    <2>1. Tail(stream) \in Seq({Stream(call)[l] : l \in DOMAIN Stream(call)})
      BY <1>4
    <2> QED
      BY <1>1, <2>1 DEF EpilogueInv, StreamInv, CallInv
  <1>6. CASE Len(stream) > 1
    <2>1. Running' /\ stream'[1] = stream[2]
      <3>1. Len(stream) \in Nat /\ Len(Tail(stream)) = Len(stream) - 1 /\ Tail(stream)[1] = stream[2]
        BY <1>4, <1>6
      <3>2. Tail(stream) # <<>>
        <4>1. Len(Tail(stream)) # Len(<<>>)
          BY <1>6, <3>1
        <4> QED
          BY <4>1
      <3> QED
        BY <1>1, <3>1, <3>2 DEF Running
    <2>2. Ctas' = stream[2].ctas /\ Splits' = stream[2].splits
      BY <2>1 DEF Ctas, Splits
    <2>3. epi' = [i \in DOMAIN Ctas' |-> [w \in Warp |-> "sum"]]
      BY <1>1, <1>6, <2>2 DEF Epilogues, EachWarp
    <2>4. DOMAIN partial' = SlotBuffer'
      BY <1>1, <1>6, <2>2 DEF Partials, SlotBuffer
    <2>5. cta' \in 1 .. Len(Ctas') + 1
      BY <1>1, <1>5, <2>1, ShapeNext DEF HasCtas
    <2>6. EpilogueTypes'
      <3>1. epi' \in [DOMAIN Ctas' -> [Warp -> EpilogueState]]
        BY <2>3 DEF EpilogueState
      <3>2. pending' = {} /\ counter' \in [0 .. Counters - 1 -> Nat]
        BY <1>1 DEF EpilogueInv, EpilogueTypes
      <3> QED
        BY <2>1, <2>4, <2>5, <3>1, <3>2 DEF EpilogueTypes
    <2>7. NothingStored'
      BY <1>3, <2>3 DEF NothingStored
    <2> QED
      BY <1>5, <2>6, <2>7, FreshNext
  <1>7. CASE ~(Len(stream) > 1)
    <2>1. stream' = <<>> /\ epi' = <<>>
      BY <1>1, <1>4, <1>7
    <2>2. ~Running'
      BY <2>1 DEF Running
    <2>3. EpilogueTypes'
      BY <1>1, <2>1, <2>2 DEF EpilogueInv, EpilogueTypes
    <2>4. NothingStored'
      BY <1>3, <2>1 DEF NothingStored
    <2> QED
      BY <1>5, <2>3, <2>4, FreshNext
  <1> QED
    BY <1>6, <1>7

\* The first launch does so too.
LEMMA EpilogueInit == GemmInit => EpilogueInv
  <1> SUFFICES ASSUME GemmInit
               PROVE  EpilogueInv
    OBVIOUS
  <1>1. /\ call \in {Packed(c) : c \in Calls} /\ stream = Stream(call) /\ cta = 1
        /\ epi = Epilogues(stream[1]) /\ pending = {} /\ partial = Partials(stream[1])
        /\ counter = [n \in 0 .. Counters - 1 |-> 0]
    BY DEF GemmInit
  <1>2. /\ CallInv /\ Stream(call) \in Seq({Stream(call)[l] : l \in DOMAIN Stream(call)}) /\ Stream(call) # <<>>
    <2>1. CallInv
      BY <1>1, PackedValid DEF CallInv
    <2>2. /\ Len(Stream(call)) \in Nat \ {0}
          /\ Stream(call) \in Seq({Stream(call)[l] : l \in DOMAIN Stream(call)})
      BY <2>1, LaunchesReach DEF CallInv
    <2> DEFINE st == Stream(call)
    <2>3. st # <<>>
      <3> HIDE DEF st
      <3>1. Len(st) # Len(<<>>)
        <4>1. Len(st) \in Nat \ {0}
          BY <2>2 DEF st
        <4> QED
          BY <4>1
      <3> QED
        BY <3>1
    <2> QED
      BY <2>1, <2>2, <2>3
  <1>3. StreamInv /\ Running
    BY <1>1, <1>2 DEF StreamInv, Running
  <1>4. Ctas = stream[1].ctas /\ Splits = stream[1].splits
    BY <1>3 DEF Ctas, Splits
  <1>5. epi = [i \in DOMAIN Ctas |-> [w \in Warp |-> "sum"]]
    BY <1>1, <1>4 DEF Epilogues, EachWarp
  <1>6. EpilogueTypes
    <2>1. epi \in [DOMAIN Ctas -> [Warp -> EpilogueState]]
      BY <1>5 DEF EpilogueState
    <2>2. DOMAIN partial = SlotBuffer
      BY <1>1, <1>4 DEF Partials, SlotBuffer
    <2>3. counter \in [0 .. Counters - 1 -> Nat]
      BY <1>1
    <2>4. cta \in 1 .. Len(Ctas) + 1
      BY <1>1, <1>3, LaunchShape
    <2> QED
      BY <1>1, <1>3, <2>1, <2>2, <2>3, <2>4 DEF EpilogueTypes
  <1>7. NothingStored
    BY <1>1, <1>5 DEF NothingStored, Idle
  <1> QED
    BY <1>3, <1>6, <1>7, FreshEpilogues

\* Every step keeps the invariant of the epilogues.
LEMMA EpilogueNext == EpilogueInv /\ [GemmNext]_vars => EpilogueInv'
  <1> SUFFICES ASSUME EpilogueInv, [GemmNext]_vars
               PROVE  EpilogueInv'
    OBVIOUS
  <1>1. ASSUME NEW w \in Warp, Prologue(w) \/ Issue(w) \/ Wait(w) \/ Read(w)
        PROVE  EpilogueInv'
    BY <1>1, LoopStep DEF Prologue, Issue, Wait, Read
  <1>2. CASE Barrier("filled", "read") \/ Barrier("drained", "issue")
    BY <1>2, LoopStep DEF Barrier
  <1>3. CASE LandSome
    BY <1>3, LoopStep DEF LandSome, Land
  <1>4. CASE Finish
    BY <1>4, FinishStep
  <1>5. ASSUME NEW i \in DOMAIN epi, StoreSlice(i) \/ Arrive(i) \/ \E w \in Warp : StorePartial(i, w) \/ Fence(i, w) \/ Reduce(i, w)
        PROVE  EpilogueInv'
    BY <1>5, StoreSliceStep, ArriveStep, StorePartialStep, FenceStep, ReduceStep
  <1>6. ASSUME NEW x \in pending, Visible(x[1], x[2])
        PROVE  EpilogueInv'
    BY <1>6, VisibleStep
  <1>7. CASE EndLaunch
    BY <1>7, EndLaunchStep
  <1>8. CASE Returned \/ UNCHANGED vars
    BY <1>8, LoopStep DEF Returned, vars
  <1> QED
    BY <1>1, <1>2, <1>3, <1>4, <1>5, <1>6, <1>7, <1>8 DEF GemmNext

\* The invariant of the epilogues holds throughout.
LEMMA EpilogueAlways == GemmSpec => []EpilogueInv
  BY EpilogueInit, EpilogueNext, PTL DEF GemmSpec

\* A warp that adds up its tile finds every partial of it.
LEMMA EveryPartialSeen == EpilogueInv => LastSeesEveryPartial
  <1> SUFFICES ASSUME EpilogueInv, InEpilogue, NEW i \in DOMAIN epi, NEW w \in Warp, epi[i][w] = "last",
                      NEW j \in {k \in DOMAIN Ctas : Ctas[k].counter = Ctas[i].counter}
               PROVE  /\ j # i => \A v \in Warp : epi[j][v] = "done"
                      /\ \A y \in Stores(Ctas[j], w) : partial[Slot16(Ctas[j].split, y)] = sums[j][w]
    BY DEF LastSeesEveryPartial
  <1> DEFINE n == Ctas[i].counter
  <1>1. /\ Reduces /\ i \in Ticket(n) /\ Arrived(n) = Ticket(n)
        /\ \A k \in Ticket(n) \ {i}, v \in Warp : epi[k][v] = "done"
    BY OnlyLast
  <1>2. DOMAIN epi = DOMAIN Ctas
    BY DEF InEpilogue, EpilogueInv, EpilogueTypes
  <1>3. j \in Ticket(n)
    BY DEF Ticket
  <1>4. epi[j][w] \in {"last", "done"}
    BY <1>1, <1>3
  <1>5. \A y \in Stores(Ctas[j], w) : partial[SlotOf(j, y)] = sums[j][w]
    BY <1>1, <1>2, <1>4 DEF EpilogueInv, PartialsInPlace
  <1> QED
    BY <1>1, <1>3, <1>5 DEF SlotOf

\* The split-K reduction is whole: whatever the order in which the CTAs of a tile
\* store, fence and arrive, a warp that adds up the tile's partials sees the
\* partial of every split, and no other CTA of the tile adds them up too
\* (_splitk_reduce).
THEOREM LastSeesAll == GemmSpec => []LastSeesEveryPartial
  BY EveryPartialSeen, EpilogueAlways, PTL

\* Every launch leaves every arrival counter at zero for the next, so one array
\* of counters serves them all (splitk_counters).
THEOREM CountersReset == GemmSpec => []CountersLeftZero
  <1>1. EpilogueInv => CountersLeftZero
    <2> SUFFICES ASSUME EpilogueInv, InLoop \/ ~Running, NEW n \in DOMAIN counter
                 PROVE  counter[n] = 0
      BY DEF CountersLeftZero
    <2>1. ~InEpilogue
      <3>1. CASE ~Running
        BY <3>1 DEF InEpilogue
      <3>2. CASE Running /\ InLoop
        <4>1. Len(Ctas) \in Nat /\ DOMAIN Ctas = 1 .. Len(Ctas)
          BY <3>2, LaunchShape DEF EpilogueInv
        <4> QED
          BY <3>2, <4>1 DEF InLoop, InEpilogue
      <3> QED
        BY <3>1, <3>2
    <2> QED
      BY <2>1 DEF EpilogueInv, QuietLoop, Idle
  <1> QED
    BY <1>1, EpilogueAlways, PTL

-----------------------------------------------------------------------------
(* The pipeline's control state.                                           *)

ProgramPoint == {"prologue", "issue", "wait", "filled", "read", "drained", "exit"}

\* A warp holds one commit group per stage while it waits, one fewer elsewhere.
GroupsInFlight(w) ==
    /\ \E S : flight[w] \in Seq(S)
    /\ InLoop => Len(flight[w]) <= (IF pc[w] = "wait" THEN C.kernel.depth ELSE C.kernel.depth - 1)
    /\ ~InLoop => Len(flight[w]) <= 2

\* The invariant of the k-loops' control state.
LoopInv ==
    /\ pc \in [Warp -> ProgramPoint]
    /\ step \in [Warp -> Nat]
    /\ DOMAIN flight = Warp
    /\ \A w \in Warp : GroupsInFlight(w)

\* The groups left on their way by a wait.
LEMMA Kept ==
    ASSUME NEW S, NEW s \in Seq(S), NEW k \in Nat
    PROVE  LET keep == Min({k, Len(s)})
               left == SubSeq(s, Len(s) - keep + 1, Len(s))
           IN  left \in Seq(S) /\ Len(left) <= k
  <1> DEFINE keep == Min({k, Len(s)})
  <1>1. Len(s) \in Nat
    OBVIOUS
  <1>2. keep \in Nat /\ keep <= k /\ keep <= Len(s)
    <2> DEFINE n == Len(s)
    <2>1. n \in Int /\ n \in Nat /\ k \in Int
      BY <1>1
    <2> HIDE DEF n
    <2>2. Min({k, n}) \in {k, n} /\ Min({k, n}) <= k /\ Min({k, n}) <= n
      BY <2>1, LesserOfTwo
    <2>3. Min({k, n}) \in Nat
      BY <2>1, <2>2
    <2> QED
      BY <2>2, <2>3 DEF n
  <1> HIDE DEF keep
  <1>3. Len(SubSeq(s, Len(s) - keep + 1, Len(s))) = keep
    BY <1>1, <1>2
  <1>4. SubSeq(s, Len(s) - keep + 1, Len(s)) \in Seq(S)
    BY <1>1, <1>2
  <1> QED
    BY <1>2, <1>3, <1>4 DEF keep

\* In a k-loop the running CTA's kernel is two or three stages deep.
LEMMA LoopDepth ==
    ASSUME StreamInv, InLoop
    PROVE  C.kernel.depth \in {2, 3} /\ Running
  <1>1. Running
    BY DEF InLoop, Ctas
  <1>2. OnCall(C)
    BY <1>1, LaunchShape DEF InLoop, C
  <1>3. Layout(C.kernel)
    BY <1>2, CtaKernel DEF StreamInv, OnCall
  <1> QED
    BY <1>1, <1>3 DEF Layout

DepthKnown == InLoop => C.kernel.depth \in {2, 3}

\* The same holds after a step.
LEMMA DepthNext == StreamInv' => DepthKnown'
  <1>1. StreamInv => DepthKnown
    BY LoopDepth DEF DepthKnown
  <1> QED
    BY <1>1, PTL

\* A step of the k-loop of one CTA.
LEMMA WithinLoop ==
    ASSUME StreamInv, LoopInv, InLoop, UNCHANGED <<call, stream, cta>>,
           pc' \in [Warp -> ProgramPoint], step' \in [Warp -> Nat], DOMAIN flight' = Warp,
           \A w \in Warp : \E S : flight'[w] \in Seq(S),
           \A w \in Warp : Len(flight'[w]) <= (IF pc'[w] = "wait" THEN C.kernel.depth ELSE C.kernel.depth - 1)
    PROVE  LoopInv'
  <1>1. Ctas' = Ctas
    BY SameLaunch
  <1>2. InLoop' /\ C' = C
    BY <1>1 DEF InLoop, C
  <1> QED
    BY <1>2 DEF LoopInv, GroupsInFlight

\* A prologue commits one group fewer than the stages.
LEMMA PrologueStep ==
    ASSUME StreamInv, LoopInv, NEW w \in Warp, Prologue(w)
    PROVE  LoopInv'
  <1>1. PICK first, second :
            /\ flight' = [flight EXCEPT ![w] = IF C.kernel.depth = 3 THEN <<first, second>> ELSE <<first>>]
            /\ pc' = [pc EXCEPT ![w] = IF Steps(C) = 0 THEN "exit" ELSE "issue"]
            /\ InLoop /\ UNCHANGED <<call, stream, cta, step>>
    BY DEF Prologue
  <1>2. C.kernel.depth \in {2, 3}
    BY <1>1, LoopDepth
  <1>3. ASSUME NEW v \in Warp
        PROVE  /\ \E S : flight'[v] \in Seq(S)
               /\ Len(flight'[v]) <= (IF pc'[v] = "wait" THEN C.kernel.depth ELSE C.kernel.depth - 1)
    <2>1. CASE v = w
      <3>1. flight'[v] = (IF C.kernel.depth = 3 THEN <<first, second>> ELSE <<first>>) /\ pc'[v] # "wait"
        BY <1>1, <2>1 DEF LoopInv
      <3>2. flight'[v] \in Seq({first, second})
        <4>1. <<first, second>> \in Seq({first, second}) /\ <<first>> \in Seq({first, second})
          OBVIOUS
        <4> QED
          BY <3>1, <4>1
      <3>3. Len(flight'[v]) = C.kernel.depth - 1
        BY <1>2, <3>1
      <3> QED
        BY <1>2, <3>1, <3>2, <3>3
    <2>2. CASE v # w
      BY <1>1, <2>2 DEF LoopInv, GroupsInFlight
    <2> QED
      BY <2>1, <2>2
  <1>4. pc' \in [Warp -> ProgramPoint] /\ step' \in [Warp -> Nat] /\ DOMAIN flight' = Warp
    BY <1>1 DEF LoopInv, ProgramPoint
  <1> QED
    BY <1>1, <1>3, <1>4, WithinLoop

\* A warp that issues holds one group more while it waits.
LEMMA IssueStep ==
    ASSUME StreamInv, LoopInv, NEW w \in Warp, Issue(w)
    PROVE  LoopInv'
  <1>1. PICK group :
            /\ flight' = [flight EXCEPT ![w] = Append(@, group)] \/ flight' = flight
            /\ pc' = [pc EXCEPT ![w] = "wait"] /\ pc[w] = "issue"
            /\ InLoop /\ UNCHANGED <<call, stream, cta, step>>
    BY DEF Issue
  <1>2. C.kernel.depth \in {2, 3}
    BY <1>1, LoopDepth
  <1>3. ASSUME NEW v \in Warp
        PROVE  /\ \E S : flight'[v] \in Seq(S)
               /\ Len(flight'[v]) <= (IF pc'[v] = "wait" THEN C.kernel.depth ELSE C.kernel.depth - 1)
    <2>1. CASE v = w
      <3>1. PICK S : flight[w] \in Seq(S)
        BY DEF LoopInv, GroupsInFlight
      <3>2. Len(flight[w]) <= C.kernel.depth - 1
        BY <1>1 DEF LoopInv, GroupsInFlight
      <3>3. flight'[w] \in {flight[w], Append(flight[w], group)} /\ pc'[w] = "wait"
        BY <1>1 DEF LoopInv
      <3>4. Append(flight[w], group) \in Seq(S \cup {group}) /\ Len(Append(flight[w], group)) = Len(flight[w]) + 1
        BY <3>1
      <3>5. Len(flight[w]) \in Nat
        BY <3>1
      <3>6. \E T : flight'[w] \in Seq(T)
        BY <3>1, <3>3, <3>4
      <3>7. Len(flight'[w]) <= C.kernel.depth
        BY <1>2, <3>2, <3>3, <3>4, <3>5
      <3> QED
        BY <2>1, <3>3, <3>6, <3>7
    <2>2. CASE v # w
      BY <1>1, <2>2 DEF LoopInv, GroupsInFlight
    <2> QED
      BY <2>1, <2>2
  <1>4. pc' \in [Warp -> ProgramPoint] /\ step' \in [Warp -> Nat] /\ DOMAIN flight' = Warp
    BY <1>1 DEF LoopInv, ProgramPoint
  <1> QED
    BY <1>1, <1>3, <1>4, WithinLoop

\* After its wait it is back at one group fewer.
LEMMA WaitStep ==
    ASSUME StreamInv, LoopInv, NEW w \in Warp, Wait(w)
    PROVE  LoopInv'
  <1> DEFINE k == Outstanding(C, step[w])
  <1>1. /\ flight' = [flight EXCEPT ![w] = SubSeq(@, Len(@) - Min({k, Len(@)}) + 1, Len(@))]
        /\ pc' = [pc EXCEPT ![w] = "filled"]
        /\ InLoop /\ UNCHANGED <<call, stream, cta, step>>
    BY DEF Wait
  <1>2. C.kernel.depth \in {2, 3}
    BY <1>1, LoopDepth
  <1>3. k \in Nat /\ k <= C.kernel.depth - 1
    BY <1>2 DEF Outstanding
  <1>4. ASSUME NEW v \in Warp
        PROVE  /\ \E S : flight'[v] \in Seq(S)
               /\ Len(flight'[v]) <= (IF pc'[v] = "wait" THEN C.kernel.depth ELSE C.kernel.depth - 1)
    <2>1. CASE v = w
      <3>1. PICK S : flight[w] \in Seq(S)
        BY DEF LoopInv, GroupsInFlight
      <3>2. flight'[w] = SubSeq(flight[w], Len(flight[w]) - Min({k, Len(flight[w])}) + 1, Len(flight[w])) /\ pc'[w] = "filled"
        BY <1>1 DEF LoopInv
      <3> HIDE DEF k
      <3>3. flight'[w] \in Seq(S) /\ Len(flight'[w]) <= k
        BY <1>3, <3>1, <3>2, Kept
      <3>4. Len(flight'[w]) \in Nat
        BY <3>3
      <3>5. Len(flight'[w]) <= C.kernel.depth - 1
        BY <1>2, <1>3, <3>3, <3>4
      <3>6. \E T : flight'[w] \in Seq(T)
        BY <3>3
      <3> QED
        BY <2>1, <3>2, <3>5, <3>6
    <2>2. CASE v # w
      BY <1>1, <2>2 DEF LoopInv, GroupsInFlight
    <2> QED
      BY <2>1, <2>2
  <1>5. pc' \in [Warp -> ProgramPoint] /\ step' \in [Warp -> Nat] /\ DOMAIN flight' = Warp
    BY <1>1 DEF LoopInv, ProgramPoint
  <1> QED
    BY <1>1, <1>4, <1>5, WithinLoop

\* A copy that lands leaves its group committed.
LEMMA LandStep ==
    ASSUME StreamInv, LoopInv, LandSome
    PROVE  LoopInv'
  <1>a. PICK w \in Warp : \E i \in DOMAIN flight[w] : \E copy \in flight[w][i] : Land(w, i, copy)
    BY DEF LandSome
  <1>b. PICK i \in DOMAIN flight[w] : \E copy \in flight[w][i] : Land(w, i, copy)
    BY <1>a
  <1>1. PICK copy :
            /\ flight' = [flight EXCEPT ![w][i] = @ \ {copy}]
            /\ InLoop /\ UNCHANGED <<call, stream, cta, pc, step>>
    BY <1>b DEF Land
  <1>2. PICK S : flight[w] \in Seq(S)
    BY DEF LoopInv, GroupsInFlight
  <1>3. flight'[w] = [flight[w] EXCEPT ![i] = @ \ {copy}]
    BY <1>1 DEF LoopInv
  <1>4. flight'[w] \in Seq(S \cup {flight[w][i] \ {copy}}) /\ Len(flight'[w]) = Len(flight[w])
    BY <1>2, <1>3
  <1>5. ASSUME NEW v \in Warp
        PROVE  /\ \E T : flight'[v] \in Seq(T)
               /\ Len(flight'[v]) <= (IF pc'[v] = "wait" THEN C.kernel.depth ELSE C.kernel.depth - 1)
    <2>1. CASE v = w
      BY <1>1, <1>4, <2>1 DEF LoopInv, GroupsInFlight
    <2>2. CASE v # w
      BY <1>1, <2>2 DEF LoopInv, GroupsInFlight
    <2> QED
      BY <2>1, <2>2
  <1>6. pc' \in [Warp -> ProgramPoint] /\ step' \in [Warp -> Nat] /\ DOMAIN flight' = Warp
    BY <1>1 DEF LoopInv
  <1> QED
    BY <1>1, <1>5, <1>6, WithinLoop

\* Decoding a stage commits no group.
LEMMA ReadStep ==
    ASSUME StreamInv, LoopInv, NEW w \in Warp, Read(w)
    PROVE  LoopInv'
  <1>1. /\ pc' = [pc EXCEPT ![w] = "drained"] /\ pc[w] = "read"
        /\ InLoop /\ UNCHANGED <<call, stream, cta, step, flight>>
    BY DEF Read
  <1>2. \A v \in Warp : /\ \E S : flight'[v] \in Seq(S)
                        /\ Len(flight'[v]) <= (IF pc'[v] = "wait" THEN C.kernel.depth ELSE C.kernel.depth - 1)
    BY <1>1 DEF LoopInv, GroupsInFlight
  <1>3. pc' \in [Warp -> ProgramPoint] /\ step' \in [Warp -> Nat] /\ DOMAIN flight' = Warp
    BY <1>1 DEF LoopInv, ProgramPoint
  <1> QED
    BY <1>1, <1>2, <1>3, WithinLoop

\* Nor does a barrier.
LEMMA BarrierStep ==
    ASSUME StreamInv, LoopInv, Barrier("filled", "read") \/ Barrier("drained", "issue")
    PROVE  LoopInv'
  <1>1. /\ \A w \in Warp : pc[w] # "wait"
        /\ pc' \in [Warp -> {"read", "issue", "exit"}]
        /\ step' = [w \in Warp |-> step[w] + 1] \/ step' = step
        /\ InLoop /\ UNCHANGED <<call, stream, cta, flight>>
    BY DEF Barrier
  <1>2. \A v \in Warp : /\ \E S : flight'[v] \in Seq(S)
                        /\ Len(flight'[v]) <= (IF pc'[v] = "wait" THEN C.kernel.depth ELSE C.kernel.depth - 1)
    BY <1>1 DEF LoopInv, GroupsInFlight
  <1>3. pc' \in [Warp -> ProgramPoint] /\ step' \in [Warp -> Nat] /\ DOMAIN flight' = Warp
    BY <1>1 DEF LoopInv, ProgramPoint
  <1> QED
    BY <1>1, <1>2, <1>3, WithinLoop

\* A CTA's k-loop starts with nothing in flight.
LEMMA FreshLoop ==
    ASSUME StreamInv', pc' = EachWarp("prologue"), step' = EachWarp(0), flight' = EachWarp(<<>>)
    PROVE  LoopInv'
  <1>1. pc' \in [Warp -> ProgramPoint] /\ step' \in [Warp -> Nat] /\ DOMAIN flight' = Warp
    BY DEF EachWarp, ProgramPoint
  <1>2. \A w \in Warp : flight'[w] = <<>> /\ pc'[w] = "prologue"
    BY DEF EachWarp
  <1>3. Len(<<>>) = 0 /\ <<>> \in Seq({})
    OBVIOUS
  <1>4. InLoop' => C'.kernel.depth \in {2, 3}
    BY DepthNext DEF DepthKnown
  <1>5. ASSUME NEW w \in Warp
        PROVE  GroupsInFlight(w)'
    <2>1. \E S : flight'[w] \in Seq(S)
      BY <1>2, <1>3
    <2>2. Len(flight'[w]) = 0 /\ pc'[w] # "wait"
      BY <1>2, <1>3
    <2> QED
      BY <1>4, <2>1, <2>2 DEF GroupsInFlight
  <1> QED
    BY <1>1, <1>5 DEF LoopInv

\* No k-loop is left to run: its warps have at most two empty groups each.
LEMMA LoopsOver ==
    ASSUME StreamInv, LoopInv, UNCHANGED <<pc, step, flight>>, ~InLoop',
           InLoop => \A w \in Warp : pc[w] = "exit"
    PROVE  LoopInv'
  <1>1. ASSUME NEW w \in Warp
        PROVE  Len(flight[w]) <= 2
    <2>1. PICK S : flight[w] \in Seq(S)
      BY DEF LoopInv, GroupsInFlight
    <2>2. Len(flight[w]) \in Nat
      BY <2>1
    <2>3. CASE InLoop
      <3>1. C.kernel.depth \in {2, 3}
        BY <2>3, LoopDepth
      <3>2. Len(flight[w]) <= C.kernel.depth - 1
        BY <2>3 DEF LoopInv, GroupsInFlight
      <3> QED
        BY <2>2, <3>1, <3>2
    <2> QED
      BY <2>3 DEF LoopInv, GroupsInFlight
  <1> QED
    BY <1>1 DEF LoopInv, GroupsInFlight

\* The next CTA starts with no groups; behind the last none is left.
LEMMA FinishLoop ==
    ASSUME EpilogueInv, LoopInv, Finish
    PROVE  LoopInv'
  <1>1. /\ UNCHANGED <<call, stream>> /\ cta' = cta + 1
        /\ InLoop /\ \A w \in Warp : pc[w] = "exit"
        /\ IF cta < Len(Ctas) THEN StartLoop(Ctas[cta + 1]) ELSE UNCHANGED loopVars
    BY DEF Finish
  <1>2. StreamInv' /\ Ctas' = Ctas /\ StreamInv
    BY <1>1, SameLaunch DEF EpilogueInv
  <1>3. CASE cta < Len(Ctas)
    BY <1>1, <1>2, <1>3, FreshLoop DEF StartLoop
  <1>4. CASE ~(cta < Len(Ctas))
    <2>1. Len(Ctas) \in Nat /\ DOMAIN Ctas = 1 .. Len(Ctas)
      BY <1>1, <1>2, LoopDepth, LaunchShape
    <2>2. ~InLoop'
      BY <1>1, <1>2, <1>4, <2>1 DEF InLoop
    <2> QED
      BY <1>1, <1>2, <1>4, <2>2, LoopsOver DEF loopVars
  <1> QED
    BY <1>3, <1>4

\* So does the first CTA of the next launch.
LEMMA EndLaunchLoop ==
    ASSUME EpilogueInv, EpilogueInv', LoopInv, EndLaunch
    PROVE  LoopInv'
  <1>1. /\ InEpilogue /\ stream' = Tail(stream)
        /\ IF Len(stream) > 1 THEN StartLoop(stream[2].ctas[1]) ELSE UNCHANGED loopVars
    BY DEF EndLaunch
  <1>2. StreamInv /\ StreamInv' /\ stream # <<>>
    BY <1>1 DEF EpilogueInv, InEpilogue, Running
  <1>3. CASE Len(stream) > 1
    BY <1>1, <1>2, <1>3, FreshLoop DEF StartLoop
  <1>4. CASE ~(Len(stream) > 1)
    <2>1. stream' = <<>>
      BY <1>1, <1>2, <1>4 DEF StreamInv
    <2>2. ~InLoop'
      BY <2>1 DEF InLoop, Ctas, Running
    <2>3. ~InLoop
      <3>1. Len(Ctas) \in Nat /\ DOMAIN Ctas = 1 .. Len(Ctas)
        BY <1>1, <1>2, LaunchShape DEF InEpilogue
      <3> QED
        BY <1>1, <3>1 DEF InEpilogue, InLoop
    <2> QED
      BY <1>1, <1>2, <1>4, <2>2, <2>3, LoopsOver DEF loopVars
  <1> QED
    BY <1>3, <1>4

\* The epilogues leave the k-loop's state alone.
LEMMA LoopUnchanged ==
    ASSUME LoopInv, UNCHANGED <<call, stream, cta, pc, step, flight>>
    PROVE  LoopInv'
  <1>1. Ctas' = Ctas
    BY SameLaunch
  <1>2. InLoop' = InLoop /\ C' = C
    BY <1>1 DEF InLoop, C
  <1>3. \A w : GroupsInFlight(w) => GroupsInFlight(w)'
    BY <1>2 DEF GroupsInFlight
  <1> QED
    BY <1>3 DEF LoopInv

\* And that of the first launch.
LEMMA LoopInit == GemmInit => LoopInv
  <1> SUFFICES ASSUME GemmInit
               PROVE  LoopInv
    OBVIOUS
  <1>1. pc = EachWarp("prologue") /\ step = EachWarp(0) /\ flight = EachWarp(<<>>)
    BY DEF GemmInit
  <1>2. pc \in [Warp -> ProgramPoint] /\ step \in [Warp -> Nat] /\ DOMAIN flight = Warp
    BY <1>1 DEF EachWarp, ProgramPoint
  <1>3. \A w \in Warp : flight[w] = <<>> /\ pc[w] = "prologue"
    BY <1>1 DEF EachWarp
  <1>4. InLoop => C.kernel.depth \in {2, 3}
    BY EpilogueInit, LoopDepth DEF EpilogueInv
  <1>5. Len(<<>>) = 0 /\ <<>> \in Seq({})
    OBVIOUS
  <1>6. ASSUME NEW w \in Warp
        PROVE  GroupsInFlight(w)
    <2>1. \E S : flight[w] \in Seq(S)
      BY <1>3, <1>5
    <2>2. Len(flight[w]) = 0 /\ pc[w] # "wait"
      BY <1>3, <1>5
    <2> QED
      BY <1>4, <2>1, <2>2 DEF GroupsInFlight
  <1> QED
    BY <1>2, <1>6 DEF LoopInv

\* Every step keeps the k-loops' control state.
LEMMA LoopNext == EpilogueInv /\ EpilogueInv' /\ LoopInv /\ [GemmNext]_vars => LoopInv'
  <1> SUFFICES ASSUME EpilogueInv, EpilogueInv', LoopInv, [GemmNext]_vars
               PROVE  LoopInv'
    OBVIOUS
  <1>0. StreamInv
    BY DEF EpilogueInv
  <1>1. ASSUME NEW w \in Warp, Prologue(w) \/ Issue(w) \/ Wait(w) \/ Read(w)
        PROVE  LoopInv'
    BY <1>0, <1>1, PrologueStep, IssueStep, WaitStep, ReadStep
  <1>2. CASE Barrier("filled", "read") \/ Barrier("drained", "issue")
    BY <1>0, <1>2, BarrierStep
  <1>3. CASE LandSome
    BY <1>0, <1>3, LandStep
  <1>4. CASE Finish
    BY <1>4, FinishLoop
  <1>5. ASSUME NEW i \in DOMAIN epi, StoreSlice(i) \/ Arrive(i) \/ \E w \in Warp : StorePartial(i, w) \/ Fence(i, w) \/ Reduce(i, w)
        PROVE  LoopInv'
    BY <1>5, LoopUnchanged DEF StoreSlice, Arrive, StorePartial, Fence, Reduce, loopVars
  <1>6. ASSUME NEW x \in pending, Visible(x[1], x[2])
        PROVE  LoopInv'
    BY <1>6, LoopUnchanged DEF Visible, loopVars
  <1>7. CASE EndLaunch
    BY <1>7, EndLaunchLoop
  <1>8. CASE Returned \/ UNCHANGED vars
    BY <1>8, LoopUnchanged DEF Returned, vars, loopVars
  <1> QED
    BY <1>1, <1>2, <1>3, <1>4, <1>5, <1>6, <1>7, <1>8 DEF GemmNext

\* The control state of the pipelines keeps its types, and no warp ever has more
\* commit groups in flight than its kernel has stages (the commit_group and
\* wait_group pairs of the kernels).
THEOREM PipelineTypes == GemmSpec => []GemmTypeOK
  <1>1. EpilogueInv /\ LoopInv => GemmTypeOK
    <2> SUFFICES ASSUME EpilogueInv, LoopInv
                 PROVE  GemmTypeOK
      OBVIOUS
    <2>1. cta \in 1 .. Len(Ctas) + 1
      <3>1. CASE Running
        BY <3>1 DEF EpilogueInv, EpilogueTypes
      <3>2. CASE ~Running
        <4>1. Ctas = <<>> /\ cta = 1 /\ Len(<<>>) = 0
          BY <3>2 DEF Ctas, EpilogueInv, EpilogueTypes
        <4> QED
          BY <4>1
      <3> QED
        BY <3>1, <3>2
    <2>2. \A w \in Warp : Len(flight[w]) <= 3
      <3> SUFFICES ASSUME NEW w \in Warp
                   PROVE  Len(flight[w]) <= 3
        OBVIOUS
      <3>1. PICK S : flight[w] \in Seq(S)
        BY DEF LoopInv, GroupsInFlight
      <3>2. Len(flight[w]) \in Nat
        BY <3>1
      <3>3. CASE InLoop
        <4>1. C.kernel.depth \in {2, 3}
          BY <3>3, LoopDepth DEF EpilogueInv
        <4>2. Len(flight[w]) <= C.kernel.depth \/ Len(flight[w]) <= C.kernel.depth - 1
          BY <3>3 DEF LoopInv, GroupsInFlight
        <4> QED
          BY <3>2, <4>1, <4>2
      <3>4. CASE ~InLoop
        BY <3>2, <3>4 DEF LoopInv, GroupsInFlight
      <3> QED
        BY <3>3, <3>4
    <2> QED
      BY <2>1, <2>2 DEF GemmTypeOK, LoopInv, ProgramPoint, EpilogueInv, EpilogueTypes
  <1> QED
    BY <1>1, EpilogueInit, EpilogueNext, LoopInit, LoopNext, PTL DEF GemmSpec

-----------------------------------------------------------------------------
(* What the parts of shared memory hold.                                   *)

\* What a warp copies for stage t when its weights are x.
Filling(c, x, t, w) ==
    {[part |-> <<"w", t % c.kernel.depth, w>>, value |-> x]}
    \cup IF c.kernel.acts # None /\ HalfOf(c, t) = 0
         THEN {[part |-> <<"a", (t \div c.kernel.nst) % 2, w>>, value |-> Activations(c, KBlock(c, t))]}
         ELSE {}

\* The stage of a warp's oldest group in flight: its own until it has waited for it.
Oldest(p, s) == IF p \in {"issue", "wait"} THEN s ELSE s + 1

\* A warp's groups in flight are the next stages in order, as many as there is room for.
InOrder(c, W, w, p, s, f) ==
    LET cap == IF p = "wait" THEN c.kernel.depth ELSE c.kernel.depth - 1
        left == Steps(c) - Oldest(p, s)
    IN  /\ \E S : f \in Seq(S)
        /\ IF left >= cap THEN Len(f) = cap ELSE Len(f) \in left .. c.kernel.depth - 1
        /\ \A i \in 1 .. Len(f) : \A copy \in f[i] :
              LET t == Oldest(p, s) + i - 1 IN t < Steps(c) /\ copy \in Filling(c, W[t], t, w)

\* A copy of its stage, or of one it has issued, has landed or is in its group.
Landed(c, W, w, p, s, f, mem) ==
    \A t \in s .. Oldest(p, s) + Len(f) - 1 : t < Steps(c) =>
        \A copy \in Filling(c, W[t], t, w) :
            mem[copy.part] = copy.value \/ (t >= Oldest(p, s) /\ copy \in f[t - Oldest(p, s) + 1])

\* At the second stage of a k-block its activations are still there.
KeptActs(c, w, s, mem) ==
    c.kernel.acts # None /\ HalfOf(c, s) # 0 =>
        mem[<<"a", (s \div c.kernel.nst) % 2, w>>] = Activations(c, KBlock(c, s))

KeptTable(c, w, mem) == c.kernel.tab # None => mem[<<"t", 0, w>>] = Table

WarpHolds(c, W, w, p, s, f, mem) ==
    InOrder(c, W, w, p, s, f) /\ Landed(c, W, w, p, s, f, mem) /\ KeptActs(c, w, s, mem) /\ KeptTable(c, w, mem)

\* A write to a part of a kernel whose parts lie apart changes that part alone.
LEMMA WriteAlone ==
    ASSUME NEW k, Layout(k), NEW mem, DOMAIN mem = Parts(k), NEW part \in Parts(k), NEW value
    PROVE  /\ DOMAIN Write(mem, k, part, value) = Parts(k)
           /\ Write(mem, k, part, value)[part] = value
           /\ \A q \in Parts(k) \ {part} : Write(mem, k, part, value)[q] = mem[q]
  <1>1. Apart(k)
    BY LayoutApart
  <1>2. Extent(k, part).past <= k.size /\ \A q \in Parts(k) : q # part => ~Overlap(Extent(k, q), Extent(k, part))
    BY <1>1 DEF Apart
  <1> QED
    BY <1>2 DEF Write

\* A warp's copy of a stage: its weights, or the activations of its k-block.
PartOfStage(c, x, t, w, copy) ==
    /\ \/ copy.part = <<"w", t % c.kernel.depth, w>> /\ copy.value = x
       \/ /\ copy.part = <<"a", (t \div c.kernel.nst) % 2, w>> /\ copy.value = Activations(c, KBlock(c, t))
          /\ c.kernel.acts # None /\ HalfOf(c, t) = 0
    /\ copy = [part |-> copy.part, value |-> copy.value]

\* The parts a stage is copied to are the warp's own, one copy each.
LEMMA FillingParts ==
    ASSUME NEW c, Layout(c.kernel), NEW x, NEW t \in Nat, NEW w \in Warp, NEW copy \in Filling(c, x, t, w)
    PROVE  /\ copy.part \in Parts(c.kernel) /\ copy.part # <<"t", 0, w>>
           /\ PartOfStage(c, x, t, w, copy)
  <1>1. c.kernel.depth \in {2, 3} /\ c.kernel.nst \in {1, 2}
    BY DEF Layout
  <1>2. t % c.kernel.depth \in 0 .. c.kernel.depth - 1
    BY <1>1
  <1>3. (t \div c.kernel.nst) % 2 \in 0 .. 1
    BY <1>1
  <1>4. CASE copy = [part |-> <<"w", t % c.kernel.depth, w>>, value |-> x]
    <2>1. copy.part = <<"w", t % c.kernel.depth, w>> /\ copy.value = x
      BY <1>4
    <2>2. <<"w", t % c.kernel.depth, w>> \in Parts(c.kernel)
      BY <1>2 DEF Parts
    <2>3. copy.part # <<"t", 0, w>>
      BY <2>1
    <2> QED
      BY <1>4, <2>1, <2>2, <2>3 DEF PartOfStage
  <1>5. CASE /\ c.kernel.acts # None /\ HalfOf(c, t) = 0
             /\ copy = [part |-> <<"a", (t \div c.kernel.nst) % 2, w>>, value |-> Activations(c, KBlock(c, t))]
    <2>1. copy.part = <<"a", (t \div c.kernel.nst) % 2, w>> /\ copy.value = Activations(c, KBlock(c, t))
      BY <1>5
    <2>2. <<"a", (t \div c.kernel.nst) % 2, w>> \in Parts(c.kernel)
      BY <1>3, <1>5 DEF Parts
    <2>3. copy.part # <<"t", 0, w>>
      BY <2>1
    <2> QED
      BY <1>5, <2>1, <2>2, <2>3 DEF PartOfStage
  <1> QED
    BY <1>4, <1>5 DEF Filling

\* Of the stages in flight at once no two are copied to the same place.
LEMMA StagesApart ==
    ASSUME NEW c, Layout(c.kernel), NEW s \in Nat,
           NEW t \in s .. s + c.kernel.depth - 1, NEW u \in s .. s + c.kernel.depth - 1,
           NEW x, NEW y, NEW w \in Warp, NEW copy \in Filling(c, x, t, w), NEW other \in Filling(c, y, u, w),
           copy.part = other.part
    PROVE  t = u /\ (x = y => copy = other)
  <1>1. c.kernel.depth \in {2, 3} /\ c.kernel.nst \in {1, 2} /\ (c.kernel.depth = 3 => c.kernel.acts = None)
    BY DEF Layout
  <1>2. t \in Nat /\ u \in Nat
    BY <1>1
  <1> DEFINE d == c.kernel.depth
             n == c.kernel.nst
  <1>a. PartOfStage(c, x, t, w, copy) /\ PartOfStage(c, y, u, w, other)
    BY <1>2, FillingParts
  <1>3. /\ \/ copy.part = <<"w", t % d, w>> /\ copy.value = x
           \/ /\ copy.part = <<"a", (t \div n) % 2, w>> /\ copy.value = Activations(c, KBlock(c, t))
              /\ c.kernel.acts # None /\ HalfOf(c, t) = 0
        /\ copy = [part |-> copy.part, value |-> copy.value]
    BY <1>a DEF PartOfStage
  <1>4. /\ \/ other.part = <<"w", u % d, w>> /\ other.value = y
           \/ /\ other.part = <<"a", (u \div n) % 2, w>> /\ other.value = Activations(c, KBlock(c, u))
              /\ c.kernel.acts # None /\ HalfOf(c, u) = 0
        /\ other = [part |-> other.part, value |-> other.value]
    BY <1>a DEF PartOfStage
  <1>5. CASE copy.part = <<"w", t % d, w>> /\ copy.value = x
    <2>1. other.part = <<"w", u % d, w>> /\ other.value = y /\ t % d = u % d
      <3>1. <<"w", t % d, w>> # <<"a", (u \div n) % 2, w>>
        OBVIOUS
      <3> QED
        BY <1>4, <1>5, <3>1
    <2>2. t = u
      <3>1. CASE d = 2
        BY <2>1, <3>1
      <3>2. CASE d = 3
        BY <2>1, <3>2
      <3> QED
        BY <1>1, <3>1, <3>2
    <2> QED
      BY <1>3, <1>4, <1>5, <2>1, <2>2
  <1>6. CASE /\ copy.part = <<"a", (t \div n) % 2, w>> /\ copy.value = Activations(c, KBlock(c, t))
             /\ c.kernel.acts # None /\ HalfOf(c, t) = 0
    <2>1. /\ other.part = <<"a", (u \div n) % 2, w>> /\ other.value = Activations(c, KBlock(c, u))
          /\ HalfOf(c, u) = 0 /\ (t \div n) % 2 = (u \div n) % 2
      <3>1. <<"w", u % d, w>> # <<"a", (t \div n) % 2, w>>
        OBVIOUS
      <3> QED
        BY <1>4, <1>6, <3>1
    <2>2. d = 2
      BY <1>1, <1>6
    <2>3. t = u
      <3>1. CASE n = 1
        BY <2>1, <2>2, <3>1
      <3>2. CASE n = 2
        <4>1. t % 2 = 0 /\ u % 2 = 0
          BY <1>6, <2>1, <3>2 DEF HalfOf
        <4> QED
          BY <2>2, <4>1
      <3> QED
        BY <1>1, <3>1, <3>2
    <2> QED
      BY <1>3, <1>4, <1>6, <2>1, <2>3
  <1> QED
    BY <1>3, <1>5, <1>6

\* The stages of a k-loop are natural numbers, a handful of them in flight.
LEMMA FlightRoom ==
    ASSUME NEW c, Layout(c.kernel), Steps(c) \in Nat, NEW W, NEW w, NEW p, NEW s \in Nat, s < Steps(c),
           NEW f, InOrder(c, W, w, p, s, f)
    PROVE  /\ c.kernel.depth \in {2, 3} /\ Len(f) \in Nat /\ Oldest(p, s) \in {s, s + 1} /\ Oldest(p, s) \in Nat
           /\ Oldest(p, s) + Len(f) - 1 <= s + c.kernel.depth - 1
  <1>1. c.kernel.depth \in {2, 3}
    BY DEF Layout
  <1>2. Len(f) \in Nat
    BY DEF InOrder
  <1>3. Oldest(p, s) = IF p \in {"issue", "wait"} THEN s ELSE s + 1
    BY DEF Oldest
  <1> DEFINE cap == IF p = "wait" THEN c.kernel.depth ELSE c.kernel.depth - 1
             left == Steps(c) - Oldest(p, s)
             n == Len(f)
  <1>4. IF left >= cap THEN n = cap ELSE n \in left .. c.kernel.depth - 1
    BY DEF InOrder
  <1> HIDE DEF n
  <1>5. p = "wait" => Oldest(p, s) = s
    BY <1>3
  <1>6. n <= cap
    BY <1>1, <1>2, <1>3, <1>4 DEF n
  <1>7. Oldest(p, s) + n - 1 <= s + c.kernel.depth - 1
    BY <1>1, <1>2, <1>3, <1>5, <1>6 DEF n
  <1> QED
    BY <1>1, <1>2, <1>3, <1>7 DEF n

\* Issuing the stage ahead overwrites no stage in use.
LEMMA IssueHolds ==
    ASSUME NEW c, Layout(c.kernel), Steps(c) \in Nat, NEW W, NEW w, NEW s \in Nat, s < Steps(c), NEW f, NEW mem,
           WarpHolds(c, W, w, "issue", s, f, mem), NEW g,
           LET ahead == s + c.kernel.depth - 1
           IN  g = IF ahead < Steps(c) THEN Append(f, Filling(c, W[ahead], ahead, w)) ELSE f
    PROVE  WarpHolds(c, W, w, "wait", s, g, mem)
  <1> DEFINE D == c.kernel.depth
             N == Steps(c)
             ahead == s + D - 1
             new == Filling(c, W[ahead], ahead, w)
  <1>1. D \in {2, 3} /\ Len(f) \in Nat /\ Oldest("issue", s) = s /\ Oldest("wait", s) = s
    BY DEF Layout, InOrder, WarpHolds, Oldest
  <1>2. /\ \E S : f \in Seq(S)
        /\ IF N - s >= D - 1 THEN Len(f) = D - 1 ELSE Len(f) \in N - s .. D - 1
        /\ \A i \in 1 .. Len(f) : \A copy \in f[i] : s + i - 1 < N /\ copy \in Filling(c, W[s + i - 1], s + i - 1, w)
    BY <1>1 DEF InOrder, WarpHolds
  <1>3. \A t \in s .. s + Len(f) - 1 : t < N =>
           \A copy \in Filling(c, W[t], t, w) : mem[copy.part] = copy.value \/ (t >= s /\ copy \in f[t - s + 1])
    BY <1>1 DEF Landed, WarpHolds
  <1>4. PICK S : f \in Seq(S)
    BY <1>2
  <1>5. CASE ahead < N
    <2>1. g = Append(f, new) /\ Len(f) = D - 1
      <3>1. N - s >= D - 1
        BY <1>1, <1>5
      <3> QED
        BY <1>2, <1>5, <3>1
    <2> HIDE DEF new
    <2>2. g \in Seq(S \cup {new}) /\ Len(g) = D /\ \A i \in 1 .. Len(g) : g[i] = IF i = D THEN new ELSE f[i]
      BY <1>1, <1>4, <2>1
    <2>l. Len(g) = D
      BY <2>2
    <2> HIDE DEF N
    <2>3. ASSUME NEW i \in 1 .. Len(g), NEW copy \in g[i]
          PROVE  s + i - 1 < N /\ copy \in Filling(c, W[s + i - 1], s + i - 1, w)
      <3>1. CASE i = D
        <4>1. s + i - 1 = ahead /\ copy \in new
          BY <1>1, <2>2, <3>1
        <4> QED
          BY <1>5, <4>1 DEF new
      <3>2. CASE i # D
        <4>1. i \in 1 .. Len(f) /\ copy \in f[i]
          BY <1>1, <2>1, <2>2, <3>2
        <4> QED
          BY <1>2, <4>1
      <3> QED
        BY <3>1, <3>2
    <2>4. InOrder(c, W, w, "wait", s, g)
      <3>1. N - s >= D
        BY <1>1, <1>5 DEF N
      <3>2. \E T : g \in Seq(T)
        BY <2>2
      <3> QED
        BY <1>1, <2>2, <2>3, <3>1, <3>2 DEF InOrder, N
    <2>5. ASSUME NEW t \in s .. s + Len(g) - 1, t < N, NEW copy \in Filling(c, W[t], t, w)
          PROVE  mem[copy.part] = copy.value \/ (t >= s /\ copy \in g[t - s + 1])
      <3>1. CASE t = ahead
        <4>1. t - s + 1 = D /\ D \in 1 .. D
          <5>1. D \in {2, 3}
            BY <1>1
          <5> HIDE DEF D
          <5>2. t = s + D - 1
            BY <3>1
          <5> QED
            BY <5>1, <5>2
        <4>2. g[t - s + 1] = new
          BY <2>2, <2>l, <4>1
        <4>3. t >= s
          BY <1>1, <3>1
        <4> QED
          BY <3>1, <4>2, <4>3 DEF new
      <3>2. CASE t # ahead
        <4>1. t \in s .. s + Len(f) - 1 /\ t - s + 1 \in 1 .. Len(g) /\ t - s + 1 # D
          <5> DEFINE n == Len(f)
          <5>1. D \in {2, 3} /\ n = D - 1 /\ n \in Nat /\ Len(g) = D
            BY <1>1, <2>1, <2>l
          <5>2. t \in s .. s + Len(g) - 1 /\ t # s + D - 1
            BY <3>2
          <5> HIDE DEF n, D
          <5>3. t \in s .. s + n - 1 /\ t - s + 1 \in 1 .. Len(g) /\ t - s + 1 # D
            BY <5>1, <5>2
          <5> QED
            BY <5>3 DEF n
        <4>2. g[t - s + 1] = f[t - s + 1]
          BY <2>2, <4>1
        <4> QED
          BY <1>3, <2>5, <4>1, <4>2 DEF N
      <3> QED
        BY <3>1, <3>2
    <2>6. Landed(c, W, w, "wait", s, g, mem)
      BY <1>1, <2>5 DEF Landed, N
    <2> QED
      BY <2>4, <2>6 DEF WarpHolds
  <1>6. CASE ~(ahead < N)
    <2>1. g = f
      BY <1>6
    <2>2. InOrder(c, W, w, "wait", s, f)
      <3>1. N - s < D /\ Len(f) \in N - s .. D - 1
        BY <1>1, <1>2, <1>6
      <3>2. ~(N - s >= D)
        BY <1>1, <1>6
      <3> QED
        BY <1>1, <1>2, <3>1, <3>2 DEF InOrder
    <2>3. Landed(c, W, w, "wait", s, f, mem)
      BY <1>1, <1>3 DEF Landed
    <2> QED
      BY <2>1, <2>2, <2>3 DEF WarpHolds
  <1> QED
    BY <1>5, <1>6

\* The newest groups of a sequence.
Newest(f, keep) == SubSeq(f, Len(f) - keep + 1, Len(f))

\* They are as many as are kept, in their order.
LEMMA NewestGroups ==
    ASSUME NEW S, NEW f \in Seq(S), NEW keep \in Nat, keep <= Len(f)
    PROVE  /\ Len(Newest(f, keep)) = keep /\ Newest(f, keep) \in Seq(S)
           /\ \A i \in 1 .. keep : Newest(f, keep)[i] = f[Len(f) - keep + i]
  <1> DEFINE n == Len(f)
             m == n - keep + 1
             g == SubSeq(f, m, n)
  <1>1. n \in Nat
    OBVIOUS
  <1>2. m \in 1 .. n + 1 /\ n - m + 1 = keep /\ \A i \in 1 .. keep : m + i - 1 = n - keep + i
    <2> HIDE DEF n
    <2> QED
      BY <1>1 DEF n
  <1>3. g \in Seq(S) /\ Len(g) = IF m <= n THEN n - m + 1 ELSE 0
    BY <1>1, <1>2
  <1>4. \A i \in 1 .. keep : g[i] = f[m + i - 1]
    BY <1>1, <1>2
  <1>5. Newest(f, keep) = g
    BY DEF Newest
  <1> HIDE DEF g, m, n
  <1>6. Len(g) = keep /\ g \in Seq(S)
    BY <1>1, <1>2, <1>3
  <1>7. \A i \in 1 .. keep : g[i] = f[n - keep + i]
    BY <1>2, <1>4
  <1> QED
    BY <1>5, <1>6, <1>7 DEF n

\* After its wait a warp finds its own copies of the stage landed.
LEMMA WaitHolds ==
    ASSUME NEW c, Layout(c.kernel), Steps(c) \in Nat, NEW W, NEW w, NEW s \in Nat, s < Steps(c), NEW f, NEW mem,
           WarpHolds(c, W, w, "wait", s, f, mem), NEW keep, keep = Min({Outstanding(c, s), Len(f)}),
           \A i \in 1 .. Len(f) - keep : f[i] = {}
    PROVE  WarpHolds(c, W, w, "filled", s, SubSeq(f, Len(f) - keep + 1, Len(f)), mem)
  <1> DEFINE D == c.kernel.depth
             N == Steps(c)
             n == Len(f)
             g == Newest(f, keep)
  <1>1. D \in {2, 3} /\ n \in Nat /\ Oldest("wait", s) = s /\ Oldest("filled", s) = s + 1
    BY DEF Layout, InOrder, WarpHolds, Oldest
  <1>2. /\ \E S : f \in Seq(S)
        /\ IF N - s >= D THEN n = D ELSE n \in N - s .. D - 1
        /\ \A i \in 1 .. n : \A copy \in f[i] : s + i - 1 < N /\ copy \in Filling(c, W[s + i - 1], s + i - 1, w)
    BY <1>1 DEF InOrder, WarpHolds
  <1>3. \A t \in s .. s + n - 1 : t < N =>
           \A copy \in Filling(c, W[t], t, w) : mem[copy.part] = copy.value \/ (t >= s /\ copy \in f[t - s + 1])
    BY <1>1 DEF Landed, WarpHolds
  <1>4. PICK S : f \in Seq(S)
    BY <1>2
  <1>5. /\ N - s >= D => n = D /\ Outstanding(c, s) = D - 1
        /\ N - s < D /\ N - s >= 2 => D = 3 /\ N - s = 2 /\ n = 2 /\ Outstanding(c, s) = 1
        /\ N - s = 1 => n \in 1 .. D - 1 /\ Outstanding(c, s) = 0
    <2>1. IF N - s >= D THEN n = D ELSE n \in N - s .. D - 1
      BY <1>2
    <2>2. Outstanding(c, s) = IF s + D - 1 < N THEN D - 1 ELSE IF D = 3 /\ s + 1 < N THEN 1 ELSE 0
      BY DEF Outstanding
    <2>3. N \in Nat /\ s < N
      OBVIOUS
    <2> DEFINE o == Outstanding(c, s)
    <2> HIDE DEF n, N, o
    <2>4. CASE D = 2
      BY <1>1, <2>1, <2>2, <2>3, <2>4 DEF o
    <2>5. CASE D = 3
      BY <1>1, <2>1, <2>2, <2>3, <2>5 DEF o
    <2> QED
      BY <1>1, <2>4, <2>5
  <1>6. keep \in Nat /\ keep <= n /\ keep < D /\ (N - s >= 2 => keep = n - 1) /\ (N - s = 1 => keep = 0)
    <2> DEFINE o == Outstanding(c, s)
    <2>1. o \in Nat
      BY <1>1, <1>5
    <2>n. n \in Int /\ o \in Int
      BY <1>1, <2>1
    <2> HIDE DEF n, o
    <2>2. Min({o, n}) \in {o, n} /\ Min({o, n}) <= o /\ Min({o, n}) <= n
      BY <2>n, LesserOfTwo
    <2>3. keep = Min({o, n})
      BY DEF o, n
    <2>4. N \in Nat /\ s < N
      OBVIOUS
    <2>5. /\ N - s >= D => n = D /\ o = D - 1
          /\ N - s < D /\ N - s >= 2 => D = 3 /\ N - s = 2 /\ n = 2 /\ o = 1
          /\ N - s = 1 => n \in 1 .. D - 1 /\ o = 0
      BY <1>5 DEF o, n
    <2>6. n \in Nat /\ D \in {2, 3}
      BY <1>1 DEF n
    <2> HIDE DEF N, D
    <2>7. keep \in Nat /\ keep <= n /\ keep <= o /\ keep \in {o, n}
      BY <2>1, <2>2, <2>3, <2>6
    <2>8. keep <= n /\ keep < D /\ (N - s >= 2 => keep = n - 1) /\ (N - s = 1 => keep = 0)
      BY <2>1, <2>4, <2>5, <2>6, <2>7
    <2> QED
      BY <2>7, <2>8 DEF n, N, D
  <1>7. Len(g) = keep /\ g \in Seq(S) /\ \A i \in 1 .. keep : g[i] = f[n - keep + i]
    <2>1. f \in Seq(S) /\ keep \in Nat /\ keep <= Len(f)
      BY <1>4, <1>6
    <2> QED
      BY ZenonT(20), <2>1, NewestGroups
  <1>8. N \in Nat /\ s < N /\ s \in Nat
    OBVIOUS
  <1>m. /\ n \in Nat /\ D \in {2, 3}
        /\ N - s >= D => n = D
        /\ N - s < D /\ N - s >= 2 => D = 3 /\ N - s = 2 /\ n = 2
        /\ N - s = 1 => n \in 1 .. D - 1
    BY <1>1, <1>5
  <1>d. /\ N - (s + 1) >= D - 1 => keep = D - 1
        /\ N - (s + 1) < D - 1 => keep \in N - (s + 1) .. D - 1
        /\ N - s >= 2 => n = keep + 1
        /\ N - s = 1 => n >= 1 /\ keep = 0
        /\ N - s >= 1 /\ s + 1 + keep - 1 <= s + n - 1
        /\ n - keep >= 1 /\ (keep >= 1 => n = keep + 1)
    <2>1. /\ keep \in Nat /\ keep <= n /\ keep < D
          /\ N - s >= 2 => keep = n - 1
          /\ N - s = 1 => keep = 0
      BY <1>6
    <2> HIDE DEF n, N, D
    <2>2. CASE N - s >= D
      BY <1>8, <1>m, <2>1, <2>2
    <2>3. CASE N - s < D /\ N - s >= 2
      BY <1>8, <1>m, <2>1, <2>3
    <2>4. CASE N - s = 1
      BY <1>8, <1>m, <2>1, <2>4
    <2> QED
      BY <1>8, <1>m, <2>2, <2>3, <2>4
  <1> HIDE DEF g, N, n
  <1>9. InOrder(c, W, w, "filled", s, g)
    <2>1. IF N - (s + 1) >= D - 1 THEN keep = D - 1 ELSE keep \in N - (s + 1) .. D - 1
      BY <1>8, <1>m, <1>d
    <2>2. ASSUME NEW i \in 1 .. keep, NEW copy \in g[i]
          PROVE  s + 1 + i - 1 < N /\ copy \in Filling(c, W[s + 1 + i - 1], s + 1 + i - 1, w)
      <3>1. n = keep + 1 /\ keep \in Nat
        BY <1>6, <1>d
      <3>2. i + 1 \in 1 .. n /\ n - keep + i = i + 1
        BY <1>m, <3>1
      <3>4. copy \in f[i + 1]
        BY <1>7, <2>2, <3>2
      <3>3. s + (i + 1) - 1 = s + 1 + i - 1
        OBVIOUS
      <3> QED
        BY <1>2, <3>2, <3>3, <3>4
    <2>3. \E T : g \in Seq(T)
      BY <1>7
    <2> QED
      BY <1>1, <1>7, <2>1, <2>2, <2>3 DEF InOrder, N
  <1>10. ASSUME NEW t \in s .. s + 1 + keep - 1, t < N, NEW copy \in Filling(c, W[t], t, w)
         PROVE  mem[copy.part] = copy.value \/ (t >= s + 1 /\ copy \in g[t - (s + 1) + 1])
    <2>1. t \in s .. s + n - 1
      BY <1>6, <1>8, <1>m, <1>d
    <2>2. mem[copy.part] = copy.value \/ (t >= s /\ copy \in f[t - s + 1])
      BY <1>3, <1>10, <2>1
    <2>3. CASE t = s
      <3>1. 1 \in 1 .. n - keep
        BY <1>6, <1>m, <1>d
      <3>2. f[1] = {}
        BY <3>1 DEF n
      <3>3. t - s + 1 = 1
        BY <1>8, <2>3
      <3> QED
        BY <2>2, <3>2, <3>3
    <2>4. CASE t # s
      <3>1. t - (s + 1) + 1 \in 1 .. keep /\ n = keep + 1 /\ t >= s + 1
        BY <1>6, <1>8, <1>m, <1>d, <2>4
      <3>2. n - keep + (t - (s + 1) + 1) = t - s + 1
        BY <1>6, <1>8, <3>1
      <3>3. g[t - (s + 1) + 1] = f[t - s + 1]
        <4> DEFINE i == t - (s + 1) + 1
        <4>1. i \in 1 .. keep /\ n - keep + i = t - s + 1
          BY <3>1, <3>2
        <4> HIDE DEF i
        <4>2. g[i] = f[n - keep + i]
          BY <1>7, <4>1
        <4> QED
          BY <4>1, <4>2 DEF i
      <3> QED
        BY <2>2, <3>1, <3>3
    <2> QED
      BY <2>3, <2>4
  <1>11. Landed(c, W, w, "filled", s, g, mem)
    BY <1>1, <1>7, <1>10 DEF Landed, N
  <1> QED
    BY <1>9, <1>11 DEF WarpHolds, Newest, g, n

\* Decoding a stage and passing its barrier leave the groups in flight alone.
LEMMA DecodeHolds ==
    ASSUME NEW c, NEW W, NEW w, NEW s, NEW f, NEW mem,
           NEW p \in {"filled", "read", "drained"}, NEW q \in {"filled", "read", "drained"},
           WarpHolds(c, W, w, p, s, f, mem)
    PROVE  WarpHolds(c, W, w, q, s, f, mem)
  BY DEF WarpHolds, InOrder, Landed, Oldest

\* Behind the second barrier the next stage is the one in use.
LEMMA NextStageHolds ==
    ASSUME NEW c, Layout(c.kernel), Steps(c) \in Nat, NEW W, NEW w, NEW s \in Nat, s + 1 < Steps(c), NEW f, NEW mem,
           WarpHolds(c, W, w, "drained", s, f, mem)
    PROVE  WarpHolds(c, W, w, "issue", s + 1, f, mem)
  <1>1. /\ c.kernel.depth \in {2, 3} /\ c.kernel.nst \in {1, 2} /\ Len(f) \in Nat
        /\ Oldest("drained", s) = s + 1 /\ Oldest("issue", s + 1) = s + 1
    BY DEF Layout, InOrder, WarpHolds, Oldest
  <1>2. InOrder(c, W, w, "issue", s + 1, f)
    BY <1>1 DEF InOrder, WarpHolds
  <1>3. \A t \in s .. s + 1 + Len(f) - 1 : t < Steps(c) =>
           \A copy \in Filling(c, W[t], t, w) :
               mem[copy.part] = copy.value \/ (t >= s + 1 /\ copy \in f[t - (s + 1) + 1])
    BY <1>1 DEF Landed, WarpHolds
  <1>4. Landed(c, W, w, "issue", s + 1, f, mem)
    <2>1. \A t \in s + 1 .. s + 1 + Len(f) - 1 : t \in s .. s + 1 + Len(f) - 1
      BY <1>1
    <2>2. \A t \in s + 1 .. s + 1 + Len(f) - 1 : t < Steps(c) =>
             \A copy \in Filling(c, W[t], t, w) :
                 mem[copy.part] = copy.value \/ (t >= s + 1 /\ copy \in f[t - (s + 1) + 1])
      BY <1>3, <2>1
    <2> QED
      BY <1>1, <2>2 DEF Landed
  <1>5. KeptActs(c, w, s + 1, mem)
    <2> SUFFICES ASSUME c.kernel.acts # None, HalfOf(c, s + 1) # 0
                 PROVE  mem[<<"a", ((s + 1) \div c.kernel.nst) % 2, w>>] = Activations(c, KBlock(c, s + 1))
      BY DEF KeptActs
    <2>1. c.kernel.nst = 2 /\ s % 2 = 0 /\ (s + 1) \div 2 = s \div 2
      BY <1>1 DEF HalfOf
    <2>2. KBlock(c, s + 1) = KBlock(c, s) /\ HalfOf(c, s) = 0
      BY <2>1 DEF KBlock, HalfOf
    <2> DEFINE copy == [part |-> <<"a", (s \div c.kernel.nst) % 2, w>>, value |-> Activations(c, KBlock(c, s))]
    <2>3. copy \in Filling(c, W[s], s, w)
      BY <2>2 DEF Filling
    <2>4. s \in s .. s + 1 + Len(f) - 1 /\ s < Steps(c) /\ ~(s >= s + 1)
      BY <1>1
    <2>5. mem[copy.part] = copy.value
      BY <1>3, <2>3, <2>4
    <2> QED
      BY <2>1, <2>2, <2>5
  <1> QED
    BY <1>2, <1>4, <1>5 DEF WarpHolds

\* What the other warp copies is not this warp's.
LEMMA ElsewhereHolds ==
    ASSUME NEW c, Layout(c.kernel), Steps(c) \in Nat, NEW W, NEW w \in Warp, NEW p, NEW s \in Nat, s < Steps(c),
           NEW f, NEW mem, WarpHolds(c, W, w, p, s, f, mem),
           NEW new, \A q \in Parts(c.kernel) : q[3] = w => new[q] = mem[q]
    PROVE  WarpHolds(c, W, w, p, s, f, new)
  <1>1. /\ c.kernel.depth \in {2, 3} /\ Len(f) \in Nat /\ Oldest(p, s) \in Nat
    BY FlightRoom DEF WarpHolds
  <1>2. c.kernel.nst \in {1, 2}
    BY DEF Layout
  <1>3. ASSUME NEW t \in s .. Oldest(p, s) + Len(f) - 1, t < Steps(c), NEW copy \in Filling(c, W[t], t, w)
        PROVE  new[copy.part] = copy.value \/ (t >= Oldest(p, s) /\ copy \in f[t - Oldest(p, s) + 1])
    <2>1. t \in Nat
      BY <1>1
    <2>2. copy.part \in Parts(c.kernel) /\ PartOfStage(c, W[t], t, w, copy)
      BY <2>1, FillingParts
    <2>3. copy.part[3] = w
      BY <2>2 DEF PartOfStage
    <2>4. new[copy.part] = mem[copy.part]
      BY <2>2, <2>3
    <2>5. mem[copy.part] = copy.value \/ (t >= Oldest(p, s) /\ copy \in f[t - Oldest(p, s) + 1])
      BY <1>3 DEF WarpHolds, Landed
    <2> QED
      BY <2>4, <2>5
  <1>4. Landed(c, W, w, p, s, f, new)
    BY <1>3 DEF Landed
  <1>5. KeptActs(c, w, s, new)
    <2> SUFFICES ASSUME c.kernel.acts # None, HalfOf(c, s) # 0
                 PROVE  new[<<"a", (s \div c.kernel.nst) % 2, w>>] = Activations(c, KBlock(c, s))
      BY DEF KeptActs
    <2> DEFINE q == <<"a", (s \div c.kernel.nst) % 2, w>>
    <2>1. (s \div c.kernel.nst) % 2 \in 0 .. 1
      BY <1>2
    <2>2. q \in Parts(c.kernel) /\ q[3] = w
      BY <2>1 DEF Parts
    <2>3. mem[q] = Activations(c, KBlock(c, s))
      BY DEF WarpHolds, KeptActs
    <2> QED
      BY <2>2, <2>3
  <1>6. KeptTable(c, w, new)
    <2> SUFFICES ASSUME c.kernel.tab # None
                 PROVE  new[<<"t", 0, w>>] = Table
      BY DEF KeptTable
    <2>1. <<"t", 0, w>> \in Parts(c.kernel) /\ <<"t", 0, w>>[3] = w
      BY DEF Parts
    <2> QED
      BY <2>1 DEF WarpHolds, KeptTable
  <1> QED
    BY <1>4, <1>5, <1>6 DEF WarpHolds

\* A copy that lands does not touch another stage in flight, nor the k-block in use.
LEMMA LandHolds ==
    ASSUME NEW c, Layout(c.kernel), Steps(c) \in Nat, NEW W, NEW w \in Warp, NEW p, NEW s \in Nat, s < Steps(c),
           NEW f, NEW mem, DOMAIN mem = Parts(c.kernel), WarpHolds(c, W, w, p, s, f, mem),
           NEW i \in 1 .. Len(f), NEW copy \in f[i],
           NEW new, new = Write(mem, c.kernel, copy.part, copy.value), NEW g, g = [f EXCEPT ![i] = @ \ {copy}]
    PROVE  /\ WarpHolds(c, W, w, p, s, g, new) /\ DOMAIN new = Parts(c.kernel)
           /\ \A q \in Parts(c.kernel) : q[3] # w => new[q] = mem[q]
  <1> DEFINE D == c.kernel.depth
             o == Oldest(p, s)
             u == o + i - 1
  <1>1. /\ D \in {2, 3} /\ Len(f) \in Nat /\ o \in {s, s + 1} /\ o \in Nat /\ o + Len(f) - 1 <= s + D - 1
    BY FlightRoom DEF WarpHolds
  <1>2. c.kernel.nst \in {1, 2} /\ (D = 3 => c.kernel.acts = None)
    BY DEF Layout
  <1>3. u < Steps(c) /\ copy \in Filling(c, W[u], u, w)
    BY DEF WarpHolds, InOrder
  <1> HIDE DEF o
  <1>4. u \in Nat /\ u \in s .. s + D - 1
    <2> DEFINE n == Len(f)
    <2>1. n \in Nat /\ i \in 1 .. n /\ o + n - 1 <= s + D - 1 /\ D \in {2, 3} /\ o \in {s, s + 1} /\ o \in Nat
      BY <1>1
    <2> HIDE DEF n, D
    <2> QED
      BY <2>1
  <1>5. copy.part \in Parts(c.kernel) /\ copy.part # <<"t", 0, w>> /\ PartOfStage(c, W[u], u, w, copy)
    BY <1>3, <1>4, FillingParts
  <1>6. copy.part[3] = w
    BY <1>5 DEF PartOfStage
  <1>7. DOMAIN new = Parts(c.kernel) /\ new[copy.part] = copy.value /\ \A q \in Parts(c.kernel) \ {copy.part} : new[q] = mem[q]
    BY <1>5, WriteAlone
  <1>8. PICK S : f \in Seq(S)
    BY DEF WarpHolds, InOrder
  <1>9. /\ g \in Seq(S \cup {f[i] \ {copy}}) /\ Len(g) = Len(f)
        /\ \A j \in 1 .. Len(f) : g[j] = IF j = i THEN f[i] \ {copy} ELSE f[j]
    BY <1>8
  <1>10. InOrder(c, W, w, p, s, g)
    <2>1. \A j \in 1 .. Len(f) : g[j] \subseteq f[j]
      BY <1>9
    <2>2. \E T : g \in Seq(T)
      BY <1>9
    <2> QED
      BY <1>9, <2>1, <2>2 DEF WarpHolds, InOrder
  <1>11. ASSUME NEW t \in s .. o + Len(g) - 1, t < Steps(c), NEW other \in Filling(c, W[t], t, w)
         PROVE  new[other.part] = other.value \/ (t >= o /\ other \in g[t - o + 1])
    <2>1. t \in Nat /\ t \in s .. s + D - 1
      BY <1>1, <1>9
    <2>2. other.part \in Parts(c.kernel)
      BY <2>1, FillingParts
    <2>3. CASE other.part = copy.part
      <3>1. t = u /\ (W[t] = W[u] => other = copy)
        BY <1>3, <1>4, <2>1, <2>3, StagesApart
      <3> QED
        BY <1>7, <3>1
    <2>4. CASE other.part # copy.part
      <3>1. new[other.part] = mem[other.part]
        BY <1>7, <2>2, <2>4
      <3>2. mem[other.part] = other.value \/ (t >= o /\ other \in f[t - o + 1])
        BY <1>9, <1>11 DEF WarpHolds, Landed, o
      <3>3. ASSUME t >= o, other \in f[t - o + 1]
            PROVE  other \in g[t - o + 1]
        <4> DEFINE j == t - o + 1
        <4>1. j \in 1 .. Len(f)
          BY <1>1, <1>9, <2>1, <3>3
        <4>2. other # copy
          BY <2>4
        <4> HIDE DEF j
        <4>3. g[j] = IF j = i THEN f[i] \ {copy} ELSE f[j]
          BY <1>9, <4>1
        <4> QED
          BY <3>3, <4>2, <4>3 DEF j
      <3> QED
        BY <3>1, <3>2, <3>3
    <2> QED
      BY <2>3, <2>4
  <1>12. Landed(c, W, w, p, s, g, new)
    BY <1>11 DEF Landed, o
  <1>13. KeptActs(c, w, s, new)
    <2> SUFFICES ASSUME c.kernel.acts # None, HalfOf(c, s) # 0
                 PROVE  new[<<"a", (s \div c.kernel.nst) % 2, w>>] = Activations(c, KBlock(c, s))
      BY DEF KeptActs
    <2> DEFINE q == <<"a", (s \div c.kernel.nst) % 2, w>>
    <2>1. (s \div c.kernel.nst) % 2 \in 0 .. 1
      BY <1>2
    <2>2. q \in Parts(c.kernel)
      BY <2>1 DEF Parts
    <2>3. mem[q] = Activations(c, KBlock(c, s))
      BY DEF WarpHolds, KeptActs
    <2>4. c.kernel.nst = 2 /\ D = 2 /\ s % 2 = 1
      BY <1>1, <1>2 DEF HalfOf
    <2>5. copy.part # q
      <3> SUFFICES ASSUME copy.part = q
                   PROVE  FALSE
        OBVIOUS
      <3>1. HalfOf(c, u) = 0 /\ (u \div 2) % 2 = (s \div 2) % 2
        BY <1>5, <2>4 DEF PartOfStage
      <3> HIDE DEF u
      <3>2. u % 2 = 0
        BY <2>4, <3>1 DEF HalfOf
      <3>3. u \in {s, s + 1}
        BY <1>4, <2>4
      <3>4. u = s + 1
        BY <2>4, <3>2, <3>3
      <3>5. u \div 2 = (s \div 2) + 1 /\ s \div 2 \in Nat
        BY <2>4, <3>4
      <3> QED
        <4> DEFINE x == s \div 2
        <4>1. x \in Nat /\ (x + 1) % 2 = x % 2
          BY <3>1, <3>5
        <4> HIDE DEF x
        <4> QED
          BY <4>1
    <2> QED
      BY <1>7, <2>2, <2>3, <2>5
  <1>14. KeptTable(c, w, new)
    <2> SUFFICES ASSUME c.kernel.tab # None
                 PROVE  new[<<"t", 0, w>>] = Table
      BY DEF KeptTable
    <2>1. <<"t", 0, w>> \in Parts(c.kernel)
      BY DEF Parts
    <2> QED
      BY <1>5, <1>7, <2>1 DEF WarpHolds, KeptTable
  <1>15. \A q \in Parts(c.kernel) : q[3] # w => new[q] = mem[q]
    BY <1>6, <1>7
  <1> QED
    BY <1>7, <1>10, <1>12, <1>13, <1>14, <1>15 DEF WarpHolds

\* After its prologue a warp's first stages are on their way, behind the table.
LEMMA PrologueHolds ==
    ASSUME NEW c, Layout(c.kernel), Steps(c) \in Nat \ {0}, NTiles(c) \in Nat, NEW W, NEW w \in Warp,
           NEW mem, DOMAIN mem = Parts(c.kernel),
           NEW new, new = IF c.kernel.tab = None THEN mem ELSE Write(mem, c.kernel, <<"t", 0, w>>, Table),
           NEW g, g = IF c.kernel.depth = 3 THEN <<Filling(c, W[0], 0, w), IF NTiles(c) > 1 THEN Filling(c, W[1], 1, w) ELSE {}>>
                      ELSE <<Filling(c, W[0], 0, w)>>
    PROVE  /\ WarpHolds(c, W, w, "issue", 0, g, new) /\ DOMAIN new = Parts(c.kernel)
           /\ \A q \in Parts(c.kernel) : q[3] # w => new[q] = mem[q]
  <1> DEFINE D == c.kernel.depth
             N == Steps(c)
             first == Filling(c, W[0], 0, w)
             second == IF NTiles(c) > 1 THEN Filling(c, W[1], 1, w) ELSE {}
  <1>1. D \in {2, 3} /\ c.kernel.nst \in {1, 2} /\ (D = 3 => c.kernel.nst = 1) /\ Oldest("issue", 0) = 0
    BY DEF Layout, Oldest
  <1>2. KeptActs(c, w, 0, new)
    BY <1>1 DEF KeptActs, HalfOf
  <1>3. /\ DOMAIN new = Parts(c.kernel) /\ KeptTable(c, w, new)
        /\ \A q \in Parts(c.kernel) : q[3] # w => new[q] = mem[q]
    <2>1. CASE c.kernel.tab = None
      BY <2>1 DEF KeptTable
    <2>2. CASE c.kernel.tab # None
      <3>1. <<"t", 0, w>> \in Parts(c.kernel) /\ <<"t", 0, w>>[3] = w
        BY <2>2 DEF Parts
      <3>2. DOMAIN new = Parts(c.kernel) /\ new[<<"t", 0, w>>] = Table /\ \A q \in Parts(c.kernel) \ {<<"t", 0, w>>} : new[q] = mem[q]
        BY <2>2, <3>1, WriteAlone
      <3> QED
        BY <3>1, <3>2 DEF KeptTable
    <2> QED
      BY <2>1, <2>2
  <1>4. InOrder(c, W, w, "issue", 0, g) /\ Landed(c, W, w, "issue", 0, g, new)
    <2>1. CASE D = 2
      <3> HIDE DEF first
      <3>1. g = <<first>> /\ Len(g) = 1 /\ g[1] = first /\ g \in Seq({first})
        BY <2>1 DEF first
      <3> HIDE DEF N
      <3>n. N \in Nat \ {0}
        BY DEF N
      <3>4. ASSUME NEW i \in 1 .. 1, NEW copy \in g[i]
            PROVE  0 + i - 1 < N /\ copy \in Filling(c, W[0 + i - 1], 0 + i - 1, w)
        BY <3>1, <3>n, <3>4 DEF first
      <3>5. \E T : g \in Seq(T)
        BY <3>1
      <3>6. IF N - 0 >= 1 THEN Len(g) = 1 ELSE Len(g) \in N - 0 .. 1
        BY <3>1, <3>n
      <3>2. InOrder(c, W, w, "issue", 0, g)
        BY <1>1, <2>1, <3>1, <3>4, <3>5, <3>6 DEF InOrder, N
      <3>3. \A t \in 0 .. 0 + 1 - 1 : t = 0
        OBVIOUS
      <3> QED
        BY <1>1, <3>1, <3>2, <3>3 DEF Landed, first
    <2>2. CASE D = 3
      <3>1. N = NTiles(c)
        BY <1>1, <2>2 DEF Steps
      <3> HIDE DEF first, second, N
      <3>2. g = <<first, second>> /\ Len(g) = 2 /\ g[1] = first /\ g[2] = second /\ g \in Seq({first, second})
        BY <2>2 DEF first, second
      <3>3. N \in Nat \ {0}
        BY DEF N
      <3>4. ASSUME NEW i \in 1 .. 2, NEW copy \in g[i]
            PROVE  0 + i - 1 < N /\ copy \in Filling(c, W[0 + i - 1], 0 + i - 1, w)
        <4>1. CASE i = 1
          BY <3>2, <3>3, <3>4, <4>1 DEF first
        <4>2. CASE i = 2
          BY <3>1, <3>2, <3>3, <3>4, <4>2 DEF second
        <4> QED
          BY <4>1, <4>2
      <3>8. \E T : g \in Seq(T)
        BY <3>2
      <3>9. IF N - 0 >= 2 THEN Len(g) = 2 ELSE Len(g) \in N - 0 .. 2
        BY <3>2, <3>3
      <3>5. InOrder(c, W, w, "issue", 0, g)
        BY <1>1, <2>2, <3>2, <3>4, <3>8, <3>9 DEF InOrder, N
      <3>6. ASSUME NEW t \in 0 .. 0 + 2 - 1, t < N, NEW copy \in Filling(c, W[t], t, w)
            PROVE  t >= 0 /\ copy \in g[t - 0 + 1]
        <4>1. CASE t = 0
          BY <3>2, <3>6, <4>1 DEF first
        <4>2. CASE t = 1
          BY <3>1, <3>2, <3>6, <4>2 DEF second
        <4> QED
          BY <4>1, <4>2
      <3>7. Landed(c, W, w, "issue", 0, g, new)
        BY <1>1, <3>2, <3>6 DEF Landed, N
      <3> QED
        BY <3>5, <3>7
    <2> QED
      BY <1>1, <2>1, <2>2
  <1> QED
    BY <1>2, <1>3, <1>4 DEF WarpHolds

\* The weights of the running CTA's stages.
Loading == [t \in 0 .. Steps(C) - 1 |-> Weights(C, t)]

Decoding == {"issue", "wait", "filled", "read", "drained"}

\* The warps are within one stage of each other, each with its copies on their way.
Together(c, W, p, s, f, mem) ==
    /\ DOMAIN mem = Parts(c.kernel)
    /\ \A v, w \in Warp :
          /\ s[v] = s[w] /\ (p[v] \in {"read", "drained"} => p[w] \in {"read", "drained"})
          /\ p[v] = "exit" => Steps(c) = 0 \/ p[w] = "exit"
    /\ \A w \in Warp : p[w] = "prologue" => s[w] = 0 /\ f[w] = <<>>
    /\ \A w \in Warp : p[w] \in Decoding => s[w] < Steps(c) /\ WarpHolds(c, W, w, p[w], s[w], f[w], mem)

\* In a k-loop every stage in flight or in use is where it belongs.
StagesInv == InLoop => Together(C, Loading, pc, step, flight, smem)

\* The running CTA of a k-loop.
LEMMA RunningCta ==
    ASSUME StreamInv, InLoop
    PROVE  /\ CallInv /\ OnCall(C) /\ Layout(C.kernel)
           /\ NTiles(C) \in Nat /\ Steps(C) \in Nat
  <1>1. Running /\ CallInv
    BY DEF InLoop, Ctas, StreamInv
  <1>2. OnCall(C)
    BY <1>1, LaunchShape DEF InLoop, C
  <1>3. Layout(C.kernel) /\ C.kb0 \in Nat /\ C.kb1 \in 0 .. call.nb /\ call.nb \in Nat \ {0}
    BY <1>1, <1>2, CtaKernel DEF OnCall
  <1>4. NTiles(C) \in Nat
    BY <1>3 DEF NTiles
  <1>5. Steps(C) \in Nat
    BY <1>3, <1>4 DEF Steps, Layout
  <1> QED
    BY <1>1, <1>2, <1>3, <1>4, <1>5

\* A warp's copies are those of its stage.
LEMMA CopiesAre ==
    ASSUME NEW t \in 0 .. Steps(C) - 1, NEW w
    PROVE  Copies(C, t, w) = Filling(C, Loading[t], t, w)
  <1>1. Loading[t] = Weights(C, t)
    BY DEF Loading
  <1> QED
    BY <1>1 DEF Copies, Filling

\* Within a k-loop the CTA and its stages stay what they are.
LEMMA SameCta ==
    ASSUME UNCHANGED <<call, stream, cta>>
    PROVE  InLoop' = InLoop /\ C' = C /\ Loading' = Loading
  <1>1. Ctas' = Ctas
    BY SameLaunch
  <1>2. InLoop' = InLoop /\ C' = C
    BY <1>1 DEF InLoop, C
  <1>3. Loading' = Loading
    BY <1>2 DEF Loading, Weights, ChunkAt
  <1> QED
    BY <1>2, <1>3

\* What a step of the k-loop has to show.
LEMMA WithinStages ==
    ASSUME UNCHANGED <<call, stream, cta>>, Together(C, Loading, pc', step', flight', smem')
    PROVE  StagesInv'
  <1>1. C' = C /\ Loading' = Loading
    BY SameCta
  <1> QED
    BY <1>1 DEF StagesInv

\* The prologue: the table is written, the first stages are on their way.
LEMMA PrologueStages ==
    ASSUME StreamInv, LoopInv, StagesInv, NEW w \in Warp, Prologue(w)
    PROVE  StagesInv'
  <1> DEFINE new == IF C.kernel.tab = None THEN smem ELSE Write(smem, C.kernel, <<"t", 0, w>>, Table)
             g == IF C.kernel.depth = 3 THEN <<Copies(C, 0, w), IF NTiles(C) > 1 THEN Copies(C, 1, w) ELSE {}>>
                  ELSE <<Copies(C, 0, w)>>
             N == Steps(C)
  <1>1. /\ InLoop /\ pc[w] = "prologue" /\ smem' = new /\ flight' = [flight EXCEPT ![w] = g]
        /\ pc' = [pc EXCEPT ![w] = IF N = 0 THEN "exit" ELSE "issue"]
        /\ UNCHANGED <<call, stream, cta, step>>
    BY DEF Prologue
  <1>2. Layout(C.kernel) /\ NTiles(C) \in Nat /\ N \in Nat
    BY <1>1, RunningCta
  <1>3. pc \in [Warp -> ProgramPoint] /\ step \in [Warp -> Nat] /\ DOMAIN flight = Warp
    BY DEF LoopInv
  <1>4. /\ pc'[w] = (IF N = 0 THEN "exit" ELSE "issue") /\ flight'[w] = g /\ step' = step
        /\ \A v \in Warp \ {w} : pc'[v] = pc[v] /\ flight'[v] = flight[v]
    BY <1>1, <1>3
  <1>5. Together(C, Loading, pc, step, flight, smem)
    BY <1>1 DEF StagesInv
  <1> HIDE DEF new, g, N
  <1>6. DOMAIN smem = Parts(C.kernel)
    BY <1>5 DEF Together
  <1>7. DOMAIN new = Parts(C.kernel)
    BY <1>6 DEF new, Write
  <1>8. step[w] = 0
    BY <1>1, <1>5 DEF Together
  <1>9. \A v \in Warp : step[v] = 0 /\ pc[v] \notin {"read", "drained"} /\ (pc[v] = "exit" => N = 0)
    BY <1>1, <1>5, <1>8 DEF Together, N
  <1>10. ASSUME NEW v \in Warp, pc'[v] \in Decoding
         PROVE  step[v] < N /\ WarpHolds(C, Loading, v, pc'[v], step[v], flight'[v], new)
    <2>1. N # 0
      <3>1. CASE v = w
        BY <1>4, <1>10, <3>1 DEF Decoding
      <3>2. CASE v # w
        <4>1. step[v] < N
          BY <1>4, <1>5, <1>10, <3>2 DEF Together, N
        <4> QED
          BY <1>2, <1>9, <4>1
      <3> QED
        BY <3>1, <3>2
    <2>2. Copies(C, 0, w) = Filling(C, Loading[0], 0, w) /\ (N > 1 => Copies(C, 1, w) = Filling(C, Loading[1], 1, w))
      BY <1>2, <2>1, CopiesAre DEF N
    <2>3. g = IF C.kernel.depth = 3 THEN <<Filling(C, Loading[0], 0, w), IF NTiles(C) > 1 THEN Filling(C, Loading[1], 1, w) ELSE {}>>
              ELSE <<Filling(C, Loading[0], 0, w)>>
      <3>1. CASE C.kernel.depth = 3
        <4>1. N = NTiles(C)
          BY <1>2, <3>1 DEF Layout, Steps, N
        <4> QED
          BY <2>2, <3>1, <4>1 DEF g
      <3>2. CASE C.kernel.depth # 3
        BY <2>2, <3>2 DEF g
      <3> QED
        BY <3>1, <3>2
    <2>4. N \in Nat \ {0}
      BY <1>2, <2>1
    <2>5. WarpHolds(C, Loading, w, "issue", 0, g, new) /\ \A q \in Parts(C.kernel) : q[3] # w => new[q] = smem[q]
      BY <1>2, <1>6, <2>3, <2>4, PrologueHolds DEF new, N
    <2>6. CASE v = w
      BY <1>2, <1>4, <1>9, <2>1, <2>5, <2>6
    <2>7. CASE v # w
      <3>1. pc'[v] = pc[v] /\ flight'[v] = flight[v]
        BY <1>4, <2>7
      <3>2. step[v] < N /\ WarpHolds(C, Loading, v, pc[v], step[v], flight[v], smem)
        BY <1>5, <1>10, <3>1 DEF Together, N
      <3>3. \A q \in Parts(C.kernel) : q[3] = v => new[q] = smem[q]
        BY <2>5, <2>7
      <3>4. WarpHolds(C, Loading, v, pc[v], step[v], flight[v], new)
        BY <1>2, <1>3, <3>2, <3>3, ElsewhereHolds DEF N
      <3> QED
        BY <3>1, <3>2, <3>4
    <2> QED
      BY <2>6, <2>7
  <1>11. ASSUME NEW v \in Warp
         PROVE  /\ pc'[v] \notin {"read", "drained"} /\ step'[v] = 0 /\ (pc'[v] = "exit" => N = 0)
                /\ pc'[v] = "prologue" => flight'[v] = <<>>
    <2>1. CASE v = w
      BY <1>4, <1>9, <2>1
    <2>2. CASE v # w
      BY <1>4, <1>5, <1>9, <2>2 DEF Together
    <2> QED
      BY <2>1, <2>2
  <1>12. Together(C, Loading, pc', step', flight', new)
    BY <1>4, <1>7, <1>10, <1>11 DEF Together, N
  <1> QED
    BY <1>1, <1>12, WithinStages

\* The issue of a stage.
LEMMA IssueStages ==
    ASSUME StreamInv, LoopInv, StagesInv, NEW w \in Warp, Issue(w)
    PROVE  StagesInv'
  <1> DEFINE ahead == step[w] + C.kernel.depth - 1
             g == IF ahead < Steps(C) THEN Append(flight[w], Copies(C, ahead, w)) ELSE flight[w]
  <1>1. /\ InLoop /\ pc[w] = "issue" /\ pc' = [pc EXCEPT ![w] = "wait"]
        /\ flight' = IF ahead < Steps(C) THEN [flight EXCEPT ![w] = Append(@, Copies(C, ahead, w))] ELSE flight
        /\ UNCHANGED <<call, stream, cta, step, smem>>
    BY DEF Issue
  <1>2. Layout(C.kernel) /\ Steps(C) \in Nat
    BY <1>1, RunningCta
  <1>3. pc \in [Warp -> ProgramPoint] /\ step \in [Warp -> Nat] /\ DOMAIN flight = Warp
    BY DEF LoopInv
  <1>4. flight'[w] = g /\ \A v \in Warp \ {w} : flight'[v] = flight[v]
    BY <1>1, <1>3
  <1>5. pc'[w] = "wait" /\ \A v \in Warp \ {w} : pc'[v] = pc[v]
    BY <1>1, <1>3
  <1>6. Together(C, Loading, pc, step, flight, smem)
    BY <1>1 DEF StagesInv
  <1>7. step[w] < Steps(C) /\ WarpHolds(C, Loading, w, "issue", step[w], flight[w], smem)
    BY <1>1, <1>6 DEF Together, Decoding
  <1>8. g = IF ahead < Steps(C) THEN Append(flight[w], Filling(C, Loading[ahead], ahead, w)) ELSE flight[w]
    <2>1. ahead < Steps(C) => ahead \in 0 .. Steps(C) - 1
      <3> DEFINE n == step[w]
                 D == C.kernel.depth
                 N == Steps(C)
      <3>1. n \in Nat /\ D \in {2, 3} /\ N \in Nat
        BY <1>2, <1>3 DEF Layout
      <3> HIDE DEF n, D, N
      <3>2. n + D - 1 < N => n + D - 1 \in 0 .. N - 1
        BY <3>1
      <3> QED
        BY <3>2 DEF n, D, N
    <2> QED
      BY <2>1, CopiesAre
  <1> HIDE DEF g
  <1>9. WarpHolds(C, Loading, w, "wait", step[w], g, smem)
    BY <1>2, <1>3, <1>7, <1>8, IssueHolds
  <1>10. Together(C, Loading, pc', step, flight', smem)
    BY ZenonT(20), <1>1, <1>4, <1>5, <1>6, <1>7, <1>9 DEF Together, Decoding
  <1> QED
    BY <1>1, <1>10, WithinStages

\* The wait for a stage.
LEMMA WaitStages ==
    ASSUME StreamInv, LoopInv, StagesInv, NEW w \in Warp, Wait(w)
    PROVE  StagesInv'
  <1> DEFINE keep == Min({Outstanding(C, step[w]), Len(flight[w])})
             g == SubSeq(flight[w], Len(flight[w]) - keep + 1, Len(flight[w]))
  <1>1. /\ InLoop /\ pc[w] = "wait" /\ pc' = [pc EXCEPT ![w] = "filled"]
        /\ \A i \in 1 .. Len(flight[w]) - keep : flight[w][i] = {}
        /\ flight' = [flight EXCEPT ![w] = g]
        /\ UNCHANGED <<call, stream, cta, step, smem>>
    BY DEF Wait
  <1>2. Layout(C.kernel) /\ Steps(C) \in Nat
    BY <1>1, RunningCta
  <1>3. pc \in [Warp -> ProgramPoint] /\ step \in [Warp -> Nat] /\ DOMAIN flight = Warp
    BY DEF LoopInv
  <1>4. flight'[w] = g /\ \A v \in Warp \ {w} : flight'[v] = flight[v]
    BY <1>1, <1>3
  <1>5. pc'[w] = "filled" /\ \A v \in Warp \ {w} : pc'[v] = pc[v]
    BY <1>1, <1>3
  <1>6. Together(C, Loading, pc, step, flight, smem)
    BY <1>1 DEF StagesInv
  <1>7. step[w] < Steps(C) /\ WarpHolds(C, Loading, w, "wait", step[w], flight[w], smem)
    BY <1>1, <1>6 DEF Together, Decoding
  <1>8. WarpHolds(C, Loading, w, "filled", step[w], g, smem)
    BY <1>1, <1>2, <1>3, <1>7, WaitHolds
  <1> HIDE DEF g
  <1>9. Together(C, Loading, pc', step, flight', smem)
    BY <1>1, <1>4, <1>5, <1>6, <1>7, <1>8 DEF Together, Decoding
  <1> QED
    BY <1>1, <1>9, WithinStages

\* The decoding of a stage.
LEMMA ReadStages ==
    ASSUME StreamInv, LoopInv, StagesInv, NEW w \in Warp, Read(w)
    PROVE  StagesInv'
  <1>1. /\ InLoop /\ pc[w] = "read" /\ pc' = [pc EXCEPT ![w] = "drained"]
        /\ UNCHANGED <<call, stream, cta, step, flight, smem>>
    BY DEF Read
  <1>2. pc \in [Warp -> ProgramPoint]
    BY DEF LoopInv
  <1>3. pc'[w] = "drained" /\ \A v \in Warp \ {w} : pc'[v] = pc[v]
    BY <1>1, <1>2
  <1>4. Together(C, Loading, pc, step, flight, smem)
    BY <1>1 DEF StagesInv
  <1>5. step[w] < Steps(C) /\ WarpHolds(C, Loading, w, "read", step[w], flight[w], smem)
    BY <1>1, <1>4 DEF Together, Decoding
  <1>6. WarpHolds(C, Loading, w, "drained", step[w], flight[w], smem)
    BY <1>5, DecodeHolds
  <1>7. Together(C, Loading, pc', step, flight, smem)
    BY <1>1, <1>3, <1>4, <1>5, <1>6 DEF Together, Decoding
  <1> QED
    BY <1>1, <1>7, WithinStages

\* The landing of a copy.
LEMMA LandStages ==
    ASSUME StreamInv, LoopInv, StagesInv, LandSome
    PROVE  StagesInv'
  <1>a. PICK w \in Warp : \E i \in DOMAIN flight[w] : \E copy \in flight[w][i] : Land(w, i, copy)
    BY DEF LandSome
  <1>b. PICK i \in DOMAIN flight[w] : \E copy \in flight[w][i] : Land(w, i, copy)
    BY <1>a
  <1>c. PICK copy \in flight[w][i] : Land(w, i, copy)
    BY <1>b
  <1> DEFINE g == [flight[w] EXCEPT ![i] = @ \ {copy}]
             new == Write(smem, C.kernel, copy.part, copy.value)
  <1>1. /\ InLoop /\ smem' = new /\ flight' = [flight EXCEPT ![w] = g]
        /\ UNCHANGED <<call, stream, cta, pc, step>>
    BY <1>c DEF Land
  <1>2. Layout(C.kernel) /\ Steps(C) \in Nat
    BY <1>1, RunningCta
  <1>3. pc \in [Warp -> ProgramPoint] /\ step \in [Warp -> Nat] /\ DOMAIN flight = Warp
    BY DEF LoopInv
  <1>4. flight'[w] = g /\ \A v \in Warp \ {w} : flight'[v] = flight[v]
    BY <1>1, <1>3
  <1>5. i \in 1 .. Len(flight[w])
    <2>1. PICK S : flight[w] \in Seq(S)
      BY DEF LoopInv, GroupsInFlight
    <2> QED
      BY <2>1
  <1>6. Together(C, Loading, pc, step, flight, smem)
    BY <1>1 DEF StagesInv
  <1>7. DOMAIN smem = Parts(C.kernel) /\ DOMAIN new = Parts(C.kernel)
    BY <1>6 DEF Together, Write
  <1>g. g = [flight[w] EXCEPT ![i] = @ \ {copy}] /\ new = Write(smem, C.kernel, copy.part, copy.value)
    OBVIOUS
  <1> HIDE DEF g, new
  <1>8. pc[w] # "prologue"
    <2>1. flight[w] # <<>>
      BY <1>5
    <2> QED
      BY <1>6, <2>1 DEF Together
  <1>9. ASSUME NEW v \in Warp, pc[v] \in Decoding
        PROVE  step[v] < Steps(C) /\ WarpHolds(C, Loading, v, pc[v], step[v], flight'[v], new)
    <2>1. step[v] < Steps(C) /\ WarpHolds(C, Loading, v, pc[v], step[v], flight[v], smem)
      BY <1>6, <1>9 DEF Together
    <2>2. pc[w] \in Decoding
      <3>1. pc[w] # "exit"
        <4>1. Steps(C) # 0 /\ pc[v] # "exit"
          BY <1>2, <1>3, <1>9, <2>1 DEF Decoding
        <4> QED
          BY <1>6, <4>1 DEF Together
      <3> QED
        BY <1>3, <1>8, <3>1 DEF ProgramPoint, Decoding
    <2>3. step[w] < Steps(C) /\ WarpHolds(C, Loading, w, pc[w], step[w], flight[w], smem)
      BY <1>6, <2>2 DEF Together
    <2>4. /\ WarpHolds(C, Loading, w, pc[w], step[w], g, new)
          /\ \A q \in Parts(C.kernel) : q[3] # w => new[q] = smem[q]
      <3> DEFINE n == step[w]
                 p == pc[w]
                 f == flight[w]
      <3>1. /\ n \in Nat /\ n < Steps(C) /\ i \in 1 .. Len(f) /\ copy \in f[i]
            /\ WarpHolds(C, Loading, w, p, n, f, smem) /\ g = [f EXCEPT ![i] = @ \ {copy}]
        <4>1. n \in Nat
          BY <1>3
        <4>2. n < Steps(C) /\ WarpHolds(C, Loading, w, p, n, f, smem)
          BY <2>3
        <4> QED
          BY <1>g, <1>5, <4>1, <4>2
      <3> HIDE DEF n, p, f
      <3>2. WarpHolds(C, Loading, w, p, n, g, new)
        BY SMTT(20), <1>g, <1>2, <1>7, <3>1, LandHolds
      <3>3. \A q \in Parts(C.kernel) : q[3] # w => new[q] = smem[q]
        BY SMTT(20), <1>g, <1>2, <1>7, <3>1, LandHolds
      <3> QED
        BY <3>2, <3>3 DEF n, p, f
    <2>5. CASE v = w
      BY <1>4, <2>1, <2>4, <2>5
    <2>6. CASE v # w
      <3>1. \A q \in Parts(C.kernel) : q[3] = v => new[q] = smem[q]
        BY <2>4, <2>6
      <3>2. WarpHolds(C, Loading, v, pc[v], step[v], flight[v], new)
        BY <1>2, <1>3, <2>1, <3>1, ElsewhereHolds
      <3> QED
        BY <1>4, <2>1, <2>6, <3>2
    <2> QED
      BY <2>5, <2>6
  <1>10. \A v \in Warp : pc[v] = "prologue" => flight'[v] = flight[v]
    BY <1>4, <1>8
  <1>11. Together(C, Loading, pc, step, flight', new)
    BY <1>6, <1>7, <1>9, <1>10 DEF Together
  <1> QED
    BY <1>1, <1>11, WithinStages

\* The barrier in front of the decoding.
LEMMA FilledStages ==
    ASSUME StreamInv, LoopInv, StagesInv, Barrier("filled", "read")
    PROVE  StagesInv'
  <1>1. /\ InLoop /\ \A w \in Warp : pc[w] = "filled"
        /\ pc' = [w \in Warp |-> "read"]
        /\ UNCHANGED <<call, stream, cta, step, flight, smem>>
    BY DEF Barrier
  <1>2. Together(C, Loading, pc, step, flight, smem)
    BY <1>1 DEF StagesInv
  <1>3. \A w \in Warp : step[w] < Steps(C) /\ WarpHolds(C, Loading, w, "filled", step[w], flight[w], smem)
    BY <1>1, <1>2 DEF Together, Decoding
  <1>4. \A w \in Warp : WarpHolds(C, Loading, w, "read", step[w], flight[w], smem)
    BY <1>3, DecodeHolds
  <1>5. Together(C, Loading, pc', step, flight, smem)
    BY <1>1, <1>2, <1>3, <1>4 DEF Together
  <1> QED
    BY <1>1, <1>5, WithinStages

\* The barrier behind it.
LEMMA DrainedStages ==
    ASSUME StreamInv, LoopInv, StagesInv, Barrier("drained", "issue")
    PROVE  StagesInv'
  <1> DEFINE N == Steps(C)
  <1>1. /\ InLoop /\ \A w \in Warp : pc[w] = "drained"
        /\ pc' = [w \in Warp |-> IF step[w] + 1 = N THEN "exit" ELSE "issue"]
        /\ step' = [w \in Warp |-> step[w] + 1]
        /\ UNCHANGED <<call, stream, cta, flight, smem>>
    BY DEF Barrier
  <1>2. Layout(C.kernel) /\ N \in Nat
    BY <1>1, RunningCta
  <1>3. step \in [Warp -> Nat]
    BY DEF LoopInv
  <1>4. Together(C, Loading, pc, step, flight, smem)
    BY <1>1 DEF StagesInv
  <1>5. DOMAIN smem = Parts(C.kernel) /\ \A v, w \in Warp : step[v] = step[w]
    BY <1>4 DEF Together
  <1>6. \A w \in Warp : step[w] < N /\ WarpHolds(C, Loading, w, "drained", step[w], flight[w], smem)
    BY <1>1, <1>4 DEF Together, Decoding
  <1> HIDE DEF N
  <1>7. ASSUME NEW w \in Warp, step[w] + 1 # N
        PROVE  step[w] + 1 < N /\ WarpHolds(C, Loading, w, "issue", step[w] + 1, flight[w], smem)
    <2>1. step[w] + 1 < N
      BY <1>2, <1>3, <1>6, <1>7
    <2> QED
      BY <1>2, <1>3, <1>6, <2>1, NextStageHolds DEF N
  <1>8. Together(C, Loading, pc', step', flight, smem)
    <2>1. \A v, w \in Warp : pc'[v] = pc'[w] /\ step'[v] = step'[w] /\ pc'[v] \in {"issue", "exit"}
      BY <1>1, <1>5
    <2>2. \A w \in Warp : pc'[w] \in Decoding => pc'[w] = "issue" /\ step[w] + 1 # N /\ step'[w] = step[w] + 1
      BY <1>1 DEF Decoding
    <2> QED
      BY <1>5, <1>7, <2>1, <2>2 DEF Together, N
  <1> QED
    BY <1>1, <1>8, WithinStages

\* A k-loop starts with its shared memory allocated and nothing on its way.
LEMMA FreshStages ==
    ASSUME pc' = EachWarp("prologue"), step' = EachWarp(0), flight' = EachWarp(<<>>), InLoop' => smem' = Fresh(C')
    PROVE  StagesInv'
  <1>1. \A w \in Warp : pc'[w] = "prologue" /\ step'[w] = 0 /\ flight'[w] = <<>>
    BY DEF EachWarp
  <1>2. ASSUME InLoop'
        PROVE  Together(C', Loading', pc', step', flight', smem')
    <2>1. DOMAIN smem' = Parts(C'.kernel)
      BY <1>2 DEF Fresh
    <2>2. \A w \in Warp : pc'[w] \notin Decoding
      BY <1>1 DEF Decoding
    <2> QED
      BY <1>1, <2>1, <2>2 DEF Together
  <1> QED
    BY <1>2 DEF StagesInv

\* The end of a k-loop.
LEMMA FinishStages ==
    ASSUME EpilogueInv, LoopInv, StagesInv, Finish
    PROVE  StagesInv'
  <1>1. /\ UNCHANGED <<call, stream>> /\ cta' = cta + 1
        /\ InLoop /\ IF cta < Len(Ctas) THEN StartLoop(Ctas[cta + 1]) ELSE UNCHANGED loopVars
    BY DEF Finish
  <1>2. Ctas' = Ctas
    BY <1>1, SameLaunch
  <1>3. CASE cta < Len(Ctas)
    <2>1. C' = Ctas[cta + 1]
      BY <1>1, <1>2 DEF C
    <2> QED
      BY <1>1, <1>3, <2>1, FreshStages DEF StartLoop
  <1>4. CASE ~(cta < Len(Ctas))
    <2>1. Len(Ctas) \in Nat /\ DOMAIN Ctas = 1 .. Len(Ctas)
      BY <1>1, LoopDepth, LaunchShape DEF EpilogueInv
    <2>2. ~InLoop'
      BY <1>1, <1>2, <1>4, <2>1 DEF InLoop
    <2> QED
      BY <2>2 DEF StagesInv
  <1> QED
    BY <1>3, <1>4

\* The end of a launch.
LEMMA EndLaunchStages ==
    ASSUME EpilogueInv, EpilogueInv', LoopInv, StagesInv, EndLaunch
    PROVE  StagesInv'
  <1>1. /\ InEpilogue /\ stream' = Tail(stream) /\ cta' = 1
        /\ IF Len(stream) > 1 THEN StartLoop(stream[2].ctas[1]) ELSE UNCHANGED loopVars
    BY DEF EndLaunch
  <1>2. stream \in Seq({Stream(call)[l] : l \in DOMAIN Stream(call)}) /\ stream # <<>>
    BY <1>1 DEF EpilogueInv, StreamInv, InEpilogue, Running
  <1>3. CASE Len(stream) > 1
    <2>1. InLoop' => C' = stream[2].ctas[1]
      <3>1. Tail(stream)[1] = stream[2]
        BY <1>2, <1>3
      <3> QED
        <4>1. InLoop' => Running'
          BY DEF InLoop, Ctas
        <4>2. Running' => Ctas' = stream[2].ctas
          BY <1>1, <3>1 DEF Ctas
        <4> QED
          BY <1>1, <4>1, <4>2 DEF C
    <2> QED
      BY <1>1, <1>3, <2>1, FreshStages DEF StartLoop
  <1>4. CASE ~(Len(stream) > 1)
    <2>1. stream' = <<>>
      BY <1>1, <1>2, <1>4
    <2>2. ~InLoop'
      BY <2>1 DEF InLoop, Ctas, Running
    <2> QED
      BY <2>2 DEF StagesInv
  <1> QED
    BY <1>3, <1>4

\* The epilogues leave the stages alone.
LEMMA StagesUnchanged ==
    ASSUME StagesInv, UNCHANGED <<call, stream, cta, pc, step, flight, smem>>
    PROVE  StagesInv'
  <1>1. InLoop' = InLoop /\ C' = C /\ Loading' = Loading
    BY SameCta
  <1> QED
    BY <1>1 DEF StagesInv

\* The first CTA starts afresh.
LEMMA StagesInit == GemmInit => StagesInv
  <1> SUFFICES ASSUME GemmInit, InLoop
               PROVE  Together(C, Loading, pc, step, flight, smem)
    BY DEF StagesInv
  <1>1. pc = EachWarp("prologue") /\ step = EachWarp(0) /\ flight = EachWarp(<<>>) /\ smem = Fresh(C)
    BY DEF GemmInit
  <1>2. \A w \in Warp : pc[w] = "prologue" /\ step[w] = 0 /\ flight[w] = <<>>
    BY <1>1 DEF EachWarp
  <1>3. DOMAIN smem = Parts(C.kernel)
    BY <1>1 DEF Fresh
  <1>4. \A w \in Warp : pc[w] \notin Decoding
    BY <1>2 DEF Decoding
  <1> QED
    BY <1>2, <1>3, <1>4 DEF Together

\* Every step keeps the stages.
LEMMA StagesNext == EpilogueInv /\ EpilogueInv' /\ LoopInv /\ StagesInv /\ [GemmNext]_vars => StagesInv'
  <1> SUFFICES ASSUME EpilogueInv, EpilogueInv', LoopInv, StagesInv, [GemmNext]_vars
               PROVE  StagesInv'
    OBVIOUS
  <1>0. StreamInv
    BY DEF EpilogueInv
  <1>1. ASSUME NEW w \in Warp, Prologue(w) \/ Issue(w) \/ Wait(w) \/ Read(w)
        PROVE  StagesInv'
    BY <1>0, <1>1, PrologueStages, IssueStages, WaitStages, ReadStages
  <1>2. CASE Barrier("filled", "read") \/ Barrier("drained", "issue")
    BY <1>0, <1>2, FilledStages, DrainedStages
  <1>3. CASE LandSome
    BY <1>0, <1>3, LandStages
  <1>4. CASE Finish
    BY <1>4, FinishStages
  <1>5. ASSUME NEW i \in DOMAIN epi, StoreSlice(i) \/ Arrive(i) \/ \E w \in Warp : StorePartial(i, w) \/ Fence(i, w) \/ Reduce(i, w)
        PROVE  StagesInv'
    BY <1>5, StagesUnchanged DEF StoreSlice, Arrive, StorePartial, Fence, Reduce, loopVars
  <1>6. ASSUME NEW x \in pending, Visible(x[1], x[2])
        PROVE  StagesInv'
    BY <1>6, StagesUnchanged DEF Visible, loopVars
  <1>7. CASE EndLaunch
    BY <1>7, EndLaunchStages
  <1>8. CASE Returned \/ UNCHANGED vars
    BY <1>8, StagesUnchanged DEF Returned, vars, loopVars
  <1> QED
    BY <1>1, <1>2, <1>3, <1>4, <1>5, <1>6, <1>7, <1>8 DEF GemmNext

\* In a k-loop that keeps its stages whole, the stage being decoded holds its k-block.
LEMMA WholeStages == EpilogueInv /\ LoopInv /\ StagesInv => StageHoldsKBlock
  <1> SUFFICES ASSUME EpilogueInv, LoopInv, StagesInv, NEW w \in Warp, InLoop, pc[w] = "read"
               PROVE  LET s == step[w] IN
                      /\ Weights(C, s) # Garbled /\ Holds("w", s % C.kernel.depth, Weights(C, s))
                      /\ C.kernel.acts # None => Holds("a", (s \div C.kernel.nst) % 2, Activations(C, KBlock(C, s)))
                      /\ C.kernel.tab # None => Holds("t", 0, Table)
    BY DEF StageHoldsKBlock
  <1> DEFINE s == step[w]
  <1>1. CallInv /\ OnCall(C) /\ Layout(C.kernel) /\ Steps(C) \in Nat
    BY RunningCta DEF EpilogueInv
  <1>2. Together(C, Loading, pc, step, flight, smem)
    BY DEF StagesInv
  <1>3. s \in Nat /\ pc \in [Warp -> ProgramPoint]
    BY DEF LoopInv
  <1>4. ASSUME NEW v \in Warp
        PROVE  /\ step[v] = s /\ pc[v] \in {"read", "drained"} /\ s < Steps(C)
               /\ WarpHolds(C, Loading, v, pc[v], s, flight[v], smem)
    <2>1. step[v] = s /\ pc[v] \in {"read", "drained"}
      BY <1>2 DEF Together
    <2>2. pc[v] \in Decoding
      BY <2>1 DEF Decoding
    <2> QED
      BY <1>2, <2>1, <2>2 DEF Together
  <1>5. s < Steps(C)
    BY <1>4
  <1>6. Weights(C, s) # Garbled
    BY <1>1, <1>3, <1>5, StageLoaded
  <1>7. Loading[s] = Weights(C, s)
    BY <1>1, <1>3, <1>5 DEF Loading
  <1> HIDE DEF s
  <1>8. ASSUME NEW v \in Warp, NEW copy \in Filling(C, Weights(C, s), s, v)
        PROVE  smem[copy.part] = copy.value
    <2>1. Oldest(pc[v], s) = s + 1
      <3>1. pc[v] \notin {"issue", "wait"}
        BY <1>4
      <3> QED
        BY <3>1 DEF Oldest
    <2>2. Len(flight[v]) \in Nat
      BY <1>4 DEF WarpHolds, InOrder
    <2>3. s \in s .. Oldest(pc[v], s) + Len(flight[v]) - 1 /\ ~(s >= Oldest(pc[v], s))
      <3> DEFINE n == Len(flight[v])
      <3>1. n \in Nat
        BY <2>2
      <3> HIDE DEF n
      <3>2. s \in s .. s + 1 + n - 1 /\ ~(s >= s + 1)
        BY <1>3, <3>1
      <3> QED
        BY <2>1, <3>2 DEF n
    <2>4. Landed(C, Loading, v, pc[v], s, flight[v], smem)
      BY <1>4 DEF WarpHolds
    <2>5. copy \in Filling(C, Loading[s], s, v)
      BY <1>7, <1>8
    <2> QED
      BY <1>5, <2>3, <2>4, <2>5 DEF Landed
  <1>9. ASSUME NEW v \in Warp
        PROVE  /\ smem[<<"w", s % C.kernel.depth, v>>] = Weights(C, s)
               /\ C.kernel.acts # None => smem[<<"a", (s \div C.kernel.nst) % 2, v>>] = Activations(C, KBlock(C, s))
               /\ C.kernel.tab # None => smem[<<"t", 0, v>>] = Table
    <2> DEFINE weights == [part |-> <<"w", s % C.kernel.depth, v>>, value |-> Weights(C, s)]
               acts == [part |-> <<"a", (s \div C.kernel.nst) % 2, v>>, value |-> Activations(C, KBlock(C, s))]
    <2>1. weights \in Filling(C, Weights(C, s), s, v)
      BY DEF Filling
    <2>2. smem[weights.part] = weights.value
      BY <1>8, <2>1
    <2>3. ASSUME C.kernel.acts # None
          PROVE  smem[acts.part] = acts.value
      <3>1. CASE HalfOf(C, s) = 0
        <4>1. acts \in Filling(C, Weights(C, s), s, v)
          BY <2>3, <3>1 DEF Filling
        <4> QED
          BY <1>8, <4>1
      <3>2. CASE HalfOf(C, s) # 0
        BY <1>4, <2>3, <3>2 DEF WarpHolds, KeptActs
      <3> QED
        BY <3>1, <3>2
    <2>4. C.kernel.tab # None => smem[<<"t", 0, v>>] = Table
      BY <1>4 DEF WarpHolds, KeptTable
    <2> QED
      BY <2>2, <2>3, <2>4
  <1> QED
    BY <1>6, <1>9 DEF Holds, s

\* A warp that decodes a stage finds there what both warps copied for it, the
\* k-block's activations and the grid table, and the weights are a chunk of the
\* CTA's own tile: no copy lands in a stage still in use, and none is read before
\* it has landed (the k-loops, REGIONS, pack_tiles).
THEOREM StagesHold == GemmSpec => []StageHoldsKBlock
  BY WholeStages, EpilogueInit, EpilogueNext, LoopInit, LoopNext, StagesInit, StagesNext, PTL DEF GemmSpec

-----------------------------------------------------------------------------
(* What the warps accumulate.                                              *)

\* What a CTA x on tile n of shard i multiplies at stage s, and at its first r stages.
Multiplied(x, i, n, s) ==
    [weights |-> <<i, n, KBlock(x, s), HalfOf(x, s)>>, acts |-> <<KBlock(x, s), x.rows>>, scale |-> KBlock(x, s)]
FirstStages(x, i, n, r) == [k \in 1 .. r |-> Multiplied(x, i, n, k - 1)]

\* The stages a warp has decoded.
Decoded(p, s) == IF p = "drained" THEN s + 1 ELSE s

\* The scale registers before stage r: its k-block's, and where a kernel loads them
\* ahead the next k-block's.
ScalesReady(x, r, regs) ==
    /\ HalfOf(x, r) # 0 => regs[1] = KBlock(x, r)
    /\ x.kernel.ahead /\ HalfOf(x, r) = 0 => regs[2] = KBlock(x, r)
    /\ x.kernel.ahead /\ HalfOf(x, r) # 0 /\ KBlock(x, r) + 1 < x.kb1 => regs[2] = KBlock(x, r) + 1

\* A warp's accumulator holds the stages it has decoded, in order, each against its
\* own activations and scale.
WarpSums(c, x, p, s, regs, a) ==
    LET r == Decoded(p, s) IN
    /\ r <= Steps(x) /\ (p = "exit" => s = Steps(x))
    /\ p # "prologue" /\ r < Steps(x) => ScalesReady(x, r, regs)
    /\ \A i : \A n \in Nat : OnTile(c, x, i, n) => a = FirstStages(x, i, n, r)

\* The sums of the running k-loop: every warp has accumulated the CTA's stages so far, in
\* order.
AccInv ==
    InLoop => /\ DOMAIN acc = Warp /\ DOMAIN sx = Warp
              /\ \A w \in Warp : WarpSums(call, C, pc[w], step[w], sx[w], acc[w])

\* One more stage.
LEMMA OneMoreStage ==
    ASSUME NEW x, NEW i, NEW n, NEW r \in Nat
    PROVE  FirstStages(x, i, n, r + 1) = Append(FirstStages(x, i, n, r), Multiplied(x, i, n, r))
  <1> DEFINE f == [k \in 1 .. r + 1 |-> Multiplied(x, i, n, k - 1)]
             g == [k \in 1 .. r |-> Multiplied(x, i, n, k - 1)]
             e == Multiplied(x, i, n, r)
             S == {f[k] : k \in 1 .. r + 1} \cup {e}
  <1>1. f[r + 1] = e /\ \A k \in 1 .. r : f[k] = g[k]
    OBVIOUS
  <1>2. DOMAIN f = 1 .. r + 1 /\ DOMAIN g = 1 .. r /\ f = [k \in 1 .. r + 1 |-> f[k]] /\ g = [k \in 1 .. r |-> g[k]]
    OBVIOUS
  <1>3. \A k \in 1 .. r + 1 : f[k] \in S
    OBVIOUS
  <1>4. e \in S
    OBVIOUS
  <1>5. FirstStages(x, i, n, r + 1) = f /\ FirstStages(x, i, n, r) = g
    BY DEF FirstStages
  <1> HIDE DEF f, g, e, S
  <1>6. f \in Seq(S) /\ g \in Seq(S) /\ Len(g) = r /\ Len(f) = r + 1
    <2>1. \A k \in 1 .. r : g[k] \in S
      BY <1>1, <1>3
    <2>2. f \in [1 .. r + 1 -> S] /\ g \in [1 .. r -> S]
      BY <1>2, <1>3, <2>1
    <2> QED
      BY <1>2, <2>2
  <1>7. f = Append(g, e)
    BY <1>1, <1>4, <1>6
  <1> QED
    BY <1>5, <1>7 DEF e

\* Stage s + 1 is the other half of the k-block, or the first of the next one.
LEMMA NextStage ==
    ASSUME NEW x, x.kernel.nst \in {1, 2}, x.kb0 \in Nat, NEW s \in Nat
    PROVE  /\ HalfOf(x, s + 1) # 0 => HalfOf(x, s) = 0 /\ KBlock(x, s + 1) = KBlock(x, s)
           /\ HalfOf(x, s + 1) = 0 => KBlock(x, s + 1) = KBlock(x, s) + 1
           /\ KBlock(x, s) \in Nat /\ KBlock(x, 0) = x.kb0 /\ HalfOf(x, 0) = 0
  <1> DEFINE b == x.kb0
             d == x.kernel.nst
  <1>1. b \in Nat /\ d \in {1, 2}
    OBVIOUS
  <1>2. /\ KBlock(x, s) = b + s \div d /\ HalfOf(x, s) = s % d /\ KBlock(x, 0) = b + 0 \div d /\ HalfOf(x, 0) = 0 % d
        /\ KBlock(x, s + 1) = b + (s + 1) \div d /\ HalfOf(x, s + 1) = (s + 1) % d
    BY DEF KBlock, HalfOf
  <1> HIDE DEF b, d
  <1>3. CASE d = 1
    <2>1. s \div 1 = s /\ s % 1 = 0 /\ (s + 1) \div 1 = s + 1 /\ (s + 1) % 1 = 0
      OBVIOUS
    <2> QED
      BY <1>1, <1>2, <1>3, <2>1 DEF b
  <1>4. CASE d = 2
    <2>1. /\ 0 \div 2 = 0 /\ 0 % 2 = 0 /\ s \div 2 \in Nat
          /\ (s + 1) % 2 # 0 => s % 2 = 0 /\ (s + 1) \div 2 = s \div 2
          /\ (s + 1) % 2 = 0 => (s + 1) \div 2 = s \div 2 + 1
      OBVIOUS
    <2> QED
      BY <1>1, <1>2, <1>4, <2>1 DEF b
  <1> QED
    BY <1>1, <1>3, <1>4

\* At a stage the scale in use is its k-block's, and the registers are ready for
\* the next stage.
LEMMA ScalesStep ==
    ASSUME NEW x, x.kernel.nst \in {1, 2}, x.kb0 \in Nat, x.kb1 \in Nat, NEW s \in Nat, s < Steps(x), NEW regs,
           ScalesReady(x, s, regs)
    PROVE  /\ Scales(x, s, regs)[1] = KBlock(x, s)
           /\ s + 1 < Steps(x) => ScalesReady(x, s + 1, Scales(x, s, regs))
  <1> DEFINE kb == KBlock(x, s)
             new == Scales(x, s, regs)
  <1>1. /\ HalfOf(x, s + 1) # 0 => HalfOf(x, s) = 0 /\ KBlock(x, s + 1) = kb
        /\ HalfOf(x, s + 1) = 0 => KBlock(x, s + 1) = kb + 1
        /\ kb \in Nat
    BY NextStage
  <1>2. new = IF HalfOf(x, s) # 0 THEN regs
              ELSE IF x.kernel.ahead THEN <<regs[2], IF kb + 1 < x.kb1 THEN kb + 1 ELSE None>>
              ELSE <<kb, None>>
    BY DEF Scales
  <1>3. s + 1 < Steps(x) => KBlock(x, s + 1) < x.kb1
    <2> HAVE s + 1 < Steps(x)
    <2>1. KBlock(x, s + 1) \in x.kb0 .. x.kb1 - 1
      BY StageInLoop
    <2> DEFINE k == KBlock(x, s + 1)
               a == x.kb0
               b == x.kb1
    <2>2. k \in a .. b - 1 /\ a \in Nat /\ b \in Nat
      BY <2>1
    <2> HIDE DEF k, a, b
    <2>3. k < b
      BY <2>2
    <2> QED
      BY <2>3 DEF k, b
  <1>4. /\ HalfOf(x, s) # 0 => regs[1] = kb
        /\ x.kernel.ahead /\ HalfOf(x, s) = 0 => regs[2] = kb
        /\ x.kernel.ahead /\ HalfOf(x, s) # 0 /\ kb + 1 < x.kb1 => regs[2] = kb + 1
    BY DEF ScalesReady
  <1> HIDE DEF kb, new
  <1>5. new[1] = kb
    BY <1>2, <1>4
  <1>6. ASSUME s + 1 < Steps(x)
        PROVE  ScalesReady(x, s + 1, new)
    <2>1. CASE HalfOf(x, s + 1) # 0
      <3>1. HalfOf(x, s) = 0 /\ KBlock(x, s + 1) = kb
        BY <1>1, <2>1
      <3>2. x.kernel.ahead /\ kb + 1 < x.kb1 => new[2] = kb + 1
        BY <1>2, <3>1
      <3> QED
        BY <1>5, <2>1, <3>1, <3>2 DEF ScalesReady
    <2>2. CASE HalfOf(x, s + 1) = 0
      <3>1. KBlock(x, s + 1) = kb + 1 /\ kb + 1 < x.kb1
        BY <1>1, <1>3, <1>6, <2>2
      <3>2. x.kernel.ahead => new[2] = kb + 1
        BY <1>2, <1>4, <3>1
      <3> QED
        BY <2>2, <3>1, <3>2 DEF ScalesReady
    <2> QED
      BY <2>1, <2>2
  <1> QED
    BY <1>5, <1>6 DEF kb, new

\* A step that decodes nothing leaves a warp's sum as it is.
LEMMA SumStays ==
    ASSUME NEW c, NEW x, NEW p, NEW s, NEW q, NEW t, NEW regs, NEW a, WarpSums(c, x, p, s, regs, a),
           Decoded(p, s) = Decoded(q, t), q = "exit" => t = Steps(x), p # "prologue"
    PROVE  WarpSums(c, x, q, t, regs, a)
  BY DEF WarpSums

\* What a step of the k-loop has to show of them.
LEMMA WithinSums ==
    ASSUME UNCHANGED <<call, stream, cta>>, DOMAIN acc' = Warp, DOMAIN sx' = Warp,
           \A w \in Warp : WarpSums(call, C, pc'[w], step'[w], sx'[w], acc'[w])
    PROVE  AccInv'
  <1>1. C' = C /\ call' = call
    BY SameCta
  <1> QED
    BY <1>1 DEF AccInv

StepsKnown == InLoop => Steps(C) \in Nat

\* The stages of the running CTA are a whole number after a step too.
LEMMA StepsNext == StreamInv' => StepsKnown'
  <1>1. StreamInv => StepsKnown
    BY RunningCta DEF StepsKnown
  <1> QED
    BY <1>1, PTL

\* A CTA's k-loop starts with nothing accumulated.
LEMMA NothingSummed ==
    ASSUME NEW c, NEW x, Steps(x) \in Nat, NEW regs
    PROVE  WarpSums(c, x, "prologue", 0, regs, <<>>)
  <1>1. Decoded("prologue", 0) = 0
    BY DEF Decoded
  <1>2. \A i, n : <<>> = FirstStages(x, i, n, 0)
    BY DEF FirstStages
  <1>3. 0 <= Steps(x)
    OBVIOUS
  <1> QED
    BY <1>1, <1>2, <1>3 DEF WarpSums

\* A k-loop starts with nothing accumulated.
LEMMA FreshSums ==
    ASSUME StreamInv', pc' = EachWarp("prologue"), step' = EachWarp(0),
           InLoop' => acc' = EachWarp(<<>>) /\ sx' = EachWarp(<<None, None>>)
    PROVE  AccInv'
  <1> SUFFICES ASSUME InLoop'
               PROVE  /\ DOMAIN acc' = Warp /\ DOMAIN sx' = Warp
                      /\ \A w \in Warp : WarpSums(call', C', pc'[w], step'[w], sx'[w], acc'[w])
    BY DEF AccInv
  <1>1. Steps(C') \in Nat
    BY StepsNext DEF StepsKnown
  <1>2. \A w \in Warp : pc'[w] = "prologue" /\ step'[w] = 0 /\ sx'[w] = <<None, None>> /\ acc'[w] = <<>>
    BY DEF EachWarp
  <1>3. DOMAIN acc' = Warp /\ DOMAIN sx' = Warp
    BY DEF EachWarp
  <1> QED
    BY <1>1, <1>2, <1>3, NothingSummed

\* The prologue loads the first scale.
LEMMA PrologueSums ==
    ASSUME StreamInv, LoopInv, StagesInv, AccInv, NEW w \in Warp, Prologue(w)
    PROVE  AccInv'
  <1> DEFINE N == Steps(C)
             regs == <<None, IF C.kernel.ahead THEN C.kb0 ELSE None>>
  <1>1. /\ InLoop /\ pc[w] = "prologue" /\ sx' = [sx EXCEPT ![w] = regs]
        /\ pc' = [pc EXCEPT ![w] = IF N = 0 THEN "exit" ELSE "issue"]
        /\ UNCHANGED <<call, stream, cta, step, acc>>
    BY DEF Prologue
  <1>2. CallInv /\ OnCall(C) /\ Layout(C.kernel) /\ N \in Nat
    BY <1>1, RunningCta
  <1>3. pc \in [Warp -> ProgramPoint]
    BY DEF LoopInv
  <1>4. /\ DOMAIN acc = Warp /\ DOMAIN sx = Warp
        /\ \A v \in Warp : WarpSums(call, C, pc[v], step[v], sx[v], acc[v])
    BY <1>1 DEF AccInv
  <1>5. /\ pc'[w] = (IF N = 0 THEN "exit" ELSE "issue") /\ sx'[w] = regs /\ DOMAIN sx' = Warp
        /\ \A v \in Warp \ {w} : pc'[v] = pc[v] /\ sx'[v] = sx[v]
    BY <1>1, <1>3, <1>4
  <1>6. step[w] = 0
    BY <1>1 DEF StagesInv, Together
  <1>7. ScalesReady(C, 0, regs)
    <2>1. C.kernel.nst \in {1, 2} /\ C.kb0 \in Nat
      BY <1>2 DEF Layout, OnCall
    <2>2. KBlock(C, 0) = C.kb0 /\ HalfOf(C, 0) = 0
      BY <2>1, NextStage
    <2>3. C.kernel.ahead => regs[2] = C.kb0
      OBVIOUS
    <2> QED
      BY <2>2, <2>3 DEF ScalesReady
  <1> HIDE DEF regs
  <1>8. WarpSums(call, C, pc'[w], step'[w], sx'[w], acc'[w])
    <2>1. Decoded(pc[w], step[w]) = 0 /\ Decoded(pc'[w], step'[w]) = 0
      BY <1>1, <1>5, <1>6 DEF Decoded
    <2>2. WarpSums(call, C, pc[w], step[w], sx[w], acc[w])
      BY <1>4
    <2>3. \A i : \A n \in Nat : OnTile(call, C, i, n) => acc'[w] = FirstStages(C, i, n, 0)
      BY <1>1, <2>1, <2>2 DEF WarpSums
    <2>4. pc'[w] = "exit" => step'[w] = N
      BY <1>1, <1>5, <1>6
    <2>5. 0 <= N
      BY <1>2
    <2> QED
      BY <1>5, <1>7, <2>1, <2>3, <2>4, <2>5 DEF WarpSums, N
  <1>9. \A v \in Warp \ {w} : WarpSums(call, C, pc'[v], step'[v], sx'[v], acc'[v])
    BY <1>1, <1>4, <1>5
  <1> QED
    BY <1>1, <1>4, <1>5, <1>8, <1>9, WithinSums

\* The stage a warp decodes is the next one of its CTA's tile.
LEMMA ReadMultiplies ==
    ASSUME EpilogueInv, LoopInv, StagesInv, AccInv, NEW w \in Warp, Read(w),
           NEW i, NEW n \in Nat, OnTile(call, C, i, n)
    PROVE  acc'[w] = Append(acc[w], Multiplied(C, i, n, step[w]))
  <1> DEFINE s == step[w]
             stage == s % C.kernel.depth
             buf == (s \div C.kernel.nst) % 2
             weights == IF Holds("w", stage, smem[<<"w", stage, 0>>]) THEN smem[<<"w", stage, 0>>] ELSE Garbled
             x == IF C.kernel.acts = None THEN Activations(C, KBlock(C, s))
                  ELSE IF Holds("a", buf, smem[<<"a", buf, 0>>]) THEN smem[<<"a", buf, 0>>] ELSE Garbled
             table == C.kernel.tab = None \/ Holds("t", 0, Table)
             regs == Scales(C, s, sx[w])
  <1>1. /\ InLoop /\ pc[w] = "read"
        /\ acc' = [acc EXCEPT ![w] = Append(@,
              IF table THEN [weights |-> weights.chunk, acts |-> x.chunk, scale |-> regs[1]] ELSE GarbledProduct)]
    BY DEF Read
  <1>2. CallInv /\ OnCall(C) /\ Layout(C.kernel) /\ Steps(C) \in Nat
    BY <1>1, RunningCta DEF EpilogueInv
  <1>3. C.kernel.nst \in {1, 2} /\ C.kb0 \in Nat /\ C.kb1 \in Nat /\ C.kb1 \in 0 .. call.nb
    <2>1. call.nb \in Nat
      BY <1>2 DEF CallInv, PackedCall
    <2> QED
      BY <1>2, <2>1 DEF Layout, OnCall
  <1>4. s \in Nat /\ s < Steps(C)
    BY <1>1 DEF LoopInv, StagesInv, Together, Decoding
  <1>5. /\ Holds("w", stage, Weights(C, s)) /\ (C.kernel.acts # None => Holds("a", buf, Activations(C, KBlock(C, s))))
        /\ (C.kernel.tab # None => Holds("t", 0, Table))
    <2>1. StageHoldsKBlock
      BY WholeStages
    <2> QED
      BY <1>1, <2>1 DEF StageHoldsKBlock
  <1>6. DOMAIN acc = Warp /\ WarpSums(call, C, "read", s, sx[w], acc[w])
    BY <1>1 DEF AccInv
  <1>7. weights = Weights(C, s)
    BY <1>5 DEF Holds, Warp
  <1>8. x = Activations(C, KBlock(C, s))
    BY <1>5 DEF Holds, Warp
  <1>9. table
    BY <1>5
  <1>10. regs[1] = KBlock(C, s)
    <2>1. Decoded("read", s) = s
      BY DEF Decoded
    <2>2. ScalesReady(C, s, sx[w])
      BY <1>4, <1>6, <2>1 DEF WarpSums
    <2> QED
      BY <1>3, <1>4, <2>2, ScalesStep
  <1>11. Weights(C, s) = [chunk |-> <<i, n, KBlock(C, s), HalfOf(C, s)>>]
    BY <1>2, <1>3, <1>4, StageWeights
  <1>12. weights.chunk = <<i, n, KBlock(C, s), HalfOf(C, s)>>
    BY <1>7, <1>11
  <1>13. x.chunk = <<KBlock(C, s), C.rows>>
    BY <1>8 DEF Activations
  <1> HIDE DEF weights, x, table, regs
  <1>14. [weights |-> weights.chunk, acts |-> x.chunk, scale |-> regs[1]] = Multiplied(C, i, n, s)
    BY <1>10, <1>12, <1>13 DEF Multiplied
  <1> QED
    BY <1>1, <1>6, <1>9, <1>14

\* Decoding a stage adds its product: the chunk, the activations and the scale of one
\* k-block.
LEMMA ReadSums ==
    ASSUME EpilogueInv, LoopInv, StagesInv, AccInv, NEW w \in Warp, Read(w)
    PROVE  AccInv'
  <1> DEFINE s == step[w]
             regs == Scales(C, s, sx[w])
  <1>1. /\ InLoop /\ pc[w] = "read" /\ sx' = [sx EXCEPT ![w] = regs]
        /\ \E e : acc' = [acc EXCEPT ![w] = e]
        /\ pc' = [pc EXCEPT ![w] = "drained"]
        /\ UNCHANGED <<call, stream, cta, step>>
    BY DEF Read
  <1>2. CallInv /\ OnCall(C) /\ Layout(C.kernel) /\ Steps(C) \in Nat
    BY <1>1, RunningCta DEF EpilogueInv
  <1>3. C.kernel.nst \in {1, 2} /\ C.kb0 \in Nat /\ C.kb1 \in Nat
    <2>1. call.nb \in Nat
      BY <1>2 DEF CallInv, PackedCall
    <2> QED
      BY <1>2, <2>1 DEF Layout, OnCall
  <1>4. s \in Nat /\ s < Steps(C) /\ pc \in [Warp -> ProgramPoint]
    BY <1>1 DEF LoopInv, StagesInv, Together, Decoding
  <1>5. /\ DOMAIN acc = Warp /\ DOMAIN sx = Warp
        /\ \A v \in Warp : WarpSums(call, C, pc[v], step[v], sx[v], acc[v])
    BY <1>1 DEF AccInv
  <1>6. /\ pc'[w] = "drained" /\ sx'[w] = regs /\ DOMAIN sx' = Warp /\ DOMAIN acc' = Warp
        /\ \A v \in Warp \ {w} : pc'[v] = pc[v] /\ sx'[v] = sx[v] /\ acc'[v] = acc[v]
    BY <1>1, <1>4, <1>5
  <1>7. WarpSums(call, C, "read", s, sx[w], acc[w]) /\ Decoded("read", s) = s /\ Decoded("drained", s) = s + 1
    BY <1>1, <1>5 DEF Decoded
  <1>8. ScalesReady(C, s, sx[w])
    BY <1>4, <1>7 DEF WarpSums
  <1>9. s + 1 < Steps(C) => ScalesReady(C, s + 1, regs)
    BY <1>3, <1>4, <1>8, ScalesStep
  <1>10. ASSUME NEW i, NEW n \in Nat, OnTile(call, C, i, n)
         PROVE  acc'[w] = FirstStages(C, i, n, s + 1)
    <2>1. acc'[w] = Append(acc[w], Multiplied(C, i, n, s))
      BY <1>10, ReadMultiplies
    <2>2. acc[w] = FirstStages(C, i, n, s)
      BY <1>7, <1>10 DEF WarpSums
    <2>3. FirstStages(C, i, n, s + 1) = Append(FirstStages(C, i, n, s), Multiplied(C, i, n, s))
      <3>1. s \in Nat
        BY <1>4
      <3> HIDE DEF s
      <3> QED
        BY <3>1, OneMoreStage
    <2> QED
      BY <2>1, <2>2, <2>3
  <1>11. s + 1 <= Steps(C)
    BY <1>2, <1>4
  <1> HIDE DEF regs
  <1>12. WarpSums(call, C, "drained", s, sx'[w], acc'[w])
    BY <1>6, <1>7, <1>9, <1>10, <1>11 DEF WarpSums
  <1>13. \A v \in Warp : WarpSums(call, C, pc'[v], step'[v], sx'[v], acc'[v])
    BY <1>1, <1>5, <1>6, <1>12
  <1> QED
    BY <1>1, <1>6, <1>13, WithinSums

\* Issuing and waiting for copies decode nothing.
LEMMA MovingSums ==
    ASSUME LoopInv, AccInv, InLoop, UNCHANGED <<call, stream, cta, step, sx, acc>>,
           NEW w \in Warp, NEW q \in {"wait", "filled"}, pc[w] \in {"issue", "wait"}, pc' = [pc EXCEPT ![w] = q]
    PROVE  AccInv'
  <1>1. /\ DOMAIN acc = Warp /\ DOMAIN sx = Warp /\ pc \in [Warp -> ProgramPoint]
        /\ \A v \in Warp : WarpSums(call, C, pc[v], step[v], sx[v], acc[v])
    BY DEF AccInv, LoopInv
  <1>2. pc'[w] = q /\ \A v \in Warp \ {w} : pc'[v] = pc[v]
    BY <1>1
  <1>3. Decoded(pc[w], step[w]) = Decoded(q, step[w]) /\ q # "exit" /\ pc[w] # "prologue"
    BY DEF Decoded
  <1>4. WarpSums(call, C, q, step[w], sx[w], acc[w])
    BY <1>1, <1>3, SumStays
  <1>5. \A v \in Warp : WarpSums(call, C, pc'[v], step'[v], sx'[v], acc'[v])
    BY <1>1, <1>2, <1>4
  <1> QED
    BY <1>1, <1>5, WithinSums

\* The barrier in front of the decoding adds nothing.
LEMMA FilledSums ==
    ASSUME LoopInv, AccInv, Barrier("filled", "read")
    PROVE  AccInv'
  <1>1. /\ InLoop /\ \A w \in Warp : pc[w] = "filled" /\ pc'[w] = "read"
        /\ UNCHANGED <<call, stream, cta, step, sx, acc>>
    BY DEF Barrier
  <1>2. /\ DOMAIN acc = Warp /\ DOMAIN sx = Warp
        /\ \A v \in Warp : WarpSums(call, C, "filled", step[v], sx[v], acc[v])
    BY <1>1 DEF AccInv
  <1>3. \A w \in Warp : Decoded("filled", step[w]) = Decoded("read", step[w])
    BY DEF Decoded
  <1>4. \A w \in Warp : WarpSums(call, C, "read", step[w], sx[w], acc[w])
    BY <1>2, <1>3, SumStays
  <1> QED
    BY <1>1, <1>2, <1>4, WithinSums

\* The barrier behind it ends the stage.
LEMMA DrainedSums ==
    ASSUME LoopInv, AccInv, Barrier("drained", "issue")
    PROVE  AccInv'
  <1> DEFINE N == Steps(C)
  <1>1. /\ InLoop /\ \A w \in Warp : pc[w] = "drained"
        /\ pc' = [w \in Warp |-> IF step[w] + 1 = N THEN "exit" ELSE "issue"]
        /\ step' = [w \in Warp |-> step[w] + 1]
        /\ UNCHANGED <<call, stream, cta, sx, acc>>
    BY DEF Barrier
  <1>2. /\ DOMAIN acc = Warp /\ DOMAIN sx = Warp
        /\ \A v \in Warp : WarpSums(call, C, "drained", step[v], sx[v], acc[v])
    BY <1>1 DEF AccInv
  <1>3. ASSUME NEW w \in Warp
        PROVE  WarpSums(call, C, pc'[w], step'[w], sx'[w], acc'[w])
    <2>1. /\ Decoded("drained", step[w]) = step[w] + 1 /\ step'[w] = step[w] + 1
          /\ pc'[w] \in {"exit", "issue"} /\ (pc'[w] = "exit" => step'[w] = N)
      BY <1>1 DEF Decoded
    <2>2. Decoded(pc'[w], step'[w]) = step[w] + 1
      BY <2>1 DEF Decoded
    <2>3. WarpSums(call, C, "drained", step[w], sx[w], acc[w])
      BY <1>2
    <2>4. WarpSums(call, C, pc'[w], step'[w], sx[w], acc[w])
      BY <2>1, <2>2, <2>3, SumStays
    <2> QED
      BY <1>1, <2>4
  <1> QED
    BY <1>1, <1>2, <1>3, WithinSums

\* The epilogues add nothing to the sums of the k-loops.
LEMMA SameSums ==
    ASSUME AccInv, UNCHANGED <<call, stream, cta, pc, step, sx, acc>>
    PROVE  AccInv'
  <1>1. InLoop' = InLoop /\ C' = C /\ call' = call
    BY SameCta
  <1> QED
    BY <1>1 DEF AccInv

\* The k-loop of the next CTA, or no k-loop.
LEMMA FinishSums ==
    ASSUME EpilogueInv, EpilogueInv', Finish
    PROVE  AccInv'
  <1>1. /\ UNCHANGED <<call, stream>> /\ cta' = cta + 1
        /\ InLoop /\ IF cta < Len(Ctas) THEN StartLoop(Ctas[cta + 1]) ELSE UNCHANGED loopVars
    BY DEF Finish
  <1>2. Ctas' = Ctas
    BY <1>1, SameLaunch
  <1>3. CASE cta < Len(Ctas)
    BY <1>1, <1>3, FreshSums DEF StartLoop, EpilogueInv
  <1>4. CASE ~(cta < Len(Ctas))
    <2>1. Len(Ctas) \in Nat /\ DOMAIN Ctas = 1 .. Len(Ctas)
      BY <1>1, LoopDepth, LaunchShape DEF EpilogueInv
    <2>2. ~InLoop'
      BY <1>1, <1>2, <1>4, <2>1 DEF InLoop
    <2> QED
      BY <2>2 DEF AccInv
  <1> QED
    BY <1>3, <1>4

\* The next launch starts with nothing accumulated.
LEMMA EndLaunchSums ==
    ASSUME EpilogueInv, EpilogueInv', EndLaunch
    PROVE  AccInv'
  <1>1. /\ InEpilogue /\ stream' = Tail(stream)
        /\ IF Len(stream) > 1 THEN StartLoop(stream[2].ctas[1]) ELSE UNCHANGED loopVars
    BY DEF EndLaunch
  <1>2. stream \in Seq({Stream(call)[l] : l \in DOMAIN Stream(call)}) /\ stream # <<>>
    BY <1>1 DEF EpilogueInv, StreamInv, InEpilogue, Running
  <1>3. CASE Len(stream) > 1
    BY <1>1, <1>3, FreshSums DEF StartLoop, EpilogueInv
  <1>4. CASE ~(Len(stream) > 1)
    <2>1. stream' = <<>>
      BY <1>1, <1>2, <1>4
    <2>2. ~InLoop'
      BY <2>1 DEF InLoop, Ctas, Running
    <2> QED
      BY <2>2 DEF AccInv
  <1> QED
    BY <1>3, <1>4

\* Every step keeps the sums of the running k-loop.
LEMMA AccNext ==
    EpilogueInv /\ EpilogueInv' /\ LoopInv /\ StagesInv /\ AccInv /\ [GemmNext]_vars => AccInv'
  <1> SUFFICES ASSUME EpilogueInv, EpilogueInv', LoopInv, StagesInv, AccInv, [GemmNext]_vars
               PROVE  AccInv'
    OBVIOUS
  <1>0. StreamInv
    BY DEF EpilogueInv
  <1>1. ASSUME NEW w \in Warp, Prologue(w) \/ Issue(w) \/ Wait(w) \/ Read(w)
        PROVE  AccInv'
    <2>1. CASE Prologue(w) \/ Read(w)
      BY <1>0, <2>1, PrologueSums, ReadSums
    <2>2. CASE Issue(w)
      BY <2>2, MovingSums DEF Issue
    <2>3. CASE Wait(w)
      BY <2>3, MovingSums DEF Wait
    <2> QED
      BY <1>1, <2>1, <2>2, <2>3
  <1>2. CASE Barrier("filled", "read") \/ Barrier("drained", "issue")
    BY <1>2, FilledSums, DrainedSums
  <1>3. CASE LandSome
    BY <1>3, SameSums DEF LandSome, Land
  <1>4. CASE Finish
    BY <1>4, FinishSums
  <1>5. ASSUME NEW i \in DOMAIN epi, StoreSlice(i) \/ Arrive(i) \/ \E w \in Warp : StorePartial(i, w) \/ Fence(i, w) \/ Reduce(i, w)
        PROVE  AccInv'
    BY <1>5, SameSums DEF StoreSlice, Arrive, StorePartial, Fence, Reduce, loopVars
  <1>6. ASSUME NEW x \in pending, Visible(x[1], x[2])
        PROVE  AccInv'
    BY <1>6, SameSums DEF Visible, loopVars
  <1>7. CASE EndLaunch
    BY <1>7, EndLaunchSums
  <1>8. CASE Returned \/ UNCHANGED vars
    BY <1>8, SameSums DEF Returned, vars, loopVars
  <1> QED
    BY <1>1, <1>2, <1>3, <1>4, <1>5, <1>6, <1>7, <1>8 DEF GemmNext

\* The first k-loop starts with nothing accumulated.
LEMMA AccInit == GemmInit => AccInv
  <1> SUFFICES ASSUME GemmInit, InLoop
               PROVE  /\ DOMAIN acc = Warp /\ DOMAIN sx = Warp
                      /\ \A w \in Warp : WarpSums(call, C, pc[w], step[w], sx[w], acc[w])
    BY DEF AccInv
  <1>1. /\ pc = EachWarp("prologue") /\ step = EachWarp(0) /\ sx = EachWarp(<<None, None>>) /\ acc = EachWarp(<<>>)
    BY DEF GemmInit
  <1>2. \A w \in Warp : pc[w] = "prologue" /\ step[w] = 0 /\ sx[w] = <<None, None>> /\ acc[w] = <<>>
    BY <1>1 DEF EachWarp
  <1>3. DOMAIN acc = Warp /\ DOMAIN sx = Warp
    BY <1>1 DEF EachWarp
  <1>4. Steps(C) \in Nat
    BY EpilogueInit, RunningCta DEF EpilogueInv
  <1> QED
    BY <1>2, <1>3, <1>4, NothingSummed

-----------------------------------------------------------------------------
(* The partial sums of the CTAs whose k-loops are over.                    *)

\* A warp's whole sum: every stage of its CTA.
WholeSum(c, x, a) == \A i : \A n \in Nat : OnTile(c, x, i, n) => a = FirstStages(x, i, n, Steps(x))

\* The sums of the finished k-loops: all stages of their CTAs, in order.
SumsInv ==
    Running => /\ \E S : sums \in Seq(S)
               /\ Len(sums) = cta - 1
               /\ \A j \in 1 .. cta - 1, w \in Warp : WholeSum(call, Ctas[j], sums[j][w])

\* A k-loop that ends leaves the whole sum of its CTA.
LEMMA FinishedSums ==
    ASSUME EpilogueInv, LoopInv, AccInv, SumsInv, Finish
    PROVE  SumsInv'
  <1>1. /\ UNCHANGED <<call, stream>> /\ cta' = cta + 1 /\ InLoop /\ sums' = Append(sums, acc)
        /\ \A w \in Warp : pc[w] = "exit"
    BY DEF Finish
  <1>2. Running /\ cta \in DOMAIN Ctas /\ C = Ctas[cta]
    BY <1>1 DEF InLoop, C, Ctas
  <1>3. Ctas' = Ctas /\ call' = call
    BY <1>1, SameLaunch
  <1>4. cta \in Nat \ {0}
    BY <1>2, LaunchShape DEF EpilogueInv
  <1>5. PICK S : sums \in Seq(S)
    BY <1>2 DEF SumsInv
  <1>6. Len(sums) = cta - 1 /\ \A j \in 1 .. cta - 1, w \in Warp : WholeSum(call, Ctas[j], sums[j][w])
    BY <1>2 DEF SumsInv
  <1> DEFINE T == S \cup {acc}
  <1>7. sums' \in Seq(T) /\ Len(sums') = cta /\ sums'[cta] = acc /\ \A j \in 1 .. cta - 1 : sums'[j] = sums[j]
    <2>1. sums \in Seq(T) /\ acc \in T
      BY <1>5
    <2> HIDE DEF T
    <2> QED
      BY <1>1, <1>4, <1>6, <2>1
  <1>8. ASSUME NEW w \in Warp
        PROVE  WholeSum(call, Ctas[cta], acc[w])
    <2>1. WarpSums(call, C, "exit", step[w], sx[w], acc[w])
      BY <1>1 DEF AccInv
    <2>2. Decoded("exit", step[w]) = step[w]
      BY DEF Decoded
    <2>3. step[w] = Steps(C)
      BY <2>1 DEF WarpSums
    <2>4. \A i : \A n \in Nat : OnTile(call, C, i, n) => acc[w] = FirstStages(C, i, n, Steps(C))
      BY <2>1, <2>2, <2>3 DEF WarpSums
    <2> QED
      BY <1>2, <2>4 DEF WholeSum
  <1>9. ASSUME NEW j \in 1 .. cta, NEW w \in Warp
        PROVE  WholeSum(call, Ctas[j], sums'[j][w])
    <2>1. CASE j = cta
      BY <1>7, <1>8, <2>1
    <2>2. CASE j # cta
      <3>1. j \in 1 .. cta - 1
        BY <1>4, <2>2
      <3> QED
        BY <1>6, <1>7, <3>1
    <2> QED
      BY <2>1, <2>2
  <1>10. cta' - 1 = cta
    BY <1>1, <1>4
  <1>11. \A j \in 1 .. cta' - 1, w \in Warp : WholeSum(call', Ctas'[j], sums'[j][w])
    BY <1>3, <1>9, <1>10
  <1>12. (\E Z : sums' \in Seq(Z)) /\ Len(sums') = cta' - 1
    BY <1>7, <1>10
  <1> QED
    BY <1>11, <1>12 DEF SumsInv

\* At the start of a launch no sum is there.
LEMMA NoSums ==
    ASSUME cta' = 1, sums' = <<>>
    PROVE  SumsInv'
  <1>1. <<>> \in Seq({}) /\ Len(<<>>) = 1 - 1 /\ 1 .. 1 - 1 = {}
    OBVIOUS
  <1> QED
    BY <1>1 DEF SumsInv

\* A step that ends no k-loop keeps the sums.
LEMMA SumsKept ==
    ASSUME SumsInv, UNCHANGED <<call, stream, cta, sums>>
    PROVE  SumsInv'
  <1>1. Ctas' = Ctas /\ Running' = Running
    BY SameLaunch
  <1> QED
    BY <1>1 DEF SumsInv

\* At the start of the call no sum is there.
LEMMA SumsInit == GemmInit => SumsInv
  <1> HAVE GemmInit
  <1>1. cta = 1 /\ sums = <<>>
    BY DEF GemmInit
  <1>2. <<>> \in Seq({}) /\ Len(<<>>) = 1 - 1 /\ 1 .. 1 - 1 = {}
    OBVIOUS
  <1> QED
    BY <1>1, <1>2 DEF SumsInv

\* Every step keeps the sums of the finished k-loops.
LEMMA SumsNext == EpilogueInv /\ LoopInv /\ AccInv /\ SumsInv /\ [GemmNext]_vars => SumsInv'
  <1> SUFFICES ASSUME EpilogueInv, LoopInv, AccInv, SumsInv, [GemmNext]_vars
               PROVE  SumsInv'
    OBVIOUS
  <1>1. ASSUME NEW w \in Warp, Prologue(w) \/ Issue(w) \/ Wait(w) \/ Read(w)
        PROVE  SumsInv'
    BY <1>1, SumsKept DEF Prologue, Issue, Wait, Read
  <1>2. CASE Barrier("filled", "read") \/ Barrier("drained", "issue")
    BY <1>2, SumsKept DEF Barrier
  <1>3. CASE LandSome
    BY <1>3, SumsKept DEF LandSome, Land
  <1>4. CASE Finish
    BY <1>4, FinishedSums
  <1>5. ASSUME NEW i \in DOMAIN epi, StoreSlice(i) \/ Arrive(i) \/ \E w \in Warp : StorePartial(i, w) \/ Fence(i, w) \/ Reduce(i, w)
        PROVE  SumsInv'
    BY <1>5, SumsKept DEF StoreSlice, Arrive, StorePartial, Fence, Reduce
  <1>6. ASSUME NEW x \in pending, Visible(x[1], x[2])
        PROVE  SumsInv'
    BY <1>6, SumsKept DEF Visible
  <1>7. CASE EndLaunch
    BY <1>7, NoSums DEF EndLaunch
  <1>8. CASE Returned \/ UNCHANGED vars
    BY <1>8, SumsKept DEF Returned, vars
  <1> QED
    BY <1>1, <1>2, <1>3, <1>4, <1>5, <1>6, <1>7, <1>8 DEF GemmNext

-----------------------------------------------------------------------------
(* What a cell of the output is made of.                                   *)

\* A cell's shard, the shard's tile it lies in, and the stages of a k-block there.
ShardOf(c, y) == CHOOSE i \in DOMAIN c.shards : y[2] \in c.shards[i].col0 .. c.shards[i].col0 + c.shards[i].n - 1
TileOf(c, y) == (y[2] - c.shards[ShardOf(c, y)].col0) \div 64
StagesOf(c, y) == IF c.op = "raw" THEN 1 ELSE Halves[c.shards[ShardOf(c, y)].type]

\* Half h of k-block b of the cell's tile, times its activations and scale.
TermOf(c, y, b, h, p) ==
    /\ p.weights = <<ShardOf(c, y), TileOf(c, y), b, h>> /\ p.acts[1] = b /\ p.scale = b
    /\ p.acts[2][1] <= 16 * y[1] /\ 16 * y[1] < p.acts[2][2]

\* The cell's terms of k-blocks a .. b - 1, in order; the whole cell.
PartOf(c, y, a, b, f) ==
    LET h == StagesOf(c, y)
        n == (b - a) * h
    IN  /\ f = [k \in 1 .. n |-> f[k]]
        /\ \A k \in 1 .. n : TermOf(c, y, a + (k - 1) \div h, (k - 1) % h, f[k])
Whole(c, y, f) == PartOf(c, y, 0, c.nb, f)

\* A column of a shard is of no other shard.
LEMMA ShardUnique ==
    ASSUME NEW c, PackedCall(c), NEW i \in DOMAIN c.shards, NEW y,
           y[2] \in c.shards[i].col0 .. c.shards[i].col0 + c.shards[i].n - 1
    PROVE  ShardOf(c, y) = i
  <1> DEFINE x == y[2]
             at(k) == c.shards[k].col0
             wd(k) == c.shards[k].n
             In(k) == x \in at(k) .. at(k) + wd(k) - 1
  <1>1. \A k \in DOMAIN c.shards : at(k) \in Nat /\ wd(k) \in Nat \ {0}
    BY DEF PackedCall
  <1>2. \A k \in DOMAIN c.shards, l \in DOMAIN c.shards : k < l => at(k) + wd(k) <= at(l)
    BY DEF PackedCall
  <1>3. DOMAIN c.shards \subseteq Nat
    BY DEF PackedCall
  <1>4. In(i)
    OBVIOUS
  <1> HIDE DEF x, at, wd
  <1>5. ASSUME NEW k \in DOMAIN c.shards, In(k)
        PROVE  k = i
    <2>1. CASE k < i
      <3>1. at(k) + wd(k) <= at(i)
        BY <1>2, <2>1
      <3> QED
        BY <1>1, <1>4, <1>5, <3>1
    <2>2. CASE i < k
      <3>1. at(i) + wd(i) <= at(k)
        BY <1>2, <2>2
      <3> QED
        BY <1>1, <1>4, <1>5, <3>1
    <2> QED
      BY <1>3, <2>1, <2>2
  <1>6. ShardOf(c, y) = CHOOSE k \in DOMAIN c.shards : In(k)
    BY DEF ShardOf, x, at, wd
  <1> HIDE DEF In
  <1> QED
    BY <1>4, <1>5, <1>6

\* A column of a shard's tile lies there.
LEMMA CellPlace ==
    ASSUME NEW c, PackedCall(c), NEW i \in DOMAIN c.shards, NEW n \in Nat, NEW w \in Warp, NEW y,
           y[2] = c.shards[i].col0 + 64 * n + 32 * w, 64 * n + 32 * w < c.shards[i].n
    PROVE  ShardOf(c, y) = i /\ TileOf(c, y) = n
  <1> DEFINE x == y[2]
             at == c.shards[i].col0
             wd == c.shards[i].n
  <1>1. at \in Nat /\ wd \in Nat \ {0} /\ w \in {0, 1} /\ x = at + 64 * n + 32 * w /\ 64 * n + 32 * w < wd
    BY DEF PackedCall, Warp
  <1> HIDE DEF x, at, wd
  <1>2. x \in at .. at + wd - 1
    BY <1>1
  <1>3. ShardOf(c, y) = i
    BY <1>2, ShardUnique DEF x, at, wd
  <1>4. (x - at) \div 64 = n
    <2>1. x - at = 64 * n + 32 * w
      BY <1>1
    <2>2. CASE w = 0
      <3>1. (64 * n + 32 * 0) \div 64 = n
        OBVIOUS
      <3> QED
        BY <2>1, <2>2, <3>1
    <2>3. CASE w = 1
      <3>1. (64 * n + 32 * 1) \div 64 = n
        OBVIOUS
      <3> QED
        BY <2>1, <2>3, <3>1
    <2> QED
      BY <1>1, <2>2, <2>3
  <1>5. TileOf(c, y) = (x - at) \div 64
    BY <1>3 DEF TileOf, x, at
  <1> QED
    BY <1>3, <1>4, <1>5

\* Terms laid behind those of the k-blocks before.
Behind(j, k, a, h) == (j - 1) \div h = a + (k - 1) \div h /\ (j - 1) % h = (k - 1) % h

\* The place of a term among those of the k-blocks from the first on.
LEMMA TermPlace ==
    ASSUME NEW h \in {1, 2}, NEW a \in Nat, NEW k \in Nat \ {0}, NEW j, j = a * h + k
    PROVE  Behind(j, k, a, h)
  <1>1. CASE h = 1
    <2>1. LET i == a * 1 + k IN (i - 1) \div 1 = a + (k - 1) \div 1 /\ (i - 1) % 1 = (k - 1) % 1
      OBVIOUS
    <2> QED
      BY <1>1, <2>1 DEF Behind
  <1>2. CASE h = 2
    <2>1. LET i == a * 2 + k IN (i - 1) \div 2 = a + (k - 1) \div 2 /\ (i - 1) % 2 = (k - 1) % 2
      OBVIOUS
    <2> QED
      BY <1>2, <2>1 DEF Behind
  <1> QED
    BY <1>1, <1>2

\* Parts that lie one behind the other, each as long as its run, begin where their
\* runs do.
RunsBehind(off, n, cut, h) == off[0] = 0 /\ \A s \in 1 .. n : off[s] = off[s - 1] + (cut[s] - cut[s - 1]) * h
RunsAt(off, n, cut, h) == \A s \in 0 .. n : off[s] = cut[s] * h

\* Runs laid one behind the other begin at their cuts.
LEMMA RunsLaid ==
    ASSUME NEW n \in Nat \ {0}, NEW nb \in Nat, NEW h \in {1, 2}, NEW cut, Cuts(cut, n, nb), NEW off \in [0 .. n -> Nat],
           RunsBehind(off, n, cut, h)
    PROVE  RunsAt(off, n, cut, h)
  <1> DEFINE Bad == {s \in 0 .. n : off[s] # cut[s] * h}
  <1> SUFFICES Bad = {}
    BY DEF RunsAt
  <1>0. off[0] = 0 /\ \A s \in 1 .. n : off[s] = off[s - 1] + (cut[s] - cut[s - 1]) * h
    BY DEF RunsBehind
  <1>1. \A s \in 0 .. n : cut[s] \in Nat /\ off[s] \in Nat
    BY DEF Cuts
  <1>2. cut[0] = 0
    BY DEF Cuts
  <1>3. Bad \subseteq Nat /\ 0 \notin Bad /\ \A s \in Bad : s \in 0 .. n /\ off[s] # cut[s] * h
    BY <1>0, <1>2
  <1>4. \A s \in 0 .. n : s \notin Bad => off[s] = cut[s] * h
    OBVIOUS
  <1> HIDE DEF Bad
  <1>5. ASSUME Bad # {}
        PROVE  FALSE
    <2>1. PICK s \in Bad : \A t \in Bad : s <= t
      BY <1>3, <1>5, LeastNat
    <2>2. s \in 1 .. n /\ s - 1 \in 0 .. n /\ s - 1 \notin Bad
      BY <1>3, <2>1
    <2>3. off[s - 1] = cut[s - 1] * h /\ off[s] = off[s - 1] + (cut[s] - cut[s - 1]) * h
      BY <1>0, <1>4, <2>2
    <2>4. cut[s] \in Nat /\ cut[s - 1] \in Nat
      BY <1>1, <2>2
    <2> DEFINE p == cut[s]
               q == cut[s - 1]
    <2>5. q * h + (p - q) * h = p * h
      <3>1. p \in Nat /\ q \in Nat
        BY <2>4
      <3> HIDE DEF p, q
      <3>2. CASE h = 1
        BY <3>1, <3>2
      <3>3. CASE h = 2
        BY <3>1, <3>3
      <3> QED
        BY <3>2, <3>3
    <2> QED
      BY <1>3, <2>1, <2>3, <2>5
  <1> QED
    BY <1>5

\* A position of a sequence of parts lies in one of them.
LEMMA PartAt ==
    ASSUME NEW n \in Nat, NEW off \in [0 .. n -> Nat], off[0] = 0, NEW j \in Nat \ {0}, j <= off[n]
    PROVE  \E s \in 1 .. n : off[s - 1] < j /\ j <= off[s]
  <1> DEFINE T == {s \in 0 .. n : j <= off[s]}
  <1>1. n \in T /\ T \subseteq Nat /\ 0 \notin T
    OBVIOUS
  <1>2. \A s \in T : s \in 0 .. n /\ j <= off[s]
    OBVIOUS
  <1>3. \A s \in 0 .. n : s \notin T => off[s] < j
    OBVIOUS
  <1> HIDE DEF T
  <1>4. PICK s \in T : \A t \in T : s <= t
    BY <1>1, LeastNat
  <1>5. s \in 1 .. n /\ s - 1 \in 0 .. n /\ s - 1 \notin T
    BY <1>1, <1>2, <1>4
  <1> QED
    BY <1>2, <1>3, <1>4, <1>5

\* The parts of all splits, one behind the other, are the whole cell.
LEMMA PartsMakeWhole ==
    ASSUME NEW c, c.nb \in Nat, NEW y, StagesOf(c, y) \in {1, 2}, NEW n \in Nat \ {0}, NEW cut, Cuts(cut, n, c.nb),
           NEW ss, Len(ss) = n, \A s \in 1 .. n : PartOf(c, y, cut[s - 1], cut[s], ss[s])
    PROVE  Whole(c, y, FlattenSeq(ss))
  <1> DEFINE h == StagesOf(c, y)
             flat == FlattenSeq(ss)
             len(s) == (cut[s] - cut[s - 1]) * h
             T == UNION {{ss[s][k] : k \in 1 .. len(s)} : s \in 1 .. n}
  <1>1. \A s \in 0 .. n : cut[s] \in Nat
    BY DEF Cuts
  <1>2. \A s \in 1 .. n : cut[s - 1] \in Nat /\ cut[s] \in Nat /\ cut[s - 1] <= cut[s]
    <2> TAKE s \in 1 .. n
    <2>1. s - 1 \in 0 .. n - 1 /\ s - 1 \in 0 .. n /\ s \in 0 .. n /\ (s - 1) + 1 = s
      OBVIOUS
    <2> QED
      BY <1>1, <2>1 DEF Cuts
  <1>3. \A s \in 1 .. n : len(s) \in Nat
    <2> TAKE s \in 1 .. n
    <2> DEFINE p == cut[s]
               q == cut[s - 1]
    <2>1. p \in Nat /\ q \in Nat /\ q <= p /\ h \in {1, 2}
      BY <1>2
    <2> HIDE DEF p, q, h
    <2>2. (p - q) * h \in Nat
      <3>1. CASE h = 1
        BY <2>1, <3>1
      <3>2. CASE h = 2
        BY <2>1, <3>2
      <3> QED
        BY <2>1, <3>1, <3>2
    <2> QED
      BY <2>2 DEF p, q
  <1>4. \A s \in 1 .. n : /\ ss[s] = [k \in 1 .. len(s) |-> ss[s][k]]
                          /\ \A k \in 1 .. len(s) : TermOf(c, y, cut[s - 1] + (k - 1) \div h, (k - 1) % h, ss[s][k])
    BY DEF PartOf
  <1>5. \A s \in 1 .. n : \A k \in 1 .. len(s) : ss[s][k] \in T
    OBVIOUS
  <1> HIDE DEF h, flat, len, T
  <1>6. \A s \in 1 .. n : ss[s] \in Seq(T) /\ Len(ss[s]) = len(s)
    <2> TAKE s \in 1 .. n
    <2> DEFINE m == len(s)
               f == ss[s]
    <2>1. f \in [1 .. m -> T] /\ m \in Nat
      BY <1>3, <1>4, <1>5
    <2> HIDE DEF m, f
    <2>2. f \in Seq(T) /\ Len(f) = m
      BY <2>1
    <2> QED
      BY <2>2 DEF m, f
  <1>7. flat \in Seq(T) /\ \E off : Laid(ss, n, off, flat)
    BY <1>6, FlattenLaw DEF flat
  <1>8. PICK off : Laid(ss, n, off, flat)
    BY <1>7
  <1>9. /\ off \in [0 .. n -> Nat] /\ off[0] = 0 /\ \A s \in 1 .. n : off[s] = off[s - 1] + len(s)
        /\ Len(flat) = off[n]
        /\ \A s \in 1 .. n : \A k \in 1 .. len(s) : flat[off[s - 1] + k] = ss[s][k]
    BY <1>6, <1>8 DEF Laid
  <1>10. \A s \in 0 .. n : off[s] = cut[s] * h
    <2>1. RunsBehind(off, n, cut, h)
      BY <1>9 DEF len, RunsBehind
    <2>2. off \in [0 .. n -> Nat]
      BY <1>9
    <2>3. h \in {1, 2}
      BY DEF h
    <2>4. RunsAt(off, n, cut, h)
      BY <2>1, <2>2, <2>3, RunsLaid
    <2> QED
      BY <2>4 DEF RunsAt
  <1>11. n \in 0 .. n /\ cut[n] = c.nb
    BY DEF Cuts
  <1>12. Len(flat) = c.nb * h
    BY <1>9, <1>10, <1>11
  <1>13. ASSUME NEW j \in 1 .. c.nb * h
         PROVE  TermOf(c, y, 0 + (j - 1) \div h, (j - 1) % h, flat[j])
    <2>1. j \in Nat \ {0} /\ j <= off[n]
      <3> DEFINE N == c.nb * h
      <3>1. N = off[n] /\ j \in 1 .. N /\ N \in Nat
        BY <1>9, <1>10, <1>11
      <3> HIDE DEF N
      <3> QED
        BY <3>1
    <2>2. PICK s \in 1 .. n : off[s - 1] < j /\ j <= off[s]
      BY <1>9, <2>1, PartAt
    <2>3. s - 1 \in 0 .. n /\ s \in 0 .. n
      OBVIOUS
    <2>4. off[s - 1] = cut[s - 1] * h /\ off[s] = off[s - 1] + len(s) /\ off[s - 1] \in Nat
      BY <1>9, <1>10, <2>3
    <2> DEFINE k == j - off[s - 1]
    <2>5. k \in 1 .. len(s) /\ k \in Nat \ {0} /\ j = cut[s - 1] * h + k
      <3> DEFINE o == off[s - 1]
                 l == len(s)
                 r == cut[s - 1] * h
      <3>1. o \in Nat /\ l \in Nat /\ o < j /\ j <= o + l /\ o = r
        BY <1>3, <2>2, <2>4
      <3>2. j \in Nat
        BY <2>1
      <3> HIDE DEF o, l, r
      <3>3. j - o \in 1 .. l /\ j - o \in Nat \ {0} /\ j = r + (j - o)
        BY <3>1, <3>2
      <3> QED
        BY <3>3 DEF o, l, r
    <2>6. flat[j] = ss[s][k]
      <3>1. flat[off[s - 1] + k] = ss[s][k]
        BY <1>9, <2>5
      <3>2. off[s - 1] + k = j
        BY <2>4, <2>5
      <3> QED
        BY <3>1, <3>2
    <2> HIDE DEF k
    <2>7. TermOf(c, y, cut[s - 1] + (k - 1) \div h, (k - 1) % h, ss[s][k])
      BY <1>4, <2>5
    <2>8. (j - 1) \div h = cut[s - 1] + (k - 1) \div h /\ (j - 1) % h = (k - 1) % h
      <3>1. cut[s - 1] \in Nat /\ h \in {1, 2}
        BY <1>2 DEF h
      <3> DEFINE a == cut[s - 1]
      <3>2. a \in Nat /\ k \in Nat \ {0} /\ j = a * h + k
        BY <2>5, <3>1
      <3> HIDE DEF a
      <3>3. Behind(j, k, a, h)
        BY <3>1, <3>2, TermPlace
      <3> QED
        BY <3>3 DEF a, Behind
    <2>9. 0 + (j - 1) \div h = (j - 1) \div h
      <3>1. h \in {1, 2} /\ j \in Nat
        BY <2>1 DEF h
      <3>2. (j - 1) \div 1 \in Int /\ (j - 1) \div 2 \in Int
        BY <3>1
      <3> QED
        BY <3>1, <3>2
    <2> QED
      BY <2>6, <2>7, <2>8, <2>9
  <1>14. flat = [k \in 1 .. c.nb * h |-> flat[k]]
    BY <1>7, <1>12
  <1>15. (c.nb - 0) * h = c.nb * h
    OBVIOUS
  <1> QED
    BY <1>13, <1>14, <1>15 DEF Whole, PartOf, h, flat

-----------------------------------------------------------------------------
(* The partial sums as parts of their cells.                               *)

\* Where the runs of the launch's splits begin.
OnCuts(cut) == Cuts(cut, Splits, call.nb) /\ \A j \in DOMAIN Ctas : OnSplit(call, Ctas[j], cut, Splits)
TheCut == CHOOSE cut : OnCuts(cut)

\* The running launch is cut into the runs of its splits.
LEMMA CutIs ==
    ASSUME StreamInv, Running
    PROVE  OnCuts(TheCut)
  <1>1. Launched(call, stream[1]) /\ Ctas = stream[1].ctas
    BY LaunchShape
  <1>2. PICK S, first, past : Spans(call, stream[1], S, first, past)
    BY <1>1 DEF Launched
  <1>3. \E cut : OnCuts(cut)
    BY <1>1, <1>2 DEF Spans, OnCuts, Splits
  <1> QED
    BY <1>3 DEF TheCut

\* Within a launch the cuts stay what they are.
LEMMA SameCut ==
    ASSUME UNCHANGED <<call, stream>>
    PROVE  TheCut' = TheCut
  <1>1. Ctas' = Ctas /\ Splits' = Splits
    BY SameLaunch
  <1>2. \A cut : OnCuts(cut)' <=> OnCuts(cut)
    BY <1>1 DEF OnCuts
  <1> QED
    BY <1>1 DEF TheCut, OnCuts

\* A cell that a CTA on tile n of shard i stores to lies there.
LEMMA StoredPlace ==
    ASSUME StreamInv, Running, NEW j \in DOMAIN Ctas, NEW i, NEW n \in Nat, OnTile(call, Ctas[j], i, n),
           NEW w \in Warp, NEW y \in Stores(Ctas[j], w)
    PROVE  /\ i \in DOMAIN call.shards /\ y[2] = call.shards[i].col0 + 64 * n + 32 * w
           /\ 64 * n + 32 * w < call.shards[i].n
           /\ ShardOf(call, y) = i /\ TileOf(call, y) = n
  <1>1. PackedCall(call)
    BY DEF StreamInv, CallInv
  <1>2. y[2] = Ctas[j].col0 + 32 * w
    BY CellsOfWarp
  <1>3. Ctas[j].col0 + 32 * w < Ctas[j].limit
    BY DEF Stores, ColHalf
  <1>4. /\ i \in DOMAIN call.shards /\ Ctas[j].col0 = call.shards[i].col0 + 64 * n
        /\ \A v \in Warp : 64 * n + 32 * v < call.shards[i].n <=> Ctas[j].col0 + 32 * v < Ctas[j].limit
    BY DEF OnTile
  <1>5. 64 * n + 32 * w < call.shards[i].n
    BY <1>3, <1>4
  <1>6. y[2] = call.shards[i].col0 + 64 * n + 32 * w
    BY <1>2, <1>4
  <1> QED
    BY <1>1, <1>4, <1>5, <1>6, CellPlace

\* The first stages of a CTA are those of its run of the cell's k-blocks.
LEMMA StagesArePart ==
    ASSUME NEW c, NEW y, NEW x, NEW a \in Nat, NEW b \in Nat, StagesOf(c, y) \in {1, 2}, StagesOf(c, y) = x.kernel.nst,
           x.kb0 \in Nat, x.kb1 \in Nat, IF x.kb0 < x.kb1 THEN x.kb0 = a /\ x.kb1 = b ELSE a = b,
           x.rows[1] <= 16 * y[1], 16 * y[1] < x.rows[2]
    PROVE  PartOf(c, y, a, b, FirstStages(x, ShardOf(c, y), TileOf(c, y), Steps(x)))
  <1> DEFINE h == StagesOf(c, y)
             i == ShardOf(c, y)
             n == TileOf(c, y)
             N == Steps(x)
             f == FirstStages(x, i, n, N)
  <1>1. f = [k \in 1 .. N |-> Multiplied(x, i, n, k - 1)]
    BY DEF FirstStages
  <1>2. CASE x.kb0 < x.kb1
    <2>1. N = (b - a) * h
      BY <1>2 DEF Steps, NTiles
    <2>2. ASSUME NEW k \in 1 .. N
          PROVE  TermOf(c, y, a + (k - 1) \div h, (k - 1) % h, f[k])
      <3>1. f[k] = Multiplied(x, i, n, k - 1)
        BY <1>1
      <3>2. KBlock(x, k - 1) = a + (k - 1) \div h /\ HalfOf(x, k - 1) = (k - 1) % h
        BY <1>2 DEF KBlock, HalfOf
      <3> DEFINE kb == KBlock(x, k - 1)
                 hf == HalfOf(x, k - 1)
      <3>3. f[k] = [weights |-> <<i, n, kb, hf>>, acts |-> <<kb, x.rows>>, scale |-> kb]
        BY <3>1 DEF Multiplied
      <3> HIDE DEF f, kb, hf, i, n, h
      <3>4. f[k].weights = <<i, n, kb, hf>> /\ f[k].acts[1] = kb /\ f[k].scale = kb /\ f[k].acts[2] = x.rows
        BY <3>3
      <3> QED
        BY <3>2, <3>4 DEF TermOf, kb, hf, i, n
    <2>3. f = [k \in 1 .. N |-> f[k]]
      BY <1>1
    <2> HIDE DEF f, N
    <2> QED
      BY <2>1, <2>2, <2>3 DEF PartOf, f, h, i, n, N
  <1>3. CASE ~(x.kb0 < x.kb1)
    <2>1. N = 0 /\ (b - a) * h = 0
      <3>1. NTiles(x) = 0 /\ b - a = 0
        BY <1>3 DEF NTiles
      <3>2. N = 0 * h /\ (b - a) * h = 0 * h
        BY <3>1 DEF Steps
      <3> QED
        BY <3>2
    <2>2. f = [k \in 1 .. 0 |-> f[k]]
      BY <1>1, <2>1
    <2> HIDE DEF f, N
    <2>3. \A k \in 1 .. 0 : TermOf(c, y, a + (k - 1) \div h, (k - 1) % h, f[k])
      OBVIOUS
    <2> QED
      BY <2>1, <2>2, <2>3 DEF PartOf, f, h, i, n, N
  <1> QED
    BY <1>2, <1>3

\* Once the k-loops of a launch are over, a warp holds its split's part of each
\* cell it stores to.
LEMMA SumPart ==
    ASSUME EpilogueInv, SumsInv, InEpilogue, NEW i \in DOMAIN Ctas, NEW w \in Warp, NEW y \in Stores(Ctas[i], w)
    PROVE  /\ Ctas[i].split \in 0 .. Splits - 1
           /\ PartOf(call, y, TheCut[Ctas[i].split], TheCut[Ctas[i].split + 1], sums[i][w])
           /\ StagesOf(call, y) \in {1, 2}
  <1> DEFINE x == Ctas[i]
             s == x.split
  <1>1. StreamInv /\ Running /\ PackedCall(call)
    BY DEF EpilogueInv, InEpilogue, StreamInv, CallInv
  <1>2. OnCall(x) /\ Len(Ctas) \in Nat /\ DOMAIN Ctas = 1 .. Len(Ctas)
    BY <1>1, LaunchShape
  <1>3. PICK sh : \E n \in Nat : OnTile(call, x, sh, n)
    BY <1>2 DEF OnCall
  <1>4. PICK n \in Nat : OnTile(call, x, sh, n)
    BY <1>3
  <1>5. x.kb0 \in Nat /\ x.kb1 \in 0 .. call.nb /\ call.nb \in Nat
    BY <1>1, <1>2 DEF OnCall, PackedCall
  <1>6. ShardOf(call, y) = sh /\ TileOf(call, y) = n
    BY <1>1, <1>4, StoredPlace
  <1>7. StagesOf(call, y) = x.kernel.nst /\ x.kernel.nst \in {1, 2}
    <2>1. /\ Layout(x.kernel) /\ x.kernel.raw = (call.op = "raw")
          /\ IF x.kernel.raw THEN x.kernel.nst = 1 ELSE x.kernel.nst = Halves[call.shards[sh].type]
      BY <1>1, <1>4, CtaKernel DEF CallInv
    <2> QED
      BY <1>6, <2>1 DEF StagesOf, Layout
  <1>8. OnCuts(TheCut)
    BY <1>1, CutIs
  <1>9. /\ s \in 0 .. Splits - 1 /\ RunOfSplit(x.kb0, x.kb1, TheCut, s, call.nb)
    BY <1>8 DEF OnCuts, OnSplit
  <1>10. TheCut[s] \in Nat /\ TheCut[s + 1] \in Nat
    <2>1. Splits \in Nat
      BY <1>1, LaunchShape
    <2> HIDE DEF s
    <2>2. s \in 0 .. Splits /\ s + 1 \in 0 .. Splits
      BY <1>9, <2>1
    <2> QED
      BY <1>8, <2>2 DEF OnCuts, Cuts
  <1>11. x.rows[1] <= 16 * y[1] /\ 16 * y[1] < x.rows[2]
    BY <1>1, CellsOfWarp
  <1>12. x.kb1 \in Nat
    BY <1>5
  <1>13. PartOf(call, y, TheCut[s], TheCut[s + 1], FirstStages(x, ShardOf(call, y), TileOf(call, y), Steps(x)))
    BY <1>5, <1>7, <1>9, <1>10, <1>11, <1>12, StagesArePart DEF RunOfSplit
  <1>14. sums[i][w] = FirstStages(x, sh, n, Steps(x))
    <2>1. i \in 1 .. cta - 1
      <3>1. cta \in 1 .. Len(Ctas) + 1 /\ cta > Len(Ctas)
        BY <1>1 DEF EpilogueInv, EpilogueTypes, InEpilogue
      <3> QED
        BY <1>2, <3>1
    <2>2. WholeSum(call, x, sums[i][w])
      BY <1>1, <2>1 DEF SumsInv
    <2> QED
      BY <1>4, <2>2 DEF WholeSum
  <1> QED
    BY <1>6, <1>7, <1>9, <1>13, <1>14

-----------------------------------------------------------------------------
(* Who stores to a cell.                                                   *)

\* Some warp of the launch stores to cell y.
ReachesCell(L, y) == \E j \in DOMAIN L.ctas, w \in Warp : y \in Stores(L.ctas[j], w)

\* A column half is one of the two of its tile.
LEMMA Halved ==
    ASSUME NEW h \in Nat
    PROVE  h \div 2 \in Nat /\ h % 2 \in {0, 1} /\ h = 2 * (h \div 2) + (h % 2)
  <1>1. h % 2 \in 0 .. 2 - 1 /\ h = 2 * (h \div 2) + (h % 2)
    BY DivMod
  <1>2. h \div 2 \in Nat
    OBVIOUS
  <1>3. h % 2 \in {0, 1}
    BY <1>1
  <1> QED
    BY <1>1, <1>2, <1>3

\* A launch over a shard has, for every split, a warp that stores to each of the
\* shard's cells in the launch's rows.
LEMMA UnitStored ==
    ASSUME NEW c, PackedCall(c), NEW L, NEW S, NEW first, NEW past, Spans(c, L, S, first, past), NEW i \in S,
           NEW h \in 0 .. CeilDiv(c.shards[i].n, 32) - 1, NEW u \in Nat, HoldsUnit(<<first, past>>, u),
           NEW y, y = <<u, c.shards[i].col0 + 32 * h>>, NEW s \in 0 .. L.splits - 1
    PROVE  \E j \in DOMAIN L.ctas, w \in Warp : L.ctas[j].split = s /\ y \in Stores(L.ctas[j], w)
  <1> DEFINE N == c.shards[i].n
             at == c.shards[i].col0
             n == h \div 2
             w == h % 2
  <1>1. i \in DOMAIN c.shards /\ N \in Nat \ {0} /\ at \in Nat
    BY DEF Spans, PackedCall
  <1>2. h \in Nat /\ n \in Nat /\ w \in {0, 1} /\ h = 2 * n + w /\ 32 * h < N
    <2>1. h \in 0 .. CeilDiv(N, 32) - 1 /\ N \in Nat
      BY <1>1
    <2> HIDE DEF N
    <2>2. h \in Nat /\ 32 * h < N
      BY <2>1 DEF CeilDiv
    <2>3. h \div 2 \in Nat /\ h % 2 \in {0, 1} /\ h = 2 * (h \div 2) + (h % 2)
      BY <2>2, Halved
    <2> QED
      BY <2>2, <2>3
  <1> HIDE DEF n, w
  <1>3. n \in 0 .. Tiles(c.shards[i]) - 1
    <2>1. 64 * n < N
      <3> HIDE DEF N
      <3> QED
        BY <1>1, <1>2
    <2>2. n < Tiles(c.shards[i]) /\ Tiles(c.shards[i]) \in Nat
      BY <1>1, <1>2, <2>1, TilesWhole
    <2> DEFINE t == Tiles(c.shards[i])
    <2> HIDE DEF t
    <2> QED
      BY <1>2, <2>2 DEF t
  <1>4. first <= 16 * u /\ 16 * u < past
    BY DEF HoldsUnit
  <1>5. PICK j \in DOMAIN L.ctas :
             /\ OnTile(c, L.ctas[j], i, n) /\ L.ctas[j].split = s
             /\ L.ctas[j].rows[1] <= 16 * u /\ 16 * u < L.ctas[j].rows[2]
    BY <1>3, <1>4 DEF Spans
  <1> DEFINE x == L.ctas[j]
             a == x.rows[1]
             b == x.rows[2]
  <1>6. first \in Nat /\ past \in Int /\ a \in first .. past - 1 /\ b \in a + 1 .. past
    <2>1. first \in Nat /\ past \in first + 1 .. c.m /\ c.m \in Nat
      BY DEF Spans, PackedCall
    <2>2. past \in Int
      BY <2>1
    <2>3. OnRows(x, first, past)
      BY DEF Spans
    <2> QED
      BY <2>1, <2>2, <2>3 DEF OnRows
  <1>7. u \in Units(x)
    <2>1. a \in Nat /\ b \in Nat /\ a <= 16 * u /\ 16 * u < b
      BY <1>5, <1>6
    <2> HIDE DEF a, b
    <2>2. u \in a \div 16 .. CeilDiv(b, 16) - 1
      BY <2>1 DEF CeilDiv
    <2> QED
      BY <2>2 DEF Units, a, b
  <1>8. w \in Warp
    BY <1>2 DEF Warp
  <1>9. x.col0 = at + 64 * n /\ (64 * n + 32 * w < N <=> x.col0 + 32 * w < x.limit)
    BY <1>5, <1>8 DEF OnTile
  <1>10. 64 * n + 32 * w = 32 * h
    BY <1>2
  <1>11. ColHalf(x, w) < x.limit
    BY <1>2, <1>9, <1>10 DEF ColHalf
  <1>12. ColHalf(x, w) = at + 32 * h
    <2>1. ColHalf(x, w) = (at + 64 * n) + 32 * w
      BY <1>9 DEF ColHalf
    <2> HIDE DEF at
    <2> QED
      BY <1>1, <1>2, <2>1
  <1>13. y \in Stores(x, w)
    BY <1>7, <1>11, <1>12 DEF Stores
  <1> QED
    BY <1>5, <1>8, <1>13

\* The cells of the output.
OutCells == RowUnits(call) \X ColHalves(call)

\* A warp stores to cells of the output.
LEMMA StoredInOut ==
    ASSUME StreamInv, Running, NEW i \in DOMAIN Ctas, NEW w \in Warp, NEW y \in Stores(Ctas[i], w)
    PROVE  y \in OutCells
  BY CellsOfWarp DEF OutCells

\* The CTAs of a tile store to the same cells, one for each split.
LEMMA TicketStores ==
    ASSUME StreamInv, Running, Reduces, NEW i \in DOMAIN Ctas
    PROVE  /\ \A j \in Ticket(Ctas[i].counter), w \in Warp : Stores(Ctas[j], w) = Stores(Ctas[i], w)
           /\ \A s \in 0 .. Splits - 1 : \E j \in Ticket(Ctas[i].counter) : Ctas[j].split = s
  <1>1. Splits \in Nat \ {0, 1}
    BY LaunchGrid
  <1>2. PICK tiles, shard, first, past : Grid(tiles, shard, first, past)
    BY LaunchGrid
  <1> DEFINE n == Ctas[i].counter
  <1>3. ASSUME NEW j \in Ticket(n), NEW w \in Warp
        PROVE  Stores(Ctas[j], w) = Stores(Ctas[i], w)
    <2>1. j \in DOMAIN Ctas /\ Ctas[j].counter = Ctas[i].counter
      BY DEF Ticket
    <2>2. /\ Ctas[j].col0 = Ctas[i].col0 /\ Ctas[j].limit = Ctas[i].limit
          /\ Ctas[j].rows[1] = Ctas[i].rows[1] /\ Ctas[j].rows[2] = Ctas[i].rows[2]
      BY <1>2, <2>1 DEF Grid
    <2> QED
      BY <2>2 DEF Stores, Units, ColHalf
  <1>4. ASSUME NEW s \in 0 .. Splits - 1
        PROVE  \E j \in Ticket(n) : Ctas[j].split = s
    <2> DEFINE j == Splits * n + s + 1
               d == Splits
    <2>1. i \in 1 .. tiles * d /\ n = (i - 1) \div d /\ tiles \in Nat /\ DOMAIN Ctas = 1 .. tiles * d
      <3>1. tiles \in 1 .. Counters /\ Counters \in Nat
        BY <1>2, CountersAssumption DEF Grid
      <3> QED
        BY <1>2, <3>1 DEF Grid
    <2>2. d \in Nat \ {0} /\ s \in 0 .. d - 1
      BY <1>1
    <2> HIDE DEF d, n
    <2>3. i - 1 \in Nat /\ i - 1 < tiles * d
      <3> DEFINE p == tiles * d
      <3>1. p \in Nat /\ i \in 1 .. p
        BY <2>1, <2>2
      <3> HIDE DEF p
      <3>2. i - 1 \in Nat /\ i - 1 < p
        BY <3>1
      <3> QED
        BY <3>2 DEF p
    <2>4. n \in 0 .. tiles - 1
      BY <2>1, <2>2, <2>3, QuotientBelow
    <2>5. d * n + s < tiles * d
      BY <2>1, <2>2, <2>4, WrittenBelow
    <2>6. (d * n + s) \div d = n /\ (d * n + s) % d = s /\ d * n + s \in Nat
      BY <2>2, <2>4, QuotientOf
    <2>7. j = (d * n + s) + 1
      BY DEF d
    <2>8. j \in 1 .. tiles * d /\ j - 1 = d * n + s
      <3> DEFINE p == tiles * d
                 q == d * n + s
      <3>1. p \in Nat /\ q \in Nat /\ q < p /\ j = q + 1
        BY <2>1, <2>2, <2>5, <2>6, <2>7
      <3> HIDE DEF p, q, j
      <3>2. j \in 1 .. p /\ j - 1 = q
        BY <3>1
      <3> QED
        BY <3>2 DEF p, q
    <2> HIDE DEF j
    <2>9. j \in DOMAIN Ctas
      BY <2>1, <2>8
    <2>10. Ctas[j].counter = (j - 1) \div d /\ Ctas[j].split = (j - 1) % d
      BY <1>2, <2>9 DEF Grid, d
    <2>11. Ctas[j].counter = n /\ Ctas[j].split = s
      BY <2>6, <2>8, <2>10
    <2> QED
      BY <2>9, <2>11 DEF Ticket
  <1> QED
    BY <1>3, <1>4

-----------------------------------------------------------------------------
(* The slices of a launch whose splits the launcher sums.                  *)

\* A CTA that is done has left its split's part of each of its cells in its slice.
SlicesStored ==
    InEpilogue /\ ~Reduces /\ Splits # 1 => \A i \in DOMAIN epi, w \in Warp : epi[i][w] = "done" =>
        \A y \in Stores(Ctas[i], w) :
            PartOf(call, y, TheCut[Ctas[i].split], TheCut[Ctas[i].split + 1], partial[SlotOf(i, y)])

\* A cell that is not whole yet is stored to by a launch or an epilogue to come.
CtasToCome(y) ==
    Running /\ \E i \in DOMAIN Ctas, w \in Warp :
        y \in Stores(Ctas[i], w) /\ (epi[i][w] # "done" \/ (~Reduces /\ Splits # 1))
LaunchesToCome(y) == \E l \in 2 .. Len(stream) : ReachesCell(stream[l], y)

\* Every cell of the output is whole, or some epilogue or launch to come writes it.
OutInv ==
    /\ DOMAIN out = OutCells
    /\ \A y \in OutCells : Whole(call, y, out[y]) \/ CtasToCome(y) \/ LaunchesToCome(y)

\* A step that finishes no epilogue and writes no output.
LEMMA OutStays ==
    ASSUME OutInv, UNCHANGED <<call, stream, out>>,
           \A i \in DOMAIN Ctas, w \in Warp : epi[i][w] # "done" => epi'[i][w] # "done"
    PROVE  OutInv'
  <1>1. Ctas' = Ctas /\ Splits' = Splits /\ Reduces' = Reduces /\ Running' = Running
    BY SameLaunch
  <1>2. ASSUME NEW y, CtasToCome(y)
        PROVE  CtasToCome(y)'
    BY <1>1, <1>2 DEF CtasToCome
  <1>3. OutCells' = OutCells /\ \A y : LaunchesToCome(y)' <=> LaunchesToCome(y)
    BY DEF OutCells, LaunchesToCome
  <1> QED
    BY <1>2, <1>3 DEF OutInv

\* What an epilogue step has to show of the slices.
LEMMA SlicesStay ==
    ASSUME SlicesStored, UNCHANGED <<call, stream, cta, epi, partial>>
    PROVE  SlicesStored'
  <1>1. /\ Ctas' = Ctas /\ Splits' = Splits /\ Reduces' = Reduces /\ Running' = Running
        /\ \A i, y : SlotOf(i, y)' = SlotOf(i, y)
    BY SameLaunch
  <1>2. TheCut' = TheCut
    BY SameCut
  <1>3. InEpilogue' = InEpilogue
    BY <1>1 DEF InEpilogue
  <1> QED
    BY <1>1, <1>2, <1>3 DEF SlicesStored

\* Nothing is asked of the slices outside the epilogues of a launch that leaves them.
LEMMA NoSlices == ~InEpilogue' \/ Reduces' \/ (\A i \in DOMAIN epi', w \in Warp : epi'[i][w] # "done") => SlicesStored'
  BY DEF SlicesStored

\* Warps that store to the same slot store the same split's part of the same cell.
LEMMA SlotIsCell ==
    ASSUME StreamInv, Running,
           NEW i \in DOMAIN Ctas, NEW v \in Warp, NEW y \in Stores(Ctas[i], v),
           NEW j \in DOMAIN Ctas, NEW w \in Warp, NEW z \in Stores(Ctas[j], w),
           SlotOf(i, y) = SlotOf(j, z)
    PROVE  Ctas[i].split = Ctas[j].split /\ y = z
  <1>1. y = <<y[1], y[2]>> /\ y[1] \in Nat /\ SlotOf(i, y) = <<Ctas[i].split, y[1] - FirstUnit, y[2]>>
    BY CellsOfWarp
  <1>2. z = <<z[1], z[2]>> /\ z[1] \in Nat /\ SlotOf(j, z) = <<Ctas[j].split, z[1] - FirstUnit, z[2]>>
    BY CellsOfWarp
  <1>3. FirstUnit \in Nat
    BY FirstUnitIs
  <1>4. Ctas[i].split = Ctas[j].split /\ y[1] - FirstUnit = z[1] - FirstUnit /\ y[2] = z[2]
    <2> DEFINE a == Ctas[i].split
               b == Ctas[j].split
               d == y[1] - FirstUnit
               e == z[1] - FirstUnit
    <2>1. <<a, d, y[2]>> = <<b, e, z[2]>>
      BY <1>1, <1>2
    <2> HIDE DEF a, b, d, e
    <2>2. a = b /\ d = e /\ y[2] = z[2]
      BY <2>1
    <2> QED
      BY <2>2 DEF a, b, d, e
  <1>5. y[1] = z[1]
    BY <1>1, <1>2, <1>3, <1>4
  <1> QED
    BY <1>1, <1>2, <1>4, <1>5

\* An epilogue of the running launch.
LEMMA InAnEpilogue ==
    ASSUME EpilogueInv, InEpilogue
    PROVE  StreamInv /\ Running /\ DOMAIN epi = DOMAIN Ctas /\ epi \in [DOMAIN Ctas -> [Warp -> EpilogueState]]
  BY DEF EpilogueInv, EpilogueTypes, InEpilogue

\* A split of one is the whole cell.
LEMMA OneSplitWhole ==
    ASSUME EpilogueInv, SumsInv, InEpilogue, Splits = 1, NEW i \in DOMAIN Ctas, NEW w \in Warp, NEW y \in Stores(Ctas[i], w)
    PROVE  Whole(call, y, sums[i][w])
  <1>1. /\ Ctas[i].split \in 0 .. Splits - 1
        /\ PartOf(call, y, TheCut[Ctas[i].split], TheCut[Ctas[i].split + 1], sums[i][w])
    BY SumPart
  <1>2. Ctas[i].split = 0
    BY <1>1
  <1>3. OnCuts(TheCut)
    BY CutIs, InAnEpilogue
  <1>4. TheCut[0] = 0 /\ TheCut[1] = call.nb
    BY <1>3 DEF OnCuts, Cuts
  <1>5. PartOf(call, y, TheCut[0], TheCut[0 + 1], sums[i][w])
    BY <1>1, <1>2
  <1>6. 0 + 1 = 1
    OBVIOUS
  <1> QED
    BY <1>4, <1>5, <1>6 DEF Whole

\* A slice, or with a single split the output, gets the sum of its CTA.
LEMMA StoreSliceOut ==
    ASSUME EpilogueInv, SumsInv, OutInv, SlicesStored, NEW i \in DOMAIN epi, StoreSlice(i)
    PROVE  OutInv' /\ SlicesStored'
  <1> DEFINE cells(w) == Stores(Ctas[i], w) \cap DOMAIN out
             written == [w \in Warp |-> {Slot16(Ctas[i].split, x) : x \in cells(w)}]
  <1>1. /\ InEpilogue /\ ~Reduces /\ UNCHANGED <<call, stream, cta, sums>>
        /\ epi' = [epi EXCEPT ![i] = EachWarp("done")]
    BY DEF StoreSlice
  <1>2. /\ Ctas' = Ctas /\ Splits' = Splits /\ Reduces' = Reduces /\ Running' = Running
        /\ \A j, y : SlotOf(j, y)' = SlotOf(j, y)
    BY <1>1, SameLaunch
  <1>3. TheCut' = TheCut /\ OutCells' = OutCells /\ (\A y : LaunchesToCome(y)' <=> LaunchesToCome(y))
    BY <1>1, SameCut DEF OutCells, LaunchesToCome
  <1>4. StreamInv /\ Running /\ DOMAIN epi = DOMAIN Ctas /\ i \in DOMAIN Ctas /\ DOMAIN epi' = DOMAIN Ctas
    BY <1>1, InAnEpilogue
  <1>5. \A j \in DOMAIN Ctas \ {i} : epi'[j] = epi[j]
    BY <1>1, <1>4
  <1>6. \A w \in Warp : Stores(Ctas[i], w) = cells(w)
    BY <1>4, StoredInOut DEF OutInv
  <1>7. DOMAIN out = OutCells
    BY DEF OutInv
  <1>8. CASE Splits = 1
    <2>1. out' = [x \in DOMAIN out |->
                    IF \E w \in Warp : x \in cells(w) THEN sums[i][CHOOSE w \in Warp : x \in cells(w)] ELSE out[x]]
      BY <1>8 DEF StoreSlice
    <2>2. ASSUME NEW y \in OutCells
          PROVE  Whole(call, y, out'[y]) \/ CtasToCome(y)' \/ LaunchesToCome(y)
      <3>1. CASE \E w \in Warp : y \in cells(w)
        <4>1. PICK v \in Warp : y \in cells(v) /\ out'[y] = sums[i][v]
          BY <1>7, <2>1, <3>1
        <4>2. y \in Stores(Ctas[i], v)
          BY <4>1
        <4>3. Whole(call, y, sums[i][v])
          BY <1>1, <1>4, <1>8, <4>2, OneSplitWhole
        <4> QED
          BY <4>1, <4>3
      <3>2. CASE \A w \in Warp : y \notin cells(w)
        <4>1. out'[y] = out[y]
          BY <1>7, <2>1, <3>2
        <4>2. ASSUME CtasToCome(y)
              PROVE  CtasToCome(y)'
          <5>1. PICK j \in DOMAIN Ctas : \E w \in Warp : y \in Stores(Ctas[j], w) /\ epi[j][w] # "done"
            BY <1>8, <4>2 DEF CtasToCome
          <5>2. j # i
            BY <1>6, <3>2, <5>1
          <5> QED
            BY <1>2, <1>4, <1>5, <5>1, <5>2 DEF CtasToCome
        <4> QED
          BY <4>1, <4>2 DEF OutInv
      <3> QED
        BY <3>1, <3>2
    <2>3. DOMAIN out' = OutCells
      BY <1>7, <2>1
    <2>4. OutInv'
      BY <1>1, <1>3, <2>2, <2>3 DEF OutInv
    <2>5. SlicesStored'
      BY <1>2, <1>8 DEF SlicesStored
    <2> QED
      BY <2>4, <2>5
  <1>9. CASE Splits # 1
    <2>1. /\ UNCHANGED out
          /\ partial' = [x \in DOMAIN partial |->
                 IF \E w \in Warp : x \in written[w] THEN sums[i][CHOOSE w \in Warp : x \in written[w]] ELSE partial[x]]
      BY <1>9 DEF StoreSlice
    <2>2. \A y : CtasToCome(y) => CtasToCome(y)'
      BY <1>1, <1>2, <1>9 DEF CtasToCome
    <2>3. OutInv'
      BY <1>1, <1>3, <2>1, <2>2 DEF OutInv
    <2>4. ASSUME NEW j \in DOMAIN Ctas, NEW w \in Warp, epi'[j][w] = "done", NEW y \in Stores(Ctas[j], w)
          PROVE  PartOf(call, y, TheCut[Ctas[j].split], TheCut[Ctas[j].split + 1], partial'[SlotOf(j, y)])
      <3> DEFINE z == SlotOf(j, y)
      <3>1. z \in DOMAIN partial
        BY <1>4, SlotsInBuffer DEF EpilogueInv, EpilogueTypes
      <3>2. CASE \E v \in Warp : z \in written[v]
        <4>1. PICK v \in Warp : z \in written[v] /\ partial'[z] = sums[i][v]
          BY <2>1, <3>1, <3>2
        <4>2. PICK x \in cells(v) : z = SlotOf(i, x)
          BY <4>1 DEF SlotOf
        <4>3. x \in Stores(Ctas[i], v)
          OBVIOUS
        <4>4. Ctas[i].split = Ctas[j].split /\ x = y
          BY <1>4, <4>2, <4>3, SlotIsCell
        <4>5. PartOf(call, x, TheCut[Ctas[i].split], TheCut[Ctas[i].split + 1], sums[i][v])
          BY <1>1, <1>4, <4>3, SumPart
        <4> QED
          BY <4>1, <4>4, <4>5
      <3>3. CASE \A v \in Warp : z \notin written[v]
        <4>1. partial'[z] = partial[z]
          BY <2>1, <3>1, <3>3
        <4>2. j # i
          <5>1. j = i => z \in written[w]
            BY <1>6 DEF SlotOf
          <5> QED
            BY <3>3, <5>1
        <4>3. epi[j][w] = "done"
          BY <1>5, <2>4, <4>2
        <4> QED
          BY <1>1, <1>4, <1>9, <4>1, <4>3 DEF SlicesStored
      <3> QED
        BY <3>2, <3>3
    <2>5. SlicesStored'
      BY <1>1, <1>2, <1>3, <1>4, <2>4 DEF SlicesStored
    <2> QED
      BY <2>3, <2>5
  <1> QED
    BY <1>8, <1>9

\* A cell's partials, one of each split, sum to the whole cell.
LEMMA SummedWhole ==
    ASSUME EpilogueInv, InEpilogue, NEW y, StagesOf(call, y) \in {1, 2},
           \A s \in 1 .. Splits : PartOf(call, y, TheCut[s - 1], TheCut[s], partial[Slot16(s - 1, y)])
    PROVE  Whole(call, y, FlattenSeq([s \in 1 .. Splits |-> partial[Slot16(s - 1, y)]]))
  <1> DEFINE ss == [s \in 1 .. Splits |-> partial[Slot16(s - 1, y)]]
  <1>1. StreamInv /\ Running
    BY InAnEpilogue
  <1>2. Splits \in Nat \ {0} /\ call.nb \in Nat
    BY <1>1, LaunchShape
  <1>3. Cuts(TheCut, Splits, call.nb)
    BY <1>1, CutIs DEF OnCuts
  <1>4. Len(ss) = Splits
    BY <1>2
  <1>5. \A s \in 1 .. Splits : PartOf(call, y, TheCut[s - 1], TheCut[s], ss[s])
    OBVIOUS
  <1> HIDE DEF ss
  <1>6. Whole(call, y, FlattenSeq(ss))
    BY <1>2, <1>3, <1>4, <1>5, PartsMakeWhole
  <1> QED
    BY <1>6 DEF ss

\* The last arrival of a tile sums its cells.
LEMMA TileSummed ==
    ASSUME EpilogueInv, SumsInv, InEpilogue, NEW i \in DOMAIN Ctas, NEW w \in Warp, epi[i][w] = "last",
           NEW y \in Stores(Ctas[i], w)
    PROVE  Whole(call, y, FlattenSeq([s \in 1 .. Splits |-> partial[Slot16(s - 1, y)]]))
  <1>1. StreamInv /\ Running /\ i \in DOMAIN epi
    BY InAnEpilogue
  <1>2. Reduces /\ Splits \in Nat
    BY <1>1, OnlyLast, LaunchShape
  <1>3. StagesOf(call, y) \in {1, 2}
    BY SumPart
  <1>4. ASSUME NEW s \in 1 .. Splits
        PROVE  PartOf(call, y, TheCut[s - 1], TheCut[s], partial[Slot16(s - 1, y)])
    <2>1. s - 1 \in 0 .. Splits - 1 /\ (s - 1) + 1 = s
      BY <1>2
    <2>2. PICK j \in Ticket(Ctas[i].counter) : Ctas[j].split = s - 1
      BY <1>1, <1>2, <2>1, TicketStores
    <2>3. y \in Stores(Ctas[j], w)
      BY <1>1, <1>2, TicketStores
    <2>4. j \in {k \in DOMAIN Ctas : Ctas[k].counter = Ctas[i].counter} /\ j \in DOMAIN Ctas
      BY DEF Ticket
    <2>5. partial[Slot16(Ctas[j].split, y)] = sums[j][w]
      BY <1>1, <2>3, <2>4, EveryPartialSeen DEF LastSeesEveryPartial
    <2>6. PartOf(call, y, TheCut[Ctas[j].split], TheCut[Ctas[j].split + 1], sums[j][w])
      BY <2>3, <2>4, SumPart
    <2> QED
      BY <2>1, <2>2, <2>5, <2>6
  <1> QED
    BY <1>3, <1>4, SummedWhole

\* The last CTA of a tile makes its cells whole.
LEMMA ReduceOut ==
    ASSUME EpilogueInv, SumsInv, OutInv, NEW i \in DOMAIN epi, NEW w \in Warp, Reduce(i, w)
    PROVE  OutInv' /\ SlicesStored'
  <1>1. /\ InEpilogue /\ epi[i][w] = "last" /\ UNCHANGED <<call, stream, cta>>
        /\ epi' = [epi EXCEPT ![i][w] = "done"]
        /\ out' = [x \in DOMAIN out |->
              IF x \in Stores(Ctas[i], w) THEN FlattenSeq([s \in 1 .. Splits |-> partial[Slot16(s - 1, x)]]) ELSE out[x]]
    BY DEF Reduce
  <1>2. Ctas' = Ctas /\ Splits' = Splits /\ Reduces' = Reduces /\ Running' = Running
    BY <1>1, SameLaunch
  <1>3. OutCells' = OutCells /\ (\A y : LaunchesToCome(y)' <=> LaunchesToCome(y))
    BY <1>1 DEF OutCells, LaunchesToCome
  <1>4. StreamInv /\ Running /\ i \in DOMAIN Ctas /\ epi \in [DOMAIN Ctas -> [Warp -> EpilogueState]] /\ Reduces
    BY <1>1, InAnEpilogue, OnlyLast
  <1>5. \A j \in DOMAIN Ctas, v \in Warp : j # i \/ v # w => epi'[j][v] = epi[j][v]
    BY <1>1, <1>4
  <1>6. DOMAIN out = OutCells /\ DOMAIN out' = OutCells
    BY <1>1 DEF OutInv
  <1>7. ASSUME NEW y \in OutCells
        PROVE  Whole(call, y, out'[y]) \/ CtasToCome(y)' \/ LaunchesToCome(y)
    <2>1. CASE y \in Stores(Ctas[i], w)
      <3>1. out'[y] = FlattenSeq([s \in 1 .. Splits |-> partial[Slot16(s - 1, y)]])
        BY <1>1, <1>6, <2>1
      <3>2. Whole(call, y, FlattenSeq([s \in 1 .. Splits |-> partial[Slot16(s - 1, y)]]))
        BY <1>1, <1>4, <2>1, TileSummed
      <3> QED
        BY <3>1, <3>2
    <2>2. CASE y \notin Stores(Ctas[i], w)
      <3>1. out'[y] = out[y]
        BY <1>1, <1>6, <2>2
      <3>2. CtasToCome(y) => CtasToCome(y)'
        BY <1>2, <1>4, <1>5, <2>2 DEF CtasToCome
      <3> QED
        BY <3>1, <3>2 DEF OutInv
    <2> QED
      BY <2>1, <2>2
  <1>8. SlicesStored'
    BY <1>2, <1>4 DEF SlicesStored
  <1> QED
    BY <1>1, <1>3, <1>6, <1>7, <1>8 DEF OutInv

\* An arrival that is not a tile's last leaves another CTA of the tile to arrive.
LEMMA OneToArrive ==
    ASSUME EpilogueInv, InEpilogue, Reduces, NEW i \in DOMAIN Ctas, epi[i][0] = "arrive",
           counter[Ctas[i].counter] # Splits - 1
    PROVE  \E j \in Ticket(Ctas[i].counter) \ {i} : \A w \in Warp : epi[j][w] # "done"
  <1> DEFINE n == Ctas[i].counter
             A == Arrived(n)
             T == Ticket(n)
  <1>1. StreamInv /\ Running /\ DOMAIN epi = DOMAIN Ctas
    BY InAnEpilogue
  <1>2. n \in 0 .. Counters - 1 /\ i \in T /\ A \subseteq T /\ i \notin A
    BY <1>1, TicketsWhole DEF Ticket, Arrived
  <1>3. IsFiniteSet(T) /\ Cardinality(T) = Splits /\ Splits \in Nat
    BY <1>1, <1>2, TicketsWhole, LaunchShape
  <1>4. Gathering(n)
    <2>1. Gathering(n) \/ Summing(n)
      BY <1>2 DEF EpilogueInv, TicketsCounted
    <2>2. ~Summing(n)
      BY <1>2 DEF Summing
    <2> QED
      BY <2>1, <2>2
  <1>5. Cardinality(A) < Splits /\ Cardinality(A) # Splits - 1
    BY <1>4 DEF Gathering
  <1>6. T \in SUBSET DOMAIN Ctas
    BY DEF Ticket
  <1>7. \A j \in T : j \notin A => epi[j][0] \notin {"last", "done"}
    BY DEF Arrived
  <1> HIDE DEF A, T, n
  <1>8. IsFiniteSet(A) /\ Cardinality(A) \in Nat /\ Cardinality(A \cup {i}) = Cardinality(A) + 1 /\ IsFiniteSet(A \cup {i})
    BY <1>2, <1>3, FS_Subset, FS_AddElement, FS_CardinalityType
  <1>9. PICK j \in T : j \notin A \cup {i}
    <2>1. ASSUME T \subseteq A \cup {i}
          PROVE  FALSE
      <3>1. Cardinality(T) <= Cardinality(A \cup {i})
        BY <1>8, <2>1, FS_Subset
      <3> QED
        BY <1>3, <1>5, <1>8, <3>1
    <2> QED
      BY <2>1
  <1>10. epi[j][0] \notin {"last", "done"} /\ j \in DOMAIN epi
    BY <1>1, <1>6, <1>7, <1>9
  <1>11. epi[j][1] \notin {"last", "done"}
    BY <1>10 DEF EpilogueInv, ArriveTogether
  <1>12. \A w \in Warp : epi[j][w] # "done"
    BY <1>10, <1>11 DEF Warp
  <1> QED
    BY <1>9, <1>12 DEF T, n

\* A CTA that is done leaves its cells to the CTAs of its tile still to arrive.
LEMMA ArriveOut ==
    ASSUME EpilogueInv, OutInv, NEW i \in DOMAIN epi, Arrive(i)
    PROVE  OutInv' /\ SlicesStored'
  <1> DEFINE n == Ctas[i].counter
  <1>1. /\ InEpilogue /\ (\A w \in Warp : epi[i][w] = "arrive") /\ UNCHANGED <<call, stream, cta, out>>
        /\ epi' = [epi EXCEPT ![i] = [w \in Warp |-> IF counter[n] = Splits - 1 THEN "last" ELSE "done"]]
    BY DEF Arrive
  <1>2. Ctas' = Ctas /\ Splits' = Splits /\ Reduces' = Reduces /\ Running' = Running
    BY <1>1, SameLaunch
  <1>3. OutCells' = OutCells /\ (\A y : LaunchesToCome(y)' <=> LaunchesToCome(y))
    BY <1>1 DEF OutCells, LaunchesToCome
  <1>4. StreamInv /\ Running /\ i \in DOMAIN Ctas /\ DOMAIN epi = DOMAIN Ctas /\ epi[i][0] = "arrive"
    BY <1>1, InAnEpilogue DEF Warp
  <1>5. Reduces
    <2>1. 0 \in Warp
      BY DEF Warp
    <2> QED
      BY <1>1, <1>4, <2>1 DEF EpilogueInv, QuietSlices
  <1>6. \A j \in DOMAIN Ctas : j # i => epi'[j] = epi[j]
    BY <1>1, <1>4
  <1>7. ASSUME NEW y, CtasToCome(y)
        PROVE  CtasToCome(y)'
    <2>1. PICK j \in DOMAIN Ctas, w \in Warp : y \in Stores(Ctas[j], w) /\ epi[j][w] # "done"
      BY <1>5, <1>7 DEF CtasToCome
    <2>2. CASE j # i
      BY <1>2, <1>4, <1>6, <2>1, <2>2 DEF CtasToCome
    <2>3. CASE j = i /\ counter[n] = Splits - 1
      <3>1. epi'[i][w] = "last"
        BY <1>1, <2>3
      <3> QED
        BY <1>2, <1>4, <2>1, <2>3, <3>1 DEF CtasToCome
    <2>4. CASE j = i /\ counter[n] # Splits - 1
      <3>1. PICK k \in Ticket(n) \ {i} : \A v \in Warp : epi[k][v] # "done"
        BY <1>1, <1>4, <1>5, <2>4, OneToArrive
      <3>2. k \in DOMAIN Ctas /\ y \in Stores(Ctas[k], w)
        BY <1>4, <1>5, <2>1, <2>4, TicketStores DEF Ticket
      <3>3. epi'[k][w] # "done"
        BY <1>6, <3>1, <3>2
      <3> QED
        BY <1>2, <1>4, <3>2, <3>3 DEF CtasToCome
    <2> QED
      BY <2>2, <2>3, <2>4
  <1>8. SlicesStored'
    BY <1>2, <1>5 DEF SlicesStored
  <1> QED
    BY <1>1, <1>3, <1>7, <1>8 DEF OutInv

\* A step of the k-loops leaves the slices and the output alone.
LEMMA LoopOut ==
    ASSUME OutInv, SlicesStored, UNCHANGED <<call, stream, cta, epi, partial, out>>
    PROVE  OutInv' /\ SlicesStored'
  BY OutStays, SlicesStay

\* The end of a k-loop stores nothing.
LEMMA FinishOut ==
    ASSUME EpilogueInv, OutInv, Finish
    PROVE  OutInv' /\ SlicesStored'
  <1>1. InLoop /\ UNCHANGED <<call, stream, epi, out>>
    BY DEF Finish
  <1>2. Running
    BY <1>1 DEF InLoop, Ctas
  <1>3. ~InEpilogue
    <2>1. StreamInv
      BY DEF EpilogueInv
    <2>2. DOMAIN Ctas = 1 .. Len(Ctas) /\ Len(Ctas) \in Nat
      BY <1>2, <2>1, LaunchShape
    <2> QED
      BY <1>1, <2>2 DEF InLoop, InEpilogue
  <1>4. \A i \in DOMAIN epi, w \in Warp : epi[i][w] = "sum"
    BY <1>3 DEF EpilogueInv, QuietLoop
  <1>5. SlicesStored'
    BY <1>1, <1>4, NoSlices
  <1>6. OutInv'
    BY <1>1, OutStays
  <1> QED
    BY <1>5, <1>6

\* A partial on its way to memory is not in the output.
LEMMA StorePartialOut ==
    ASSUME EpilogueInv, OutInv, NEW i \in DOMAIN epi, NEW w \in Warp, StorePartial(i, w)
    PROVE  OutInv' /\ SlicesStored'
  <1>1. /\ InEpilogue /\ Reduces /\ UNCHANGED <<call, stream, out>>
        /\ epi' = [epi EXCEPT ![i][w] = "fence"]
    BY DEF StorePartial
  <1>2. epi \in [DOMAIN Ctas -> [Warp -> EpilogueState]]
    BY <1>1, InAnEpilogue
  <1>3. \A j \in DOMAIN Ctas, v \in Warp : epi[j][v] # "done" => epi'[j][v] # "done"
    BY <1>1, <1>2
  <1>4. Reduces'
    BY <1>1, SameLaunch
  <1> QED
    BY <1>1, <1>3, <1>4, OutStays, NoSlices

\* A fence stores nothing.
LEMMA FenceOut ==
    ASSUME EpilogueInv, OutInv, NEW i \in DOMAIN epi, NEW w \in Warp, Fence(i, w)
    PROVE  OutInv' /\ SlicesStored'
  <1>1. /\ InEpilogue /\ epi[i][w] = "fence" /\ UNCHANGED <<call, stream, out>>
        /\ epi' = [epi EXCEPT ![i][w] = "arrive"]
    BY DEF Fence
  <1>2. epi \in [DOMAIN Ctas -> [Warp -> EpilogueState]]
    BY <1>1, InAnEpilogue
  <1>3. \A j \in DOMAIN Ctas, v \in Warp : epi[j][v] # "done" => epi'[j][v] # "done"
    BY <1>1, <1>2
  <1>4. Reduces
    BY <1>1 DEF EpilogueInv, QuietSlices
  <1>5. Reduces'
    BY <1>1, <1>4, SameLaunch
  <1> QED
    BY <1>1, <1>3, <1>5, OutStays, NoSlices

\* A partial in memory is not in the output.
LEMMA VisibleOut ==
    ASSUME EpilogueInv, OutInv, NEW x \in pending, Visible(x[1], x[2])
    PROVE  OutInv' /\ SlicesStored'
  <1>1. UNCHANGED <<call, stream, epi, out>>
    BY DEF Visible
  <1>2. InEpilogue /\ Reduces
    BY DEF EpilogueInv, QuietLoop, QuietSlices, Idle
  <1>3. Reduces'
    BY <1>1, <1>2, SameLaunch
  <1> QED
    BY <1>1, <1>3, OutStays, NoSlices

-----------------------------------------------------------------------------
(* The launcher's sum.                                                     *)

\* A cell in the output: a shard's column half.
LEMMA CellShard ==
    ASSUME NEW y \in OutCells
    PROVE  /\ y = <<y[1], y[2]>> /\ y[1] \in RowUnits(call)
           /\ \E i \in DOMAIN call.shards : \E h \in 0 .. CeilDiv(call.shards[i].n, 32) - 1 :
                  y[2] = call.shards[i].col0 + 32 * h
  BY DEF OutCells, ColHalves

\* The column of a half lies in its shard.
LEMMA HalfInShard ==
    ASSUME PackedCall(call), NEW i \in DOMAIN call.shards, NEW h \in 0 .. CeilDiv(call.shards[i].n, 32) - 1,
           NEW y, y[2] = call.shards[i].col0 + 32 * h
    PROVE  ShardOf(call, y) = i
  <1> DEFINE N == call.shards[i].n
             at == call.shards[i].col0
  <1>1. N \in Nat \ {0} /\ at \in Nat /\ h \in 0 .. CeilDiv(N, 32) - 1
    BY DEF PackedCall
  <1>2. at + 32 * h \in at .. at + N - 1
    <2> HIDE DEF N, at
    <2>1. h \in Nat /\ 32 * h < N
      BY <1>1 DEF CeilDiv
    <2> QED
      BY <1>1, <2>1
  <1>3. y[2] \in at .. at + N - 1
    BY <1>2
  <1> QED
    BY <1>3, ShardUnique

\* Once all slices are stored, a cell of some CTA's tile has a part of every split.
LEMMA SlicesOfCell ==
    ASSUME EpilogueInv, SumsInv, SlicesStored, InEpilogue, ~Reduces, Splits # 1,
           \A j \in DOMAIN epi, v \in Warp : epi[j][v] = "done",
           NEW y \in OutCells, NEW i \in DOMAIN Ctas, y[1] \in Units(Ctas[i]), y[2] \in Ctas[i].col0 .. Ctas[i].limit - 1
    PROVE  Whole(call, y, FlattenSeq([s \in 1 .. Splits |-> partial[Slot16(s - 1, y)]]))
  <1> DEFINE x == Ctas[i]
             u == y[1]
  <1>1. StreamInv /\ Running /\ PackedCall(call) /\ DOMAIN epi = DOMAIN Ctas
    BY InAnEpilogue DEF StreamInv, CallInv
  <1>2. Launched(call, stream[1]) /\ Ctas = stream[1].ctas /\ Splits = stream[1].splits /\ Splits \in Nat \ {0}
    BY <1>1, LaunchShape DEF Splits
  <1>3. PICK S, first, past : Spans(call, stream[1], S, first, past)
    BY <1>2 DEF Launched
  <1>4. PICK sh \in S : \E n \in Nat : OnTile(call, x, sh, n)
    BY <1>2, <1>3 DEF Spans
  <1>5. PICK n \in Nat : OnTile(call, x, sh, n)
    BY <1>4
  <1>6. OnRows(x, first, past)
    BY <1>2, <1>3 DEF Spans
  <1>7. PICK k \in DOMAIN call.shards : \E h \in 0 .. CeilDiv(call.shards[k].n, 32) - 1 :
            y[2] = call.shards[k].col0 + 32 * h
    BY CellShard
  <1>8. PICK h \in 0 .. CeilDiv(call.shards[k].n, 32) - 1 : y[2] = call.shards[k].col0 + 32 * h
    BY <1>7
  <1>9. k = sh
    <2> DEFINE at == call.shards[sh].col0
               wd == call.shards[sh].n
               col == y[2]
               lim == x.limit
    <2>1. sh \in DOMAIN call.shards /\ x.col0 = at + 64 * n /\ lim \in Int /\ lim <= at + wd
      BY <1>5 DEF OnTile
    <2>2. at \in Nat /\ wd \in Nat
      BY <1>1, <2>1 DEF PackedCall
    <2>3. col \in (at + 64 * n) .. lim - 1
      BY <2>1
    <2> HIDE DEF at, wd, col, lim
    <2>4. col \in at .. at + wd - 1
      BY <2>1, <2>2, <2>3
    <2>5. ShardOf(call, y) = sh
      BY <1>1, <2>1, <2>4, ShardUnique DEF at, wd, col
    <2>6. ShardOf(call, y) = k
      BY <1>1, <1>8, HalfInShard
    <2> QED
      BY <2>5, <2>6
  <1>10. u \in Nat /\ x.rows[1] <= 16 * u /\ 16 * u < x.rows[2]
    <2>1. 0 \in Warp
      BY DEF Warp
    <2> DEFINE z == <<u, ColHalf(x, 0)>>
    <2>2. ColHalf(x, 0) < x.limit
      <3> DEFINE a == x.col0
                 lim == x.limit
                 col == y[2]
      <3>1. a \in Int /\ lim \in Int
        <4>1. /\ x.col0 = call.shards[sh].col0 + 64 * n /\ x.limit \in Int /\ sh \in DOMAIN call.shards
          BY <1>5 DEF OnTile
        <4> QED
          BY <1>1, <4>1 DEF PackedCall
      <3>2. col \in a .. lim - 1
        OBVIOUS
      <3>3. ColHalf(x, 0) = a + 32 * 0
        BY DEF ColHalf
      <3> HIDE DEF a, lim, col, x
      <3>4. a + 32 * 0 < lim
        BY <3>1, <3>2
      <3> QED
        BY <3>3, <3>4 DEF lim
    <2>3. z \in Stores(x, 0)
      BY <2>2 DEF Stores
    <2>4. z[1] \in Nat /\ x.rows[1] <= 16 * z[1] /\ 16 * z[1] < x.rows[2]
      BY <1>1, <2>1, <2>3, CellsOfWarp
    <2> QED
      BY <2>4
  <1>11. HoldsUnit(<<first, past>>, u)
    <2> DEFINE a == x.rows[1]
               b == x.rows[2]
    <2>1. /\ a \in first .. past - 1 /\ b \in a + 1 .. past /\ first \in Nat /\ past \in first + 1 .. call.m
          /\ call.m \in Nat
      BY <1>1, <1>3, <1>6 DEF OnRows, Spans, PackedCall
    <2>2. a <= 16 * u /\ 16 * u < b /\ u \in Nat
      BY <1>10
    <2> HIDE DEF a, b, u
    <2>3. first <= 16 * u /\ 16 * u < past
      BY <2>1, <2>2
    <2> QED
      BY <2>3 DEF HoldsUnit
  <1>12. y = <<u, call.shards[sh].col0 + 32 * h>>
    BY <1>8, <1>9, CellShard
  <1>13. ASSUME NEW s \in 0 .. Splits - 1
         PROVE  \E j \in DOMAIN Ctas, w \in Warp : Ctas[j].split = s /\ y \in Stores(Ctas[j], w)
    <2>1. s \in 0 .. stream[1].splits - 1 /\ h \in 0 .. CeilDiv(call.shards[sh].n, 32) - 1
      BY <1>2, <1>9
    <2> HIDE DEF u
    <2> QED
      BY <1>1, <1>2, <1>3, <1>10, <1>11, <1>12, <2>1, UnitStored
  <1>14. StagesOf(call, y) \in {1, 2}
    <2>1. 0 \in 0 .. Splits - 1
      BY <1>2
    <2>2. PICK j \in DOMAIN Ctas, w \in Warp : y \in Stores(Ctas[j], w)
      BY <1>13, <2>1
    <2> QED
      BY <2>2, SumPart
  <1>15. ASSUME NEW s \in 1 .. Splits
         PROVE  PartOf(call, y, TheCut[s - 1], TheCut[s], partial[Slot16(s - 1, y)])
    <2>1. s - 1 \in 0 .. Splits - 1 /\ (s - 1) + 1 = s
      BY <1>2
    <2>2. PICK j \in DOMAIN Ctas, w \in Warp : Ctas[j].split = s - 1 /\ y \in Stores(Ctas[j], w)
      BY <1>13, <2>1
    <2>3. epi[j][w] = "done"
      BY <1>1
    <2>4. PartOf(call, y, TheCut[Ctas[j].split], TheCut[Ctas[j].split + 1], partial[SlotOf(j, y)])
      BY <1>1, <2>2, <2>3 DEF SlicesStored
    <2> QED
      BY <2>1, <2>2, <2>4 DEF SlotOf
  <1> QED
    BY <1>14, <1>15, SummedWhole

\* A cell some warp of a finished launch stores to is one of those the launcher sums.
SummedAt(y) == \E i \in DOMAIN Ctas : y[1] \in Units(Ctas[i]) /\ y[2] \in Ctas[i].col0 .. Ctas[i].limit - 1

\* A warp's cells are among those the launcher sums.
LEMMA StoredIsSummed ==
    ASSUME StreamInv, Running, NEW i \in DOMAIN Ctas, NEW w \in Warp, NEW y \in Stores(Ctas[i], w)
    PROVE  SummedAt(y)
  <1> DEFINE x == Ctas[i]
  <1>1. PackedCall(call) /\ OnCall(x)
    BY LaunchShape DEF StreamInv, CallInv
  <1>2. PICK sh : \E n \in Nat : OnTile(call, x, sh, n)
    BY <1>1 DEF OnCall
  <1>3. PICK n \in Nat : OnTile(call, x, sh, n)
    BY <1>2
  <1>4. x.col0 = call.shards[sh].col0 + 64 * n /\ x.limit \in Int /\ call.shards[sh].col0 \in Nat
    BY <1>1, <1>3 DEF OnTile, PackedCall
  <1>5. y[1] \in Units(x) /\ y[2] = x.col0 + 32 * w /\ x.col0 + 32 * w < x.limit
    BY DEF Stores, ColHalf
  <1>6. y[2] \in x.col0 .. x.limit - 1
    <2> DEFINE a == x.col0
               b == x.limit
               col == y[2]
    <2>1. a \in Nat /\ b \in Int /\ col = a + 32 * w /\ a + 32 * w < b /\ w \in {0, 1}
      BY <1>4, <1>5 DEF Warp
    <2> HIDE DEF a, b, col
    <2>2. col \in a .. b - 1
      BY <2>1
    <2> QED
      BY <2>2 DEF a, b, col
  <1> QED
    BY <1>5, <1>6 DEF SummedAt

\* The end of a launch leaves a cell that is not whole to the launches behind it.
LEMMA NextToCome ==
    ASSUME StreamInv, StreamInv', Running, EndLaunch, NEW y, LaunchesToCome(y)
    PROVE  CtasToCome(y)' \/ LaunchesToCome(y)'
  <1> DEFINE S == {Stream(call)[l] : l \in DOMAIN Stream(call)}
  <1>1. stream \in Seq(S) /\ stream # <<>>
    BY DEF StreamInv, Running
  <1>2. PICK l \in 2 .. Len(stream) : ReachesCell(stream[l], y)
    BY DEF LaunchesToCome
  <1>3. stream' = Tail(stream) /\ (Len(stream) > 1 => epi' = Epilogues(stream[2]))
    BY DEF EndLaunch
  <1> HIDE DEF S
  <1>4. Len(stream) \in Nat /\ Len(stream') = Len(stream) - 1 /\ \A k \in 1 .. Len(stream) - 1 : stream'[k] = stream[k + 1]
    BY <1>1, <1>3
  <1>5. l - 1 \in 1 .. Len(stream) - 1 /\ (l - 1) + 1 = l /\ Len(stream) > 1
    BY <1>2, <1>4
  <1>6. stream'[l - 1] = stream[l]
    BY <1>4, <1>5
  <1>7. CASE l = 2
    <2>1. stream'[1] = stream[2] /\ stream' # <<>>
      BY <1>4, <1>5, <1>6, <1>7
    <2>2. Running' /\ Ctas' = stream[2].ctas
      BY <2>1 DEF Running, Ctas
    <2>3. PICK j \in DOMAIN stream[2].ctas, w \in Warp : y \in Stores(stream[2].ctas[j], w)
      BY <1>2, <1>7 DEF ReachesCell
    <2>4. epi'[j][w] = "sum"
      BY <1>3, <1>5, <2>3 DEF Epilogues, EachWarp
    <2> QED
      BY <2>2, <2>3, <2>4 DEF CtasToCome
  <1>8. CASE l # 2
    <2>1. l - 1 \in 2 .. Len(stream')
      BY <1>2, <1>4, <1>8
    <2> QED
      BY <1>2, <1>6, <2>1 DEF LaunchesToCome
  <1> QED
    BY <1>7, <1>8

\* The launcher's sum makes the cells of the launch whole.
LEMMA EndLaunchOut ==
    ASSUME EpilogueInv, EpilogueInv', SumsInv, OutInv, SlicesStored, EndLaunch
    PROVE  OutInv' /\ SlicesStored'
  <1>1. InEpilogue /\ (\A i \in DOMAIN epi, w \in Warp : epi[i][w] = "done") /\ UNCHANGED call /\ cta' = 1
    BY DEF EndLaunch
  <1>2. StreamInv /\ StreamInv' /\ Running /\ DOMAIN epi = DOMAIN Ctas
    BY <1>1, InAnEpilogue DEF EpilogueInv
  <1>3. out' = IF Reduces \/ Splits = 1 THEN out
               ELSE [x \in DOMAIN out |->
                   IF SummedAt(x) THEN FlattenSeq([s \in 1 .. Splits |-> partial[Slot16(s - 1, x)]]) ELSE out[x]]
    BY DEF EndLaunch, SummedAt
  <1>4. OutCells' = OutCells /\ DOMAIN out = OutCells
    BY <1>1 DEF OutCells, OutInv
  <1>5. DOMAIN out' = OutCells
    BY <1>3, <1>4
  <1>6. ASSUME NEW y \in OutCells
        PROVE  Whole(call, y, out'[y]) \/ CtasToCome(y)' \/ LaunchesToCome(y)'
    <2>1. CASE ~Reduces /\ Splits # 1 /\ SummedAt(y)
      <3>1. out'[y] = FlattenSeq([s \in 1 .. Splits |-> partial[Slot16(s - 1, y)]])
        BY <1>3, <1>4, <2>1
      <3>2. Whole(call, y, FlattenSeq([s \in 1 .. Splits |-> partial[Slot16(s - 1, y)]]))
        BY <1>1, <2>1, SlicesOfCell DEF SummedAt
      <3> QED
        BY <3>1, <3>2
    <2>2. CASE Reduces \/ Splits = 1 \/ ~SummedAt(y)
      <3>1. out'[y] = out[y]
        BY <1>3, <1>4, <2>2
      <3>2. ~CtasToCome(y)
        <4>1. ASSUME CtasToCome(y)
              PROVE  FALSE
          <5>1. PICK i \in DOMAIN Ctas, w \in Warp :
                    y \in Stores(Ctas[i], w) /\ (epi[i][w] # "done" \/ (~Reduces /\ Splits # 1))
            BY <4>1 DEF CtasToCome
          <5>2. epi[i][w] = "done"
            BY <1>1, <1>2
          <5>3. SummedAt(y)
            BY <1>2, <5>1, StoredIsSummed
          <5> QED
            BY <2>2, <5>1, <5>2, <5>3
        <4> QED
          BY <4>1
      <3>3. Whole(call, y, out[y]) \/ LaunchesToCome(y)
        BY <3>2 DEF OutInv
      <3> QED
        BY <1>2, <3>1, <3>3, NextToCome
    <2> QED
      BY <2>1, <2>2
  <1>7. ~InEpilogue'
    <2>1. CASE Running'
      <3>1. Len(Ctas)' \in Nat \ {0}
        BY <1>2, <2>1, ShapeNext DEF HasCtas
      <3> QED
        BY <1>1, <3>1 DEF InEpilogue
    <2>2. CASE ~Running'
      BY <2>2 DEF InEpilogue
    <2> QED
      BY <2>1, <2>2
  <1>8. SlicesStored'
    BY <1>7, NoSlices
  <1> QED
    BY <1>1, <1>4, <1>5, <1>6, <1>8 DEF OutInv

-----------------------------------------------------------------------------
(* The product.                                                            *)

\* At the start every cell has a launch to come.
LEMMA OutInit == GemmInit => OutInv /\ SlicesStored
  <1> SUFFICES ASSUME GemmInit
               PROVE  OutInv /\ SlicesStored
    OBVIOUS
  <1>1. /\ stream = Stream(call) /\ cta = 1 /\ epi = Epilogues(stream[1])
        /\ out = [x \in RowUnits(call) \X ColHalves(call) |-> <<GarbledProduct>>]
    BY DEF GemmInit
  <1>2. EpilogueInv
    BY EpilogueInit
  <1>3. StreamInv /\ PackedCall(call)
    BY <1>2 DEF EpilogueInv, StreamInv, CallInv
  <1>4. /\ Len(stream) \in Nat \ {0} /\ DOMAIN stream = 1 .. Len(stream)
        /\ \A i \in DOMAIN call.shards, u \in RowUnits(call) : \E l \in DOMAIN stream : Reaches(call, stream[l], i, u)
    <2> DEFINE S == {Stream(call)[l] : l \in DOMAIN Stream(call)}
    <2>1. /\ Len(stream) \in Nat \ {0} /\ stream \in Seq(S)
          /\ \A i \in DOMAIN call.shards, u \in RowUnits(call) : \E l \in DOMAIN stream : Reaches(call, stream[l], i, u)
      BY <1>1, <1>3, LaunchesReach
    <2> HIDE DEF S
    <2>2. DOMAIN stream = 1 .. Len(stream)
      BY <2>1
    <2> QED
      BY <2>1, <2>2
  <1>5. Running /\ Ctas = stream[1].ctas
    BY <1>4 DEF Running, Ctas
  <1>6. ASSUME NEW y \in OutCells
        PROVE  CtasToCome(y) \/ LaunchesToCome(y)
    <2> DEFINE u == y[1]
    <2>1. PICK i \in DOMAIN call.shards : \E h \in 0 .. CeilDiv(call.shards[i].n, 32) - 1 :
              y[2] = call.shards[i].col0 + 32 * h
      BY CellShard
    <2>2. PICK h \in 0 .. CeilDiv(call.shards[i].n, 32) - 1 : y[2] = call.shards[i].col0 + 32 * h
      BY <2>1
    <2>3. u \in RowUnits(call) /\ u \in Nat /\ y = <<u, call.shards[i].col0 + 32 * h>>
      BY <1>3, <2>2, CellShard, RowUnitsAre
    <2>4. PICK l \in DOMAIN stream : Reaches(call, stream[l], i, u)
      BY <1>4, <2>3
    <2>5. PICK S, first, past : Spans(call, stream[l], S, first, past) /\ i \in S /\ HoldsUnit(<<first, past>>, u)
      BY <2>4 DEF Reaches
    <2>6. 0 \in 0 .. stream[l].splits - 1
      <3>1. stream[l].splits \in 1 .. call.nb /\ call.nb \in Nat
        BY <1>3, <2>5 DEF Spans, PackedCall
      <3> QED
        BY <3>1
    <2> HIDE DEF u
    <2>7. \E j \in DOMAIN stream[l].ctas, w \in Warp : stream[l].ctas[j].split = 0 /\ y \in Stores(stream[l].ctas[j], w)
      BY <1>3, <2>3, <2>5, <2>6, UnitStored
    <2>8. ReachesCell(stream[l], y)
      BY <2>7 DEF ReachesCell
    <2>9. CASE l = 1
      <3>1. PICK j \in DOMAIN Ctas, w \in Warp : y \in Stores(Ctas[j], w)
        BY <1>5, <2>8, <2>9 DEF ReachesCell
      <3>2. epi[j][w] = "sum"
        BY <1>1, <1>5, <3>1 DEF Epilogues, EachWarp
      <3> QED
        BY <1>5, <3>1, <3>2 DEF CtasToCome
    <2>10. CASE l # 1
      <3>1. l \in 2 .. Len(stream)
        BY <1>4, <2>10
      <3> QED
        BY <2>8, <3>1 DEF LaunchesToCome
    <2> QED
      BY <2>9, <2>10
  <1>7. DOMAIN out = OutCells
    BY <1>1 DEF OutCells
  <1>8. SlicesStored
    <2>1. Len(Ctas) \in Nat \ {0}
      BY <1>3, <1>5, LaunchShape
    <2>2. ~InEpilogue
      BY <1>1, <2>1 DEF InEpilogue
    <2> QED
      BY <2>2 DEF SlicesStored
  <1> QED
    BY <1>6, <1>7, <1>8 DEF OutInv

\* Every step keeps what the output and the slices hold.
LEMMA OutNext == EpilogueInv /\ EpilogueInv' /\ SumsInv /\ OutInv /\ SlicesStored /\ [GemmNext]_vars => OutInv' /\ SlicesStored'
  <1> SUFFICES ASSUME EpilogueInv, EpilogueInv', SumsInv, OutInv, SlicesStored, [GemmNext]_vars
               PROVE  OutInv' /\ SlicesStored'
    OBVIOUS
  <1>1. ASSUME NEW w \in Warp, Prologue(w) \/ Issue(w) \/ Wait(w) \/ Read(w)
        PROVE  OutInv' /\ SlicesStored'
    <2>1. UNCHANGED <<call, stream, cta, epi, partial, out>>
      BY <1>1 DEF Prologue, Issue, Wait, Read
    <2> QED
      BY <2>1, LoopOut
  <1>2. ASSUME Barrier("filled", "read") \/ Barrier("drained", "issue")
        PROVE  OutInv' /\ SlicesStored'
    <2>1. UNCHANGED <<call, stream, cta, epi, partial, out>>
      BY <1>2 DEF Barrier
    <2> QED
      BY <2>1, LoopOut
  <1>3. ASSUME LandSome
        PROVE  OutInv' /\ SlicesStored'
    <2>1. UNCHANGED <<call, stream, cta, epi, partial, out>>
      BY <1>3 DEF LandSome, Land
    <2> QED
      BY <2>1, LoopOut
  <1>4. CASE Finish
    BY <1>4, FinishOut
  <1>5. ASSUME NEW i \in DOMAIN epi, StoreSlice(i)
        PROVE  OutInv' /\ SlicesStored'
    BY <1>5, StoreSliceOut
  <1>6. ASSUME NEW i \in DOMAIN epi, Arrive(i)
        PROVE  OutInv' /\ SlicesStored'
    BY <1>6, ArriveOut
  <1>7. ASSUME NEW i \in DOMAIN epi, NEW w \in Warp, StorePartial(i, w) \/ Fence(i, w) \/ Reduce(i, w)
        PROVE  OutInv' /\ SlicesStored'
    BY <1>7, StorePartialOut, FenceOut, ReduceOut
  <1>8. ASSUME NEW x \in pending, Visible(x[1], x[2])
        PROVE  OutInv' /\ SlicesStored'
    BY <1>8, VisibleOut
  <1>9. CASE EndLaunch
    BY <1>9, EndLaunchOut
  <1>10. CASE Returned \/ UNCHANGED vars
    <2>1. UNCHANGED <<call, stream, cta, epi, partial, out>>
      BY <1>10 DEF Returned, vars
    <2> QED
      BY <2>1, LoopOut
  <1> QED
    BY <1>1, <1>2, <1>3, <1>4, <1>5, <1>6, <1>7, <1>8, <1>9, <1>10 DEF GemmNext

\* The chunks of a tile, one for every stage of every k-block, in order.
TileChunks(a, b, nb, h) == {<<a, b, kb, j>> : kb \in 0 .. nb - 1, j \in 0 .. h - 1}
ChunkOf(a, b, h, k) == <<a, b, (k - 1) \div h, (k - 1) % h>>

\* Each of them comes once.
LEMMA ChunksCounted ==
    ASSUME NEW nb \in Nat, NEW h \in Nat \ {0}, NEW a, NEW b, NEW n \in Nat, n = nb * h
    PROVE  /\ Cardinality(TileChunks(a, b, nb, h)) = n
           /\ {ChunkOf(a, b, h, k) : k \in 1 .. n} = TileChunks(a, b, nb, h)
  <1> DEFINE All == TileChunks(a, b, nb, h)
             g == [k \in 1 .. n |-> ChunkOf(a, b, h, k)]
  <1>1. ASSUME NEW k \in 1 .. n
        PROVE  /\ k - 1 \in Nat /\ k - 1 < nb * h
               /\ (k - 1) \div h \in 0 .. nb - 1 /\ (k - 1) % h \in 0 .. h - 1
               /\ k = (h * ((k - 1) \div h) + ((k - 1) % h)) + 1
    <2> DEFINE i == k - 1
    <2>1. i \in Nat /\ i < n /\ k = i + 1
      OBVIOUS
    <2> HIDE DEF i
    <2>2. i < nb * h
      BY <2>1
    <2>3. i \div h \in 0 .. nb - 1 /\ i % h \in 0 .. h - 1
      BY <2>1, <2>2, QuotientBelow
    <2>4. i = h * (i \div h) + (i % h)
      BY <2>1, DivMod
    <2>5. k = (h * (i \div h) + (i % h)) + 1
      BY <2>1, <2>4
    <2> QED
      BY <2>1, <2>2, <2>3, <2>5 DEF i
  <1>2. \A k \in 1 .. n : g[k] = ChunkOf(a, b, h, k) /\ ChunkOf(a, b, h, k) \in All
    <2> TAKE k \in 1 .. n
    <2> DEFINE q == (k - 1) \div h
               r == (k - 1) % h
    <2>1. q \in 0 .. nb - 1 /\ r \in 0 .. h - 1 /\ ChunkOf(a, b, h, k) = <<a, b, q, r>>
      BY <1>1 DEF ChunkOf
    <2> HIDE DEF q, r
    <2>2. ChunkOf(a, b, h, k) \in All
      BY <2>1 DEF TileChunks
    <2> QED
      BY <2>2
  <1>3. ASSUME NEW x \in All
        PROVE  \E k \in 1 .. n : ChunkOf(a, b, h, k) = x
    <2>1. PICK kb \in 0 .. nb - 1, j \in 0 .. h - 1 : x = <<a, b, kb, j>>
      BY DEF TileChunks
    <2> DEFINE i == h * kb + j
    <2>2. i \in Nat /\ i \div h = kb /\ i % h = j
      BY QuotientOf
    <2>3. i < n
      BY WrittenBelow
    <2> HIDE DEF i
    <2> DEFINE k == i + 1
    <2>4. k \in 1 .. n /\ k - 1 = i
      BY <2>2, <2>3
    <2> HIDE DEF k
    <2>5. ChunkOf(a, b, h, k) = x
      BY <2>1, <2>2, <2>4 DEF ChunkOf
    <2> QED
      BY <2>4, <2>5
  <1>4. \A k, l \in 1 .. n : g[k] = g[l] => k = l
    <2> TAKE k, l \in 1 .. n
    <2> HAVE g[k] = g[l]
    <2>1. ChunkOf(a, b, h, k) = ChunkOf(a, b, h, l)
      BY <1>2
    <2> DEFINE q == (k - 1) \div h
               r == (k - 1) % h
               u == (l - 1) \div h
               v == (l - 1) % h
    <2>2. <<a, b, q, r>> = <<a, b, u, v>>
      BY <2>1 DEF ChunkOf
    <2>3. k = (h * q + r) + 1 /\ l = (h * u + v) + 1
      BY <1>1
    <2> HIDE DEF q, r, u, v
    <2>4. q = u /\ r = v
      BY <2>2
    <2> QED
      BY <2>3, <2>4
  <1>5. {ChunkOf(a, b, h, k) : k \in 1 .. n} = All
    BY <1>2, <1>3
  <1>6. g \in Bijection(1 .. n, All)
    <2>1. g \in [1 .. n -> All]
      BY <1>2
    <2>2. DOMAIN g = 1 .. n
      OBVIOUS
    <2>3. \A x \in All : \E k \in 1 .. n : g[k] = x
      BY <1>2, <1>3
    <2> HIDE DEF g, All
    <2>4. g \in Injection(1 .. n, All)
      BY <1>4, <2>1, <2>2 DEF Injection, IsInjective
    <2>5. g \in Surjection(1 .. n, All)
      BY <2>1, <2>3 DEF Surjection
    <2> QED
      BY <2>4, <2>5 DEF Bijection
  <1>7. Cardinality(All) = n
    <2>1. ExistsBijection(1 .. n, All)
      BY <1>6 DEF ExistsBijection
    <2> HIDE DEF All
    <2> QED
      BY <2>1, FS_CountingElements
  <1> QED
    BY <1>5, <1>7

\* The stages of a k-block of a cell's tile.
LEMMA CellStages ==
    ASSUME PackedCall(call), NEW y \in OutCells
    PROVE  StagesOf(call, y) \in {1, 2}
  <1>1. PICK i \in DOMAIN call.shards : \E h \in 0 .. CeilDiv(call.shards[i].n, 32) - 1 :
            y[2] = call.shards[i].col0 + 32 * h
    BY CellShard
  <1>2. ShardOf(call, y) = i
    BY <1>1, HalfInShard
  <1>3. call.op # "raw" => call.shards[i].type \in DOMAIN RowBytes
    BY DEF PackedCall, TypesOf
  <1>4. call.op # "raw" => Halves[call.shards[i].type] \in {1, 2}
    BY <1>3, RowsOfTypes
  <1> QED
    BY <1>2, <1>4 DEF StagesOf

\* What the property asks of one cell.
Product(y, f) ==
    /\ Len(f) = Cardinality(Chunks(y))
    /\ {f[n].weights : n \in DOMAIN f} = Chunks(y)
    /\ \A n \in DOMAIN f :
          LET p == f[n] IN
          /\ p.acts[1] = p.weights[3] /\ p.scale = p.weights[3]
          /\ p.acts[2][1] <= 16 * y[1] /\ 16 * y[1] < p.acts[2][2]

\* A whole cell is the product of its tile's chunks.
LEMMA WholeIsProduct ==
    ASSUME PackedCall(call), NEW y \in OutCells, NEW f, Whole(call, y, f)
    PROVE  Product(y, f)
  <1> DEFINE h == StagesOf(call, y)
             sh == ShardOf(call, y)
             t == TileOf(call, y)
             nb == call.nb
             n == nb * h
  <1>1. h \in {1, 2} /\ nb \in Nat
    BY CellStages DEF PackedCall
  <1>2. n \in Nat /\ (nb - 0) * h = n
    <2> HIDE DEF h, nb
    <2>1. CASE h = 1
      BY <1>1, <2>1
    <2>2. CASE h = 2
      BY <1>1, <2>2
    <2> QED
      BY <1>1, <2>1, <2>2
  <1>3. Chunks(y) = TileChunks(sh, t, nb, h)
    <2>1. Chunks(y) = {<<sh, t, kb, j>> : kb \in 0 .. nb - 1,
                          j \in 0 .. (IF call.op = "raw" THEN 0 ELSE Halves[call.shards[sh].type] - 1)}
      BY DEF Chunks, ShardOf, TileOf
    <2>2. (IF call.op = "raw" THEN 0 ELSE Halves[call.shards[sh].type] - 1) = h - 1
      BY DEF StagesOf
    <2> QED
      BY <2>1, <2>2 DEF TileChunks
  <1>4. /\ f = [k \in 1 .. n |-> f[k]]
        /\ \A k \in 1 .. n : TermOf(call, y, 0 + (k - 1) \div h, (k - 1) % h, f[k])
    BY <1>2 DEF Whole, PartOf
  <1>5. DOMAIN f = 1 .. n
    BY <1>4
  <1>6. Len(f) = n
    <2> HIDE DEF n
    <2>1. f \in [1 .. n -> {f[k] : k \in 1 .. n}]
      BY <1>4
    <2>2. f \in Seq({f[k] : k \in 1 .. n})
      <3> DEFINE S == {f[k] : k \in 1 .. n}
      <3>1. f \in [1 .. n -> S]
        BY <2>1
      <3> HIDE DEF S
      <3>2. f \in Seq(S)
        BY <1>2, <3>1
      <3> QED
        BY <3>2 DEF S
    <2> QED
      BY <1>2, <1>5, <2>2
  <1>7. ASSUME NEW k \in 1 .. n
        PROVE  /\ f[k].weights = ChunkOf(sh, t, h, k)
               /\ f[k].acts[1] = f[k].weights[3] /\ f[k].scale = f[k].weights[3]
               /\ f[k].acts[2][1] <= 16 * y[1] /\ 16 * y[1] < f[k].acts[2][2]
    <2> DEFINE q == (k - 1) \div h
               r == (k - 1) % h
    <2>1. 0 + q = q
      <3>1. q \in Int
        <4> HIDE DEF h, n
        <4>1. k \in Int
          BY <1>2
        <4>2. (k - 1) \div 1 \in Int /\ (k - 1) \div 2 \in Int
          BY <4>1
        <4> QED
          BY <1>1, <4>2
      <3> HIDE DEF q
      <3> QED
        BY <3>1
    <2>2. TermOf(call, y, q, r, f[k])
      BY <1>4, <2>1
    <2> HIDE DEF q, r
    <2>3. /\ f[k].weights = <<sh, t, q, r>> /\ f[k].acts[1] = q /\ f[k].scale = q
          /\ f[k].acts[2][1] <= 16 * y[1] /\ 16 * y[1] < f[k].acts[2][2]
      BY <2>2 DEF TermOf
    <2>4. f[k].weights[3] = q
      <3> HIDE DEF sh, t
      <3>1. <<sh, t, q, r>>[3] = q
        OBVIOUS
      <3> QED
        BY <2>3, <3>1
    <2>5. ChunkOf(sh, t, h, k) = <<sh, t, q, r>>
      BY DEF ChunkOf, q, r
    <2> QED
      BY <2>3, <2>4, <2>5
  <1> HIDE DEF h, sh, t, nb, n
  <1>8. h \in Nat \ {0} /\ n = nb * h
    BY <1>1 DEF n
  <1>9. /\ Cardinality(TileChunks(sh, t, nb, h)) = n
        /\ {ChunkOf(sh, t, h, k) : k \in 1 .. n} = TileChunks(sh, t, nb, h)
    BY <1>1, <1>2, <1>8, ChunksCounted
  <1>10. {f[k].weights : k \in DOMAIN f} = {ChunkOf(sh, t, h, k) : k \in 1 .. n}
    BY <1>5, <1>7
  <1> QED
    BY <1>3, <1>5, <1>6, <1>7, <1>9, <1>10 DEF Product

\* Once the call has returned no cell is to come.
LEMMA WholeProduct == EpilogueInv /\ OutInv => ProductIsWhole
  <1> SUFFICES ASSUME EpilogueInv, OutInv, ~Running, NEW y \in DOMAIN out
               PROVE  Product(y, out[y])
    BY DEF ProductIsWhole, Product
  <1>1. y \in OutCells
    BY DEF OutInv
  <1>2. ~CtasToCome(y)
    BY DEF CtasToCome
  <1>3. ~LaunchesToCome(y)
    <2>1. stream = <<>>
      BY DEF Running
    <2>2. Len(stream) = 0
      BY <2>1
    <2>3. 2 .. Len(stream) = {}
      BY <2>2
    <2> QED
      BY <2>3 DEF LaunchesToCome
  <1>4. Whole(call, y, out[y])
    BY <1>1, <1>2, <1>3 DEF OutInv
  <1>5. PackedCall(call)
    BY DEF EpilogueInv, StreamInv, CallInv
  <1> QED
    BY <1>1, <1>4, <1>5, WholeIsProduct

\* The product is whole: when a call returns, every cell of the output is the sum
\* of every chunk of its tile exactly once, each against the activations and the
\* scale of the same k-block and the cell's rows, whatever the op, the shards, the
\* splits, the row blocks, the order in which the copies land and that in which
\* the CTAs of a tile arrive (gluon_mul_mat, _tiles_multi, _tiles_grouped).
THEOREM ProductAlways == GemmSpec => []ProductIsWhole
  <1>1. EpilogueInv /\ OutInv => ProductIsWhole
    BY WholeProduct
  <1> QED
    BY <1>1, EpilogueInit, EpilogueNext, LoopInit, LoopNext, StagesInit, StagesNext, AccInit, AccNext,
       SumsInit, SumsNext, OutInit, OutNext, PTL DEF GemmSpec
=============================================================================
