---------------------------- MODULE GemmKernels ----------------------------
(***************************************************************************)
(* The matrix-multiplication kernels of the GGUF plugin, one record each:  *)
(* the block type, what a stage holds and where shared memory puts it, how *)
(* the activations arrive, and the decode (GemmForms).  Then the host      *)
(* side: split-K partitions, the packed buffer of a layer's shards and the *)
(* descriptors of a grouped launch.                                        *)
(*                                                                         *)
(* Shared memory is counted in 32-bit words.  Stage s starts at            *)
(* stages + s * slot and holds `words' words for each of 64 rows; the      *)
(* activation stages start at `acts', the grid table at `tab'.  The quant  *)
(* and header arrays of the raw IQ4_XS and Q4_K kernels are one stage      *)
(* here: they are copied, committed and read together.                     *)
(***************************************************************************)
EXTENDS GemmForms, GemmSplit, SequencesExt

Cells == Sub \X Sub

\* A kernel on raw rows: two stages of 32-word rows, the activations loaded
\* per k-block, `align' the byte offsets a block can have in its first word.
RawKernel(t, align, words, cell) ==
    [type |-> t, raw |-> TRUE, align |-> align, words |-> words, nst |-> 1, stages |-> 0, slot |-> 64 * 32,
     size |-> 2 * 64 * 32, acts |-> None, bm |-> 16, depth |-> 2, tab |-> None, tabWords |-> 0,
     ahead |-> FALSE, cell |-> cell]

Misaligned == {0, 2}
RawD(s2) == Bits(RawRow(s2), 0, 8 * s2, 16)

iq3s == RawKernel("IQ3_S", Misaligned, 28, [s2 \in Misaligned, c \in Cells |-> Iq3s(FieldRow(s2), RawD(s2), c[1], c[2])])
\* The int8 forms take the same fields of the same row.
iq3s_int8 == iq3s
iq3s_int8b ==
    [iq3s EXCEPT !.cell = [x \in Misaligned \X Cells |->
        LET ib == x[2][1]
            b == x[2][2]
            h == IF b < 4 THEN HalfIq3s(FieldRow(x[1]), 2 * ib, ib, b, 8 - b, 4 * b)
                 ELSE HalfIq3s(FieldRow(x[1]), 2 * ib + 1, ib, b - 4, 4 - (b - 4), 16 + 4 * (b - 4))
        IN  GridCell(h.idx, 0, h.sign, Bits(FieldRow(x[1]), 26, 4 * ib, 4), RawD(x[1]))]]

\* The activations staged beside the weights, the grid table behind both.
iq3s_int8c == [iq3s_int8b EXCEPT !.acts = 4096, !.tab = 6144, !.tabWords = 512, !.size = 6656]

iq3xxs == RawKernel("IQ3_XXS", Misaligned, 25, [s2 \in Misaligned, c \in Cells |-> Iq3xxs(FieldRow(s2), RawD(s2), c[1], c[2])])
iq3xxs_int8 == iq3xxs

\* One kernel for the three IQ2 types: words (block + 2 + 3) \div 4 of the row.
iq2(t) == RawKernel(t, Misaligned, (Size[t] + 5) \div 4, [s2 \in Misaligned, c \in Cells |->
    CASE t = "IQ2_XXS" -> Iq2xxs(FieldRow(s2), RawD(s2), c[1], c[2])
      [] t = "IQ2_XS"  -> Iq2xs(FieldRow(s2), RawD(s2), c[1], c[2])
      [] t = "IQ2_S"   -> Iq2s(FieldRow(s2), RawD(s2), c[1], c[2])])
iq2_int8(t) == iq2(t)

\* Blocks of whole words: the quant words and the header words apart.
From(byte) == [p \in 0 .. 127 |-> byte + p]
TwoArrays(k, head) == [k EXCEPT !.slot = 64 * 32 + 64 * head, !.size = 2 * (64 * 32 + 64 * head)]
iq4xs == TwoArrays(RawKernel("IQ4_XS", {0}, 34, [s \in {0}, c \in Cells |-> Iq4xs(From(0), From(8), 0, c[1], c[2])]), 2)
iq4xs_int8 == iq4xs
q4k == TwoArrays(RawKernel("Q4_K", {0}, 36, [s \in {0}, c \in Cells |-> Q4k(From(0), From(16), 0, c[1], c[2])]), 4)
q4k_int8 == q4k
q2k == RawKernel("Q2_K", {0}, 25, [s \in {0}, c \in Cells |-> Q2k([p \in 0 .. 127 |-> p - 16], c[1], c[2])])

-----------------------------------------------------------------------------
(* The kernels on repacked tiles.  Row: any row of a tile, the decode is   *)
(* the same for all of them.                                               *)

Row == 5

Words(t) == RowBytes[t] \div 4

\* A flat power-of-two slot per stage, in 2048-word copy chunks.
Slot(words) == CHOOSE n \in {64 * 2 ^ i : i \in 0 .. 10} :
    /\ n >= 64 * words
    /\ \A m \in {64 * 2 ^ i : i \in 0 .. 10} : m >= 64 * words => n <= m
tile_geometry(words) ==
    LET chunked == 2048 * ((64 * words + 2047) \div 2048)
    IN  IF chunked > Slot(words) THEN chunked ELSE Slot(words)

RowOf(t) == TileRow(t, 1, 0, Row)

TileKernel(t, slot, cell) ==
    [type |-> t, raw |-> FALSE, align |-> {0}, words |-> Words(t), nst |-> 1, stages |-> 0, slot |-> slot,
     size |-> 2 * slot, acts |-> None, bm |-> 16, depth |-> 2, tab |-> None, tabWords |-> 0,
     ahead |-> FALSE, cell |-> cell]

iq3s_int8t ==
    [TileKernel("IQ3_S", 64 * 32, [s \in {0}, c \in Cells |->
        LET row == RowOf("IQ3_S")
            h == IF c[2] < 4 THEN HalfIq3s(row, 2 * c[1], c[1], c[2], 8 - c[2], 4 * c[2])
                 ELSE HalfIq3s(row, 2 * c[1] + 1, c[1], c[2] - 4, 4 - (c[2] - 4), 16 + 4 * (c[2] - 4))
        IN  GridCell(h.idx, 0, h.sign, Bits(row, 26, 4 * c[1], 4), Bits(row, 27, 0, 16))])
     EXCEPT !.acts = 4096, !.tab = 6144, !.tabWords = 512, !.size = 6656]

\* The same with one activation scale per k-block.
iq3s_int8te == iq3s_int8t

iq3xxs_int8t == TileKernel("IQ3_XXS", tile_geometry(25), [s \in {0}, c \in Cells |->
    LET row == RowOf("IQ3_XXS") IN Iq3xxs(row, Bits(row, 24, 0, 16), c[1], c[2])])

\* d lies behind the fields: word (block - 2) \div 4.
iq2_int8t(t) == TileKernel(t, tile_geometry(Words(t)), [s \in {0}, c \in Cells |->
    LET row == RowOf(t)
        d == Bits(row, (Size[t] - 2) \div 4, 0, 16)
    IN  CASE t = "IQ2_XXS" -> Iq2xxs(row, d, c[1], c[2])
          [] t = "IQ2_XS"  -> Iq2xs(row, d, c[1], c[2])
          [] t = "IQ2_S"   -> Iq2s(row, d, c[1], c[2])])

iq4xs_int8t == TileKernel("IQ4_XS", Slot(34), [s \in {0}, c \in Cells |-> LET row == RowOf("IQ4_XS") IN Iq4xs(row, row, 2, c[1], c[2])])
q4k_int8t == TileKernel("Q4_K", Slot(36), [s \in {0}, c \in Cells |-> LET row == RowOf("Q4_K") IN Q4k(row, row, 4, c[1], c[2])])

-----------------------------------------------------------------------------
(* The grouped kernel: one launch for a layer's shards of any tile types.  *)

Halves == [t \in DOMAIN RowBytes |-> IF t \in {"Q8_0", "Q6_K"} THEN 2 ELSE 1]

Branch(t, row, ib, b) ==
    CASE t = "IQ3_S"   -> Grouped21(row, ib, b)  [] t = "IQ4_XS"  -> Grouped23(row, ib, b)
      [] t = "Q4_K"    -> Grouped12(row, ib, b)  [] t = "IQ3_XXS" -> Grouped18(row, ib, b)
      [] t = "IQ2_XXS" -> Grouped16(row, ib, b)  [] t = "IQ2_XS"  -> Grouped17(row, ib, b)
      [] t = "IQ2_S"   -> Grouped22(row, ib, b)  [] t = "Q8_0"    -> Grouped8(row, ib % 4, b)
      [] t = "Q3_K"    -> Grouped11(row, ib, b)  [] t = "Q5_K"    -> Grouped13(row, ib, b)
      [] t = "Q6_K"    -> Grouped14(row, ib % 4, b)

\* The shared regions: the two allocations, the stages, tables and staged
\* activations in them (REGIONS and the kernel's allocations).
REGIONS == [
    r0 |-> [alloc |-> 4096 + 512,   stages |-> 0, slot |-> 2304, tab |-> 1792, tabx |-> 1600, acts |-> None],
    r1 |-> [alloc |-> 8192,         stages |-> 0, slot |-> 2304, tab |-> 1792, tabx |-> 1600, acts |-> 6144],
    r2 |-> [alloc |-> 4096 + 2048,  stages |-> 0, slot |-> 1792, tab |-> 3584, tabx |-> 3584, acts |-> 4096],
    r3 |-> [alloc |-> 8192 + 4096,  stages |-> 0, slot |-> 2304, tab |-> 1792, tabx |-> 1600, acts |-> 8192],
    r4 |-> [alloc |-> 4096 + 4096,  stages |-> 0, slot |-> 1792, tab |-> 3584, tabx |-> 3584, acts |-> 4096],
    r5 |-> [alloc |-> 4096 + 2048,  stages |-> 0, slot |-> 2816, tab |-> 1792, tabx |-> 1600, acts |-> None],
    r6 |-> [alloc |-> 8192,         stages |-> 0, slot |-> 2816, tab |-> 1792, tabx |-> 1600, acts |-> 6144],
    r7 |-> [alloc |-> 8192 + 4096,  stages |-> 0, slot |-> 2816, tab |-> 1792, tabx |-> 1600, acts |-> 8192],
    r8 |-> [alloc |-> 8192 + 8192,  stages |-> 0, slot |-> 2304, tab |-> 1792, tabx |-> 1600, acts |-> 8192],
    r9 |-> [alloc |-> 16384 + 8192, stages |-> 16384, slot |-> 2304, tab |-> 1792, tabx |-> 1600, acts |-> 0]]

StageRow(t) == Words(t) \div Halves[t]
LargestRow(types) == Max({StageRow(t) : t \in types})

\* grouped_gemm: staged activations (amode 2) unless one row or IQ2 only, and
\* the region by row block, staging and the largest stage row.
Staged(types, rows, bm) == ~(rows = 1 \/ (types \subseteq {"IQ2_XXS", "IQ2_XS", "IQ2_S"} /\ bm = 16))
Region(types, rows, bm, depth, compact) ==
    LET staged == Staged(types, rows, bm) /\ depth = 2
        wide == LargestRow(types) > 36
        narrow == LargestRow(types) <= 28
    IN  CASE bm = 128                        -> "r9"
          [] bm = 64                         -> "r8"
          [] bm = 32 /\ staged /\ narrow     -> "r4"
          [] bm = 32 /\ staged /\ ~narrow    -> IF wide THEN "r7" ELSE "r3"
          [] OTHER -> IF compact THEN "r2" ELSE IF staged \/ depth = 3 THEN IF wide THEN "r6" ELSE "r1"
                      ELSE IF wide THEN "r5" ELSE "r0"

tiles_grouped_kernel(t, types, rows, bm, depth, compact) ==
    LET R == REGIONS[Region(types, rows, bm, depth, compact)]
        tables == t \in {"IQ3_S", "IQ3_XXS"}
    IN  [type |-> t, raw |-> FALSE, align |-> {0}, words |-> StageRow(t), nst |-> Halves[t], stages |-> R.stages,
         slot |-> R.slot, size |-> R.alloc,
         acts |-> IF Staged(types, rows, bm) /\ depth = 2 THEN R.acts ELSE None, bm |-> bm, depth |-> depth,
         tab |-> CASE t = "IQ3_S" -> R.stages + R.tab [] t = "IQ3_XXS" -> R.stages + R.tabx [] OTHER -> None,
         tabWords |-> CASE t = "IQ3_S" -> 512 [] t = "IQ3_XXS" -> 256 [] OTHER -> 0,
         ahead |-> bm >= 64,
         cell |-> [x \in {0} \X Cells |-> Branch(t, TileRow(t, Halves[t], IF Halves[t] = 2 THEN x[2][1] \div 4 ELSE 0, Row),
                                                  x[2][1], x[2][2])]]

-----------------------------------------------------------------------------
(* Which kernel an op runs.                                                *)

\* gluon_mul_mat on raw rows: the int8 form of the type, else the bf16 form.
_KERNELS == [t \in {"IQ3_S", "IQ4_XS", "IQ3_XXS", "Q4_K", "IQ2_S", "IQ2_XS", "IQ2_XXS", "Q2_K"} |->
    CASE t = "IQ3_S" -> iq3s [] t = "IQ4_XS" -> iq4xs [] t = "IQ3_XXS" -> iq3xxs [] t = "Q4_K" -> q4k
      [] t = "Q2_K" -> q2k [] OTHER -> iq2(t)]
_INT8_KERNELS == [t \in DOMAIN _KERNELS \ {"Q2_K"} |->
    CASE t = "IQ3_S" -> iq3s_int8c [] t = "IQ4_XS" -> iq4xs_int8 [] t = "IQ3_XXS" -> iq3xxs_int8
      [] t = "Q4_K" -> q4k_int8 [] OTHER -> iq2_int8(t)]

\* tiles_gemm: the registry's tile kernel of the type; the K-quants go through
\* the grouped kernel on the one shard.
_GEMM(t, m) ==
    CASE t = "IQ3_S" -> iq3s_int8te [] t = "IQ4_XS" -> iq4xs_int8t [] t = "Q4_K" -> q4k_int8t
      [] t = "IQ3_XXS" -> iq3xxs_int8t [] t \in {"IQ2_XXS", "IQ2_XS", "IQ2_S"} -> iq2_int8t(t)
      [] OTHER -> tiles_grouped_kernel(t, {t}, m, 16, 2, FALSE)

\* Kernels kept importable that no op dispatches to, by their own launchers.
Importable == [iq3s_int8 |-> iq3s_int8, iq3s_int8b |-> iq3s_int8b, iq3s_int8t |-> iq3s_int8t]

-----------------------------------------------------------------------------
(* The CTAs of a launch.  A shard is [type, n] (n output columns), its     *)
(* weights [base, row, tile]: where they start in the launch's buffer and  *)
(* how far apart k-blocks and tiles lie (bytes of raw rows, words of       *)
(* tiles).                                                                 *)

Tiles(shard) == CeilDiv(shard.n, 64)
TileWords(t) == 64 * Words(t)

Total(sizes) == FoldLeft(LAMBDA a, n : a + n, 0, sizes)

\* The packed buffer (torch.cat): where shard i's tiles lie in it.
Placed(shards, nb, i) == Total([j \in 1 .. i - 1 |-> Tiles(shards[j]) * nb * TileWords(shards[j].type)])

\* pack_tiles: where the launches look for them; a shard's columns beside the
\* last shard's.
pack_tiles_Unpadded(shards, nb) == [i \in DOMAIN shards |->
    [type |-> shards[i].type, n |-> shards[i].n, col0 |-> Total([j \in 1 .. i - 1 |-> shards[j].n]),
     base |-> Total([j \in 1 .. i - 1 |-> shards[j].n * nb * Words(shards[j].type)])]]
pack_tiles(shards, nb) == [i \in DOMAIN shards |->
    [type |-> shards[i].type, n |-> shards[i].n, col0 |-> Total([j \in 1 .. i - 1 |-> shards[j].n]),
     base |-> Total([j \in 1 .. i - 1 |-> Tiles(shards[j]) * nb * TileWords(shards[j].type)])]]

\* A standalone launch over a shard: tile x split, counter per tile; the column
\* mask is the shard's width (yn < N on its own view of the output).
StandaloneCtas(kernel, shard, nb, splits, rows) ==
    LET per == IF kernel.raw THEN Size[kernel.type] ELSE TileWords(kernel.type)
        tile == IF kernel.raw THEN 64 * nb * per ELSE nb * per
    IN  [c \in 1 .. Tiles(shard) * splits |->
            LET n == (c - 1) \div splits
                s == (c - 1) % splits
                part == CeilPart(s, splits, nb)
            IN  [kernel |-> kernel, off |-> shard.base + n * tile, per |-> per, kb0 |-> part[1], kb1 |-> part[2],
                 col0 |-> shard.col0 + 64 * n, limit |-> shard.col0 + shard.n, split |-> s, counter |-> n, rows |-> rows]]

\* descriptors: a row per tile and split of every shard; one CTA per row and
\* block of bm rows.
descriptors(shards, nb, splits, rows, kernelOf) ==
    FlattenSeq([i \in DOMAIN shards |->
        LET sh == shards[i]
            kernel == kernelOf[sh.type]
            blocks == CeilDiv(rows[2] - rows[1], kernel.bm)
        IN  [c \in 1 .. Tiles(sh) * splits * blocks |->
                LET n == (c - 1) \div (splits * blocks)
                    s == ((c - 1) \div blocks) % splits
                    r0 == rows[1] + kernel.bm * ((c - 1) % blocks)
                    part == BalancedPart(s, splits, nb)
                IN  [kernel |-> kernel, off |-> sh.base + n * nb * TileWords(sh.type), per |-> TileWords(sh.type),
                     kb0 |-> part[1], kb1 |-> part[2], col0 |-> sh.col0 + 64 * n,
                     limit |-> sh.col0 + 64 * n + Min({64, sh.n - 64 * n}), split |-> s, counter |-> None,
                     rows |-> <<r0, Min({r0 + kernel.bm, rows[2]})>>]]])

-----------------------------------------------------------------------------
(* The launches of one call, in stream order: each its CTAs, its splits and *)
(* how the splits are summed.                                              *)

GLUON_MAX_ROWS == 16
GLUON_MAX_ROWS_GROUPED == 32
GLUON_ARRIVAL_ROWS == 128
GLUON_DEQUANT_TYPES == {"Q4_K", "Q5_K", "IQ2_S"}

\* Row blocks [0, size), [size, 2 size), ... of a batch of m rows.
RowBlocks(m, size) == [i \in 1 .. CeilDiv(m, size) |-> <<(i - 1) * size, Min({i * size, m})>>]

\* The splits the caller gives, or the launcher's own choice.
Splitk(call, choice) == IF call.splits = None THEN choice ELSE Clamp(call.splits, call.nb)

\* A shard's raw rows.
gluon_mul_mat(call) ==
    LET shard == [call.shards[1] EXCEPT !.base = 0]
        kernel == IF shard.type \in DOMAIN _INT8_KERNELS /\ ~call.bf16 THEN _INT8_KERNELS[shard.type]
                  ELSE _KERNELS[shard.type]
        splits == Splitk(call, split_k_for(call.nb, shard.n, call.m, Size[shard.type]))
    IN  <<[ctas |-> StandaloneCtas(kernel, shard, call.nb, splits, <<0, call.m>>), splits |-> splits, reduce |-> FALSE]>>

\* A merged layer on the registry's kernels: a launch per shard and row half
\* into the shard's columns of the one output.  The K-quants (single_gemm) go
\* through the grouped kernel on the one shard.
gluon_mul_mat_tiles_multi(call) ==
    LET blocks == RowBlocks(call.m, GLUON_MAX_ROWS)
        launch(sh, rows) ==
            LET m == rows[2] - rows[1]
                kernel == IF "kernel" \in DOMAIN call THEN Importable[call.kernel] ELSE _GEMM(sh.type, m)
                grouped == Splitk(call, grouped_split_for(Tiles(sh), call.nb, m, None))
                splits == Splitk(call, split_k_for(call.nb, sh.n, m, RowBytes[sh.type]))
            IN  IF sh.type \in DOMAIN tile_map
                THEN [ctas |-> descriptors(<<sh>>, call.nb, grouped, rows, [t \in {sh.type} |-> kernel]),
                      splits |-> grouped, reduce |-> FALSE]
                ELSE [ctas |-> StandaloneCtas(kernel, sh, call.nb, splits, rows),
                      splits |-> splits, reduce |-> call.reduce /\ splits > 1]
    IN  FlattenSeq([i \in DOMAIN call.shards |-> [b \in DOMAIN blocks |-> launch(call.shards[i], blocks[b])]])

\* prepare_grouped_layer: the layer's tiles and its bytes per 256 weights.
LayerTiles(shards) == Total([i \in DOMAIN shards |-> Tiles(shards[i])])
LayerBlockBytes(shards) ==
    RoundDiv(Total([i \in DOMAIN shards |-> Tiles(shards[i]) * 64 * RowBytes[shards[i].type]]),
             Total([i \in DOMAIN shards |-> shards[i].n]))

\* A layer's run of shards in one grouped launch per 32 rows, or the wide form.
gluon_mul_mat_tiles_grouped(call) ==
    LET types == {call.shards[i].type : i \in DOMAIN call.shards}
        wide == call.m > GLUON_MAX_ROWS_GROUPED /\ types \cap GLUON_DEQUANT_TYPES = {}
        blocks == RowBlocks(call.m, GLUON_MAX_ROWS_GROUPED)
        launch(rows, bm, splits) ==
            [ctas |-> descriptors(call.shards, call.nb, splits, rows, [t \in types |->
                 tiles_grouped_kernel(t, types, rows[2] - rows[1], bm, call.depth, call.compact)]),
             splits |-> splits, reduce |-> FALSE]
        small(rows) ==
            LET m == rows[2] - rows[1]
            IN  launch(rows, IF m <= GLUON_MAX_ROWS THEN 16 ELSE 32,
                       Splitk(call, grouped_split_for(LayerTiles(call.shards), call.nb, m, LayerBlockBytes(call.shards))))
    IN  IF wide THEN <<launch(<<0, call.m>>, IF call.m <= 64 THEN 64 ELSE 128, 1)>>
        ELSE [b \in DOMAIN blocks |-> small(blocks[b])]
=============================================================================
