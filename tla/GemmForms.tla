----------------------------- MODULE GemmForms -----------------------------
(***************************************************************************)
(* What the GGUF matrix-multiplication kernels read out of a quantised     *)
(* block of 256 weights: the tile layouts the loader repacks a row into,   *)
(* and, per kernel, the bits each weight, sign and scale is taken from.    *)
(*                                                                         *)
(* A block is its bytes 0 .. Size - 1; bit i of byte p is 8 * p + i.  A    *)
(* kernel sees a row of a shared-memory stage as 32-bit words; `row' gives *)
(* the block byte behind each byte of those words.  A sub-block ib is 32   *)
(* consecutive weights, a cell is its group b of four (one fragment word). *)
(* The arithmetic on the decoded values is left out: what is kept is which *)
(* bits make up a value and in which order.                                *)
(***************************************************************************)
EXTENDS Integers, Sequences, FiniteSets, FiniteSetsExt, Functions

Types == {"IQ3_S", "IQ4_XS", "Q4_K", "Q2_K", "IQ3_XXS", "IQ2_XXS", "IQ2_XS", "IQ2_S",
          "Q8_0", "Q3_K", "Q5_K", "Q6_K"}

\* Bytes of a block of 256 weights (eight blocks of 32 for Q8_0).
Size == [IQ3_S |-> 110, IQ4_XS |-> 136, Q4_K |-> 144, Q2_K |-> 84, IQ3_XXS |-> 98, IQ2_XXS |-> 66,
         IQ2_XS |-> 74, IQ2_S |-> 82, Q8_0 |-> 272, Q3_K |-> 110, Q5_K |-> 176, Q6_K |-> 210]

-----------------------------------------------------------------------------
(* Repacking at load.  A tile map is the sequence of source bytes of a     *)
(* padded row; Pad marks the bytes torch.zeros leaves.                     *)

Pad == -1
Stride(from, n) == [i \in 1 .. n |-> from + i - 1]
Padding(n) == [i \in 1 .. n |-> Pad]

\* IQ3_S: the fields word-aligned behind each other, the scale d last.
IQ3S_TILE == Stride(2, 64) \o Stride(66, 8) \o Stride(74, 32) \o Stride(106, 4) \o Stride(0, 2) \o Padding(2)

\* d behind the fields, the row padded to its words: IQ3_XXS and the IQ2 types.
DLastTile(size, rowBytes) == Stride(2, size - 2) \o Stride(0, 2) \o Padding(rowBytes - size)

\* Already word-aligned: IQ4_XS and Q4_K, padded to the requested row.
AsIsTile(size, rowBytes) == Stride(0, size) \o Padding(rowBytes - size)

\* Half h of a Q8_0 k-block: the quants of four blocks, then their scales.
Q80Half(h) == [j \in 1 .. 136 |->
    IF j <= 128 THEN (4 * h + (j - 1) \div 32) * 34 + 2 + ((j - 1) % 32)
    ELSE (4 * h + (j - 129) \div 2) * 34 + ((j - 129) % 2)]

\* Half h of a Q6_K block: its low nibbles, high bits and scales, and d again.
Q6KHalf(h) == Stride(64 * h, 64) \o Stride(128 + 32 * h, 32) \o Stride(192 + 8 * h, 8) \o Stride(208, 2) \o Padding(2)

tile_map == [Q8_0 |-> Q80Half(0) \o Q80Half(1), Q3_K |-> Stride(0, 110) \o Padding(2),
             Q5_K |-> Stride(0, 176), Q6_K |-> Q6KHalf(0) \o Q6KHalf(1)]

RowBytes == [IQ3_S |-> 112, IQ4_XS |-> 136, Q4_K |-> 144, IQ3_XXS |-> 100, IQ2_XXS |-> 68, IQ2_XS |-> 76,
             IQ2_S |-> 84, Q8_0 |-> 272, Q3_K |-> 112, Q5_K |-> 176, Q6_K |-> 216]

\* The loader's repack of a k-block of a shard of this type.
Repack(t) ==
    CASE t = "IQ3_S"             -> IQ3S_TILE
      [] t \in {"IQ4_XS", "Q4_K"} -> AsIsTile(Size[t], RowBytes[t])
      [] t \in DOMAIN tile_map   -> tile_map[t]
      [] OTHER                   -> DLastTile(Size[t], RowBytes[t])

\* Where the byte u of a padded row lies in the 64-row tile of a k-block:
\* stage-major, the rows of a stage behind each other.
TileByte(t, stages, r, u) ==
    LET hb == RowBytes[t] \div stages IN (u \div hb) * 64 * hb + r * hb + (u % hb)

\* The row and block byte a tile byte holds after the repack.
Held(t, stages, a) ==
    LET hb == RowBytes[t] \div stages
    IN  <<(a % (64 * hb)) \div hb, Repack(t)[(a \div (64 * hb)) * hb + (a % hb) + 1]>>

\* The dequantising path turns tiles back into rows: the tile byte that byte p
\* of row r's block is read from.
unrepack_tiles_AsIs(t, r) == [p \in 0 .. Size[t] - 1 |-> r * RowBytes[t] + p]
unrepack_tiles(t, r) == [p \in 0 .. Size[t] - 1 |->
    r * RowBytes[t] + (IF t \in {"IQ4_XS", "Q4_K"} THEN p ELSE IF p < 2 THEN Size[t] - 2 + p ELSE p - 2)]

\* The K-quant tiles: the first padded-row byte that holds a block byte.
block_map(t) == [p \in 0 .. Size[t] - 1 |-> Min({j \in DOMAIN tile_map[t] : tile_map[t][j] = p}) - 1]

unrepack_kq(t, stages, r) == [p \in 0 .. Size[t] - 1 |-> TileByte(t, stages, r, block_map(t)[p])]

-----------------------------------------------------------------------------
(* Reading.                                                                *)

Sub == 0 .. 7
Lane == 0 .. 3

\* n bits from bit `shift' of word w, as bits of the block; Pad bytes give a
\* bit no block has.
Bits(row, w, shift, n) == [i \in 1 .. n |->
    LET s == 32 * w + shift + i - 1 IN 8 * row[s \div 8] + (s % 8)]

\* The same n bits of each byte of a word, one weight per byte.
Spread(row, w, shift, n) == [j \in Lane |-> Bits(row, w, 8 * j + shift, n)]

\* Stage rows: row r of stage h of a repacked tile (a byte of another row reads
\* as Pad), and a raw row copied from the word that holds the block's first byte.
TileRow(t, stages, h, r) ==
    LET hb == RowBytes[t] \div stages
        byte(p) == Held(t, stages, h * 64 * hb + r * hb + p)
    IN  [p \in 0 .. hb - 1 |-> IF byte(p)[1] = r THEN byte(p)[2] ELSE Pad]
RawRow(s2) == [p \in 0 .. 127 |-> p - s2]

\* _field: the four bytes at block byte 4w + 2, picked out of words w and w + 1
\* by the selector of the row's alignment.
FieldRow(s2) == [p \in 0 .. 123 |->
    RawRow(s2)[4 * (p \div 4) + (IF s2 = 0 THEN 2 ELSE 4) + (p % 4)]]

\* A cell of a grid type: four entries of grid word idx, from entry `from'.
GridCell(idx, from, sign, scale, d) ==
    [code |-> [j \in Lane |-> <<idx, from + j>>], sign |-> sign, scale |-> scale, min |-> <<>>, d |-> d]

\* A cell of a linear type: four integers of their own bits.
QuantCell(q, scale, min, d) ==
    [code |-> [j \in Lane |-> <<q[j], 0>>], sign |-> [j \in Lane |-> {}], scale |-> scale, min |-> min, d |-> d]

\* Four sign bits from bit `shift' of word w.
NibbleSigns(row, w, shift) == [j \in Lane |-> {Bits(row, w, shift, 4)[j + 1]}]

\* Half w2 of a group's eight signs: seven stored, the eighth their parity.
ParitySigns(row, w, shift, w2) ==
    LET s7 == Bits(row, w, shift, 7)
    IN  [j \in Lane |-> IF 4 * w2 + j < 7 THEN {s7[4 * w2 + j + 1]} ELSE Range(s7)]

-----------------------------------------------------------------------------
(* The decode of each type: stage row, where d is, sub-block, group.       *)

Iq3s(row, d, ib, b) ==
    LET qs == Bits(row, 2 * ib + b \div 4, 8 * (b % 4), 8)
        qh == Bits(row, 16 + ib \div 4, 8 * (ib % 4) + b, 1)
    IN  GridCell(qs \o qh, 0, NibbleSigns(row, 18 + ib, 4 * b), Bits(row, 26, 4 * ib, 4), d)

Iq3xxs(row, d, ib, b) ==
    GridCell(Bits(row, 2 * ib + b \div 4, 8 * (b % 4), 8), 0,
             ParitySigns(row, 16 + ib, 7 * (b \div 2), b % 2), Bits(row, 16 + ib, 28, 4), d)

Iq2xxs(row, d, ib, b) ==
    GridCell(Bits(row, 2 * ib, 8 * (b \div 2), 8), 4 * (b % 2),
             ParitySigns(row, 2 * ib + 1, 7 * (b \div 2), b % 2), Bits(row, 2 * ib + 1, 28, 4), d)

Iq2xs(row, d, ib, b) ==
    LET g == b \div 2
        w == 2 * ib + g \div 2
    IN  GridCell(Bits(row, w, 16 * (g % 2), 9), 4 * (b % 2),
                 ParitySigns(row, w, 16 * (g % 2) + 9, b % 2),
                 Bits(row, 16 + ib \div 4, 8 * (ib % 4) + 4 * (b \div 4), 4), d)

Iq2s(row, d, ib, b) ==
    LET g == b \div 2
    IN  GridCell(Bits(row, ib, 8 * g, 8) \o Bits(row, 16 + ib \div 4, 8 * (ib % 4) + 2 * g, 2), 4 * (b % 2),
                 NibbleSigns(row, 8 + ib, 8 * g + 4 * (b % 2)),
                 Bits(row, 18 + ib \div 4, 8 * (ib % 4) + 4 * (b \div 4), 4), d)

\* The header words and the quant words may be two arrays (the raw kernels).
Iq4xs(head, q, qsAt, ib, b) ==
    QuantCell(Spread(q, qsAt + 4 * ib + (b % 4), 4 * (b \div 4), 4),
              Bits(head, 1, 4 * ib, 4) \o Bits(head, 0, 16 + 2 * ib, 2), <<>>, Bits(head, 0, 0, 16))

\* The packed six-bit scale and min of Q4_K and Q5_K (words 1-3).
ScaleMin(head, ib) ==
    IF ib < 4 THEN <<Bits(head, 1, 8 * ib, 6), Bits(head, 2, 8 * ib, 6)>>
    ELSE <<Bits(head, 3, 8 * (ib - 4), 4) \o Bits(head, 1, 8 * (ib - 4) + 6, 2),
           Bits(head, 3, 8 * (ib - 4) + 4, 4) \o Bits(head, 2, 8 * (ib - 4) + 6, 2)>>

Q4k(head, q, qsAt, ib, b) ==
    QuantCell(Spread(q, qsAt + 8 * (ib \div 2) + b, 4 * (ib % 2), 4),
              ScaleMin(head, ib)[1], ScaleMin(head, ib)[2], Bits(head, 0, 0, 32))

\* Raw only: the copy starts four words before the block.
Q2k(row, ib, b) ==
    LET n == ib \div 4
        tq == ib % 4
        byte == ((2 * tq) % 4) + b \div 4
        at == 4 + 2 * n + tq \div 2
    IN  QuantCell(Spread(row, 8 + 8 * n + b, 2 * tq, 2),
                  Bits(row, at, 8 * byte, 4), Bits(row, at, 8 * byte + 4, 4), Bits(row, 24, 0, 32))

-----------------------------------------------------------------------------
(* The grouped kernel's branches, as written there: row of the stage,      *)
(* sub-block (within the stage for the half-staged types), group.          *)

\* _decode_half_iq3s: the low and the high four groups of a sub-block.
HalfIq3s_OffByOne(row, w, ib, b4, shq, shs) ==
    [idx |-> Bits(row, w, 8 * b4, 8) \o Bits(row, 16 + ib \div 4, 8 * (ib % 4) + 7 - shq, 1),
     sign |-> NibbleSigns(row, 18 + ib, shs)]
HalfIq3s(row, w, ib, b4, shq, shs) ==
    [idx |-> Bits(row, w, 8 * b4, 8) \o Bits(row, 16 + ib \div 4, 8 * (ib % 4) + 8 - shq, 1),
     sign |-> NibbleSigns(row, 18 + ib, shs)]

Grouped21(row, ib, b) ==
    LET x == IF b < 4 THEN HalfIq3s(row, 2 * ib, ib, b, 8 - b, 4 * b)
             ELSE HalfIq3s(row, 2 * ib + 1, ib, b - 4, 4 - (b - 4), 16 + 4 * (b - 4))
    IN  GridCell(x.idx, 0, x.sign, Bits(row, 26, 4 * ib, 4), Bits(row, 27, 0, 16))

Grouped23(row, ib, b) ==
    LET qw == <<2 + 4 * ib, 3 + 4 * ib, 4 + 4 * ib, 5 + 4 * ib>>[(b % 4) + 1]
    IN  QuantCell(Spread(row, qw, (b \div 4) * 4, 4),
                  Bits(row, 1, 4 * ib, 4) \o Bits(row, 0, 16 + 2 * ib, 2), <<>>, Bits(row, 0, 0, 16))

Grouped12(row, ib, b) ==
    QuantCell(Spread(row, 4 + b + 8 * (ib \div 2), 4 * (ib % 2), 4),
              ScaleMin(row, ib)[1], ScaleMin(row, ib)[2], Bits(row, 0, 0, 32))

Grouped18(row, ib, b) ==
    GridCell(IF b < 4 THEN Bits(row, 2 * ib, 8 * b, 8) ELSE Bits(row, 2 * ib + 1, 8 * (b - 4), 8), 0,
             ParitySigns(row, 16 + ib, 7 * (b \div 2), b % 2), Bits(row, 16 + ib, 28, 4), Bits(row, 24, 0, 16))

Grouped16(row, ib, b) ==
    GridCell(Bits(row, 2 * ib, 8 * (b \div 2), 8), 4 * (b % 2),
             ParitySigns(row, 2 * ib + 1, 7 * (b \div 2), b % 2), Bits(row, 2 * ib + 1, 28, 4), Bits(row, 16, 0, 16))

Grouped17(row, ib, b) ==
    LET g == b \div 2
        q2 == Bits(row, IF g < 2 THEN 2 * ib ELSE 2 * ib + 1, 16 * (g % 2), 16)
        s7 == SubSeq(q2, 10, 16)
    IN  GridCell(SubSeq(q2, 1, 9), 4 * (b % 2),
                 [j \in Lane |-> IF b % 2 = 0 \/ j < 3 THEN {s7[4 * (b % 2) + j + 1]} ELSE Range(s7)],
                 Bits(row, 16 + ib \div 4, 8 * (ib % 4) + (IF b < 4 THEN 0 ELSE 4), 4), Bits(row, 18, 0, 16))

Grouped22(row, ib, b) ==
    LET g == b \div 2
    IN  GridCell(Bits(row, ib, 8 * g, 8) \o Bits(row, 16 + ib \div 4, 8 * (ib % 4) + 2 * g, 2), 4 * (b % 2),
                 NibbleSigns(row, 8 + ib, 8 * g + 4 * (b % 2)),
                 Bits(row, 18 + ib \div 4, 8 * (ib % 4) + (IF b < 4 THEN 0 ELSE 4), 4), Bits(row, 20, 0, 16))

Grouped8(row, i, b) ==
    QuantCell(Spread(row, 8 * i + b, 0, 8), <<>>, <<>>,
              IF i < 2 THEN Bits(row, 32, 16 * i, 16) ELSE Bits(row, 33, 16 * (i - 2), 16))

Grouped11(row, ib, b) ==
    LET half == b \div 4
        low == IF ib % 4 < 2 THEN Bits(row, 24, 16 * (ib % 4) + 8 * half + 4 * (ib \div 4), 4)
               ELSE Bits(row, 25, 16 * ((ib % 4) - 2) + 8 * half + 4 * (ib \div 4), 4)
        high == Bits(row, 26, 8 * ((2 * ib + half) % 4) + 2 * (ib \div 2), 2)
        q == Spread(row, 8 + 8 * (ib \div 4) + b, 2 * (ib % 4), 2)
        hm == Spread(row, b, 4 * (ib \div 4) + (ib % 4), 1)
    IN  QuantCell([j \in Lane |-> q[j] \o hm[j]], low \o high, <<>>, Bits(row, 27, 0, 16))

Grouped13(row, ib, b) ==
    LET q == Spread(row, 12 + 8 * (ib \div 2) + b, 4 * (ib % 2), 4)
        qh == Spread(row, 4 + b, ib, 1)
    IN  QuantCell([j \in Lane |-> q[j] \o qh[j]],
                  ScaleMin(row, ib)[1], ScaleMin(row, ib)[2], Bits(row, 0, 0, 32))

Grouped14(row, t, b) ==
    LET ql == Spread(row, (IF t % 2 = 0 THEN 0 ELSE 8) + b, 4 * (t \div 2), 4)
        qh == Spread(row, 16 + b, 2 * t, 2)
    IN  QuantCell([j \in Lane |-> ql[j] \o qh[j]],
                  Bits(row, IF t < 2 THEN 24 ELSE 25, 16 * (t % 2) + 8 * (b \div 4), 8), <<>>, Bits(row, 26, 0, 16))

-----------------------------------------------------------------------------
(* The reference the K-quant types are tested against, per weight: its     *)
(* bits, and its group's scale and min.                                    *)

Byte(p, shift, n) == [i \in 1 .. n |-> 8 * p + shift + i - 1]

\* _scale_min_k4 of the scale bytes at `at'.
_scale_min_k4(at, ib) ==
    IF ib < 4 THEN <<Byte(at + ib, 0, 6), Byte(at + ib + 4, 0, 6)>>
    ELSE <<Byte(at + ib + 4, 0, 4) \o Byte(at + ib - 4, 6, 2), Byte(at + ib + 4, 4, 4) \o Byte(at + ib, 6, 2)>>

parse(t, w) ==
    LET ib == w \div 32
        p == w % 32
        h == w \div 128
        j == ib % 4
        i == w \div 16
    IN  CASE t = "Q8_0" -> [q |-> Byte(34 * ib + 2 + p, 0, 8), scale |-> <<>>, min |-> <<>>, d |-> Byte(34 * ib, 0, 16)]
          [] t = "Q3_K" -> [q |-> Byte(32 + 32 * h + p, 2 * j, 2) \o Byte(p, 4 * h + j, 1),
                            scale |-> Byte(96 + (i % 8), 4 * (i \div 8), 4) \o Byte(104 + (i % 4), 2 * (i \div 4), 2),
                            min |-> <<>>, d |-> Byte(108, 0, 16)]
          [] t = "Q5_K" -> [q |-> Byte(48 + 32 * (ib \div 2) + p, 4 * (ib % 2), 4) \o Byte(16 + p, ib, 1),
                            scale |-> _scale_min_k4(4, ib)[1], min |-> _scale_min_k4(4, ib)[2], d |-> Byte(0, 0, 32)]
          [] t = "Q6_K" -> [q |-> Byte(64 * h + 32 * (j % 2) + p, 4 * (j \div 2), 4) \o Byte(128 + 32 * h + p, 2 * j, 2),
                            scale |-> Byte(192 + i, 0, 8), min |-> <<>>, d |-> Byte(208, 0, 16)]

\* The one other per-weight definition in the code: the dequantiser of IQ3_S
\* tiles, as the weight's cell entry of the tile bytes it loads.
_dequant_iq3s_tile_kernel(row, j) ==
    LET ib == j \div 32
        il == (j % 32) \div 8
        jj == j % 8
        half == jj \div 4
        at(p, shift, n) == [i \in 1 .. n |-> 8 * row[p] + shift + i - 1]
    IN  [code |-> <<at(8 * ib + 2 * il + half, 0, 8) \o at(64 + ib, 2 * il + half, 1), jj % 4>>,
         sign |-> Range(at(72 + 4 * ib + il, jj, 1)),
         scale |-> at(104 + ib \div 2, 4 * (ib % 2), 4), d |-> at(108, 0, 8) \o at(109, 0, 8)]
=============================================================================
