----------------------------- MODULE MCGemmTile -----------------------------
(* The calls model-checked: the kernels of every type on a tile of two     *)
(* k-blocks, and the calls whose splits, shards, row blocks and regions    *)
(* make the hard cases.                                                    *)
EXTENDS GemmTile

Raw(t, b, nb, splits) ==
    [op |-> "raw", bf16 |-> b, m |-> 4, nb |-> nb, splits |-> splits, shards |-> <<[type |-> t, n |-> 96]>>]
TileCall(shards, m, nb, splits, reduce) ==
    [op |-> "tiles", m |-> m, nb |-> nb, splits |-> splits, reduce |-> reduce, shards |-> shards]
Layer(shards, m, nb, splits, depth, compact) ==
    [op |-> "grouped", m |-> m, nb |-> nb, splits |-> splits, depth |-> depth, compact |-> compact, shards |-> shards]

T(t, n) == [type |-> t, n |-> n]
With(c, kernel) == [f \in DOMAIN c \cup {"kernel"} |-> IF f = "kernel" THEN kernel ELSE c[f]]

MCCalls ==
    \* every raw kernel, one with two splits, one with a short last split
    {Raw(t, b, 2, 1) : t \in DOMAIN _KERNELS, b \in BOOLEAN} \cup {Raw("IQ3_S", FALSE, 3, 2), Raw("Q4_K", TRUE, 5, 4)}
    \* every tile kernel
    \cup {TileCall(<<T(t, 32)>>, 4, 2, None, FALSE) : t \in DOMAIN RowBytes}
    \cup {With(TileCall(<<T("IQ3_S", 32)>>, 4, 2, 1, FALSE), "iq3s_int8t")}
    \* shards beside each other, row halves, splits summed by the launcher
    \cup {TileCall(<<T("IQ4_XS", 40), T("IQ3_S", 32)>>, 20, 3, 2, FALSE)}
    \* splits summed by the last CTA; an empty split; two launches on the counters
    \cup {TileCall(<<T("IQ2_XS", 32)>>, 1, 3, 3, TRUE), TileCall(<<T("IQ3_XXS", 32)>>, 1, 4, 3, TRUE),
          TileCall(<<T("Q4_K", 32)>>, 20, 2, 2, TRUE)}
    \* the grouped kernel's regions: direct loads, staged, compact, three stages,
    \* 32 rows, the wide stages, the wide forms; two blocks of 32 rows
    \cup {Layer(<<T("IQ3_S", 32), T("Q6_K", 32)>>, m, 3, s, 2, FALSE) : m \in {1, 8, 20}, s \in {None, 2}}
    \cup {Layer(<<T("IQ3_XXS", 96), T("Q5_K", 32)>>, m, 4, 2, 2, FALSE) : m \in {1, 8, 20, 40}}
    \cup {Layer(<<T("IQ3_S", 32), T("IQ3_XXS", 32)>>, m, 3, None, 2, c) : m \in {8, 20}, c \in BOOLEAN}
    \cup {Layer(<<T("IQ3_S", 32), T("Q4_K", 32)>>, m, 4, 1, 3, FALSE) : m \in {1, 20}}
    \cup {Layer(<<T("IQ2_XXS", 32), T("IQ2_S", 32)>>, 8, 3, None, 2, FALSE)}
    \cup {Layer(<<T("IQ3_S", 40), T("Q8_0", 96)>>, m, 3, None, 2, FALSE) : m \in {40, 200}}
=============================================================================
