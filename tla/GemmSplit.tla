------------------------------ MODULE GemmSplit -----------------------------
(***************************************************************************)
(* Split-K of the GGUF matrix multiplications: how many splits a launch    *)
(* takes and which k-blocks each split owns.  Products and quotients are   *)
(* exact here, floating point in the code.                                 *)
(***************************************************************************)
EXTENDS Integers, FiniteSets, FiniteSetsExt


None == -1

CeilDiv(a, b) == (a + b - 1) \div b

\* round(a / b), a half to the even neighbour.
RoundDiv(a, b) ==
    LET q == a \div b
        r == 2 * (a % b)
    IN  IF r > b \/ (r = b /\ q % 2 = 1) THEN q + 1 ELSE q

\* The k-blocks first .. past - 1 of split s, as <<first, past>>.
\* The standalone kernels: equal parts rounded up, the last ones short.
CeilPart(s, splits, nb) ==
    LET per == (nb + splits - 1) \div splits
    IN  <<s * per, IF (s + 1) * per < nb THEN (s + 1) * per ELSE nb>>

\* The grouped launch's descriptors: balanced parts.
BalancedPart(s, splits, nb) == <<(s * nb) \div splits, ((s + 1) * nb) \div splits>>

-----------------------------------------------------------------------------
(* The measured tables: <<output tiles, k-blocks, splits>>.                *)

_TABLE == {<<272, 20, 4>>, <<80, 68, 2>>, <<96, 20, 5>>, <<80, 24, 3>>, <<192, 20, 3>>, <<32, 20, 5>>,
           <<16, 20, 5>>, <<160, 20, 1>>, <<256, 20, 5>>, <<544, 20, 1>>, <<3880, 20, 1>>}

GROUPED_SPLITS ==
    {<<80, 68, 5>>, <<96, 20, 8>>, <<80, 24, 3>>, <<160, 20, 8>>, <<192, 20, 5>>, <<272, 20, 8>>,
     <<224, 20, 5>>, <<32, 20, 5>>, <<16, 20, 5>>, <<544, 20, 5>>, <<3880, 20, 1>>}

GROUPED_SPLITS_M32 ==
    {<<32, 20, 5>>, <<80, 24, 2>>, <<80, 68, 5>>, <<96, 20, 5>>, <<160, 20, 1>>, <<224, 20, 5>>,
     <<272, 20, 2>>, <<544, 20, 1>>, <<3880, 20, 1>>}

Measured(table, tiles, nb) == {e \in table : e[1] = tiles /\ e[2] = nb}
Entry(table, tiles, nb) == (CHOOSE e \in Measured(table, tiles, nb) : TRUE)[3]

Clamp(s, nb) == Max({1, Min({s, nb})})

\* The partial sums within PARTIALS_BUDGET = 0.15 of the weights' bytes, where
\* the caller gives the weights' size.
Cap(nb, blockBytes, m) == IF blockBytes = None THEN nb ELSE Max({1, (3 * nb * blockBytes) \div (160 * m)})

\* A standalone launch of n columns: 3 x 80 CTAs are a wave.
split_k_for(nb, n, m, blockBytes) ==
    LET tiles == CeilDiv(n, 64)
        s == IF Measured(_TABLE, tiles, nb) # {} THEN Entry(_TABLE, tiles, nb)
             ELSE IF tiles >= 960 THEN 1
             ELSE Max({1, Min({8, nb \div 4, RoundDiv(1080, tiles)})})
    IN  Clamp(Min({s, Cap(nb, blockBytes, m)}), nb)

\* A grouped launch: above 16 rows its own table, uncapped.
grouped_split_for(tiles, nb, m, blockBytes) ==
    LET s == IF Measured(GROUPED_SPLITS, tiles, nb) # {} THEN Entry(GROUPED_SPLITS, tiles, nb)
             ELSE Max({1, Min({8, nb \div 2, RoundDiv(1440, tiles)})})
    IN  IF m > 16 /\ Measured(GROUPED_SPLITS_M32, tiles, nb) # {}
        THEN Clamp(Entry(GROUPED_SPLITS_M32, tiles, nb), nb)
        ELSE Clamp(Min({s, Cap(nb, blockBytes, Min({m, 16}))}), nb)
=============================================================================
