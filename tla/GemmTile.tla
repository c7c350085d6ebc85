------------------------------ MODULE GemmTile ------------------------------
(***************************************************************************)
(* The execution of a GGUF matrix multiplication on the GPU: every CTA     *)
(* walks its k-blocks through a pipeline of asynchronous copies into       *)
(* shared memory, and the partial sums of the splits are added up, by the  *)
(* launcher's sum kernel or by the last CTA of a tile to arrive.           *)
(*                                                                         *)
(* A CTA has two warps here; each copies its part of every stage, reads    *)
(* the whole stage, and accumulates one half of the tile's 64 columns.     *)
(* What a warp accumulates is the sequence of what it multiplied: the      *)
(* weights' chunk (shard, tile, k-block, half), the activations' k-block   *)
(* and rows, the k-block of their scale.  Garbled stands for any other     *)
(* contents.                                                               *)
(*                                                                         *)
(* CTAs share no state before their epilogue, so their k-loops run one     *)
(* after the other; the epilogues interleave.                              *)
(***************************************************************************)
EXTENDS GemmKernels

\* The multiplications asked for: the op, the batch rows m, the k-blocks nb, the
\* shards (type and output columns), the splits (None: the launcher's choice)
\* and the op's own options.
CONSTANTS
    Calls,
    Counters    \* arrival counters of a device (splitk_counters: 8192)

ASSUME CountersAssumption == Counters \in Nat \ {0}

ASSUME CallsAssumption ==
    \A c \in Calls :
        LET types == {c.shards[i].type : i \in DOMAIN c.shards} IN
        /\ {"op", "m", "nb", "shards", "splits"} \subseteq DOMAIN c
        /\ c.op \in {"raw", "tiles", "grouped"}
        /\ c.m \in Nat \ {0} /\ c.nb \in Nat \ {0} /\ c.splits \in Nat \cup {None}
        /\ c.shards # <<>> /\ c.shards \in Seq([type : Types, n : Nat \ {0}])
        /\ c.op = "raw" =>
              /\ "bf16" \in DOMAIN c /\ c.bf16 \in BOOLEAN
              /\ c.m <= GLUON_MAX_ROWS /\ Len(c.shards) = 1 /\ types \subseteq DOMAIN _KERNELS
        /\ c.op # "raw" => types \subseteq DOMAIN RowBytes
        /\ c.op = "tiles" =>
              /\ "reduce" \in DOMAIN c /\ c.reduce \in BOOLEAN
              /\ c.m <= 2 * GLUON_MAX_ROWS
              /\ c.reduce => \A i \in DOMAIN c.shards : Tiles(c.shards[i]) <= Counters
              /\ "kernel" \in DOMAIN c => c.kernel = "iq3s_int8t" /\ types = {"IQ3_S"}
        /\ c.op = "grouped" =>
              /\ {"depth", "compact"} \subseteq DOMAIN c /\ c.compact \in BOOLEAN
              /\ c.depth \in {2, 3} /\ (types \cap GLUON_DEQUANT_TYPES # {} => c.m <= GLUON_ARRIVAL_ROWS)
              /\ c.depth = 3 => c.m <= GLUON_MAX_ROWS_GROUPED /\ types \cap DOMAIN tile_map = {}
              /\ c.compact => c.depth = 2 /\ LargestRow(types) <= 28 /\ c.m \in 2 .. GLUON_MAX_ROWS_GROUPED

VARIABLES
    call,       \* the multiplication, its shards packed
    stream,     \* the launches not yet over, the first one running
    cta,        \* the CTA in its k-loop, past the last when all are in the epilogue
    pc, step,   \* per warp: where it is, and its stage number
    flight,     \* per warp: its commit groups, the oldest first: sets of copies
    smem,       \* the parts of shared memory: what they hold
    sx,         \* per warp: the activation scale in use and the prefetched one
    acc,        \* per warp: what it has accumulated
    sums,       \* per finished CTA and warp: its partial sum
    epi,        \* per CTA and warp: where its epilogue is
    pending,    \* partial stores on the way to memory
    partial,    \* the fp32 partials of a split, row block and column half
    counter,    \* arrivals at a tile, shared by every launch
    out         \* the output: of a row block and column half

loopVars == <<pc, step, flight, smem, sx, acc>>
vars == <<call, stream, cta, loopVars, sums, epi, pending, partial, counter, out>>

Warp == 0 .. 1
Garbled == [chunk |-> <<>>]
Table == [chunk |-> <<"table">>]
GarbledProduct == [weights |-> <<>>, acts |-> <<>>, scale |-> None]

-----------------------------------------------------------------------------
(* The call's plan.                                                        *)

Packed(c) == [c EXCEPT !.shards = pack_tiles(c.shards, c.nb)]

Launches(c) ==
    CASE c.op = "raw"     -> gluon_mul_mat(c)
      [] c.op = "tiles"   -> gluon_mul_mat_tiles_multi(c)
      [] c.op = "grouped" -> gluon_mul_mat_tiles_grouped(c)

\* The launches in stream order, without the kernels' decodes.
Geometry(k) == [f \in DOMAIN k \ {"cell"} |-> k[f]]
Plain(L) ==
    [L EXCEPT !.ctas = [i \in DOMAIN L.ctas |-> [L.ctas[i] EXCEPT !.kernel = Geometry(L.ctas[i].kernel)]]]
Stream(c) == [l \in DOMAIN Launches(c) |-> Plain(Launches(c)[l])]

\* The cells of a call's output: 16 rows by 32 columns, by the first column; a
\* shard's last ones are short.
RowUnits(c) == 0 .. CeilDiv(c.m, 16) - 1
ColHalves(c) ==
    UNION {{c.shards[i].col0 + 32 * h : h \in 0 .. CeilDiv(c.shards[i].n, 32) - 1} : i \in DOMAIN c.shards}

Running == stream # <<>>
Ctas == IF Running THEN stream[1].ctas ELSE <<>>
Splits == stream[1].splits
Reduces == stream[1].reduce
C == Ctas[cta]
InLoop == cta \in DOMAIN Ctas
InEpilogue == Running /\ cta > Len(Ctas)

NTiles(c) == IF c.kb1 > c.kb0 THEN c.kb1 - c.kb0 ELSE 0
Steps(c) == NTiles(c) * c.kernel.nst

\* The chunk of weights at an address of the packed buffer (of raw rows: at a
\* byte of the tile's first row), if a chunk starts there.
ChunkAt(addr, k) ==
    LET shards == call.shards
        address(sh, i, kb, h) ==
            IF k.raw THEN (i * 64 * call.nb + kb) * Size[shards[sh].type]
            ELSE Placed(shards, call.nb, sh) + (i * call.nb + kb) * TileWords(shards[sh].type) + h * 64 * k.words
        chunks(sh) == {sh} \X (0 .. Tiles(shards[sh]) - 1) \X (0 .. call.nb - 1) \X (0 .. k.nst - 1)
        at == {x \in UNION {chunks(sh) : sh \in {i \in DOMAIN shards : shards[i].type = k.type}} :
                 address(x[1], x[2], x[3], x[4]) = addr}
    IN  IF at = {} THEN Garbled ELSE [chunk |-> CHOOSE x \in at : TRUE]

\* Stage number s of a CTA: k-block, half, and the weights it copies.
KBlock(c, s) == c.kb0 + s \div c.kernel.nst
HalfOf(c, s) == s % c.kernel.nst
Weights(c, s) ==
    ChunkAt(c.off + KBlock(c, s) * c.per + (IF c.kernel.raw THEN 0 ELSE HalfOf(c, s) * 64 * c.kernel.words), c.kernel)
Activations(c, kb) == [chunk |-> <<kb, c.rows>>]

-----------------------------------------------------------------------------
(* Shared memory: the parts each warp copies, as intervals of words.       *)

Parts(k) ==
    {<<"w", s, w>> : s \in 0 .. k.depth - 1, w \in Warp}
    \cup (IF k.acts = None THEN {} ELSE {<<"a", s, w>> : s \in 0 .. 1, w \in Warp})
    \cup (IF k.tab = None THEN {} ELSE {<<"t", 0, w>> : w \in Warp})

Extent(k, part) ==
    LET n == CASE part[1] = "w" -> IF k.raw THEN k.slot ELSE 64 * k.words
               [] part[1] = "a" -> 64 * k.bm
               [] part[1] = "t" -> k.tabWords
        at == CASE part[1] = "w" -> k.stages + part[2] * k.slot
                [] part[1] = "a" -> k.acts + part[2] * 64 * k.bm
                [] part[1] = "t" -> k.tab
    IN  [first |-> at + part[3] * (n \div 2), past |-> at + part[3] * (n \div 2) + n \div 2]

Overlap(x, y) == x.first < y.past /\ y.first < x.past

\* A write replaces its part and garbles every part it overlaps.
Write(mem, k, part, value) ==
    [p \in DOMAIN mem |->
        IF p = part THEN IF Extent(k, p).past <= k.size THEN value ELSE Garbled
        ELSE IF Overlap(Extent(k, p), Extent(k, part)) THEN Garbled ELSE mem[p]]

Holds(kind, s, value) == \A w \in Warp : smem[<<kind, s, w>>] = value

-----------------------------------------------------------------------------

\* Nothing copied, nothing scaled: a CTA's shared memory and registers.
EachWarp(x) == [w \in Warp |-> x]
Fresh(c) == [p \in Parts(c.kernel) |-> Garbled]

\* A CTA begins its k-loop.
StartLoop(c) ==
    /\ pc' = EachWarp("prologue") /\ step' = EachWarp(0) /\ flight' = EachWarp(<<>>)
    /\ smem' = Fresh(c) /\ sx' = EachWarp(<<None, None>>) /\ acc' = EachWarp(<<>>)

\* A launch's epilogues, none begun, and its partials buffer: torch.empty.
Epilogues(l) == [i \in DOMAIN l.ctas |-> EachWarp("sum")]
Partials(l) == [x \in (0 .. l.splits - 1) \X RowUnits(call) \X ColHalves(call) |-> <<GarbledProduct>>]

GemmInit ==
    /\ call \in {Packed(c) : c \in Calls}
    /\ stream = Stream(call)
    /\ cta = 1
    /\ pc = EachWarp("prologue") /\ step = EachWarp(0) /\ flight = EachWarp(<<>>)
    /\ smem = Fresh(C) /\ sx = EachWarp(<<None, None>>) /\ acc = EachWarp(<<>>)
    /\ sums = <<>>
    /\ epi = Epilogues(stream[1])
    /\ pending = {}
    /\ partial = Partials(stream[1])
    /\ counter = [n \in 0 .. Counters - 1 |-> 0]
    /\ out = [x \in RowUnits(call) \X ColHalves(call) |-> <<GarbledProduct>>]

-----------------------------------------------------------------------------
(* The k-loop.                                                             *)

\* What warp w copies for stage s: its part of the weights, and with the first
\* stage of a k-block its part of the activations.
Copies(c, s, w) ==
    {[part |-> <<"w", s % c.kernel.depth, w>>, value |-> Weights(c, s)]}
    \cup IF c.kernel.acts # None /\ HalfOf(c, s) = 0
         THEN {[part |-> <<"a", (s \div c.kernel.nst) % 2, w>>, value |-> Activations(c, KBlock(c, s))]}
         ELSE {}

\* The grid table into shared memory, the first copies, the first scale.  With
\* three stages two groups are committed whatever they hold.
Prologue(w) ==
    /\ InLoop /\ pc[w] = "prologue"
    /\ smem' = IF C.kernel.tab = None THEN smem ELSE Write(smem, C.kernel, <<"t", 0, w>>, Table)
    /\ flight' = [flight EXCEPT ![w] =
           IF C.kernel.depth = 3 THEN <<Copies(C, 0, w), IF NTiles(C) > 1 THEN Copies(C, 1, w) ELSE {}>>
           ELSE <<Copies(C, 0, w)>>]
    /\ sx' = [sx EXCEPT ![w] = <<None, IF C.kernel.ahead THEN C.kb0 ELSE None>>]
    /\ pc' = [pc EXCEPT ![w] = IF Steps(C) = 0 THEN "exit" ELSE "issue"]
    /\ UNCHANGED <<call, stream, cta, step, acc, sums, epi, pending, partial, counter, out>>

\* Prefetch the stage depth - 1 ahead and commit it as a group.
Issue(w) ==
    /\ InLoop /\ pc[w] = "issue"
    /\ LET ahead == step[w] + C.kernel.depth - 1
       IN  flight' = IF ahead < Steps(C) THEN [flight EXCEPT ![w] = Append(@, Copies(C, ahead, w))] ELSE flight
    /\ pc' = [pc EXCEPT ![w] = "wait"]
    /\ UNCHANGED <<call, stream, cta, step, smem, sx, acc, sums, epi, pending, partial, counter, out>>

\* How many of the newest groups may still be on their way.
Outstanding_NoTail(c, s) == c.kernel.depth - 1
Outstanding(c, s) ==
    IF s + c.kernel.depth - 1 < Steps(c) THEN c.kernel.depth - 1
    ELSE IF c.kernel.depth = 3 /\ s + 1 < Steps(c) THEN 1 ELSE 0

\* wait_group: the warp's older groups have landed.
Wait_NoGroups(w) ==
    /\ InLoop /\ pc[w] = "wait"
    /\ pc' = [pc EXCEPT ![w] = "filled"]
    /\ UNCHANGED <<call, stream, cta, step, flight, smem, sx, acc, sums, epi, pending, partial, counter, out>>
Wait(w) ==
    /\ InLoop /\ pc[w] = "wait"
    /\ LET keep == Min({Outstanding(C, step[w]), Len(flight[w])})
           old == Len(flight[w]) - keep
       IN  /\ \A i \in 1 .. old : flight[w][i] = {}
           /\ flight' = [flight EXCEPT ![w] = SubSeq(@, old + 1, Len(@))]
    /\ pc' = [pc EXCEPT ![w] = "filled"]
    /\ UNCHANGED <<call, stream, cta, step, smem, sx, acc, sums, epi, pending, partial, counter, out>>

\* An asynchronous copy lands in shared memory, any time after its issue.
Land(w, i, copy) ==
    /\ InLoop
    /\ flight' = [flight EXCEPT ![w][i] = @ \ {copy}]
    /\ smem' = Write(smem, C.kernel, copy.part, copy.value)
    /\ UNCHANGED <<call, stream, cta, pc, step, sx, acc, sums, epi, pending, partial, counter, out>>

\* gl.barrier before the stage is read, and before it is refilled.
Barrier(from, to) ==
    /\ InLoop /\ \A w \in Warp : pc[w] = from
    /\ pc' = [w \in Warp |-> IF to = "issue" /\ step[w] + 1 = Steps(C) THEN "exit" ELSE to]
    /\ step' = IF to = "issue" THEN [w \in Warp |-> step[w] + 1] ELSE step
    /\ UNCHANGED <<call, stream, cta, flight, smem, sx, acc, sums, epi, pending, partial, counter, out>>

\* The scales in registers at stage s: loaded in place at the k-block's first
\* stage, or one k-block ahead.
Scales(c, s, regs) ==
    LET kb == KBlock(c, s)
    IN  IF HalfOf(c, s) # 0 THEN regs
        ELSE IF c.kernel.ahead THEN <<regs[2], IF kb + 1 < c.kb1 THEN kb + 1 ELSE None>>
        ELSE <<kb, None>>

\* Decode the stage and multiply: what the warp finds in shared memory.
Read(w) ==
    /\ InLoop /\ pc[w] = "read"
    /\ LET s == step[w]
           stage == s % C.kernel.depth
           weights == IF Holds("w", stage, smem[<<"w", stage, 0>>]) THEN smem[<<"w", stage, 0>>] ELSE Garbled
           buf == (s \div C.kernel.nst) % 2
           x == IF C.kernel.acts = None THEN Activations(C, KBlock(C, s))
                ELSE IF Holds("a", buf, smem[<<"a", buf, 0>>]) THEN smem[<<"a", buf, 0>>] ELSE Garbled
           table == C.kernel.tab = None \/ Holds("t", 0, Table)
           regs == Scales(C, s, sx[w])
       IN  /\ acc' = [acc EXCEPT ![w] = Append(@,
                  IF table THEN [weights |-> weights.chunk, acts |-> x.chunk, scale |-> regs[1]] ELSE GarbledProduct)]
           /\ sx' = [sx EXCEPT ![w] = regs]
    /\ pc' = [pc EXCEPT ![w] = "drained"]
    /\ UNCHANGED <<call, stream, cta, step, flight, smem, sums, epi, pending, partial, counter, out>>

\* The loop is over; the next CTA's is followed, or the epilogues begin.
Finish ==
    /\ InLoop /\ \A w \in Warp : pc[w] = "exit"
    /\ sums' = Append(sums, acc)
    /\ cta' = cta + 1
    /\ IF cta < Len(Ctas) THEN StartLoop(Ctas[cta + 1]) ELSE UNCHANGED loopVars
    /\ UNCHANGED <<call, stream, epi, pending, partial, counter, out>>

-----------------------------------------------------------------------------
(* The epilogue.                                                           *)

\* The output cells a warp of a CTA stores: its column half where it is within
\* the width (yn < n_valid), in the CTA's rows.
Units(c) == (c.rows[1] \div 16) .. (CeilDiv(c.rows[2], 16) - 1)
ColHalf(c, w) == c.col0 + 32 * w
Stores(c, w) == {<<u, ColHalf(c, w)>> : u \in {v \in Units(c) : ColHalf(c, w) < c.limit}}

\* A partials buffer is allocated per launch: its rows count from the launch's.
FirstUnit == Min({Ctas[i].rows[1] : i \in DOMAIN Ctas}) \div 16
Slot16(s, cell) == <<s, cell[1] - FirstUnit, cell[2]>>

\* The split's sum into its slice, or straight into the output without splits.
StoreSlice(i) ==
    /\ InEpilogue /\ ~Reduces /\ \A w \in Warp : epi[i][w] = "sum"
    /\ LET cells(w) == Stores(Ctas[i], w) \cap DOMAIN out
           written == [w \in Warp |-> {Slot16(Ctas[i].split, x) : x \in cells(w)}]
       IN  IF Splits = 1
           THEN /\ out' = [x \in DOMAIN out |->
                       IF \E w \in Warp : x \in cells(w) THEN sums[i][CHOOSE w \in Warp : x \in cells(w)] ELSE out[x]]
                /\ UNCHANGED partial
           ELSE /\ partial' = [x \in DOMAIN partial |->
                       IF \E w \in Warp : x \in written[w] THEN sums[i][CHOOSE w \in Warp : x \in written[w]] ELSE partial[x]]
                /\ UNCHANGED out
    /\ epi' = [epi EXCEPT ![i] = EachWarp("done")]
    /\ UNCHANGED <<call, stream, cta, loopVars, sums, pending, counter>>

\* _splitk_reduce: the partial is stored, and becomes visible to others later.
StorePartial(i, w) ==
    /\ InEpilogue /\ Reduces /\ epi[i][w] = "sum"
    /\ pending' = pending \cup {<<i, w>>}
    /\ epi' = [epi EXCEPT ![i][w] = "fence"]
    /\ UNCHANGED <<call, stream, cta, loopVars, sums, partial, counter, out>>

Visible(i, w) ==
    /\ <<i, w>> \in pending
    /\ pending' = pending \ {<<i, w>>}
    /\ partial' = [x \in DOMAIN partial |->
           IF x \in {Slot16(Ctas[i].split, y) : y \in Stores(Ctas[i], w)} THEN sums[i][w] ELSE partial[x]]
    /\ UNCHANGED <<call, stream, cta, loopVars, sums, epi, counter, out>>

\* membar.gl: the warp's own stores are visible to every CTA.
Fence_Unordered(i, w) ==
    /\ InEpilogue /\ epi[i][w] = "fence"
    /\ epi' = [epi EXCEPT ![i][w] = "arrive"]
    /\ UNCHANGED <<call, stream, cta, loopVars, sums, pending, partial, counter, out>>
Fence(i, w) ==
    /\ InEpilogue /\ epi[i][w] = "fence" /\ <<i, w>> \notin pending
    /\ epi' = [epi EXCEPT ![i][w] = "arrive"]
    /\ UNCHANGED <<call, stream, cta, loopVars, sums, pending, partial, counter, out>>

\* Behind the CTA's barrier, the atomic arrival at the tile.
Arrive(i) ==
    /\ InEpilogue /\ \A w \in Warp : epi[i][w] = "arrive"
    /\ LET n == Ctas[i].counter
       IN  /\ counter' = [counter EXCEPT ![n] = @ + 1]
           /\ epi' = [epi EXCEPT ![i] = [w \in Warp |-> IF counter[n] = Splits - 1 THEN "last" ELSE "done"]]
    /\ UNCHANGED <<call, stream, cta, loopVars, sums, pending, partial, out>>

\* The last arrival adds the partials in order and leaves the counter at zero.
Reduce_NoReset(i, w) ==
    /\ InEpilogue /\ epi[i][w] = "last"
    /\ out' = [x \in DOMAIN out |->
           IF x \in Stores(Ctas[i], w) THEN FlattenSeq([s \in 1 .. Splits |-> partial[Slot16(s - 1, x)]]) ELSE out[x]]
    /\ epi' = [epi EXCEPT ![i][w] = "done"]
    /\ UNCHANGED <<call, stream, cta, loopVars, sums, pending, partial, counter>>
Reduce(i, w) ==
    /\ InEpilogue /\ epi[i][w] = "last"
    /\ out' = [x \in DOMAIN out |->
           IF x \in Stores(Ctas[i], w) THEN FlattenSeq([s \in 1 .. Splits |-> partial[Slot16(s - 1, x)]]) ELSE out[x]]
    /\ counter' = IF w = 0 THEN [counter EXCEPT ![Ctas[i].counter] = 0] ELSE counter
    /\ epi' = [epi EXCEPT ![i][w] = "done"]
    /\ UNCHANGED <<call, stream, cta, loopVars, sums, pending, partial>>

\* The launch is over: the launcher's sum of the slices, where the kernel left
\* them, and the next launch of the call.
EndLaunch ==
    /\ InEpilogue /\ pending = {} /\ \A i \in DOMAIN epi, w \in Warp : epi[i][w] = "done"
    /\ out' = IF Reduces \/ Splits = 1 THEN out
              ELSE [x \in DOMAIN out |->
                  IF \E i \in DOMAIN Ctas : x[1] \in Units(Ctas[i]) /\ x[2] \in Ctas[i].col0 .. Ctas[i].limit - 1
                  THEN FlattenSeq([s \in 1 .. Splits |-> partial[Slot16(s - 1, x)]]) ELSE out[x]]
    /\ stream' = Tail(stream)
    /\ cta' = 1
    /\ sums' = <<>>
    /\ IF Len(stream) > 1
       THEN StartLoop(stream[2].ctas[1]) /\ epi' = Epilogues(stream[2]) /\ partial' = Partials(stream[2])
       ELSE UNCHANGED <<loopVars, partial>> /\ epi' = <<>>
    /\ UNCHANGED <<call, pending, counter>>

Returned == ~Running /\ UNCHANGED vars

-----------------------------------------------------------------------------

LandSome == \E w \in Warp : \E i \in DOMAIN flight[w] : \E copy \in flight[w][i] : Land(w, i, copy)

GemmNext ==
    \/ \E w \in Warp : Prologue(w) \/ Issue(w) \/ Wait(w) \/ Read(w)
    \/ Barrier("filled", "read") \/ Barrier("drained", "issue")
    \/ LandSome
    \/ Finish
    \/ \E i \in DOMAIN epi : StoreSlice(i) \/ Arrive(i) \/ \E w \in Warp : StorePartial(i, w) \/ Fence(i, w) \/ Reduce(i, w)
    \/ \E x \in pending : Visible(x[1], x[2])
    \/ EndLaunch
    \/ Returned

GemmSpec == GemmInit /\ [][GemmNext]_vars

-----------------------------------------------------------------------------
(* Properties.                                                             *)

\* The types of a CTA's control state: a warp has at most as many groups in flight
\* as the deepest pipeline has stages (the commit_group and wait_group pairs).
GemmTypeOK ==
    /\ cta \in 1 .. Len(Ctas) + 1
    /\ pc \in [Warp -> {"prologue", "issue", "wait", "filled", "read", "drained", "exit"}]
    /\ step \in [Warp -> Nat]
    /\ \A w \in Warp : Len(flight[w]) <= 3
    /\ counter \in [0 .. Counters - 1 -> Nat]

\* When a warp decodes a stage, the copies of both warps have landed, it holds
\* the k-block's weights and activations, and no other write has reached into
\* it or into the grid table (the pipelines of the kernels, REGIONS).
StageHoldsKBlock ==
    \A w \in Warp : InLoop /\ pc[w] = "read" =>
        LET s == step[w] IN
        /\ Weights(C, s) # Garbled /\ Holds("w", s % C.kernel.depth, Weights(C, s))
        /\ C.kernel.acts # None => Holds("a", (s \div C.kernel.nst) % 2, Activations(C, KBlock(C, s)))
        /\ C.kernel.tab # None => Holds("t", 0, Table)

\* The product of an output cell: every chunk of the cell's tile.
Chunks(x) ==
    LET shards == call.shards
        sh == CHOOSE i \in DOMAIN shards : x[2] \in shards[i].col0 .. shards[i].col0 + shards[i].n - 1
    IN  {<<sh, (x[2] - shards[sh].col0) \div 64, kb, h>> :
            kb \in 0 .. call.nb - 1, h \in 0 .. (IF call.op = "raw" THEN 0 ELSE Halves[shards[sh].type] - 1)}

\* When the call returns, every cell of the output is the sum of every chunk of
\* its tile's weights exactly once, each against the same k-block of the cell's
\* rows and that k-block's scale, whatever the splits, the shards beside it and
\* the row blocks (gluon_mul_mat, _tiles_multi, _tiles_grouped).
ProductIsWhole ==
    ~Running => \A x \in DOMAIN out :
        /\ Len(out[x]) = Cardinality(Chunks(x))
        /\ {out[x][n].weights : n \in DOMAIN out[x]} = Chunks(x)
        /\ \A n \in DOMAIN out[x] :
              LET p == out[x][n] IN
              /\ p.acts[1] = p.weights[3] /\ p.scale = p.weights[3]
              /\ p.acts[2][1] <= 16 * x[1] /\ 16 * x[1] < p.acts[2][2]

\* A warp that adds up a tile's partials sees the partial of every split, and
\* no other CTA of the tile adds them up too (_splitk_reduce).
LastSeesEveryPartial ==
    \A i \in DOMAIN epi, w \in Warp : InEpilogue /\ epi[i][w] = "last" =>
        \A j \in {k \in DOMAIN Ctas : Ctas[k].counter = Ctas[i].counter} :
            /\ j # i => \A v \in Warp : epi[j][v] = "done"
            /\ \A y \in Stores(Ctas[j], w) : partial[Slot16(Ctas[j].split, y)] = sums[j][w]

\* Between launches every arrival counter is zero ("each launch leaves it
\* zero", splitk_counters).
CountersLeftZero == (InLoop \/ ~Running) => \A n \in DOMAIN counter : counter[n] = 0

Kernels == UNION {{Launches(call)[l].ctas[i].kernel : i \in DOMAIN Launches(call)[l].ctas} : l \in DOMAIN Launches(call)}
Starting == sums = <<>> /\ cta = 1 /\ \A w \in Warp : pc[w] = "prologue"

\* A cell by the code's per-weight definitions, where it has one, else by the
\* type's bf16 kernel on aligned rows.
\* In the last case DecodesTheBlock compares that kernel's aligned rows with
\* themselves and tests the tile, grouped, half and misaligned forms against them.
Reference(t, c) ==
    LET w == 32 * c[1] + 4 * c[2]
        deq(j) == _dequant_iq3s_tile_kernel(TileRow("IQ3_S", 1, 0, Row), w + j)
        d == parse(t, w)
    IN  CASE t = "IQ3_S" -> [code |-> [j \in Lane |-> deq(j).code], sign |-> [j \in Lane |-> deq(j).sign],
                             scale |-> deq(0).scale, min |-> <<>>, d |-> deq(0).d]
          [] t \in {"Q8_0", "Q3_K", "Q5_K", "Q6_K"} ->
                 QuantCell([j \in Lane |-> parse(t, w + j).q], d.scale, d.min, d.d)
          [] OTHER -> _KERNELS[t].cell[<<0, c>>]

\* Every bit of the block is part of some value a kernel decodes.
EveryBit(k) == \A s \in k.align :
    UNION {LET v == k.cell[<<s, c>>] IN
           UNION {Range(v.code[j][1]) \cup v.sign[j] : j \in Lane} \cup Range(v.scale \o v.min \o v.d) : c \in Cells}
    = 0 .. 8 * Size[k.type] - 1

\* Every kernel a call runs takes each weight, sign, scale and min from the same
\* bits as the reference, and leaves no bit of the block unread, whatever the
\* layout it reads (raw rows at either alignment, tiles, half tiles) and the
\* branch that decodes it.
DecodesTheBlock ==
    Starting => \A k \in Kernels :
        /\ \A x \in DOMAIN k.cell :
              /\ k.cell[x] = Reference(k.type, x[2])
              /\ k.type = "Q4_K" => <<k.cell[x].scale, k.cell[x].min>> = _scale_min_k4(4, x[2][1])
        /\ EveryBit(k)

\* The dequantising path of the prefill turns a repacked tile back into the
\* rows it was packed from.
UnrepackInverts ==
    Starting => \A t \in {call.shards[i].type : i \in DOMAIN call.shards} \cap DOMAIN RowBytes :
        \A r \in {0, Row, 63} :
            LET back == IF t \in DOMAIN tile_map THEN unrepack_kq(t, Halves[t], r) ELSE unrepack_tiles(t, r)
            IN  \A p \in DOMAIN back : Held(t, Halves[t], back[p]) = <<r, p>>
=============================================================================
