------------------------------ MODULE KVarNTile ------------------------------
(***************************************************************************)
(* One layer group's KV tiles: tokens are scattered into the fp16 tail     *)
(* pool, full blocks are quantised and packed into one byte record per     *)
(* (block, head) in every layer, and four readers decode those bytes: the  *)
(* materialise kernel, the fused decode and verify kernels and the slow    *)
(* gather.                                                                 *)
(*                                                                         *)
(* Bytes are symbolic: a byte is a few codes at their shifts, or one half  *)
(* of an fp16 scale.  A code names the tile, the row and the column it was *)
(* rounded from and a scale the tile and the row or column it belongs to,  *)
(* so an element is decoded right exactly when its four parts are its own. *)
(* What the rounding and the Sinkhorn scaling compute is left out.         *)
(***************************************************************************)
EXTENDS Integers, Sequences, FiniteSets, Functions

CONSTANTS
    Blocks,             \* block ids, 0 .. n
    NumLayers,          \* layers of the group
    Slots,              \* slots of the tail pool
    Heads,              \* kv heads
    Group,              \* tokens per block
    HeadDims,           \* head dimensions
    ValueBits,          \* value_bits of the presets
    WideHead,           \* head_dim from which KVARN_POW2_SLOT applies, 256
    TilesPerLaunch,     \* tiles of a vectorised launch, 2048
    PairsPerLaunch,     \* (layer, block) pairs of a legacy launch, 256
    StepTokens,         \* tokens a step gives a block that it does not fill
    Uses                \* bound: times block ids are handed out

ASSUME CountAssumption ==
    /\ Group \in Nat \ {0} /\ Group % 4 = 0
    /\ Heads \in Nat \ {0} /\ NumLayers \in Nat \ {0}
    /\ TilesPerLaunch \in Nat \ {0} /\ PairsPerLaunch \in Nat \ {0}
    /\ WideHead \in Nat /\ StepTokens \in Nat \ {0} /\ Uses \in Nat
ASSUME HeadDimAssumption == \A D \in HeadDims : D \in Nat \ {0} /\ D % 4 = 0
ASSUME ValueBitsAssumption == ValueBits \subseteq {2, 4}
ASSUME BlocksAssumption == Blocks \subseteq Nat /\ IsFiniteSet(Blocks)

VARIABLES
    conf,           \* the preset and switches of this process
    layout,         \* the layout they give a record
    block_to_slot,  \* pool slot of a block, -1 when it lives in its tile
    fill,           \* tokens of a block that its slot or its tile holds
    use,            \* how often the block id was handed out
    pool,           \* the tail pools: layer, K or V, slot, token, head
    kv_cache        \* layer, block, head: the record

vars == <<conf, layout, block_to_slot, fill, use, pool, kv_cache>>

Sides == {"K", "V"}
Layers == 0 .. NumLayers - 1
HeadIds == 0 .. Heads - 1
Tokens == 0 .. Group - 1
None == [side |-> "none"]

KeyBits == 4
Configs == [head_dim : HeadDims, value_bits : ValueBits, pow2 : BOOLEAN, fast : BOOLEAN]

PACK_K == 8 \div KeyBits
PACK_V(c) == 8 \div c.value_bits

-----------------------------------------------------------------------------
(* KVarNConfig: the bytes of a record and where each field starts.         *)

CeilDiv(a, b) == (a + b - 1) \div b

k_packed_bytes(c) == CeilDiv(c.head_dim * Group * KeyBits, 8)
v_packed_bytes(c) == CeilDiv(Group * c.head_dim * c.value_bits, 8)
k_scale_bytes(c) == (2 * c.head_dim + Group) * 2
v_scale_bytes(c) == (c.head_dim + 2 * Group) * 2
tile_bytes(c) == k_packed_bytes(c) + k_scale_bytes(c) + v_packed_bytes(c) + v_scale_bytes(c)

LeastPowerOf2(n) == CHOOSE p \in {2 ^ i : i \in 0 .. n} : n <= p /\ p < 2 * n

\* math.lcm(8, group), of a group that is a multiple of 4.
Unit == IF Group % 8 = 0 THEN Group ELSE 2 * Group

RoundedToUnit_Truncated(c) == (tile_bytes(c) \div Unit) * Unit
RoundedToUnit(c) == CeilDiv(tile_bytes(c), Unit) * Unit
RoundedToSlot(c) == LeastPowerOf2(CeilDiv(tile_bytes(c), Group)) * Group

Pow2Slot(c) == c.head_dim >= WideHead /\ c.pow2
tile_bytes_aligned(c) ==
    IF Pow2Slot(c) THEN RoundedToSlot(c) ELSE RoundedToUnit(c)

k_packed_offset == 0
k_s_col_offset(c) == k_packed_offset + k_packed_bytes(c)
k_zp_offset(c) == k_s_col_offset(c) + c.head_dim * 2
k_s_row_offset(c) == k_zp_offset(c) + c.head_dim * 2
v_packed_offset(c) == k_s_row_offset(c) + Group * 2
v_s_col_offset(c) == v_packed_offset(c) + v_packed_bytes(c)
v_s_row_offset(c) == v_s_col_offset(c) + c.head_dim * 2
v_zp_offset(c) == v_s_row_offset(c) + Group * 2

\* The bytes of a field as the store functions return it.
FieldSize(c) ==
    [q_K |-> c.head_dim * (Group \div PACK_K), s_col_K |-> 2 * c.head_dim,
     zp_K |-> 2 * c.head_dim, s_row_K |-> 2 * Group,
     q_V |-> Group * (c.head_dim \div PACK_V(c)), s_col_V |-> 2 * c.head_dim,
     s_row_V |-> 2 * Group, zp_V |-> 2 * Group]

\* _batched_flush concatenates the fields and pads the record.
CatOrder == <<"q_K", "s_col_K", "zp_K", "s_row_K", "q_V", "s_col_V", "s_row_V", "zp_V">>
CatStart(c) ==
    LET start[i \in 1 .. 8] == IF i = 1 THEN 0 ELSE start[i - 1] + FieldSize(c)[CatOrder[i - 1]]
    IN  start

\* _write_packed writes each field at the offset of the configuration.
WriteStart(c) ==
    <<k_packed_offset, k_s_col_offset(c), k_zp_offset(c), k_s_row_offset(c),
      v_packed_offset(c), v_s_col_offset(c), v_s_row_offset(c), v_zp_offset(c)>>

FieldStart(c) == IF c.fast THEN CatStart(c) ELSE WriteStart(c)

\* What the write and the kernels of a configuration go by.
Layout(c) ==
    [T |-> tile_bytes_aligned(c), size |-> FieldSize(c), start |-> FieldStart(c),
     k_s_col |-> k_s_col_offset(c), k_zp |-> k_zp_offset(c), k_s_row |-> k_s_row_offset(c),
     v_packed |-> v_packed_offset(c), v_s_col |-> v_s_col_offset(c),
     v_s_row |-> v_s_row_offset(c), v_zp |-> v_zp_offset(c)]

D == conf.head_dim
V_BITS == conf.value_bits

-----------------------------------------------------------------------------
(* The bytes a quantised pair of tiles is packed into.  A K tile has a row *)
(* for each channel, a V tile a row for each token.                        *)

Pad == [kind |-> "pad"]
Codes(bits, at) == [kind |-> "codes", bits |-> bits, at |-> at]
Half(i, scale) == [kind |-> "half", high |-> i % 2, of |-> scale]

\* _pack_lowbit: column c of a row lands in byte c \div pack at shift
\* (c % pack) * bits.
PackedByte(tile, bits, columns, i) ==
    LET pack == 8 \div bits
        row == i \div (columns \div pack)
        byte == i % (columns \div pack)
    IN  Codes(bits, [j \in 0 .. pack - 1 |-> <<tile, row, byte * pack + j>>])

Scale(tile, axis, i) == <<tile, axis, i>>

\* Byte i of a field: the codes, the absorbed scale and zero of each row, and
\* the Sinkhorn scale of each column.
FieldByte(rec, field, i) ==
    CASE field = "q_K" -> PackedByte(rec.K, KeyBits, Group, i)
      [] field = "s_col_K" -> Half(i, Scale(rec.K, "row", i \div 2))
      [] field = "zp_K" -> Half(i, Scale(rec.K, "zero", i \div 2))
      [] field = "s_row_K" -> Half(i, Scale(rec.K, "column", i \div 2))
      [] field = "q_V" -> PackedByte(rec.V, V_BITS, D, i)
      [] field = "s_col_V" -> Half(i, Scale(rec.V, "column", i \div 2))
      [] field = "s_row_V" -> Half(i, Scale(rec.V, "row", i \div 2))
      [] field = "zp_V" -> Half(i, Scale(rec.V, "zero", i \div 2))

\* What a byte of a record holds: of two fields that overlap the one written
\* last, and the padding where there is none.
RecordByte(rec, offset) ==
    LET holds == {i \in 1 .. 8 : /\ layout.start[i] <= offset
                                 /\ offset < layout.start[i] + layout.size[CatOrder[i]]}
        last == CHOOSE i \in holds : \A j \in holds : j <= i
    IN  IF rec = None \/ holds = {} THEN Pad
        ELSE FieldByte(rec, CatOrder[last], offset - layout.start[last])

\* The cache of a layer as the flat array the kernels address.
CacheByte(layer, address) ==
    LET row == address \div layout.T
        b == row \div Heads
    IN  IF b \in Blocks
        THEN RecordByte(kv_cache[layer][b][row % Heads], address % layout.T)
        ELSE Pad

-----------------------------------------------------------------------------
(* The readers: the materialise and verify kernels and the slow path load  *)
(* a scale at its byte offset, the fused decode kernels as a word.         *)

Readers == {"bytes", "words"}

TileBase(b, h) == b * (Heads * layout.T) + h * layout.T

\* An fp16: both its halves, or garbage.
Fp16(layer, address) ==
    LET low == CacheByte(layer, address)
        high == CacheByte(layer, address + 1)
    IN  IF /\ low.kind = "half" /\ high.kind = "half"
           /\ low.high = 0 /\ high.high = 1 /\ low.of = high.of
        THEN low.of ELSE Pad

Code(layer, address, shift, bits) ==
    LET byte == CacheByte(layer, address)
    IN  IF byte.kind = "codes" /\ byte.bits = bits /\ shift % bits = 0
        THEN byte.at[shift \div bits] ELSE Pad

LoadScale(reader, layer, base, offset, i) ==
    Fp16(layer, base + (IF reader = "words" THEN 2 * ((offset \div 2) + i) ELSE offset + 2 * i))

KCodeOffset(d, t) == d * (Group \div PACK_K) + t \div PACK_K
VCodeOffset_FourBits(c, d, t) == t * (c.head_dim \div 2) + d \div PACK_V(c)
VCodeOffset(c, d, t) == t * (c.head_dim \div PACK_V(c)) + d \div PACK_V(c)

\* A tile as it is read: the codes of its elements, the absorbed scale and zero
\* of each row and the scale of each column.
ReadK(reader, layer, b, h) ==
    LET base == TileBase(b, h)
    IN  [codes |-> [d \in 0 .. D - 1 |-> [t \in Tokens |->
             Code(layer, base + k_packed_offset + KCodeOffset(d, t), (t % PACK_K) * KeyBits, KeyBits)]],
         scale |-> [d \in 0 .. D - 1 |-> LoadScale(reader, layer, base, layout.k_s_col, d)],
         zero |-> [d \in 0 .. D - 1 |-> LoadScale(reader, layer, base, layout.k_zp, d)],
         across |-> [t \in Tokens |-> LoadScale(reader, layer, base, layout.k_s_row, t)]]

ReadV(reader, layer, b, h) ==
    LET base == TileBase(b, h)
    IN  [codes |-> [t \in Tokens |-> [d \in 0 .. D - 1 |->
             Code(layer, base + layout.v_packed + VCodeOffset(conf, d, t),
                  (d % PACK_V(conf)) * V_BITS, V_BITS)]],
         scale |-> [t \in Tokens |-> LoadScale(reader, layer, base, layout.v_s_row, t)],
         zero |-> [t \in Tokens |-> LoadScale(reader, layer, base, layout.v_zp, t)],
         across |-> [d \in 0 .. D - 1 |-> LoadScale(reader, layer, base, layout.v_s_col, d)]]

-----------------------------------------------------------------------------
(* The flush of a sequence of blocks, in every layer.                      *)

\* The tile of one head: K_rot.permute and V_rot.permute of a pool slot.
Tile(side, job, h) ==
    [side |-> side,
     rows |-> [t \in Tokens |-> pool[job.layer][side][job.slot][t][h]]]

\* Tiles are numbered job by job and, in a job, head by head.
Gathered(side, jobs) ==
    [n \in 0 .. Len(jobs) * Heads - 1 |-> Tile(side, jobs[(n \div Heads) + 1], n % Heads)]

\* _sinkhorn_pack_kv: one launch over K and V when their tiles have one shape.
SinkhornPackKV(K, V, count) ==
    IF D = Group
    THEN LET balanced == [n \in 0 .. 2 * count - 1 |-> IF n < count THEN K[n] ELSE V[n - count]]
         IN  [n \in 0 .. count - 1 |-> [K |-> balanced[n], V |-> balanced[count + n]]]
    ELSE [n \in 0 .. count - 1 |-> [K |-> K[n], V |-> V[n]]]

Packed(jobs) ==
    SinkhornPackKV(Gathered("K", jobs), Gathered("V", jobs), Len(jobs) * Heads)

\* The jobs of the launch that job i is in, and its place there.
Launch(jobs, size, i) ==
    LET first == ((i - 1) \div size) * size + 1
        last == IF first + size - 1 <= Len(jobs) THEN first + size - 1 ELSE Len(jobs)
    IN  [jobs |-> SubSeq(jobs, first, last), place |-> i - first]

Job(layer, b) == [layer |-> layer, block |-> b, slot |-> block_to_slot[b]]

\* A layer's jobs in the vectorised path, every layer's in the legacy path.
JobsOf(layer, bids) ==
    IF conf.fast
    THEN [i \in 1 .. Len(bids) |-> Job(layer, bids[i])]
    ELSE [i \in 1 .. NumLayers * Len(bids) |->
              Job((i - 1) \div Len(bids), bids[((i - 1) % Len(bids)) + 1])]

LaunchSize ==
    IF conf.fast
    THEN IF TilesPerLaunch \div Heads > 1 THEN TilesPerLaunch \div Heads ELSE 1
    ELSE PairsPerLaunch

Flushed(layer, b, h, bids) ==
    LET jobs == JobsOf(layer, bids)
        i == CHOOSE j \in 1 .. Len(jobs) : jobs[j].layer = layer /\ jobs[j].block = b
        launch == Launch(jobs, LaunchSize, i)
    IN  Packed(launch.jobs)[launch.place * Heads + h]

Full(b) == block_to_slot[b] # -1 /\ fill[b] = Group

\* build(): _batched_flush over every layer, then the slots are freed.
Flush(bids) ==
    LET flushed == {bids[i] : i \in 1 .. Len(bids)}
    IN  /\ \A b \in flushed : Full(b)
        /\ kv_cache' = [layer \in Layers |-> [b \in Blocks |->
               IF b \in flushed THEN [h \in HeadIds |-> Flushed(layer, b, h, bids)]
               ELSE kv_cache[layer][b]]]
        /\ block_to_slot' = [b \in Blocks |-> IF b \in flushed THEN -1 ELSE block_to_slot[b]]
        /\ UNCHANGED <<conf, layout, fill, use, pool>>

\* build(): the block of a finished request that was not filled loses its slot.
Discard(b) ==
    /\ block_to_slot[b] # -1
    /\ fill[b] < Group
    /\ block_to_slot' = [block_to_slot EXCEPT ![b] = -1]
    /\ fill' = [fill EXCEPT ![b] = 0]
    /\ UNCHANGED <<conf, layout, use, pool, kv_cache>>

\* build(): a block of a new request gets a slot; what it held is forgotten.
Allocate(b) ==
    /\ block_to_slot[b] = -1
    /\ FoldFunction(+, 0, use) < Uses
    /\ \E slot \in Slots \ {block_to_slot[c] : c \in Blocks} :
          block_to_slot' = [block_to_slot EXCEPT ![b] = slot]
    /\ fill' = [fill EXCEPT ![b] = 0]
    /\ use' = [use EXCEPT ![b] = @ + 1]
    /\ UNCHANGED <<conf, layout, pool, kv_cache>>

\* The rotated K or V row of a token, in one layer and head.
Row(layer, side, b, t, h) == <<layer, side, b, use[b], t, h>>

\* do_kv_cache_update in every layer, for a batch of slot-mapping entries: the
\* scatter kernel skips the padding and the blocks without a slot.
Store(mapping) ==
    /\ pool' = [layer \in Layers |-> [side \in Sides |-> [slot \in Slots |->
           [t \in Tokens |-> [h \in HeadIds |->
               LET hits == {sm \in mapping : /\ sm >= 0 /\ sm \div Group \in Blocks
                                             /\ block_to_slot[sm \div Group] = slot
                                             /\ sm % Group = t}
               IN  IF hits = {} THEN pool[layer][side][slot][t][h]
                   ELSE Row(layer, side, (CHOOSE sm \in hits : TRUE) \div Group, t, h)]]]]]
    /\ fill' = [b \in Blocks |->
           LET stored == {sm % Group : sm \in {m \in mapping : m >= 0 /\ m \div Group = b}}
           IN  fill[b] + Cardinality(stored)]
    /\ UNCHANGED <<conf, layout, block_to_slot, use, kv_cache>>

\* A step's batch: a few tokens of a block or the rest of it, with a padded row.
Batches ==
    UNION {{{-1} \cup {b * Group + t : t \in fill[b] .. fill[b] + n - 1} :
                n \in {m \in {StepTokens, Group - fill[b]} : fill[b] + m <= Group}} :
           b \in {c \in Blocks : block_to_slot[c] # -1 /\ fill[c] < Group}}

FlushOrders ==
    {<<b>> : b \in Blocks} \cup {bc \in Blocks \X Blocks : bc[1] # bc[2]}

Init ==
    /\ conf \in Configs
    /\ layout = Layout(conf)
    /\ block_to_slot = [b \in Blocks |-> -1]
    /\ fill = [b \in Blocks |-> 0]
    /\ use = [b \in Blocks |-> 0]
    /\ pool = [layer \in Layers |-> [side \in Sides |-> [slot \in Slots |->
                  [t \in Tokens |-> [h \in HeadIds |-> <<>>]]]]]
    /\ kv_cache = [layer \in Layers |-> [b \in Blocks |-> [h \in HeadIds |-> None]]]

Next ==
    \/ \E b \in Blocks : Allocate(b)
    \/ \E b \in Blocks : Discard(b)
    \/ \E mapping \in Batches : Store(mapping)
    \/ \E bids \in FlushOrders : Flush(bids)

TileSpec == Init /\ [][Next]_vars

-----------------------------------------------------------------------------

\* The record of a (block, head) fills its block's slots exactly (the page the
\* cache spec accounts for), every field of it lies inside and starts at an even
\* byte (a kernel that loads 16-bit words halves the offset), and the slots of two blocks
\* differ.
TileTypeOK ==
    /\ conf \in Configs
    /\ layout = Layout(conf)
    /\ block_to_slot \in [Blocks -> Slots \cup {-1}]
    /\ fill \in [Blocks -> 0 .. Group]
    /\ use \in [Blocks -> Nat]
    /\ \A b, c \in Blocks : b # c /\ block_to_slot[b] # -1 => block_to_slot[b] # block_to_slot[c]
    /\ layout.T % Group = 0
    /\ \A i \in 1 .. 8 : layout.start[i] + layout.size[CatOrder[i]] <= layout.T /\ layout.start[i] % 2 = 0

\* A tile decoded: of each element its own code, and the scales of its own row
\* and column.
Decoded(tile, rows, columns) ==
    [codes |-> [r \in rows |-> [c \in columns |-> <<tile, r, c>>]],
     scale |-> [r \in rows |-> Scale(tile, "row", r)],
     zero |-> [r \in rows |-> Scale(tile, "zero", r)],
     across |-> [c \in columns |-> Scale(tile, "column", c)]]

Stored(layer, side, b, h) ==
    [side |-> side, rows |-> [t \in Tokens |-> Row(layer, side, b, t, h)]]

\* Every layer and head serves a block's own tokens, from the pool while the
\* block has a slot and from its tile after the flush: each reader decodes each
\* channel of each token from the code rounded for it and from its own scales,
\* whichever path flushed the block, in whichever launch, at every width
\* (triton_kvarn_decode.py:256-260, the layout bug of issue #10).
ReadersSeeTheBlock ==
    \A layer \in Layers, b \in Blocks, h \in HeadIds :
        IF block_to_slot[b] # -1
        THEN \A side \in Sides, t \in 0 .. fill[b] - 1 :
                 pool[layer][side][block_to_slot[b]][t][h] = Row(layer, side, b, t, h)
        ELSE fill[b] = Group =>
             \A reader \in Readers :
                 /\ ReadK(reader, layer, b, h) = Decoded(Stored(layer, "K", b, h), 0 .. D - 1, Tokens)
                 /\ ReadV(reader, layer, b, h) = Decoded(Stored(layer, "V", b, h), Tokens, 0 .. D - 1)

=============================================================================
