--------------------------- MODULE KVarNAttention ---------------------------
(***************************************************************************)
(* The routing of KVarNAttentionImpl.forward and the attention kernels     *)
(* behind it: from a step's rows to the key positions each query token     *)
(* attends.  The host plans a step (build) and enqueues copies and kernel  *)
(* launches; the GPU executes them later, in order, from device buffers    *)
(* that the plan's copies fill from pinned host memory.                    *)
(*                                                                         *)
(* A key is a cell (row of the batch, position).  What a kernel computes   *)
(* for a query token is the bag of cells it scores, each tagged with the   *)
(* split that scored it.  Heads, values and the arithmetic of the softmax  *)
(* are left out; where a cell's bytes come from is KVarNServing's ReadKV.  *)
(* The runner's batch, its device tensors and its graph dispatch are       *)
(* vLLM's.                                                                 *)
(***************************************************************************)
EXTENDS Integers, Sequences, SequencesExt, FiniteSets, FiniteSetsExt

CONSTANTS
    Group,          \* tokens of a block
    MaxModelLen,
    Hk, Hq,         \* KV heads and query heads
    SplitBlocks,    \* blocks of context from which split-K pays (16)
    Deployments,    \* configurations: records of switches and sizes
    Shapes,         \* bound: the rows [q, s] a batch is made of
    MaxRows         \* bound: rows of a batch

ASSUME AttentionAssumption ==
    /\ Group \in Nat \ {0} /\ MaxModelLen \in Nat \ {0}
    /\ Hk \in Nat \ {0} /\ Hq \in Nat \ {0} /\ SplitBlocks \in Nat
    /\ MaxRows \in Nat
    /\ Shapes \subseteq [q : 1 .. MaxModelLen, s : 1 .. MaxModelLen]
    /\ \A r \in Shapes : r.q <= r.s
    /\ Deployments \subseteq
          [num_spec : Nat, causal : BOOLEAN, sliding_window : Nat, max_num_seqs : Nat, sm_count : Nat,
           flash_attn : BOOLEAN, fused_verify : BOOLEAN, fused_verify_maxq : Nat, fused_verify_min_blocks : Nat,
           shared_verify : BOOLEAN, fused_decode : BOOLEAN, split_k : {"unset", "0", "1"}, num_kv_splits : Nat,
           fa_scratch_cap : Nat, fa_scratch_floor : Nat]

VARIABLES
    dep,            \* the deployment
    phase,          \* host: "idle", "build", "forward"
    batch,          \* host: rows [q, s] of the step, padding rows at the end
    graph,          \* host: the step replays a captured graph
    staging,        \* pinned host memory: the plan being shipped
    inputs,         \* device: the runner's query_start_loc and seq_lens
    plan,           \* device: the builder's persistent buffers
    stream,         \* enqueued and not yet executed
    out             \* device: cells scored for each token of the step

hostVars == <<dep, phase, batch, graph>>
deviceVars == <<inputs, plan, out>>
vars == <<hostVars, staging, deviceVars, stream>>

-----------------------------------------------------------------------------

CeilDiv(a, b) == (a + b - 1) \div b
Larger(a, b) == IF a < b THEN b ELSE a
Smaller(a, b) == IF a < b THEN a ELSE b

\* Prefix sums: n lengths give n + 1 offsets.
CumSum(lens) ==
    LET S[n \in 0 .. Len(lens)] == IF n = 0 THEN 0 ELSE S[n - 1] + lens[n]
    IN  [n \in 1 .. Len(lens) + 1 |-> S[n - 1]]

QueryLens(rows) == [b \in DOMAIN rows |-> rows[b].q]
SeqLens(rows) == [b \in DOMAIN rows |-> rows[b].s]
QueryStartLoc(rows) == CumSum(QueryLens(rows))
TokensOf(rows) == Last(QueryStartLoc(rows))
MaxQueryLen(rows) == Max({rows[b].q : b \in DOMAIN rows})
MaxSeqLen(rows) == Max({rows[b].s : b \in DOMAIN rows})

\* The row of a token, by the query offsets.
RowOf(qsl, t) == CHOOSE b \in 1 .. Len(qsl) - 1 : qsl[b] <= t /\ t < qsl[b + 1]

-----------------------------------------------------------------------------
(* The builder's metadata for the kernels.                                 *)

\* _init_reorder_batch_threshold: verify rows count as decodes.
Threshold == IF dep.fused_verify THEN 1 + dep.num_spec ELSE 1

\* split_decodes_and_prefills over rows that the runner ordered decode-first.
NumDecodes(rows) == Cardinality({b \in DOMAIN rows : rows[b].q <= Threshold})

\* num_actual_tokens: a graph is replayed over whole rows, padding included.
NumTokens(rows) ==
    IF Last(rows).q = 0 THEN Len(rows) * rows[1].q ELSE TokensOf(rows)

NumDecodeTokens(rows) ==
    IF NumDecodes(rows) = Len(rows) THEN NumTokens(rows)
    ELSE QueryStartLoc(rows)[NumDecodes(rows) + 1]

\* One virtual kernel row per decode token: its block-table row and the number
\* of keys it attends; the tail of a padded batch is zeroed.
HasVq(rows) == NumDecodes(rows) > 0 /\ NumDecodeTokens(rows) > NumDecodes(rows)

VqEntryFromSeqLen(rows, t) ==
    LET b == RowOf(QueryStartLoc(rows), t)
    IN  [req |-> b, len |-> rows[b].s + (t - QueryStartLoc(rows)[b]) + 1]

VqEntry(rows, t) ==
    LET b == RowOf(QueryStartLoc(rows), t)
        committed == Larger(rows[b].s - rows[b].q, 0)
    IN  [req |-> b,
         len |-> IF dep.causal THEN committed + (t - QueryStartLoc(rows)[b]) + 1
                 ELSE committed + rows[b].q]

VqPlan(rows) ==
    LET filled == QueryStartLoc(rows)[NumDecodes(rows) + 1]
    IN  [i \in 1 .. NumDecodeTokens(rows) |->
            IF i <= filled THEN VqEntry(rows, i - 1) ELSE [req |-> 1, len |-> 0]]

\* The uniform query length of the decode rows, 0 for none.  The shared kernel
\* builds the causal staircase itself, so other rows must not reach it.
VqQlenWhateverCausal(rows) ==
    IF (\A b \in 1 .. NumDecodes(rows) : rows[b].q = rows[1].q) /\ rows[1].q >= 2
    THEN rows[1].q ELSE 0
VqQlen(rows) ==
    IF /\ \A b \in 1 .. NumDecodes(rows) : rows[b].q = rows[1].q
       /\ rows[1].q >= 2 /\ dep.causal
    THEN rows[1].q ELSE 0

HasCachedMultiqueryUniform(rows) ==
    \A b \in DOMAIN rows : rows[b].q > 1 /\ rows[b].s > rows[b].q
HasCachedMultiquery(rows) ==
    \E b \in DOMAIN rows : rows[b].q > 1 /\ rows[b].s > rows[b].q

-----------------------------------------------------------------------------
(* From the metadata to kernel launches.  A launch covers the rows lo .. hi; *)
(* fresh says that it reads tensors made for this call, not the plan.       *)

MaxBlocks == Larger(CeilDiv(MaxModelLen, Group), 1)
NumKvSplits ==
    IF dep.num_kv_splits > 0 THEN dep.num_kv_splits
    ELSE IF MaxBlocks <= 256 THEN 32 ELSE 64

\* Rows of the split-K partial buffer and of the packed fp16 scratch.
MidRows == Larger((dep.sm_count \div Hk) * Hq, Hq)
FaScratchRows ==
    LET cap == dep.fa_scratch_cap
    IN  Larger(Larger(Smaller(dep.max_num_seqs * MaxModelLen, cap),
                      Smaller(MaxModelLen, cap)), dep.fa_scratch_floor)

Launch(kernel, lo, hi, splits, qlen, fresh) ==
    [op |-> "launch", kernel |-> kernel, lo |-> lo, hi |-> hi,
     splits |-> splits, qlen |-> qlen, fresh |-> fresh]

\* kvarn_decode_attention.
MidFitsUnchecked(B) == TRUE
MidFits(B) == B * Hq <= MidRows

DecodeSplits(B) ==
    /\ dep.fused_decode
    /\ MidFits(B)
    /\ \/ dep.split_k = "1"
       \/ /\ dep.split_k = "unset"
          /\ dep.sliding_window = 0
          /\ MaxBlocks >= SplitBlocks
          /\ B * Hk <= dep.sm_count

DecodeAttention(lo, hi, fresh) ==
    IF DecodeSplits(hi - lo + 1) THEN Launch("split", lo, hi, NumKvSplits, 0, fresh)
    ELSE Launch(IF dep.fused_decode THEN "fused" ELSE "materialised",
                lo, hi, 1, 0, fresh)

\* kvarn_verify_attention.
SharedVerify(tokens, qlen) ==
    /\ dep.shared_verify
    /\ qlen >= 2
    /\ tokens % qlen = 0
    /\ \E k \in 1 .. qlen : 2 ^ k = qlen

VerifySplits ==
    \/ dep.sliding_window = 0 /\ MaxBlocks >= SplitBlocks
    \/ dep.split_k = "1"

VerifyAttention(lo, hi, tokens, qlen, fresh) ==
    LET fills == MaxBlocks >= SplitBlocks /\ (tokens \div qlen) * Hk <= dep.sm_count
    IN  IF SharedVerify(tokens, qlen)
        THEN Launch("shared", lo, hi, IF fills THEN NumKvSplits ELSE 1, qlen, FALSE)
        ELSE IF VerifySplits THEN Launch("verify_split", lo, hi, NumKvSplits, 0, fresh)
        ELSE Launch("verify", lo, hi, 1, 0, fresh)

\* _cached_multiquery_path, with _fused_verify_path and _decode_path_slow.
ScratchHolds(rows, lo, hi) ==
    LET total_k == TokensOf([b \in 1 .. hi - lo + 1 |-> [q |-> rows[lo + b - 1].s]])
    IN  total_k > 0 /\ total_k <= FaScratchRows

CachedMultiquery(rows, lo, hi) ==
    IF /\ dep.fused_verify
       /\ MaxQueryLen(rows) <= dep.fused_verify_maxq
       /\ CeilDiv(MaxSeqLen(rows), Group) >= dep.fused_verify_min_blocks
    THEN VerifyAttention(lo, hi, 0, 0, TRUE)
    ELSE IF dep.flash_attn /\ ScratchHolds(rows, lo, hi)
    THEN Launch("packed", lo, hi, 1, 0, TRUE)
    ELSE Launch("slow", lo, hi, 1, 0, TRUE)

\* _decode_path, _verify_decode_path and _mixed_batch_path's two portions.
DecodePortion(rows, fresh) ==
    LET nd == NumDecodes(rows)
    IN  IF HasVq(rows)
        THEN VerifyAttention(1, nd, NumDecodeTokens(rows), VqQlen(rows), FALSE)
        ELSE DecodeAttention(1, nd, fresh)

PrefillPortion(rows) ==
    LET lo == NumDecodes(rows) + 1
    IN  IF HasCachedMultiquery(rows) THEN CachedMultiquery(rows, lo, Len(rows))
        ELSE Launch("prefill", lo, Len(rows), 1, 0, TRUE)

\* forward.
Route(rows) ==
    IF MaxQueryLen(rows) <= 1 \/ NumDecodeTokens(rows) = NumTokens(rows)
    THEN <<DecodePortion(rows, FALSE)>>
    ELSE IF NumDecodes(rows) = 0 THEN <<PrefillPortion(rows)>>
    ELSE <<DecodePortion(rows, TRUE), PrefillPortion(rows)>>

\* A graph holds the launches of the uniform batch it was captured with.
Captured(rows) ==
    Route([b \in DOMAIN rows |-> [q |-> rows[1].q, s |-> MaxModelLen]])

-----------------------------------------------------------------------------
(* The kernels: the cells they score for one query token.                   *)

Nothing == {<<0, 0, 0>>}

WinStartOfBlock(limit) ==
    IF dep.sliding_window > 0
    THEN (Larger(limit - dep.sliding_window, 0) \div Group) * Group ELSE 0
WinStart(limit) ==
    IF dep.sliding_window > 0 THEN Larger(limit - dep.sliding_window, 0) ELSE 0

\* The key loop over the blocks lo .. hi - 1 of a row of seq_len keys.
BlockCells(tag, row, seq_len, lo, hi, limit) ==
    {<<tag, row, p>> : p \in
        {p \in lo * Group .. hi * Group - 1 :
            p < seq_len /\ p < limit /\ p >= WinStart(limit)}}

\* _kvarn_fused_decode_kernel: nothing is written for a padding row.
FusedDecode(row, seq_len) ==
    IF seq_len <= 0 THEN Nothing
    ELSE BlockCells(0, row, seq_len, WinStart(seq_len) \div Group,
                    CeilDiv(seq_len, Group), seq_len)

\* The stage-1 kernels: split number `split` of `splits` takes blocks
\* SplitLo .. SplitHi - 1; stage 2 adds the partial results up.
SplitLo(n_blocks, splits, split) == split * CeilDiv(n_blocks, splits)
SplitHi(n_blocks, splits, split) ==
    Smaller(SplitLo(n_blocks, splits, split) + CeilDiv(n_blocks, splits), n_blocks)

SplitDecode(row, seq_len, limit, splits) ==
    LET n == CeilDiv(seq_len, Group)
    IN  UNION {BlockCells(split, row, seq_len, SplitLo(n, splits, split),
                          SplitHi(n, splits, split), limit) :
                  split \in 0 .. splits - 1}

\* _kvarn_build_packed_kv_kernel: (destination, row, position) of every key it
\* copies into the scratch, rows lo .. hi starting at the offsets cu_k.
PackedKV(rows, lo, hi, cu_k) ==
    {x \in UNION {{<<cu_k[b - lo + 1] + p, b, p>> : p \in 0 .. rows[b].s - 1} :
                     b \in lo .. hi} : x[1] < FaScratchRows}

\* flash_attn_varlen: the first `keys` keys of a row's range of the scratch.
FlashVarlen(scratch, from, keys) ==
    LET range == from .. from + keys - 1
    IN  {x \in scratch : x[1] \in range}
        \cup {<<i, 0, 0>> : i \in range \ {x[1] : x \in scratch}}

\* The cells launch l scores for token t, from the device's buffers.
Attended(l, t) ==
    LET qsl == QueryStartLoc(inputs)
        b == RowOf(qsl, t)
        i == t - qsl[l.lo]
        j == t - qsl[b]
        seq_len == inputs[b].s
        slice == [n \in 1 .. l.hi - l.lo + 1 |-> inputs[l.lo + n - 1]]
        cu_k == IF l.fresh THEN CumSum(SeqLens(slice)) ELSE plan.cu_k
        entry == IF l.fresh
                 THEN [req |-> b, len |-> seq_len - inputs[b].q + j + 1]
                 ELSE plan.vq[i + 1]
        full == plan.vq[(i \div l.qlen) * l.qlen + l.qlen].len
        causal_keys == seq_len - inputs[b].q + j + 1
    IN  CASE l.kernel = "fused" -> FusedDecode(l.lo + i, inputs[l.lo + i].s)
          [] l.kernel = "split" ->
                IF (i + 1) * Hq <= MidRows
                THEN SplitDecode(l.lo + i, inputs[l.lo + i].s, inputs[l.lo + i].s, l.splits)
                ELSE Nothing
          [] l.kernel = "verify" -> FusedDecode(entry.req, entry.len)
          [] l.kernel = "verify_split" ->
                SplitDecode(entry.req, entry.len, entry.len, l.splits)
          [] l.kernel = "shared" ->
                SplitDecode(l.lo + i \div l.qlen, full,
                            full - l.qlen + (i % l.qlen) + 1, l.splits)
          [] l.kernel = "materialised" ->
                FlashVarlen(PackedKV(inputs, l.lo, l.hi, cu_k), cu_k[i + 1],
                            cu_k[i + 2] - cu_k[i + 1])
          [] l.kernel = "packed" ->
                FlashVarlen(PackedKV(inputs, l.lo, l.hi, cu_k), cu_k[b - l.lo + 1],
                            IF dep.causal THEN causal_keys ELSE seq_len)
          [] l.kernel = "prefill" ->
                {<<0, b, seq_len - inputs[b].q + n>> :
                    n \in 0 .. (IF dep.causal THEN j ELSE inputs[b].q - 1)}
          [] l.kernel = "slow" -> {<<0, b, p>> : p \in 0 .. causal_keys - 1}

-----------------------------------------------------------------------------

Init ==
    /\ dep \in Deployments
    /\ phase = "idle" /\ batch = <<>> /\ graph = FALSE
    /\ staging = [vq |-> <<>>, cu_k |-> <<>>]
    /\ inputs = <<>>
    /\ plan = [vq |-> <<>>, cu_k |-> <<>>]
    /\ stream = <<>>
    /\ out = <<>>

\* The batches a runner forms: decodes first, a drafter's rows all of one
\* width; a graph is replayed for a uniform batch, padded to its size.
DecodeFirst(rows) ==
    \A b, c \in DOMAIN rows : b < c /\ rows[c].q <= Threshold => rows[b].q <= Threshold

Uniform(rows) == \A b \in DOMAIN rows : rows[b].q = rows[1].q

Batches == {rows \in UNION {[1 .. n -> Shapes] : n \in 1 .. MaxRows} :
                /\ Len(rows) <= dep.max_num_seqs
                /\ DecodeFirst(rows)
                /\ ~ dep.causal => Uniform(rows) /\ rows[1].q = 1 + dep.num_spec}

Schedule ==
    /\ phase = "idle"
    /\ \E rows \in Batches, g \in BOOLEAN :
        /\ g => Uniform(rows) /\ rows[1].q \in {1, Threshold}
        /\ \E padded \in IF g THEN Len(rows) .. MaxRows ELSE {Len(rows)} :
            batch' = [b \in 1 .. padded |->
                        IF b <= Len(rows) THEN rows[b] ELSE [q |-> 0, s |-> 0]]
        /\ graph' = g
    /\ phase' = "build"
    /\ stream' = Append(stream, [op |-> "inputs", rows |-> batch'])
    /\ UNCHANGED <<dep, staging, deviceVars>>

\* A verify plan that is not built leaves an earlier step's values, which
\* nobody may read: here it is empty.
PlanOf(rows) ==
    [vq |-> IF HasVq(rows) THEN VqPlan(rows) ELSE <<>>, cu_k |-> CumSum(SeqLens(rows))]

\* build reads the block table and the slot mapping back from the device,
\* which waits for everything enqueued so far.
SyncedNever == TRUE
Synced == stream = <<>>

Build ==
    /\ phase = "build"
    /\ Synced
    /\ staging' = PlanOf(batch)
    /\ stream' = Append(stream, [op |-> "copy"])
    /\ phase' = "forward"
    /\ UNCHANGED <<dep, batch, graph, deviceVars>>

Forward ==
    /\ phase = "forward"
    /\ stream' = stream \o (IF graph THEN Captured(batch) ELSE Route(batch))
    /\ phase' = "idle"
    /\ UNCHANGED <<dep, batch, graph, staging, deviceVars>>

\* The GPU executes the stream in order.
Next1(op) == stream # <<>> /\ Head(stream).op = op /\ stream' = Tail(stream)

UpdateInputs ==
    /\ Next1("inputs")
    /\ inputs' = Head(stream).rows
    /\ out' = <<>>
    /\ UNCHANGED <<hostVars, staging, plan>>

CopyPlan ==
    /\ Next1("copy")
    /\ plan' = staging
    /\ UNCHANGED <<hostVars, staging, inputs, out>>

RunKernels ==
    /\ Next1("launch")
    /\ LET l == Head(stream)
           qsl == QueryStartLoc(inputs)
           tokens == qsl[l.lo] .. qsl[l.hi + 1] - 1
       IN  out' = [t \in DOMAIN out \cup tokens |->
                      IF t \in tokens THEN Attended(l, t) ELSE out[t]]
    /\ UNCHANGED <<hostVars, staging, inputs, plan>>

Next == Schedule \/ Build \/ Forward \/ UpdateInputs \/ CopyPlan \/ RunKernels

Spec == Init /\ [][Next]_vars

-----------------------------------------------------------------------------

AttentionTypeOK ==
    /\ dep \in Deployments
    /\ phase \in {"idle", "build", "forward"} /\ graph \in BOOLEAN
    /\ \A b \in DOMAIN batch : batch[b] \in Shapes \cup {[q |-> 0, s |-> 0]}
    /\ plan.vq \in Seq([req : 1 .. MaxRows, len : 0 .. MaxModelLen])
    /\ \A i \in DOMAIN stream : stream[i].op \in {"inputs", "copy", "launch"}

\* The keys before which token j of row b stops, and the positions it has to
\* attend: in a sliding-window layer, the last sliding_window of them.
KeysUpTo(b, j) == IF dep.causal THEN inputs[b].s - inputs[b].q + j + 1 ELSE inputs[b].s

InWindow(limit, p) == dep.sliding_window = 0 \/ limit - dep.sliding_window <= p

Wanted(b, j) == {p \in 0 .. KeysUpTo(b, j) - 1 : InWindow(KeysUpTo(b, j), p)}

\* What is accepted: the window, and for a token whose row is too long for a
\* decode and reaches past its window, the full history as well.
Accepted(b, j) ==
    {Wanted(b, j)} \cup
    {keys \in {0 .. KeysUpTo(b, j) - 1} :
         /\ inputs[b].q > Threshold
         /\ 0 < dep.sliding_window /\ dep.sliding_window < KeysUpTo(b, j)}

StepExecuted ==
    /\ out # <<>>
    /\ IF stream = <<>> THEN phase = "idle" ELSE Head(stream).op = "inputs"

(* Whichever path and kernel a row is sent to, and whatever the host has      *)
(* planned since: each query token scores every key of its own request up to  *)
(* itself (all of them when the pass is not causal) that lies in its layer's  *)
(* window, each exactly once, in one split, and no other key; and when the    *)
(* step's launches have run, every token has its output.  Flash attention is  *)
(* called without a window (_flash_varlen), so a prefill past its window may  *)
(* score the full history instead (Accepted), which the constructor of        *)
(* KVarNAttentionImpl calls "wrong output past the window".  What is computed *)
(* from the keys, and what a drafter proposes from it, is another matter.     *)
OutputsExact ==
    LET qsl == QueryStartLoc(inputs)
    IN  /\ \A t \in DOMAIN out :
            LET b == RowOf(qsl, t)
            IN  \E keys \in Accepted(b, t - qsl[b]) :
                   /\ {<<x[2], x[3]>> : x \in out[t]} = {<<b, p>> : p \in keys}
                   /\ Cardinality(out[t]) = Cardinality(keys)
        /\ StepExecuted => DOMAIN out = 0 .. TokensOf(inputs) - 1

(* The plan a kernel reads is the plan of the rows it is launched for: the    *)
(* pinned staging buffers are refilled by the next build only after the copy  *)
(* from them has executed, and the device buffers only after the kernels that *)
(* read them, also when those are replayed from a graph.                      *)
PlanMatchesInputs ==
    stream # <<>> /\ Head(stream).op = "launch" => plan = PlanOf(inputs)

(* "FA packed K/V scratch holds the total KV tokens attended in ONE decode    *)
(* step (= sum of the batch's context lengths)" (_ensure_pool): no launch     *)
(* packs more keys than the scratch has rows.                                 *)
ScratchHoldsTheStep ==
    stream # <<>> /\ Head(stream).op = "launch"
        /\ Head(stream).kernel \in {"materialised", "packed"} =>
            ScratchHolds(inputs, Head(stream).lo, Head(stream).hi)
=============================================================================
