-------------------------- MODULE MCKVarNAttention --------------------------
(***************************************************************************)
(* Deployments and row shapes for TLC.  Sizes are scaled: blocks of two    *)
(* tokens, three blocks of context, a graphics card of a few SMs.          *)
(***************************************************************************)
EXTENDS KVarNAttention

Row(q, s) == [q |-> q, s |-> s]

MCShapes == {Row(1, 4), Row(2, 5), Row(3, 3), Row(4, 6)}

\* The defaults of envs.py, with one draft token per step.
Default ==
    [num_spec |-> 1, causal |-> TRUE, sliding_window |-> 0, max_num_seqs |-> 3,
     sm_count |-> 4, flash_attn |-> TRUE,
     fused_verify |-> TRUE, fused_verify_maxq |-> 3, fused_verify_min_blocks |-> 3,
     shared_verify |-> FALSE, fused_decode |-> TRUE, split_k |-> "unset",
     num_kv_splits |-> 0, fa_scratch_cap |-> 100, fa_scratch_floor |-> 4]

MCDeployments ==
    {Default,
     [Default EXCEPT !.num_spec = 0, !.split_k = "1", !.num_kv_splits = 2],
     [Default EXCEPT !.shared_verify = TRUE, !.num_kv_splits = 2, !.sm_count = 2],
     [Default EXCEPT !.shared_verify = TRUE, !.num_spec = 2, !.split_k = "0"],
     [Default EXCEPT !.fused_verify = FALSE, !.fa_scratch_cap = 8],
     [Default EXCEPT !.fused_decode = FALSE],
     [Default EXCEPT !.flash_attn = FALSE, !.fused_verify_min_blocks = 2],
     [Default EXCEPT !.sliding_window = 3, !.split_k = "1", !.num_kv_splits = 3],
     [Default EXCEPT !.sliding_window = 3],
     [Default EXCEPT !.causal = FALSE, !.shared_verify = TRUE, !.num_spec = 1]}

\* KVARN_FUSED_DECODE=0 with a scratch below the batch's context.
MCSmallScratch == {[Default EXCEPT !.fused_decode = FALSE, !.fa_scratch_cap = 8]}
=============================================================================
