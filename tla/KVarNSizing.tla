----------------------------- MODULE KVarNSizing -----------------------------
(***************************************************************************)
(* The size of the fp16 tail pool: how KVarNConfig and the platform hook   *)
(* choose it and cap max_num_seqs at start-up, and whether one engine step *)
(* can need more slots than it has.                                        *)
(*                                                                         *)
(* A step is composed the way the scheduler composes it, one row at a time *)
(* against max_num_seqs and the token budget.  What a row needs is what    *)
(* KVarNPool's Needed counts for it when it shares no block: its first     *)
(* block and the blocks its tokens fall in.                                *)
(***************************************************************************)
EXTENDS Integers, FiniteSets

CONSTANTS
    Group,          \* tokens per block
    SlotBytes,      \* bytes of one slot over all layers
    Requested,      \* values of --max-num-seqs
    BatchTokens,    \* values of --max-num-batched-tokens
    Budgets,        \* values of pool_budget_bytes
    EnvSlots,       \* values of KVARN_POOL_SLOTS, 0 when it is not set
    Committed,      \* tokens a row may hold before the step
    Query,          \* tokens a row may be given in a step
    LongRows        \* rows of a step with more than one token

ASSUME GroupAssumption == Group \in Nat \ {0}
ASSUME SlotBytesAssumption == SlotBytes \in Nat \ {0}
ASSUME FlagAssumption ==
    /\ Requested \subseteq Nat \ {0}
    /\ BatchTokens \subseteq Nat \ {0}
    /\ Budgets \subseteq Nat
    /\ EnvSlots \subseteq Nat
ASSUME RowAssumption ==
    /\ Committed \subseteq Nat
    /\ Query \subseteq Nat \ {0}
    /\ LongRows \in Nat

VARIABLES
    max_num_seqs,           \* scheduler_config.max_num_seqs
    max_num_batched_tokens, \* scheduler_config.max_num_batched_tokens
    budget,                 \* pool_budget_bytes of this card and model
    env_slots,              \* KVARN_POOL_SLOTS
    pool_size,              \* slots of the allocated pool, 0 before that
    phase,                  \* "flags", "capped", "serving"
    rows,                   \* rows of the step being composed
    long,                   \* of those, the ones with more than one token
    tokens,                 \* tokens of those rows
    demand                  \* slots those rows need

configVars == <<max_num_seqs, max_num_batched_tokens, budget, env_slots>>
stepVars == <<rows, long, tokens, demand>>
vars == <<configVars, stepVars, pool_size, phase>>

Greater(a, b) == IF a > b THEN a ELSE b

Headroom == 8

PrefillBlocks(t) == (t + Group - 1) \div Group

\* KVarNConfig.pool_slots, max_supported_seqs and pool_bytes.
PoolSlotsTailOnly(seqs, t) == Greater(seqs + PrefillBlocks(t) + Headroom, Headroom)
PoolSlots(seqs, t) == Greater(2 * seqs + PrefillBlocks(t) + Headroom, Headroom)

MaxSupportedSeqsUnfloored(bytes, t) ==
    (bytes \div SlotBytes - PrefillBlocks(t) - Headroom) \div 2
MaxSupportedSeqsNoPrefill(bytes, t) ==
    Greater(1, (bytes \div SlotBytes - Headroom) \div 2)
MaxSupportedSeqs(bytes, t) ==
    Greater(1, (bytes \div SlotBytes - PrefillBlocks(t) - Headroom) \div 2)

PoolBytes(slots) == slots * SlotBytes

Init ==
    /\ max_num_seqs \in Requested
    /\ max_num_batched_tokens \in BatchTokens
    /\ budget \in Budgets
    /\ env_slots \in EnvSlots
    /\ pool_size = 0
    /\ phase = "flags"
    /\ rows = 0 /\ long = 0 /\ tokens = 0 /\ demand = 0

\* The platform hook caps max_num_seqs at what the budget supports.
CheckAndUpdateConfig ==
    /\ phase = "flags"
    /\ phase' = "capped"
    /\ max_num_seqs' =
         IF max_num_seqs > MaxSupportedSeqs(budget, max_num_batched_tokens)
         THEN MaxSupportedSeqs(budget, max_num_batched_tokens)
         ELSE max_num_seqs
    /\ UNCHANGED <<max_num_batched_tokens, budget, env_slots, pool_size, stepVars>>

\* _ensure_pool, once, before the first forward pass.
EnsurePool ==
    /\ phase = "capped"
    /\ phase' = "serving"
    /\ pool_size' = IF env_slots > 0 THEN Greater(env_slots, 64)
                    ELSE PoolSlots(max_num_seqs, max_num_batched_tokens)
    /\ UNCHANGED <<configVars, stepVars>>

-----------------------------------------------------------------------------

\* The first block and blocks committed \div Group .. last of build()'s needed.
RowSlots(committed, query) ==
    LET first == committed \div Group
        last  == (committed + query - 1) \div Group
    IN  last - first + 1 + IF first = 0 THEN 0 ELSE 1

\* The scheduler gives one more request tokens in this step.
AddRow(committed, query) ==
    /\ phase = "serving"
    /\ rows < max_num_seqs
    /\ tokens + query <= max_num_batched_tokens
    /\ query > 1 => long < LongRows
    /\ rows' = rows + 1
    /\ long' = IF query > 1 THEN long + 1 ELSE long
    /\ tokens' = tokens + query
    /\ demand' = demand + RowSlots(committed, query)
    /\ UNCHANGED <<configVars, pool_size, phase>>

\* The step ran and the next one is composed.
EndStep ==
    /\ rows > 0
    /\ rows' = 0 /\ long' = 0 /\ tokens' = 0 /\ demand' = 0
    /\ UNCHANGED <<configVars, pool_size, phase>>

Next ==
    \/ CheckAndUpdateConfig
    \/ EnsurePool
    \/ \E committed \in Committed, query \in Query : AddRow(committed, query)
    \/ EndStep

Spec == Init /\ [][Next]_vars

-----------------------------------------------------------------------------

SizingTypeOK ==
    /\ max_num_seqs \in Nat \ {0}
    /\ max_num_batched_tokens \in BatchTokens
    /\ budget \in Budgets
    /\ env_slots \in EnvSlots
    /\ pool_size \in Nat
    /\ phase \in {"flags", "capped", "serving"}
    /\ rows \in Nat /\ long \in Nat /\ tokens \in Nat /\ demand \in Nat

(* No step the scheduler may compose needs more slots than the pool has: the  *)
(* pool is "exhaustion-safe (the scheduler can never exceed it)" (the comment *)
(* in _ensure_pool).  It holds while at most Headroom rows of a step carry    *)
(* more than one token, and not when every row is a speculative one.          *)
PoolSuffices == env_slots = 0 => (phase = "serving" => demand <= pool_size)

(* The pool fits its budget whenever the budget holds the smallest pool there *)
(* is, the one of a single request.                                           *)
PoolFitsAFeasibleBudget ==
    phase = "serving" /\ env_slots = 0
        /\ PoolBytes(PoolSlots(1, max_num_batched_tokens)) <= budget
    => PoolBytes(pool_size) <= budget
=============================================================================
