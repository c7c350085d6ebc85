---------------------------- MODULE KVarNServing ----------------------------
(***************************************************************************)
(* The KVarN pool at work: engine steps over a prefix-cached paged KV      *)
(* cache, with the fp16 pool, the int4 tiles and the tokens in them.       *)
(*                                                                         *)
(* One engine step is Schedule, ExecuteModel (build, forward, sampling)    *)
(* and, for the layers of an MTP drafter, DraftPasses further passes.  The *)
(* scheduler and the block pool of vLLM are not in this repository: Admit, *)
(* Schedule and Release are the environment, kept as free as the backend   *)
(* may assume (any batch, any query length, any free block, any cached     *)
(* prefix).                                                                *)
(***************************************************************************)
EXTENDS KVarNPool

CONSTANTS
    Request,        \* request slots of the running batch
    Conversation,   \* token streams; requests of one stream share prefixes
    None,           \* no conversation: the request slot is empty
    MaxModelLen,    \* bound: tokens of a request
    MaxQueryLen,    \* bound: tokens of one row in one step (chunk or 1 + drafts)
    DraftPasses,    \* drafter passes with draft_index >= 1 after each step
    DeferRows       \* may a step leave a running request out of its batch?

ASSUME ServingAssumption ==
    /\ {MaxModelLen, MaxQueryLen} \subseteq Nat \ {0}
    /\ DraftPasses \in Nat
    /\ DeferRows \in BOOLEAN
    /\ None \notin Conversation

VARIABLES
    conversation,   \* request slot -> its token stream, or None
    num_computed,   \* tokens of the request whose KV is final
    block_table,    \* request slot -> its blocks in order
    block_hash,     \* prefix-cache key of a block: <<stream, index>> or <<>>
    pool,           \* _tail_K_pool, _tail_V_pool: slot -> offset -> token
    tile,           \* kv_cache: block -> offset -> token, in int4
    batch,          \* rows scheduled for the coming step -> query length
    pass            \* 0 between steps, 1 scheduled, 1 + i before drafter pass i

engineVars == <<conversation, num_computed, block_table, block_hash>>
dataVars == <<pool, tile>>
vars == <<poolVars, engineVars, dataVars, batch, pass>>

Token(c, p) == <<c, p>>
Junk == <<"junk", 0>>
NoHash == <<>>
JunkTile == [o \in 0 .. Group - 1 |-> Junk]

Running == {r \in Request : conversation[r] # None}

FreeBlocks == Block \ UNION {Range(block_table[r]) : r \in Request}

Greater(a, b) == IF a > b THEN a ELSE b

BlocksFor(n) == (n + Group - 1) \div Group

ServingInit ==
    /\ PoolInit
    /\ conversation = [r \in Request |-> None]
    /\ num_computed = [r \in Request |-> 0]
    /\ block_table = [r \in Request |-> <<>>]
    /\ block_hash = [b \in Block |-> NoHash]
    /\ pool = [s \in Slot |-> JunkTile]
    /\ tile = [b \in Block |-> JunkTile]
    /\ batch = <<>>
    /\ pass = 0

-----------------------------------------------------------------------------
(* The environment: admission with a prefix-cache hit on full blocks cached *)
(* in an earlier step (a block that another row of the same step is about   *)
(* to fill is not hit), scheduling of a batch, finish or preemption.        *)

CachedChain(c) ==
    {blocks \in UNION {[1 .. k -> Block] : k \in 0 .. MaxModelLen \div Group} :
        \A i \in DOMAIN blocks : block_hash[blocks[i]] = <<c, i - 1>>}

Admit(r, c) ==
    /\ pass = 0
    /\ conversation[r] = None
    /\ \E hit \in CachedChain(c) :
        /\ Len(hit) * Group < MaxModelLen      \* at least one token to compute
        /\ conversation' = [conversation EXCEPT ![r] = c]
        /\ block_table' = [block_table EXCEPT ![r] = hit]
        /\ num_computed' = [num_computed EXCEPT ![r] = Len(hit) * Group]
    /\ UNCHANGED <<poolVars, block_hash, dataVars, batch, pass>>

\* One batch: every running request (or, with DeferRows, any of them) with a
\* query length, and enough blocks for the tokens it will hold.  Giving a
\* block to a new owner drops its cache key, and its old tile bytes are junk.
Schedule(rows, query) ==
    LET total(r) == Greater(Len(block_table[r]),
                            BlocksFor(num_computed[r] + query[r] + DraftPasses))
        grown    == UNION {{r} \X (Len(block_table[r]) + 1 .. total(r)) : r \in rows}
    IN  /\ pass = 0
        /\ rows # {}
        /\ DeferRows \/ rows = Running
        /\ \A r \in rows : num_computed[r] + query[r] <= MaxModelLen
        /\ \E new \in Injection(grown, FreeBlocks) :
            /\ block_table' = [r \in Request |->
                    IF r \notin rows THEN block_table[r]
                    ELSE [i \in 1 .. total(r) |->
                            IF <<r, i>> \in grown THEN new[<<r, i>>] ELSE block_table[r][i]]]
            /\ block_hash' = [b \in Block |->
                    IF b \in Range(new) THEN NoHash ELSE block_hash[b]]
            /\ tile' = [b \in Block |->
                    IF b \in Range(new) THEN JunkTile ELSE tile[b]]
        /\ batch' = query
        /\ pass' = 1
        /\ UNCHANGED <<poolVars, conversation, num_computed, pool>>

\* The request finished, was aborted or was preempted.  Its full blocks stay
\* in the prefix cache until they are handed out again.
Release(r) ==
    /\ pass = 0
    /\ r \in Running
    /\ conversation' = [conversation EXCEPT ![r] = None]
    /\ block_table' = [block_table EXCEPT ![r] = <<>>]
    /\ num_computed' = [num_computed EXCEPT ![r] = 0]
    /\ UNCHANGED <<poolVars, block_hash, dataVars, batch, pass>>

-----------------------------------------------------------------------------
(* The backend.                                                            *)

BatchRows ==
    {[table |-> block_table[r], committed |-> num_computed[r],
      seq_len |-> num_computed[r] + batch[r]] : r \in DOMAIN batch}

\* Row of the drafter's pass i: one draft token after the accepted ones.
DraftRows(i) ==
    {[table |-> block_table[r], committed |-> num_computed[r] + i - 1,
      seq_len |-> num_computed[r] + i] : r \in DOMAIN batch}

\* Only the target's build and the drafter's first pass flush and reclaim: in
\* the later passes `committed' counts draft tokens that may be rejected.
AllowFlushAlways(draft_index) == TRUE
AllowFlush(draft_index) == draft_index = 0

\* _batched_flush: every flushed block's slot is quantised into its tile.
FlushTiles(blocks) ==
    [b \in Block |-> IF b \in blocks \cap Held
                     THEN pool[block_to_slot[b]] ELSE tile[b]]

\* A slot that changes hands keeps its bytes in the code; they belong to
\* nobody, so they are junk here from the moment the slot is given up.
KeepOwned(map) ==
    [s \in Slot |-> IF \E b \in Held \cap DOMAIN map :
                          map[b] = s /\ block_to_slot[b] = s
                    THEN pool[s] ELSE JunkTile]

\* do_kv_cache_update: scatter the tokens at their blocks' slots; a token
\* whose block has no slot is not stored.
Scatter(map, slots, writes) ==
    [s \in Slot |-> [o \in 0 .. Group - 1 |->
        IF \E w \in writes :
              w.block \in DOMAIN map /\ map[w.block] = s /\ w.offset = o
        THEN (CHOOSE w \in writes :
                w.block \in DOMAIN map /\ map[w.block] = s /\ w.offset = o).token
        ELSE slots[s][o]]]

WriteAt(r, p, token) ==
    [block |-> block_table[r][p \div Group + 1], offset |-> p % Group,
     token |-> token]

\* After the last pass of a step the batch is forgotten.
EndPass ==
    /\ pass' = IF pass > DraftPasses THEN 0 ELSE pass + 1
    /\ batch' = IF pass > DraftPasses THEN <<>> ELSE batch

\* execute_model: build() for the batch, then the forward pass writes every
\* scheduled token; sampling accepts a non-empty prefix of each row (all of it
\* for a prefill chunk), and the blocks it completes become prefix-cache keys.
ExecuteModel(accepted) ==
    LET done == [r \in Request |-> num_computed[r] +
                    IF r \in DOMAIN batch THEN accepted[r] ELSE 0]
        token(r, p) == IF p < done[r] THEN Token(conversation[r], p) ELSE Junk
        completed(b, h) ==
            \E r \in DOMAIN batch : \E i \in 1 .. done[r] \div Group :
                block_table[r][i] = b /\ h = <<conversation[r], i - 1>>
    IN  /\ pass = 1
        /\ \A r \in DOMAIN batch : accepted[r] <= batch[r]
        /\ \E evicted \in Evictions(BatchRows, AllowFlush(0)) :
            /\ BuildMeta(BatchRows, AllowFlush(0), evicted)
            /\ tile' = FlushTiles(Quantised(BatchRows, AllowFlush(0), evicted))
        /\ pool' = Scatter(block_to_slot', KeepOwned(block_to_slot'),
              UNION {{WriteAt(r, p, token(r, p)) :
                        p \in num_computed[r] .. num_computed[r] + batch[r] - 1} :
                     r \in DOMAIN batch})
        /\ num_computed' = done
        /\ block_hash' = [b \in Block |->
              IF \E h \in Conversation \X (0 .. MaxModelLen) : completed(b, h)
              THEN CHOOSE h \in Conversation \X (0 .. MaxModelLen) : completed(b, h)
              ELSE block_hash[b]]
        /\ EndPass
        /\ UNCHANGED <<conversation, block_table>>

\* build_for_drafting with draft_index >= 1 and the draft token's write.
DraftPass ==
    LET i == pass - 1 IN
    /\ pass >= 2
    /\ \E evicted \in Evictions(DraftRows(i), AllowFlush(i)) :
        /\ BuildMeta(DraftRows(i), AllowFlush(i), evicted)
        /\ tile' = FlushTiles(Quantised(DraftRows(i), AllowFlush(i), evicted))
    /\ pool' = Scatter(block_to_slot', KeepOwned(block_to_slot'),
                 {WriteAt(r, num_computed[r] + i - 1, Junk) : r \in DOMAIN batch})
    /\ EndPass
    /\ UNCHANGED engineVars

Exhausted ==
    /\ \/ pass = 1 /\ BuildExhausted(BatchRows, AllowFlush(0))
       \/ pass >= 2 /\ BuildExhausted(DraftRows(pass - 1), AllowFlush(pass - 1))
    /\ UNCHANGED <<engineVars, dataVars, batch, pass>>

Next ==
    \/ \E r \in Request, c \in Conversation : Admit(r, c)
    \/ \E rows \in SUBSET Running : \E query \in [rows -> 1 .. MaxQueryLen] :
            Schedule(rows, query)
    \/ \E r \in Request : Release(r)
    \/ \E accepted \in [DOMAIN batch -> 1 .. MaxQueryLen] : ExecuteModel(accepted)
    \/ DraftPass
    \/ Exhausted

Spec == ServingInit /\ [][Next]_vars

-----------------------------------------------------------------------------

ServingTypeOK ==
    /\ PoolTypeOK
    /\ conversation \in [Request -> Conversation \cup {None}]
    /\ num_computed \in [Request -> 0 .. MaxModelLen]
    /\ block_table \in [Request -> Seq(Block)]
    /\ DOMAIN block_hash = Block
    /\ DOMAIN pool = Slot /\ DOMAIN tile = Block
    /\ DOMAIN batch \subseteq Request
    /\ pass \in 0 .. DraftPasses + 1

\* What the kernels read for an offset of a block: the pool when the block has
\* a slot, its int4 tile when it has none.
ReadKV(b, o) == IF b \in Held THEN pool[block_to_slot[b]][o] ELSE tile[b][o]

(* Every block in the prefix cache, its owner live or long finished, reads    *)
(* as the tokens of its key: whoever hits it next finds a valid int4 tile or *)
(* the fp16 data of a sink, never stale bytes (flush-on-reclaim).             *)
CachedReadable ==
    \A b \in Block : block_hash[b] # NoHash =>
        \A o \in 0 .. Group - 1 :
            ReadKV(b, o) = Token(block_hash[b][1], block_hash[b][2] * Group + o)

(* Quantising is permanent: once a cached block left the pool, no later build *)
(* gives it an empty slot (which would shadow its tile) before the block is  *)
(* handed to a new owner.                                                     *)
Int4IsFinal ==
    [][\A b \in Block :
        b \notin Held /\ block_hash[b] # NoHash /\ block_hash'[b] = block_hash[b]
            => b \notin DOMAIN block_to_slot']_vars

(* A running request's sink stays in fp16, in the same slot, for as long as  *)
(* the request runs, whatever other requests do to the pool: an eviction or a *)
(* reclaim never takes it.                                                    *)
LiveSinkResident ==
    [][\A r \in Running :
        LET first == Head(block_table[r])
        IN  conversation'[r] = conversation[r] /\ block_table[r] # <<>> /\ first \in sinks
                => /\ first \in DOMAIN block_to_slot'
                   /\ block_to_slot'[first] = block_to_slot[first]]_vars

(* Reclaim never discards a block that holds committed tokens of a running    *)
(* request: a partial block it throws away has no other copy.                 *)
ReclaimSparesRunning ==
    [][pass = 1 /\ pass' # 1 =>
        \A r \in Running : \A i \in 1 .. BlocksFor(num_computed[r]) :
            block_table[r][i] \notin Discarded(BatchRows, TRUE)]_vars

(* build() never runs out of slots when the pool has one per first block and  *)
(* one per block the batch can write.                                         *)
NeverExhausted == engine = "up"

(* Keeping finished requests' sinks resident costs live requests nothing:     *)
(* build() raises only when the batch alone needs more slots than there are.  *)
ResidencyIsFree ==
    engine = "failed" => Cardinality(Needed(BatchRows)) > Cardinality(Slot)

(* The detailed cache implements the abstract promise: what each request's    *)
(* attention reads over its committed positions is its own tokens.            *)
View ==
    INSTANCE AttentionView WITH
        view <- [r \in Request |-> [p \in 1 .. num_computed[r] |->
                    ReadKV(block_table[r][(p - 1) \div Group + 1], (p - 1) % Group)]]

AttentionReadsOwnTokens == View!Spec
=============================================================================
