------------------------------ MODULE KVarNOwner ------------------------------
(***************************************************************************)
(* Which metadata builder drives which layer, and what survives when the   *)
(* KV cache is initialised again: the owner registry, the per-group        *)
(* allocator state and its GPU mirror, and what a forward pass or a        *)
(* captured CUDA graph reads of it (kvarn_attn.py).                        *)
(*                                                                         *)
(* Every initialize_kv_cache makes a builder per KV-cache group, then one  *)
(* for the drafter's layers, which are also in a group: first for a cache  *)
(* that only serves to measure memory, then for the real one.  The block   *)
(* ids of a cache mean nothing in the next, so each slot-holding block is  *)
(* tagged with the cache it belongs to.  Which blocks a build allocates    *)
(* and frees is KVarNPool's business, and arbitrary here.                  *)
(***************************************************************************)
EXTENDS Integers, FiniteSets, Functions

CONSTANTS
    Layer,          \* KVarN attention layers
    Groups,         \* KV-cache groups: a partition of Layer
    DraftLayers,    \* the drafter's layers, {} without a drafter
    NumBlocks,      \* blocks of a KV cache: 0 .. NumBlocks - 1
    LookupBound,    \* max(1024, _lookup_upper_bound): least size of a mirror
    MaxInits        \* bound: calls of initialize_kv_cache

ASSUME LayerAssumption ==
    /\ IsFiniteSet(Layer)
    /\ Groups \subseteq (SUBSET Layer) \ {{}}
    /\ \A l \in Layer : \E g \in Groups : l \in g
    /\ \A g, h \in Groups : g # h => g \cap h = {}
    /\ \E g \in Groups : DraftLayers \subseteq g
ASSUME SizeAssumption ==
    /\ NumBlocks \in Nat \ {0} /\ LookupBound \in Nat \ {0}
    /\ MaxInits \in Nat \ {0}

VARIABLES
    inits,          \* calls of initialize_kv_cache; the current KV cache
    made,           \* builders constructed for the current KV cache
    owner,          \* _owner: claimed layers -> builder
    impl_by_name,   \* builder -> layers it claimed at construction
    group_key,      \* layer -> _group_key
    block_to_slot,  \* _block_to_slot_dict: key -> slot-holding blocks -> their cache
    mirrors,        \* _block_to_slot_t_per_device: key -> tensor
    content,        \* tensor -> blocks it gives a slot
    bound,          \* layer -> _block_to_slot_t, NoTensor after a reset
    kv_cache_ref,   \* layer -> cache of _kv_cache_ref, 0 for None
    captured,       \* layer -> tensor its captured graph reads
    step,           \* what runs: "idle", or the side whose step runs
    built,          \* builders whose build() ran in this step
    used            \* history: layers of the last forward pass -> tensor read

registryVars == <<made, owner, impl_by_name>>
groupVars == <<group_key, block_to_slot, mirrors, content, bound, kv_cache_ref>>
vars == <<inits, registryVars, groupVars, captured, step, built, used>>

Block == 0 .. NumBlocks - 1
Proxy == {}         \* the (head_size, heads, window) key before any builder
NoTensor == [key |-> Proxy, size |-> 0, cache |-> 0]

Builder(side, layers) == [side |-> side, layers |-> layers, cache |-> inits]
Key(b) == b.layers

Greater(a, b) == IF a > b THEN a ELSE b
Without(f, x) == Restrict(f, DOMAIN f \ {x})
With(f, x, v) == [y \in DOMAIN f \cup {x} |-> IF y = x THEN v ELSE f[y]]

Owned(b) == {l \in impl_by_name[b] : owner[l] = b}

Expected ==
    {Builder("target", g) : g \in Groups}
        \cup (IF DraftLayers = {} THEN {} ELSE {Builder("drafter", DraftLayers)})

Serving == inits > 0 /\ made = Expected

Init ==
    /\ inits = 0
    /\ made = {} /\ owner = <<>> /\ impl_by_name = <<>>
    /\ group_key = [l \in Layer |-> Proxy]
    /\ block_to_slot = <<>> /\ mirrors = <<>> /\ content = <<>>
    /\ bound = [l \in Layer |-> NoTensor]
    /\ kv_cache_ref = [l \in Layer |-> 0]
    /\ captured = <<>>
    /\ step = "idle" /\ built = {} /\ used = <<>>

-----------------------------------------------------------------------------
(* _ensure_pool for a key: an allocator if there is none, and a mirror that *)
(* covers the hint, a larger one re-synchronised from the dict.  The mirror *)
(* always covers _max_known_block_id, which is left out.                    *)

EnsuredSlots(key) ==
    IF key \in DOMAIN block_to_slot THEN block_to_slot
    ELSE With(block_to_slot, key, <<>>)

EnsuredTensorNoFloor(key, hint) ==
    IF key \in DOMAIN mirrors /\ mirrors[key].size >= hint THEN mirrors[key]
    ELSE [key |-> key, size |-> hint, cache |-> inits]
EnsuredTensor(key, hint) ==
    LET size == Greater(hint, LookupBound)
    IN  IF key \in DOMAIN mirrors /\ mirrors[key].size >= size THEN mirrors[key]
        ELSE [key |-> key, size |-> size, cache |-> inits]

EnsuredContent(key, hint) ==
    IF key \in DOMAIN mirrors /\ mirrors[key] = EnsuredTensor(key, hint)
    THEN content[mirrors[key]]
    ELSE DOMAIN EnsuredSlots(key)[key] \cap 0 .. EnsuredTensor(key, hint).size - 1

\* profile_run: every layer's forward without metadata, under the proxy key.
ProfileRun ==
    /\ inits = 0
    /\ block_to_slot' = EnsuredSlots(Proxy)
    /\ mirrors' = With(mirrors, Proxy, EnsuredTensor(Proxy, 0))
    /\ content' = With(content, EnsuredTensor(Proxy, 0), EnsuredContent(Proxy, 0))
    /\ bound' = [l \in Layer |-> EnsuredTensor(Proxy, 0)]
    /\ UNCHANGED <<inits, registryVars, group_key, kv_cache_ref, captured, step,
                   built, used>>

-----------------------------------------------------------------------------

\* A new KV cache: the old builders, tensors and graphs are no longer used.
InitializeKvCache ==
    /\ step = "idle" /\ inits < MaxInits
    /\ inits = 0 \/ Serving
    /\ inits' = inits + 1
    /\ made' = {} /\ captured' = <<>> /\ used' = <<>>
    /\ UNCHANGED <<owner, impl_by_name, groupVars, step, built>>

\* A layer is claimed when it is unowned or its owner has no fewer layers.
ClaimsFewer(layers) ==
    {l \in layers : l \in DOMAIN owner =>
        Cardinality(layers) < Cardinality(owner[l].layers)}
Claims(layers) ==
    {l \in layers : l \in DOMAIN owner =>
        Cardinality(layers) <= Cardinality(owner[l].layers)}

\* _reset_group_state: the allocator and the mirror of the key are dropped.
ResetSlotsKept(key) == block_to_slot
ResetSlots(key) == Without(block_to_slot, key)
ResetMirrorsKept(key) == mirrors
ResetMirrors(key) == Without(mirrors, key)

MakeBuilder(b) ==
    LET claims == Claims(b.layers) IN
    /\ inits > 0
    /\ b \in Expected \ made
    /\ b.side = "drafter" => made = Expected \ {b}
    /\ made' = made \cup {b}
    /\ owner' = [l \in DOMAIN owner \cup claims |->
                    IF l \in claims THEN b ELSE owner[l]]
    /\ impl_by_name' = With(impl_by_name, b, claims)
    /\ block_to_slot' = ResetSlots(Key(b))
    /\ mirrors' = ResetMirrors(Key(b))
    /\ group_key' = [l \in Layer |-> IF l \in claims THEN Key(b) ELSE group_key[l]]
    /\ bound' = [l \in Layer |-> IF l \in claims THEN NoTensor ELSE bound[l]]
    /\ kv_cache_ref' = [l \in Layer |-> IF l \in claims THEN 0 ELSE kv_cache_ref[l]]
    /\ UNCHANGED <<inits, content, captured, step, built, used>>

-----------------------------------------------------------------------------
(* One step of a side: build() of its builders, then its forward pass.     *)

Executed(side) == IF side = "drafter" THEN DraftLayers ELSE Layer \ DraftLayers

BeginStep(side) ==
    /\ Serving /\ step = "idle"
    /\ \E b \in made : b.side = side
    /\ step' = side /\ built' = {} /\ used' = <<>>
    /\ UNCHANGED <<inits, registryVars, groupVars, captured>>

\* build(): a hint of one past the largest block, and every move of the
\* allocator mirrored in the tensor, if the tensor has the block.
Hint(needed) == 1 + CHOOSE m \in needed : \A n \in needed : n <= m

Build(b, needed, freed) ==
    LET key    == Key(b)
        old    == EnsuredSlots(key)[key]
        tensor == EnsuredTensor(key, Hint(needed))
        range  == 0 .. tensor.size - 1
        kept   == DOMAIN old \ freed
    IN  /\ step = b.side /\ b \in made \ built
        /\ built' = built \cup {b}
        /\ IF Owned(b) = {}
           THEN freed = {} /\ UNCHANGED groupVars
           ELSE /\ freed \subseteq DOMAIN old \ needed
                /\ group_key' = [l \in Layer |->
                        IF l \in Owned(b) THEN key ELSE group_key[l]]
                /\ \E impl0 \in Owned(b) : bound' = [bound EXCEPT ![impl0] = tensor]
                /\ block_to_slot' = With(EnsuredSlots(key), key,
                        [n \in kept \cup needed |-> IF n \in kept THEN old[n] ELSE inits])
                /\ mirrors' = With(mirrors, key, tensor)
                /\ content' = With(content, tensor,
                        (EnsuredContent(key, Hint(needed)) \ (freed \cap range))
                            \cup ((needed \ DOMAIN old) \cap range))
                /\ UNCHANGED kv_cache_ref
        /\ UNCHANGED <<inits, registryVars, captured, step, used>>

AllBuilt(side) == \A b \in made : b.side = side => b \in built

EndStep ==
    /\ step' = "idle" /\ built' = {}
    /\ UNCHANGED <<inits, registryVars>>

\* forward caches the reference that build() quantises into.
RefsForgotten(run) == kv_cache_ref
CachedRefs(run) == [l \in Layer |-> IF l \in run THEN inits ELSE kv_cache_ref[l]]

\* An eager pass: each layer ensures the mirror for the whole cache, binds it,
\* caches the cache reference, and stores and reads through the mirror.
Forward(side) ==
    LET run       == Executed(side)
        keys      == {group_key[l] : l \in run}
        tensor(k) == EnsuredTensor(k, NumBlocks)
    IN  /\ step = side /\ AllBuilt(side)
        /\ block_to_slot' = [k \in DOMAIN block_to_slot \cup keys |->
                IF k \in keys THEN EnsuredSlots(k)[k] ELSE block_to_slot[k]]
        /\ mirrors' = [k \in DOMAIN mirrors \cup keys |->
                IF k \in keys THEN tensor(k) ELSE mirrors[k]]
        /\ content' = [t \in DOMAIN content \cup {tensor(k) : k \in keys} |->
                IF \E k \in keys : tensor(k) = t
                THEN EnsuredContent(CHOOSE k \in keys : tensor(k) = t, NumBlocks)
                ELSE content[t]]
        /\ bound' = [l \in Layer |-> IF l \in run THEN tensor(group_key[l]) ELSE bound[l]]
        /\ kv_cache_ref' = CachedRefs(run)
        /\ used' = [l \in run |-> tensor(group_key[l])]
        /\ EndStep
        /\ UNCHANGED <<group_key, captured>>

\* The runner captures the side's graph after an eager warm-up pass.  While a
\* stream is capturing _ensure_pool returns at once, and the graph keeps the
\* tensor each layer has bound.
Capture(side) ==
    LET run == Executed(side) IN
    /\ step = side /\ AllBuilt(side)
    /\ \A l \in run : kv_cache_ref[l] = inits
    /\ captured' = [l \in DOMAIN captured \cup run |->
                        IF l \in run THEN bound[l] ELSE captured[l]]
    /\ used' = [l \in run |-> bound[l]]
    /\ EndStep
    /\ UNCHANGED groupVars

\* A replay runs no Python: only the captured tensors are read.
Replay(side) ==
    LET run == Executed(side) IN
    /\ step = side /\ AllBuilt(side)
    /\ run \subseteq DOMAIN captured
    /\ used' = [l \in run |-> captured[l]]
    /\ EndStep
    /\ UNCHANGED <<groupVars, captured>>

Side == {"target", "drafter"}

Next ==
    \/ ProfileRun
    \/ InitializeKvCache
    \/ \E b \in Expected : MakeBuilder(b)
    \/ \E side \in Side : BeginStep(side)
    \/ \E b \in made, needed \in (SUBSET Block) \ {{}}, freed \in SUBSET Block :
            Build(b, needed, freed)
    \/ \E side \in Side : Forward(side)
    \/ \E side \in Side : Capture(side)
    \/ \E side \in Side : Replay(side)

Spec == Init /\ [][Next]_vars

-----------------------------------------------------------------------------

OwnerTypeOK ==
    /\ inits \in 0 .. MaxInits
    /\ made \subseteq Expected
    /\ DOMAIN owner \subseteq Layer
    /\ \A l \in DOMAIN owner : owner[l] \in DOMAIN impl_by_name
    /\ group_key \in [Layer -> SUBSET Layer]
    /\ \A k \in DOMAIN block_to_slot :
            block_to_slot[k] \in [DOMAIN block_to_slot[k] -> 1 .. MaxInits]
    /\ \A k \in DOMAIN mirrors :
            /\ mirrors[k] \in DOMAIN content
            /\ mirrors[k].size \in LookupBound .. Greater(LookupBound, NumBlocks)
    /\ \A t \in DOMAIN content : content[t] \subseteq Block
    /\ kv_cache_ref \in [Layer -> 0 .. MaxInits]
    /\ step \in Side \cup {"idle"} /\ built \subseteq DOMAIN impl_by_name

(* While a cache serves, each layer is driven by exactly one of its builders, *)
(* the one whose build() runs before the layer's own forward pass: a drafter's *)
(* layer by the drafter's, although the target's builder lists it too and     *)
(* builders of an earlier cache are still in the registry.                    *)
OneDriver ==
    Serving => \A l \in Layer : \E b \in made :
        /\ b.side = (IF l \in DraftLayers THEN "drafter" ELSE "target")
        /\ {c \in made : l \in Owned(c)} = {b}

(* Every tensor a forward pass reads, eagerly or from a captured graph, gives *)
(* a slot to exactly the blocks that the layer's driver gave one: the pointer *)
(* is never that of an outgrown mirror or of another group, and no block is   *)
(* missing from it.                                                           *)
ReadsDriversSlots ==
    \A l \in DOMAIN used :
        content[used[l]] = DOMAIN block_to_slot[Key(owner[l])]

(* No slot survives its KV cache: once the builders of a new cache are made,  *)
(* every slot they hold belongs to a block of that cache, and no layer is     *)
(* flushed into an older one.                                                 *)
NoStaleSlots ==
    Serving => \A b \in made : Owned(b) # {} =>
        /\ Key(b) \in DOMAIN block_to_slot =>
                Range(block_to_slot[Key(b)]) \subseteq {inits}
        /\ \A l \in Owned(b) : kv_cache_ref[l] \in {0, inits}

(* A slot is only freed when every layer that has data in it can quantise it: *)
(* build() skips a layer without a cache reference and frees the slot anyway. *)
FreedSlotsHaveACache ==
    [][\A b \in built' \ built :
        (/\ Key(b) \in DOMAIN block_to_slot
         /\ ~(DOMAIN block_to_slot[Key(b)] \subseteq DOMAIN block_to_slot'[Key(b)]))
        => \A l \in Owned(b) : kv_cache_ref[l] = inits]_vars
=============================================================================
