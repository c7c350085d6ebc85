# A TLA+ model of HyperQwen's KV cache and matrix kernels

HyperQwen serves one Qwen model with vLLM on a consumer GPU. The repository holds no
server of its own: it is a set of patches to vLLM (`patches/`, `fp8/`, `gguf-plugin/`), an
attention backend that is added to it (`kvarn/`), launch scripts (`single-user/`, `batch/`,
`docker/`), and offline tools (`prepare/`, `drafter/`, `bench/`). This project specifies and
checks the parts of it that keep state across engine steps.

## The system

| part | state | operations | what makes it hard |
|---|---|---|---|
| KVarN pool allocator (`kvarn_attn.py`, `KVarNMetadataBuilder`) | block to slot map, free slots, sink labels, retired sinks, fill of each block | `build` before every forward pass, `build_for_drafting` for the drafter's passes | blocks shared by prefix caching, recycled ids, rejected drafts, a permanent int4 flush, a pool of fixed size |
| KVarN ownership (`_owner`, `_reset_group_state`) | which builder drives which layer | builder construction, once per KV-cache initialisation | builders are created again; state of an old cache must not survive |
| KVarN sizing (`config.py`, the platform hook in `kvarn-0.27.1.patch`) | `max_num_seqs` after the cap, the size of the pool | `pool_slots`, `max_supported_seqs`, `check_and_update_config`, `_ensure_pool` | the pool must be large enough for every batch and small enough for the memory budget |
| KVarN forward routing (`forward`, `triton_kvarn_decode.py`) | the plan in pinned memory and in device buffers, captured graphs | choice of prefill, decode, verify, mixed path and kernel; split-K | a mixed batch must not take a path that reads only one kind of row; the host runs ahead of the GPU |
| KVarN tiles (`config.py`, `kvarn_store.py`, `_batched_flush`) | the tail pool, one byte record per block, head and layer | scatter, flush in two implementations, reads by six kernels | the byte layout is written out by hand in every writer and reader, for two value widths |
| Sinkhorn scaling, rounding, softmax | none | | numerics, not modelled |
| GGUF matrix kernels (`gguf-plugin/gluon/`) | shared memory, asynchronous copies, partial sums, arrival counters | some thirty kernels for twelve block formats; merged layers in one launch | pipelines whose stages are refilled while they are read; sums over CTAs that arrive in any order |
| Stall sentinel (`engine-stall-sentinel.patch`) | time of the last step, warned flag | `step_done` in the engine loop, `_run` in a daemon thread | unlocked state shared by two threads |
| Mamba align block manager (`mamba-align-*.patch`) | held state snapshots, retirement frontier | remove, allocate, free | reference counts of blocks held beyond their use |
| GDN state recovery (`gdn-*.patch`, `sched-spec-full-width.patch`) | recurrent state per request | recovery after rejection; a scheduler guard that skips a row | state of a rejected draft must be undone |
| Lookup drafting (`dflash2-*.patch`) | n-gram tables, adaptive widths | propose, observe | stale tables, widths that change between steps |
| Speculative sampling, hybrid KV groups, offload, scratch budgets | various | see the patches | arithmetic at boundaries |
| Kernels, weight loading, installers, launchers, training, benchmarks | none across steps | | numerics or I/O; not modelled |

How they interact: the vLLM scheduler forms a batch and hands each request's block table to
the backend; `build` decides from that batch alone which blocks live in the fp16 pool, which
are quantised into the int4 cache and which are dropped; the forward pass scatters the new
tokens into the pool slots and reads every earlier token from the pool or from its int4 tile;
sampling then accepts a prefix of each row. Full blocks become prefix-cache entries that later
requests reuse without recomputing them.

What makes each part correct, in one line:

- *allocator*: a slot is free or held by exactly one block; a token that a later step reads
  is in its slot or in a valid int4 tile; nothing rejectable is ever quantised; nothing that
  a running request still needs is discarded; the pool does not run out.
- *ownership*: each layer is driven by exactly one builder, reads the slots that builder
  gave, and inherits nothing from an earlier KV cache.
- *routing*: every query token attends exactly its own keys, once, whatever path and kernel
  is chosen, and a kernel runs on the plan of its own step.
- *tiles*: each reader decodes each element from the bits and the scales written for it.
- *matrix kernels*: every weight is multiplied exactly once with the right activations, from
  a stage that holds it, and decoded from its own bits.
- *sizing*: no step the scheduler may form needs more slots than there are, and the pool fits
  its memory budget.
- *sentinel*: a stall is reported, a healthy engine is not, and a report silences no later stall.
- *Mamba align*: a block is freed exactly once and never while a later step reads it.
- *GDN recovery*: after a rejection the recurrent state is that of the accepted tokens.
- *lookup drafting*: a proposal is a suffix that did occur; widths stay in their range.

`PROJECT.json` lists every component, with the ones that are not modelled and why, and
every hazard found in the code with the line where it bites.

## Modules

```
KVarNPool        build(): the slot allocator of one group
   ^ EXTENDS
KVarNServing     engine steps over it, with tokens, tiles and       KVarNServing_proofs
   |             prefix cache; environment = vLLM's scheduler
   |  INSTANCE AttentionView   (what the cache promises)
MCKVarNServing   symmetry for TLC

KVarNOwner       builders, owner registry, mirrors, graphs          KVarNOwner_proofs
MCKVarNOwner     the groups and layers checked
KVarNSizing      pool size against what a step can need             KVarNSizing_proofs
StallSentinel    the watchdog thread against the engine loop        StallSentinel_proofs
KVarNAttention   from a step's rows to the keys each token attends  KVarNAttention_proofs
MCKVarNAttention the deployments and row shapes checked
KVarNTile        pool, flush, byte records and their readers        KVarNTile_proofs

GemmForms        tile layouts and the bits each decode takes
GemmSplit        split-K: how many splits, which k-blocks
   ^ EXTENDS (both)
GemmKernels      each kernel's stages and decode; merged layers     GemmLaunch_proofs
   ^ EXTENDS                                                           ^ EXTENDS
GemmTile         the pipelined k-loop and the split-K reduction     GemmTile_proofs
MCGemmTile       the calls model-checked
```

**KVarNPool** is `KVarNMetadataBuilder.build` without tensors. `block_to_slot` is
`_block_to_slot_dict[gk]`, `sinks` is `_global_sink_blocks[gk]`, `retired_sinks` and
`block_fill` are the builder's `_retired_sinks` and `_block_fill`, with `retired_before` the
insertion order that makes the eviction oldest-first; `free_slots` is the code's list as a
set, kept apart from the map so that `SlotPartition` can fail. `BuildMeta`, for a choice of `Evictions`, is one call of
`build`: mark the sinks, walk each row back over the completed blocks, collect the blocks no
row names, flush or discard them, retire full sinks instead of freeing them, and place the
missing blocks, evicting retired sinks when the free list is empty. The order of these is the
code's, and each is an operator of its own (`SinksMarked`, `FlushDetected`, `Discarded`,
`RetiredNow`, `Evictions`, `Quantised`, `Place`). `BuildExhausted` is the `RuntimeError`.

**KVarNServing** puts the allocator to work. `ExecuteModel` is one pass of the target: `build`,
the scatter of `do_kv_cache_update`, acceptance of a prefix of each row. `DraftPass` is
`build_for_drafting` with `draft_index >= 1` and the write of one draft token, which is always
rejectable. A token is a pair (conversation, position), so that two requests of one
conversation have the same content and may share blocks, and anything that must not be read
is `Junk`. `Admit`, `Schedule` and `Release` are vLLM's scheduler and block pool, external to
this repository: a request starts on any cached chain of full blocks, a step schedules any
query lengths and hands out any free blocks, and a request is released at any moment between
steps. A hit is on blocks that an earlier step cached; a hit on a
block that another row of the same step is about to fill is not modelled. `DeferRows` says whether a step may leave a running request out.

**AttentionView** is the abstract specification: no pool, tiles or blocks, only what a
request's attention reads at its committed positions. `AttentionReadsOwnTokens` is
`View!Spec` under the refinement mapping that reads every position through its block, from
the pool if the block has a slot and else from the tile, as the kernels do.

**KVarNOwner** abstracts which blocks a `build` allocates and keeps what KVarNPool takes for
granted: the class-level registry `_owner`, the reset of a group's allocator when a builder is
constructed, the GPU mirror and when it is replaced, the cached `_kv_cache_ref`, and the tensor
a captured CUDA graph keeps. A slot-holding block is tagged with the KV cache (the count
`inits`) it was allocated for. `MakeBuilder` is the constructor with `_reset_group_state`;
`Build`, `Forward`, `Capture` and `Replay` are one step of the target or of the drafter.

**KVarNSizing** is start-up (`CheckAndUpdateConfig`, `EnsurePool`) followed by steps composed row
by row (`AddRow`), each adding what `build` would count as needed for a row that shares nothing.

**StallSentinel** has one action per shared read or write of the two threads, because
`_last_done` and `_stall_logged` are unlocked: the left operand of the gap is read in
`ReadClock`, the right one in `ReadGap`. Time is relative to `_last_done` and saturates at the
threshold, so the state space is finite without a bound on time.

**KVarNAttention** takes up where KVarNServing's `ReadKV` stops: which keys are read for which
query token. A key is a cell (row, position); a kernel's result is the bag of cells it scores,
each with the split that scored it. `Build` writes the plan (`cu_seqlens`, the virtual rows
`VqPlan` of a verify batch, the split counts) into pinned memory and enqueues its copies;
`Forward` picks the path (`Route`, `DecodePortion`, `PrefillPortion`) and enqueues launches; the
GPU executes the stream later and in order, so the host may plan the next step meanwhile. A
launch says which rows it covers and whether it reads the plan or tensors made for the call.
A graph is captured with a batch shape and replayed on padded rows. `Deployments` are records of
the environment switches and sizes.

**KVarNTile** keeps the data that KVarNServing calls a tile. Bytes are symbolic: a byte holds codes
at their shifts or one half of an fp16 scale, and a code or scale names the tile, row and column
it was made for. `Layout` is `KVarNConfig`; `CatStart` and `WriteStart` are the offsets
of the two flush paths (`_batched_flush` concatenates, `_write_packed` assigns); `Store` is the
scatter kernel in every layer, `Flush` the whole of `_batched_flush` with its launches
(`Launch`, `SinkhornPackKV`) and the release of the slots. Readers differ in how they load a scale:
by byte (materialise, verify and slow paths) or as a 16-bit word (fused decode). `ReadK` and
`ReadV` are their address arithmetic.

**GemmForms** gives each of the twelve block formats its repacked tile as a sequence of source
bytes, the inverse used by the prefill, and for each decode the sequence of block bits
that makes each code, sign, scale and minimum. **GemmSplit** is the split tables and the two
partitions of the k-blocks. **GemmKernels** lists the kernels as records (format, words of a
stage, where shared memory puts stages, activations and grid table, decode) and the host side: the
packed buffer of a merged layer, the descriptors, the choice of kernel. **GemmTile** executes a
call: two warps per CTA copy, commit, wait, meet at barriers and read, in the order of
`_run`; an asynchronous copy lands at any moment between its issue and its wait; a CTA that has a
split stores its partial, fences and increments the tile's counter, and the last to arrive adds
up and resets it, each by warp and interleaved with the other CTAs.

## Runs

Deadlock is checked except in `shared`, whose pool is below the demand so that `build` raises and
takes the engine down, and in `tile`, which ends when the block ids have been handed out `Uses` times.

| run | checks | shows |
|---|---|---|
| solo | types, `NeverExhausted`, `SlotPartition`, `CachedReadable`, `AttentionReadsOwnTokens`, `ReclaimSparesRunning` | one request after another on four blocks and exactly the three slots one of them can need, with rejected verify rows and two further drafter passes: every recycling of a block id, no rejectable token is frozen, and no pass runs out of slots because `build` frees what it flushes before it allocates |
| shared | `SinkBookkeeping`, `ResidencyIsFree`, `CachedReadable`, `Int4IsFinal`, `LiveSinkResident`, `AttentionReadsOwnTokens` | two requests that share prefix blocks over a pool below their demand: eviction spares live sinks, is tried before `build` gives up, and leaves a tile that a later hit can read |
| deferred | `ReclaimSparesRunning` | violated, see the findings |
| builders | types, `OneDriver`, `ReadsDriversSlots`, `NoStaleSlots`, `FreedSlotsHaveACache` | two KV caches with a target's and a drafter's builder over shared layers |
| plain | types, `PoolSuffices`, `PoolFitsAFeasibleBudget` | every step with at most eight multi-token rows fits the pool, and the pool its budget |
| drafts | `PoolSuffices` | violated, see the findings |
| watch | types, `FlagSilencesOnlyItsEpisode`, `SteadyNeverAlarms`, `HangReportedUnlessOutrun` | every interleaving of the two threads: no false alarm from the race, and no hang missed but for one reason, a tick that a completed step outran |
| idle | `AlarmMeansHeld` | violated, see the findings |
| attend | types, `OutputsExact`, `PlanMatchesInputs` | ten deployments, every batch of up to three rows, eager or replayed, each followed by every next one while the GPU is behind: each token attends its own keys inside its window once, on the plan of its step; a prefill past its window that or its full history |
| materialised | `ScratchHoldsTheStep` | violated, see the findings |
| gemm | types, `StageHoldsKBlock`, `ProductIsWhole`, `LastSeesEveryPartial`, `CountersLeftZero`, `DecodesTheBlock`, `UnrepackInverts` | every matrix kernel, and the merged layers whose shards, splits, row blocks and shared-memory regions make the hard cases, in every landing order of the copies and every interleaving of the epilogues |
| tile | `TileTypeOK`, `ReadersSeeTheBlock` | two layers, heads and blocks at a square and a wide head dimension, both value widths, alignments and flush paths: what was stored is what each reader decodes |

Every property of a passing run has a mutant in `PROJECT.json`: a changed definition of the
code under which the property fails.

### Bounds, and why they are enough

- *KVarNServing*: blocks of one to three tokens, requests of at most seven, rows of at most two,
  four blocks. With three tokens per block, a block is partial at different fills, a row and the drafts beyond it
  cross a boundary at different places, a rejected draft shares a block with an accepted token, and a second draft
  can open a block behind one that holds the first; seven positions give a
  first block, a middle one that is flushed and a tail. `shared` uses one-token blocks because
  two requests already multiply the states: its question is who owns a full block, and
  partial blocks are the question of `solo`. Four blocks are few
  enough that ids are recycled while the cache still names them. `solo` has one slot fewer than blocks,
  exactly the `SlotsPerRequest` of its one request (the first block, the block it stands in, and the one that its two
  tokens and the drafts beyond them may open), and contexts that cross the second boundary:
  the step that does so needs the slot of the block it flushes. Slots, blocks and requests are interchangeable
  and reduced by symmetry; no run with symmetry checks liveness.
- *KVarNOwner*: two KV caches, the profiling one and the real one, are all vLLM makes, and a
  third would meet the same leftovers as the second. One group of two target layers and one
  drafter's layer gives a builder more than one layer and a layer more than one builder. A
  group with no layer in common with another builder meets no one: its key is the set of
  its layers. Two blocks and a mirror floor of one let a build outgrow its mirror.
- *KVarNSizing*: block size 16 (128 in the code), commitments next to the block boundaries, 12
  requests, more than the headroom of 8. `EnvSlots` 20 is below the floor of 64 that
  `_ensure_pool` applies to `KVARN_POOL_SLOTS`; a pinned pool is the operator's
  responsibility and `PoolSuffices` excludes it.
- *StallSentinel*: a threshold of three ticks against an interval of two, so that the
  sentinel's period and the threshold do not line up; two requests. `outrun`, `reported` and `stray` only
  record the episode for the properties: whether a step completed since the sentinel's gap was read, whether a gap of
  this episode was logged, and whether the flag was raised for a gap that a step had outrun.
- *KVarNAttention*: blocks of two tokens, six positions, batches of at most three rows from four
  shapes: a decode row, a verify row whose history ends in the middle of a block, a first chunk, and
  a long row that crosses blocks. A window of three begins in the middle of a block. The thresholds that choose a path (blocks for split-K and for
  fused verify, rows of the scratch) are scaled so that both sides occur; the deployments
  differ in each switch `forward` reads. Two steps in flight are all the staging buffers can
  confuse, because `build` waits for the copies of the step before.
- *KVarNTile*: group 4 and head dimensions 4 and 8 make one square tile (K and V in one launch)
  and one that is not; 4 is the least multiple of the four 2-bit codes of a byte. Launches of
  two blocks and of three (layer, block) pairs cut a flush of two blocks in two layers in the
  middle. `WideHead` is 8 so that the power-of-two slot is used. Three uses of two block ids
  recycle one.
- *GemmTile*: k-loops of two to five blocks: the prologue, the steady state and the tail of a
  two- and of a three-stage pipeline. Rows, columns and blocks of a tile have their sizes in the
  code (64 columns in two halves, 8 to 200 rows in blocks of 16 or 32), block formats their bytes. Two
  arrival counters are what the widest reduced call of the run needs. Two
  warps stand for four: a barrier or a copy distributed over more warps has no further case. Two
  launches in a row show what a launch leaves to the next.

### Fairness

Only `HangReportedUnlessOutrun` is a liveness property. It assumes weak fairness of `Tick` (time passes)
and of the sentinel's thread (the operating system schedules a runnable daemon thread, and
`Event.wait` returns after its timeout). Nothing is assumed of the engine thread, whose stall is
what the sentinel is for. The other modules claim safety only, and state no fairness:
`ProductIsWhole` and `OutputsExact` speak of finished calls, and `build` is
a sequential function between two forward passes, and whether a request is ever scheduled is
decided in vLLM.

## What is proved

All proofs are checked by TLAPS, for every value of the constants that satisfies the named
assumptions of the modules: positive sizes, finite sets of slots, blocks, layers and configurations,
groups that partition the layers. Two are not sizes: `CallsAssumption` says which calls the
plugin makes, `CountersAssumption` that the counter array is not empty. TLC evaluates every assumption
in the runs. A further hypothesis stands in the theorem that needs it.

**Allocator** (`KVarNServing_proofs`). `BuildPreservesPool` shows that a call
of `build`, for any batch and any choice of evictions, preserves `PoolInv`: types,
`SlotPartition`, `LabelsResident` (labels only on slot-holding blocks) and `RetiredComplete`
(every retired sink is full). The last is needed because an evicted sink leaves the pool by
quantisation. `TypedInv` adds the engine's types and that a batch fits its block tables;
`TypesHold` and `SlotsPartitioned` follow.

**Sharing** (`SinksBooked`, `QuantisingIsFinal`). `build` never quantises a block and writes it in
the same step only if rows that share a block agree on it. That is the discipline `Sharing`:
a block stands at one index in all tables (`OneColumn`), shared blocks lie below every owner's
committed length (`SharedAreFull`), keyed blocks are full (`KeysAreFull`), a batch has blocks for
its rows (`BatchHasBlocks`). `ServingInv` is `TypedInv /\ Sharing /\ SinkBookkeeping` and is
inductive. From it, a block written in a step has no cache key, so a keyed block without
a slot is never given one: `QuantisingIsFinal` is the property `Int4IsFinal`.

**Exhaustion** (`ResidencyCostsNothing`, `PoolNeverExhausted`). Both count slots when `build` gives
up. `FailedBuildInv`: every retired sink that the step does not need has been evicted then, so what is
still held is needed. It rests on `OrderInv` (the ages of retired sinks are a strict order, so
a finite set of them has an oldest one to evict). Keeping sinks resident therefore never fails a batch of the target
(`ResidencyIsFree`), for `DraftPasses = 0`: the drafter's passes flush nothing, so what an earlier
pass of the step took stays beside what the last one needs. `StepInReach` bounds all passes of a step
together: a request's slots are its first block and those from where it stood up to its last draft, at
most `SlotsPerRequest`. A pool of that many slots per request never runs out, for every
batch, prefix sharing and rejection. KVarNSizing asks the same of the pool the code allocates, and the run
`drafts` shows that two slots per request and a reserve of eight may be too few.

**Reclaim** (`ReclaimSafe`, same module). It says that reclaim spares running requests when
`DeferRows = FALSE` and the batch is all of them. A block no row names is discarded only if
partial; `FillInv` (`TablesCover`, `FullAreFilled`, `KeyedAreFilled`) says the recorded fill of each
full block of a running request or of the cache that is in the pool is the whole block,
so what is discarded is the partial block of nobody. The run `deferred` shows that the
hypothesis is needed, here and in the next paragraph: a deferred row's partial block is discarded.

**Data** (`ReadsAlwaysRight`, `CacheReadable`, `PoolImplementsView`, `SinksStay`). `ReadInv` says what the
slots and tiles hold: each committed position of each request reads as its own token
(`CommittedReadable`), likewise each position of a cached block (`CachedReadable`). To survive a step it needs
`OpenResident` (a block that a running request has filled in part has a slot and is not retired: there
is no other copy), `BatchServesAll` (from its scheduling to its last pass a batch names every running request),
`RoomForDrafts` (a drafter's write stays inside its own table), and `ServingInv` and `FillInv`:
a block moves from its slot to its tile only when full, so every offset of the tile is a committed token,
and a step writes only blocks that one request owns, at positions nobody has committed. `PoolImplementsView` is the
refinement: under the mapping of `AttentionReadsOwnTokens` each acceptance of tokens is a step of
AttentionView, and scheduling, flushes, evictions and the drafter's passes are stutters.
`SinksStay` says the first block of a running request keeps its slot while the request runs.

**Ownership** (`KVarNOwner_proofs`). `OwnerInv` relates the registry to the builders alive and dead:
an owner lists the layer it owns and gave it its key (`RegistryInv`), builds and passes happen while
a cache serves (`StepInv`), a key's mirror has exactly its slot-holding blocks (`MirrorInv`), a layer that
has run in this cache is bound to a mirror as large as the cache (`BoundInv`), and slots of a
live builder are of its cache (`SlotsInv`). `MirrorInv` and `BoundInv` together are why a captured graph
stays right: a mirror is replaced only by a larger one, and a bound one is never outgrown.
From them follow the types, `OneDriver`, `ReadsDriversSlots`, `NoStaleSlots` and the action
property `FreedSlotsHaveACache`, for any groups, any drafter's layers and any number of KV caches.

**Sizing** (`KVarNSizing_proofs`). `StepDemand` bounds the demand of the rows so far by two slots
per row, one more per long row, and the blocks its tokens fill, from the lemma
`RowSlotsBound` about one row. With `LongRows <= Headroom`, `pool_slots` covers it:
`PoolSufficesForFewLongRows`. `FeasibleBudgetKept` inverts the rounded division of
`max_supported_seqs`; without its premise the floor of one request may exceed any budget.

**Sentinel** (`StallSentinel_proofs`). `FlagSilencesOneEpisode`: whenever the flag is up, the episode's own gap has been
logged or is about to be, or `step_done` is about to lower it, or a step outran the tick that raised it.
The last case is real: it is the missed hang described under Findings. `SteadyHolds` goes through
`GapsAreSilences`: at every point of the sentinel's pass, a gap of the threshold means there
was a silence of the threshold when its clock was read.

**Routing** (`KVarNAttention_proofs`). `PlanIsOfTheStep` follows from `SyncInv`, which relates the three
places a plan can be: what is staged, what the copies still in the stream will write, and the
device buffers a launch behind them reads. It needs only that `build` waits for the copies of the
step before. `SplitDecodeExact` is about the kernel alone: for any context, window and number of
splits, the scored positions are the window's, each tagged with one split. `AttentionTypes` adds `HostInv`: a
batch is rows of the allowed shapes, padded to the graph's size if one is replayed (`Formed`).

`ExactOutputs` is the module's main theorem, `OutputsExact` for every batch and route. `StepInv` is
`SyncInv /\ HostInv /\ OutInv`, where `OutInv` says: either a step's kernels are not in the stream
yet, or what is left in the stream is the last launches of the step (`Running`), the device's rows are the
host's, and each token with an output has exactly the cells it wants. Below it are three groups of lemmas:

- the prefix sums of `query_start_loc`, which place a token in one row. `CumSum` is a recursive
  function, so the facts about it come from the least number that would contradict them;
- each kernel on its rows: split-K decode (`SplitDecodeExact`), the verify kernels with their
  request and length plan, the shared-tile kernel, flash attention over packed or fresh keys, the materialised
  path. Each gives the tokens of its rows the cells they want and no other token any. What a token wants (`Wanted`) is
  fixed by its row and the deployment's window, whatever kernel serves it; kernels that apply the window
  meet it (`Windowed`), the others where there is none or the row may have its full history (`Unwindowed`);
- the launches of a step: for each route of `forward` they follow each other over the rows without
  gap or overlap (`Launches`), so what one launch wrote no later one touches, and after the last
  every token has its output (`StepsExecuted`).

It has one hypothesis, `Exactness` of every deployment, in three parts. A deployment with speculative rows
that are not causal has the fused verify kernel: without it the causal staircase is built for them, as listed
under Findings, and no launcher starts one. Where `KVARN_FUSED_DECODE=0` packs all keys of a decode
batch, the scratch holds the largest batch; without that, keys are lost, which is the finding `materialised`.
And that path has no sliding window, which it would ignore. All deployments of run `attend` satisfy all three.
One case is weaker than the window: a row too long for a decode that reaches past the window of its layer is allowed
either its window or its full history (`Accepted`), because the packed and the first-chunk path score the latter,
as described under Findings. Other requests' keys, later keys and double scoring are excluded there too.

**Launches** (`GemmLaunch_proofs`). `BalancedSplitsCover` and `BalancedSplitsDisjoint` say the
descriptors of a grouped launch deal every k-block to one split and no split is empty, which is why
every partial slice is written; `CeilSplitsPartition` says the same of the standalone kernels
except that a split may be empty. All three come down to bounds of a quotient. `LaunchesReach` goes through the
ops' own loops for any call: which kernel each path chooses for a shard, the descriptors, the row blocks of 16
or 32, the splits. Each CTA takes a range of k-blocks of one tile of one shard, at that tile's weights and
columns (`OnTile`); the splits of a tile are the parts of one partition of the k-blocks (`OnSplit`); a reducing launch has
one CTA for each tile and split and a counter for each tile (`Grid`); and every tile of every shard
is reached for all of its rows. The concatenations and column bases are sums over sequences, handled as
`CumSum` is.

**Repack** (`RepackInverted`, `UnrepackAlways` in the same module). For each of the eleven repacked formats and each of
the 64 rows of a tile, what the prefill reads as a byte of the block is what the loader put there: the
tile maps hold every byte of the block (`TilesHold`, `MapHolds`), and stage, row and byte are the digits of a tile
address (`TileDigits`). The run samples three rows.

**Reduction** (`GemmTile_proofs`). `LastSeesAll` and
`CountersReset` hold for every interleaving of CTAs, warps and stores that become visible late:
a counter is the number of CTAs of its tile that have arrived until the last one resets
it (`TicketsCounted`), both warps of a CTA arrive together behind its barrier (`ArriveTogether`), a
warp past its fence has its partial in its slot (`PartialsInPlace`), and slots of different
splits, rows and column halves are apart. So the CTA that counts `splits - 1` arrivals before its own is
alone and finds every partial. `PipelineTypes` bounds the copies in flight by the pipeline's depth (`LoopInv`: a
warp has committed one group per stage while it waits and one fewer elsewhere).

**Pipeline** (`StagesHold` in the same module). `StageHoldsKBlock` for every call, layer and landing order. Its
first half is static. `Layout` says that a kernel's stages, activation buffers and grid table do not overlap
and end inside its region; it is shown family by family, the standalone kernels from their
records and the grouped kernel for each choice of `REGIONS` (`KernelLayout`), and `StagesApart` concludes that no
write to one part reaches another. A stage's weights are a chunk of the CTA's own tile because a
tile starts where the packed buffer puts it (`PackedBase`). The second half is the invariant
`StagesInv`. The groups a warp has in flight are those of the next stages in order (`InOrder`); a copy of a
coming stage has landed or is in its group (`Landed`); activations stay for the second half of
their k-block (`KeptActs`); no two warps are more than a barrier apart (`Together`), which is why a
refill never reaches a stage that another warp still decodes. Waiting until the older groups are
empty is then what makes the stage whole.

**Product** (`ProductAlways` in the same module). `ProductIsWhole` for every call, schedule and landing order, the
theorem that the others of the matrix kernels serve. Four invariants follow a weight from its
stage to the output:

- `AccInv`: a warp's accumulator is the sequence of the stages it has decoded, each against its own activations and
  k-block's scale. By `StagesHold` the stage it reads is the right one; `ScalesReady` is what the scale registers
  hold meanwhile, for the kernels that load them a k-block ahead too.
- `SumsInv`: what a CTA brings to its epilogue is the whole of its range of k-blocks.
- `SlicesStored`: a warp that is done has put its split's part of each of its cells in its slice. A launch that
  does not reduce is added up by the launcher when it ends.
- `OutInv`: a cell of the output is whole, or a CTA of this launch or a launch to come still stores to it. A cell
  is stored by the one launch that has its rows, and of that by the CTAs of its tile, of which only the last to
  arrive writes (`LastSeesEveryPartial`).

The parts join because the splits of a tile cut its k-blocks in order (`PartsMakeWhole`), and a
call that has returned has nothing left to come, so each cell is whole: as many chunks as its tile has,
each of them once (`ChunksCounted`).

**Tiles** (`KVarNTile_proofs`). For every group and head dimension that are multiples of four and both
widths: the two flush paths use one layout (`FlushPathsAgree`), its fields follow each other without
gap or overlap inside a whole number of per-token slots (`RecordFillsItsSlots`), and the address of a
code stays in its field and belongs to that code alone (`CodesStayInTheirField`). `TileTypes` lifts
this to the specification, with `LayoutOK` and `SlotsOK` as the invariant. That the rounding of
`KVARN_POW2_SLOT` finds a power of two between n and 2n follows from counting subsets (a set of k
elements has 2^k) and a least element. `ReadersAlways` is the run's `ReadersSeeTheBlock` without a
hypothesis. `TileInv` adds what is stored: a slot holds the rows of its block in every layer
(`PoolHolds`), and a full block without a slot has the record of its own tiles (`TilesHold`). The
latter survives a flush because a launch packs each (layer, block) pair once from the block's own
slot (`PackedFromSlot`), before the slot is released; and a record gives back what was packed because each
byte lies in one field (`ByteOfField`), each code in its bits of one byte (`CodeReadBack`),
and each scale in two bytes that start at an even offset, as the 16-bit loads need (`ScaleReadBack`).

Only model-checked: `DecodesTheBlock`, which no constant enters (a comparison of the decoders of some thirty kernels with their
reference, complete in the run: every kernel, cell and bit; the reference is the repository's
per-weight definition for IQ3_S, Q8_0, Q3_K, Q5_K and Q6_K, and for the other types their bf16 kernel on aligned rows, which
is thus the standard and not itself tested), and `HangReportedUnlessOutrun`. Liveness under fairness and `ENABLED`
are outside the prover's reach. So is the library's induction over data; what a recursive function of a
number computes is proved here through the least counterexample (`LeastNat`). These two and the
properties the finding runs refute apart, every property of a run is a theorem.

## Findings

- **deferred**: `build` takes every slot-holding block that no row of the batch names for a
  finished request's. A scheduler that leaves out a running request for one step, as
  `sched-spec-full-width.patch` may, makes it discard that request's partial tail block.
- **drafts**: twelve speculative rows crossing a block boundary in one step need three slots
  each, against two per request and eight in reserve.
- **idle**: the sentinel's gap runs while the engine has no request, so the first request after
  an idle stretch of the threshold is reported as a stall.
- **materialised**: with `KVARN_FUSED_DECODE=0` a decode batch's keys are packed into `_fa_K_buf`
  without comparing their number with its rows. `fa_scratch_rows` caps the buffer below the sum
  that the comment at its allocation promises, and only the prefill path checks.

Met and not runs of their own, each a difference between code and comment. The first two are named in properties
that pass, as the one exception to what the comment promises:

- *A missed hang.* The sentinel tests the flag and raises it in different statements. When a long step completes in
  between, `step_done` lowers the flag first and the sentinel raises it after, for the gap of the step that has
  just ended. If the next step hangs, the flag is up and the hang is never logged, although the class
  "logs one warning line per stall episode" (`engine-stall-sentinel.patch:77-79`). `watch` shows that this is
  the only way to miss a hang (`stray` in `HangReportedUnlessOutrun`; without that disjunct TLC finds the trace). The
  tick also logs the gap of an episode that has just ended, possibly a second time.
- *An ignored window.* `_flash_varlen` passes no window, so with `KVARN_QUANT_SLIDING=1` a prefill row of a
  sliding-window layer attends its full history on the packed and the first-chunk path, which the comment at
  `kvarn_attn.py:1192-1195` calls "wrong output past the window". The switch is off by default and marked
  experimental, and `kvarn-0.27.1.patch:113-117` keeps such layers out of KVarN for this reason. The slow path
  and the materialise path of `KVARN_FUSED_DECODE=0` ignore the window too. `OutputsExact` allows it in such a
  prefill row and nowhere else; `Exactness` leaves the materialise path with a window out of the proof.
- A first block released while partial and handed out again before the next build keeps its sink
  label and is later put among the retired sinks while its new owner runs, although
  `kvarn_attn.py:488` calls retired sinks "finished requests' sink blocks". Nothing wrong is
  read from it in `shared`.
- `_fused_verify_path` and `_decode_path_slow` build the causal staircase for whatever rows reach
  them, although the comment at `kvarn_attn.py:405-408` leaves non-causal rows to the plan. No
  launcher starts a deployment in which such rows reach them.
- Plan buffers are allocated anew beyond 256 rows, although `kvarn_attn.py:929-931` says they must
  live at one address for captured graphs.
- `triton_kvarn_decode.py:938-946` says that serving with `KVARN_SHARED_VERIFY` "corrupts the MTP drafter's
  proposals" through a mechanism not isolated, and suspects async scheduling or the drafter's metadata rather than the
  kernel. The switch is off by default. What is shown here of the deployments with it is that each token scores its own
  keys on the plan of its own step, with the host ahead of the GPU. That agrees with the comment's suspicion; it neither
  explains the corruption nor excludes it, and says nothing of proposals, sampling or numerics.
- The comment at `triton_kvarn_decode.py:984-989` calls the automatic split of a long verify batch
  "correctness-required", since the one-stage kernel "can return finite but incorrect logits"; a layer with a sliding
  window takes the one-stage kernel at every length. Both kernels score the same keys; a wrong logit of a
  right key is numerics, which no model here has.
- `split_k_for` promises "at least 4 k-blocks per split" (`splitk.py:42-44`), but the rounded-up
  partition leaves the last split empty for some shapes (29 or 30 k-blocks over 7 splits, 33 to 35
  over 8). An empty split stores zeros, so the sum is right; no shape of the recipes is one of them.
- The line that keeps shared memory alive in the grouped kernel (`tiles_grouped.py:1080-1090`) masks an
  output column when a weight word equals `0x7FFFFFFF`. The model, which has no word values, does not
  contain it.
- The raw kernels mask a copied word by the end of the storage; a storage of 2 modulo 4 bytes would
  lose the last block's last two bytes.
- `get_kv_cache_shape` speaks of "a single 17920-byte record": one preset and head dimension only.

Also: `max_supported_seqs` answers at least 1, so a budget below the pool of one
request is exceeded, although `_ensure_pool` calls the pool "OOM-safe (it is <= the budget)";
`PoolFitsAFeasibleBudget` states what does hold. `KVarNConfig.pool_bytes` and
`_StallSentinel.stop` have no caller, nor has `_flush_tail`. The comment at the builder's `_group_key` says it must equal
the attention layer's (head size, heads, window) key; the code uses the layer names instead,
and re-tags the layers.

## Not modelled, and why

- Sinkhorn scaling, rounding, the rotation, softmax, dot products, grid tables: floating-point
  numerics. The models keep which keys, bits and scales enter them.
- In KVarNAttention: heads beyond their number, the profile run, kernel warm-up, the fp16 route that a
  layer without KVarN takes.
- In KVarNTile: a flush is one step in all layers (`build` runs to its end before any pass) and so is
  a store (a layer's readers run after its own store). A rejected draft's row that is overwritten
  later is KVarNServing's subject. The record is symbolic, so a wrong rounding is invisible.
- In the matrix kernels: CTAs share nothing before their epilogue, so their k-loops run one after
  the other; the activation quantiser and the sum kernel's arithmetic are left out; the
  mixture-of-experts and CPU paths are not in `gluon/`.
- The sink mirror, several devices.
- The bytes of a freed slot in KVarNServing: they belong to nobody and become `Junk` at once, which can
  only make a property about reads fail earlier.
- Mamba align, GDN recovery, lookup drafting, hybrid groups, offload: patches against vLLM files that
  this repository does not hold; what surrounds a hunk has to be modelled as external. Planned.
- Launchers, installers, conversion and training scripts: run once, no protocol.
- vLLM itself, except as the environment described above.

## Plan

Done, in this order: KVarNPool, KVarNServing with AttentionView, StallSentinel, KVarNSizing, KVarNOwner,
then KVarNAttention, the Gemm modules and KVarNTile, which together read the code that runs at
every step on the GPU.

Next modules, each of which would take the place of a narrower run:

1. **MambaAlign** (`mamba-align-*.patch`): held snapshots, the retirement frontier and its null
   gaps. Abstract specification: a snapshot is live from its allocation to its last reader.
2. **GDNRecovery** (`gdn-*.patch`, `sched-spec-full-width.patch`): the recovery buffer, and the
   guard that skips a row for a step, composed with KVarNServing's `DeferRows`. Abstract
   specification: the state is the fold of the accepted tokens.
3. **LookupDrafting** (`dflash2-*.patch`): tables, adaptive width; proposals against a reference
   search over bounded histories.
4. **HybridGroups** and **Offload**: page sizes across groups, promotion of sliding-window blocks;
   stores and loads of blocks racing their release.
