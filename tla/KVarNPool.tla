------------------------------ MODULE KVarNPool ------------------------------
(***************************************************************************)
(* The slot allocator of the KVarN attention backend:                      *)
(* KVarNMetadataBuilder.build in kvarn_attn.py.                            *)
(*                                                                         *)
(* A KV block (one tile of Group tokens) lives either in the fp16 tail     *)
(* pool, when it holds a pool slot, or in the int4 cache, when it does     *)
(* not.  Before every forward pass build() decides, from the rows of the   *)
(* batch alone, which blocks need a slot, which slot-holding blocks are    *)
(* quantised into int4 (flushed), which are thrown away, and which first   *)
(* blocks of finished requests stay resident (retired sinks).              *)
(*                                                                         *)
(* A row of the batch is [table, committed, seq_len]: the request's block  *)
(* table, the tokens written before this step, and the tokens there will   *)
(* be after it.  Column k of the code is table[k + 1].                     *)
(***************************************************************************)
EXTENDS Integers, FiniteSets, Sequences, Functions

CONSTANTS
    Block,      \* physical KV block ids
    Slot,       \* slots of the fp16 tail pool
    Group       \* tokens per block (GROUP in the code)

ASSUME GroupAssumption == Group \in Nat \ {0}
ASSUME BlockAssumption == IsFiniteSet(Block)
ASSUME SlotAssumption == IsFiniteSet(Slot)

VARIABLES
    block_to_slot,  \* _block_to_slot_dict: slot-holding blocks -> slots
    free_slots,     \* _free_slots, as a set: free slots are interchangeable
    sinks,          \* _global_sink_blocks: blocks labelled fp16 sinks
    retired_sinks,  \* _retired_sinks: sinks of finished requests kept in fp16
    retired_before, \* the insertion order of _retired_sinks, as pairs
    block_fill,     \* _block_fill: tokens a slot-holding block has after the step
    engine          \* "up", or "failed" once build() raised

poolVars == <<block_to_slot, free_slots, sinks, retired_sinks,
              retired_before, block_fill, engine>>

Row == [table : Seq(Block), committed : Nat, seq_len : Nat]

PoolInit ==
    /\ block_to_slot = <<>>
    /\ free_slots = Slot
    /\ sinks = {}
    /\ retired_sinks = {}
    /\ retired_before = {}
    /\ block_fill = <<>>
    /\ engine = "up"

Lesser(a, b) == IF a < b THEN a ELSE b

Held == DOMAIN block_to_slot

-----------------------------------------------------------------------------
(* What this step writes, and what it therefore needs in the pool.         *)

Col(row, k) == row.table[k + 1]

LastCol(row) == Len(row.table) - 1

WrittenColsPastTail(row) ==
    {k \in 0 .. LastCol(row) :
        row.committed <= k * Group /\ k * Group < row.seq_len}
WrittenCols(row) ==
    {k \in 0 .. LastCol(row) :
        row.committed \div Group <= k /\ k * Group < row.seq_len}

Written(rows) == UNION {{Col(row, k) : k \in WrittenCols(row)} : row \in rows}

\* Tokens block k of the row holds once the step's tokens are written.
FillOfUncapped(row, k) == row.seq_len - k * Group
FillOf(row, k) == Lesser(row.seq_len, (k + 1) * Group) - k * Group

\* A partial block has one writer, so the value has one source.
FillAfter(rows) ==
    LET written == Written(rows)
    IN  [b \in DOMAIN block_fill \cup written |->
            IF b \in written
            THEN CHOOSE f \in UNION {{FillOf(row, k) : k \in
                        {i \in WrittenCols(row) : Col(row, i) = b}} : row \in rows} : TRUE
            ELSE block_fill[b]]

FirstBlocks(rows) == {Col(row, 0) : row \in {r \in rows : r.table # <<>>}}

\* The written blocks, and the first blocks that are sinks already.  A first
\* block that is neither was flushed: its data is in int4 and it gets no slot.
NeededRemarkingFirstBlocks(rows) == Written(rows) \cup FirstBlocks(rows)
NeededForgettingSinks(rows) == Written(rows)
Needed(rows) == Written(rows) \cup (FirstBlocks(rows) \cap sinks)

-----------------------------------------------------------------------------
(* (1) Sink labels.  A first block written this step becomes a sink; a     *)
(* retired block named this step is live again, and loses the label when   *)
(* it is no row's first block.                                             *)

Readopted(rows) == retired_sinks \cap Needed(rows)

SinksMarkedUnwritten(rows) ==
    (sinks \cup FirstBlocks(rows)) \ (Readopted(rows) \ FirstBlocks(rows))
SinksMarked(rows) ==
    (sinks \cup (FirstBlocks(rows) \cap Written(rows)))
        \ (Readopted(rows) \ FirstBlocks(rows))

-----------------------------------------------------------------------------
(* (2) Flush detection.  Each row is walked backward from its committed    *)
(* boundary while blocks hold slots and are no sinks; column 0 is never    *)
(* touched.  The code also stops at a block another row has queued: rows   *)
(* that share a block share every earlier column, so that walk has already *)
(* queued the rest.                                                        *)

FlushTopUncommitted(row) == Lesser(row.seq_len \div Group - 1, LastCol(row))
FlushTop(row) == Lesser(row.committed \div Group - 1, LastCol(row))

WalkedBack(row, rows) ==
    LET walked == Held \ SinksMarked(rows)
    IN  {Col(row, k) : k \in
            {i \in 1 .. FlushTop(row) :
                \A j \in i .. FlushTop(row) : Col(row, j) \in walked}}

FlushDetected(rows) == UNION {WalkedBack(row, rows) : row \in rows}

-----------------------------------------------------------------------------
(* (2b) Reclaim of the slot-holding blocks nobody named this step: a       *)
(* complete sink is retired, any other complete block is flushed, a        *)
(* partial one is discarded.  With allow_flush FALSE (the drafter's later  *)
(* passes) neither (2) nor (2b) happens.                                   *)

Idle(rows) == Held \ (Needed(rows) \cup FlushDetected(rows))

CompleteOverfull(b) == b \in DOMAIN block_fill /\ block_fill[b] > Group
Complete(b) == b \in DOMAIN block_fill /\ block_fill[b] >= Group

Retiring(rows, allow_flush) ==
    {b \in Idle(rows) \cap SinksMarked(rows) : allow_flush /\ Complete(b)}

Flushed(rows, allow_flush) ==
    IF allow_flush
    THEN FlushDetected(rows)
            \cup {b \in Idle(rows) \ SinksMarked(rows) : Complete(b)}
    ELSE {}

Discarded(rows, allow_flush) ==
    {b \in Idle(rows) : allow_flush /\ ~Complete(b)}

Dropped(rows, allow_flush) ==
    Flushed(rows, allow_flush) \cup Discarded(rows, allow_flush)

Kept(rows, allow_flush) == Held \ Dropped(rows, allow_flush)

RetiredNow(rows, allow_flush) ==
    (retired_sinks \ Readopted(rows)) \cup Retiring(rows, allow_flush)

\* Re-inserting a key of a dict keeps its place; new keys go to the end.  The
\* order among blocks retired by one build is left open.
RetiredOrder(rows, allow_flush) ==
    LET stay == retired_sinks \ Readopted(rows)
        new  == Retiring(rows, allow_flush) \ stay
    IN  (retired_before \cap (stay \X stay)) \cup (stay \X new)

-----------------------------------------------------------------------------
(* (3) Allocation, after the flush so that it reuses the flushed slots.    *)
(* When the free list runs dry the oldest retired sinks are flushed and    *)
(* their slots taken; when there is none left either, build() raises.      *)

Missing(rows, allow_flush) == Needed(rows) \ Kept(rows, allow_flush)

AvailableLeakingDiscarded(rows, allow_flush) ==
    free_slots \cup {block_to_slot[b] : b \in Flushed(rows, allow_flush)}
Available(rows, allow_flush) ==
    free_slots \cup {block_to_slot[b] : b \in Dropped(rows, allow_flush)}

ShortfallBeforeFlush(rows, allow_flush) ==
    LET missing == Cardinality(Missing(rows, allow_flush))
        free    == Cardinality(free_slots)
    IN  IF missing > free THEN missing - free ELSE 0
Shortfall(rows, allow_flush) ==
    LET missing == Cardinality(Missing(rows, allow_flush))
        free    == Cardinality(Available(rows, allow_flush))
    IN  IF missing > free THEN missing - free ELSE 0

\* The sets of retired sinks an allocation may evict: as many as it lacks,
\* oldest first.
EvictionsNever(rows, allow_flush) ==
    IF Shortfall(rows, allow_flush) = 0 THEN {{}} ELSE {}
Evictions(rows, allow_flush) ==
    LET retired == RetiredNow(rows, allow_flush)
        order   == RetiredOrder(rows, allow_flush)
        lacking == Shortfall(rows, allow_flush)
    IN  {E \in SUBSET retired :
            /\ Cardinality(E) = lacking
            /\ \A e \in E, b \in retired \ E : <<b, e>> \notin order}

\* What goes through _batched_flush before its slot is given up.
QuantisedUnlessEvicted(rows, allow_flush, evicted) == Flushed(rows, allow_flush)
Quantised(rows, allow_flush, evicted) == Flushed(rows, allow_flush) \cup evicted

\* Which free slot a block gets does not matter to anything in the model.
Place(blocks, slots) == CHOOSE f \in Injection(blocks, slots) : TRUE

\* build() with `evicted' one of Evictions(rows, allow_flush).
BuildMeta(rows, allow_flush, evicted) ==
    LET missing == Missing(rows, allow_flush)
        slots   == Available(rows, allow_flush)
                        \cup {block_to_slot[b] : b \in evicted}
        placed  == Place(missing, slots)
        gone    == Dropped(rows, allow_flush) \cup evicted
        fill    == FillAfter(rows)
    IN  /\ engine = "up"
        /\ ExistsInjection(missing, slots)
        /\ block_to_slot' =
                [b \in (Held \ gone) \cup missing |->
                    IF b \in missing THEN placed[b] ELSE block_to_slot[b]]
        /\ free_slots' = slots \ Range(placed)
        /\ sinks' = SinksMarked(rows) \ gone
        /\ retired_sinks' = RetiredNow(rows, allow_flush) \ evicted
        /\ retired_before' =
                {p \in RetiredOrder(rows, allow_flush) : p[1] \notin evicted}
        /\ block_fill' = [b \in DOMAIN fill \ gone |-> fill[b]]
        /\ UNCHANGED engine

\* "KVarN pool exhausted": the exception leaves build() halfway and takes the
\* engine core down, so the half-updated allocator is never read again.
BuildExhausted(rows, allow_flush) ==
    /\ engine = "up"
    /\ Evictions(rows, allow_flush) = {}
    /\ engine' = "failed"
    /\ UNCHANGED <<block_to_slot, free_slots, sinks, retired_sinks,
                   retired_before, block_fill>>

-----------------------------------------------------------------------------

PoolTypeOK ==
    /\ block_to_slot \in [Held -> Slot]
    /\ Held \subseteq Block
    /\ free_slots \subseteq Slot
    /\ sinks \subseteq Block
    /\ retired_sinks \subseteq Block
    /\ retired_before \subseteq Block \X Block
    /\ block_fill \in [DOMAIN block_fill -> 0 .. Group]
    /\ engine \in {"up", "failed"}

(* Every pool slot is either free or holds the tokens of exactly one block:  *)
(* two blocks never share a slot, and no slot leaks.  Build moves slots      *)
(* between dict_map and free_slots in four places (flush, discard, evict,    *)
(* allocate).                                                                *)
SlotPartition ==
    /\ \A a, b \in Held : block_to_slot[a] = block_to_slot[b] => a = b
    /\ \A b \in Held : block_to_slot[b] \notin free_slots
    /\ \A s \in Slot : s \in free_slots \/ \E b \in Held : block_to_slot[b] = s

(* A sink's only copy is its fp16 slot, so every labelled block, and every   *)
(* retired one, still holds a slot; the fill of a slot-holding block is      *)
(* known, otherwise reclaim would discard a complete block.                  *)
SinkBookkeeping ==
    /\ retired_sinks \subseteq sinks
    /\ sinks \subseteq Held
    /\ DOMAIN block_fill = Held
=============================================================================
