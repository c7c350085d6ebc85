-------------------------- MODULE KVarNServing_proofs --------------------------
(***************************************************************************)
(* The serving model keeps the pool sound for every number of blocks,      *)
(* slots, requests and conversations, every block size and every length of *)
(* context, verify row and drafter pass: types and the slot partition      *)
(* first, then the sharing discipline of the block tables and, from it,    *)
(* the bookkeeping of sinks and fills; in the second half, reclaim and the *)
(* data that attention and the prefix cache read.                          *)
(***************************************************************************)
EXTENDS KVarNServing, FiniteSetTheorems, WellFoundedInduction, TLAPS

-----------------------------------------------------------------------------
(* What one build() does to the allocator, whatever the batch: the pool    *)
(* invariant PoolInv is preserved by BuildMeta for any set of well-typed   *)
(* rows, in any order of rows, with and without allow_flush.               *)

(* A retired block is complete: reclaim would discard a partial one and      *)
(* leave its name behind in retired_sinks.                                   *)
RetiredComplete == \A b \in retired_sinks : Complete(b)

LabelsResident == retired_sinks \subseteq sinks /\ sinks \subseteq Held

PoolInv == PoolTypeOK /\ SlotPartition /\ LabelsResident /\ RetiredComplete

-----------------------------------------------------------------------------

\* One call of build() with a choice of evictions that its callers may make.
Built(rows, allow_flush, evicted) ==
    /\ evicted \in Evictions(rows, allow_flush)
    /\ BuildMeta(rows, allow_flush, evicted)

(* Every free slot set that admits an injection gives build() a placement.   *)
LEMMA PlaceIsInjection ==
    ASSUME NEW blocks, NEW slots, ExistsInjection(blocks, slots)
    PROVE  /\ Place(blocks, slots) \in [blocks -> slots]
           /\ \A a, b \in blocks :
                Place(blocks, slots)[a] = Place(blocks, slots)[b] => a = b
  <1>1. Injection(blocks, slots) # {}
    BY DEF ExistsInjection
  <1>2. Place(blocks, slots) \in Injection(blocks, slots)
    BY <1>1 DEF Place
  <1> QED BY <1>2 DEF Injection, IsInjective

(* The columns a row writes hold between one and Group tokens afterwards.    *)
LEMMA FillInGroup ==
    ASSUME NEW row \in Row, NEW k \in WrittenCols(row)
    PROVE  FillOf(row, k) \in 0 .. Group
  <1>1. Group \in Nat /\ row.seq_len \in Nat /\ Len(row.table) \in Nat
    BY GroupAssumption DEF Row
  <1>2. k \in Nat /\ k * Group < row.seq_len
    BY <1>1 DEF WrittenCols, LastCol
  <1>3. k * Group \in Nat /\ (k + 1) * Group = k * Group + Group
    BY <1>1, <1>2
  <1> QED BY <1>1, <1>2, <1>3 DEF FillOf, Lesser

(* What a batch writes, and its first blocks, are blocks.                    *)
LEMMA WrittenIsBlocks ==
    ASSUME NEW rows \in SUBSET Row
    PROVE  Written(rows) \subseteq Block /\ FirstBlocks(rows) \subseteq Block
  <1>1. ASSUME NEW row \in rows, NEW k \in 0 .. LastCol(row)
        PROVE  Col(row, k) \in Block
    <2>1. row.table \in Seq(Block) /\ Len(row.table) \in Nat
      BY DEF Row
    <2>2. k + 1 \in 1 .. Len(row.table)
      BY <2>1 DEF LastCol
    <2> QED BY <2>1, <2>2 DEF Col
  <1>2. ASSUME NEW row \in rows, row.table # <<>>
        PROVE  Col(row, 0) \in Block
    <2>1. row.table \in Seq(Block)
      BY DEF Row
    <2>2. 0 \in 0 .. LastCol(row)
      BY <2>1, <1>2 DEF LastCol
    <2> QED BY <2>2, <1>1
  <1>3. Written(rows) \subseteq Block
    BY <1>1 DEF Written, WrittenCols
  <1>4. FirstBlocks(rows) \subseteq Block
    BY <1>2 DEF FirstBlocks
  <1> QED BY <1>3, <1>4

(* The fills after a build lie within a block, and a block no row writes     *)
(* keeps its fill.                                                           *)
LEMMA FillAfterTyped ==
    ASSUME NEW rows \in SUBSET Row,
           block_fill \in [DOMAIN block_fill -> 0 .. Group]
    PROVE  /\ DOMAIN FillAfter(rows) = DOMAIN block_fill \cup Written(rows)
           /\ \A b \in DOMAIN FillAfter(rows) : FillAfter(rows)[b] \in 0 .. Group
           /\ \A b \in DOMAIN block_fill \ Written(rows) :
                FillAfter(rows)[b] = block_fill[b]
  <1>1. ASSUME NEW b \in Written(rows)
        PROVE  FillAfter(rows)[b] \in 0 .. Group
    <2> DEFINE fills == UNION {{FillOf(row, k) : k \in
                            {i \in WrittenCols(row) : Col(row, i) = b}} : row \in rows}
    <2>1. PICK row \in rows : \E k \in WrittenCols(row) : b = Col(row, k)
      BY DEF Written
    <2>2. PICK k \in WrittenCols(row) : b = Col(row, k)
      BY <2>1
    <2>3. FillOf(row, k) \in fills
      BY <2>2
    <2>4. fills \subseteq 0 .. Group
      BY FillInGroup
    <2>5. (CHOOSE f \in fills : TRUE) \in fills
      BY <2>3
    <2>6. FillAfter(rows)[b] = CHOOSE f \in fills : TRUE
      BY DEF FillAfter
    <2> QED BY <2>4, <2>5, <2>6
  <1> QED BY <1>1 DEF FillAfter

-----------------------------------------------------------------------------
(* The sets build() works with, seen from the invariant.                    *)

(* What a batch needs are blocks, among them all it writes.                  *)
LEMMA NeededIsBlocks ==
    ASSUME PoolTypeOK, NEW rows \in SUBSET Row
    PROVE  Needed(rows) \subseteq Block /\ Written(rows) \subseteq Needed(rows)
  BY WrittenIsBlocks DEF Needed

(* Only slot-holding blocks are dropped.                                     *)
LEMMA DroppedHeld ==
    ASSUME NEW rows \in SUBSET Row, NEW allow_flush \in BOOLEAN
    PROVE  Dropped(rows, allow_flush) \subseteq Held
  <1>1. ASSUME NEW row \in rows
        PROVE  WalkedBack(row, rows) \subseteq Held \ SinksMarked(rows)
    <2>1. FlushTop(row) \in Int
      BY GroupAssumption DEF FlushTop, Lesser, LastCol, Row
    <2>2. \A i \in 1 .. FlushTop(row) : i \in i .. FlushTop(row)
      BY <2>1
    <2> QED BY <2>2 DEF WalkedBack
  <1>2. FlushDetected(rows) \subseteq Held
    BY <1>1 DEF FlushDetected
  <1> QED BY <1>2 DEF Dropped, Flushed, Discarded, Idle

(* Blocks that are retired after this build and before its evictions hold a  *)
(* slot, are sinks, are complete, and nobody names or drops them.            *)
LEMMA RetiredNowFacts ==
    ASSUME LabelsResident, RetiredComplete,
           NEW rows \in SUBSET Row, NEW allow_flush \in BOOLEAN
    PROVE  /\ RetiredNow(rows, allow_flush) \subseteq Held \ Needed(rows)
           /\ RetiredNow(rows, allow_flush) \subseteq SinksMarked(rows)
           /\ \A b \in RetiredNow(rows, allow_flush) : Complete(b)
           /\ RetiredNow(rows, allow_flush) \cap Dropped(rows, allow_flush) = {}
  <1>1. RetiredNow(rows, allow_flush) \subseteq Held \ Needed(rows)
    BY DEF LabelsResident, RetiredNow, Retiring, Readopted, Idle
  <1>2. RetiredNow(rows, allow_flush) \subseteq SinksMarked(rows)
    BY DEF LabelsResident, RetiredNow, Retiring, Readopted, SinksMarked
  <1>3. \A b \in RetiredNow(rows, allow_flush) : Complete(b)
    BY DEF RetiredComplete, RetiredNow, Retiring
  <1>4. FlushDetected(rows) \cap SinksMarked(rows) = {}
    <2>1. ASSUME NEW row \in rows
          PROVE  WalkedBack(row, rows) \cap SinksMarked(rows) = {}
      <3>1. FlushTop(row) \in Int
        BY GroupAssumption DEF FlushTop, Lesser, LastCol, Row
      <3>2. \A i \in 1 .. FlushTop(row) : i \in i .. FlushTop(row)
        BY <3>1
      <3> QED BY <3>2 DEF WalkedBack
    <2> QED BY <2>1 DEF FlushDetected
  <1>5. RetiredNow(rows, allow_flush) \cap Dropped(rows, allow_flush) = {}
    BY <1>2, <1>3, <1>4 DEF Dropped, Flushed, Discarded
  <1> QED BY <1>1, <1>2, <1>3, <1>5

(* The blocks a build takes slots from, and the slots it may then give out.  *)
Gone(rows, allow_flush, evicted) == Dropped(rows, allow_flush) \cup evicted

Supply(rows, allow_flush, evicted) ==
    free_slots \cup {block_to_slot[b] : b \in Gone(rows, allow_flush, evicted)}

Placed(rows, allow_flush, evicted) ==
    Place(Missing(rows, allow_flush), Supply(rows, allow_flush, evicted))

(* What BuildMeta moves: the gone blocks all held slots, the missing ones    *)
(* hold none afterwards, and the placement is a fresh injection.             *)
SlotMoves(rows, allow_flush, evicted) ==
    LET missing == Missing(rows, allow_flush)
        gone    == Gone(rows, allow_flush, evicted)
        slots   == Supply(rows, allow_flush, evicted)
        placed  == Placed(rows, allow_flush, evicted)
    IN  /\ gone \subseteq Held
        /\ evicted \subseteq RetiredNow(rows, allow_flush)
        /\ missing \subseteq Needed(rows)
        /\ missing \cap Held \subseteq Dropped(rows, allow_flush)
        /\ missing \cap evicted = {}
        /\ slots \subseteq Slot
        /\ placed \in [missing -> slots]
        /\ \A a, b \in missing : placed[a] = placed[b] => a = b
        /\ block_to_slot' = [b \in (Held \ gone) \cup missing |->
                        IF b \in missing THEN placed[b] ELSE block_to_slot[b]]
        /\ free_slots' = slots \ {placed[b] : b \in missing}

(* What one build does to the slots, said once for every property of the     *)
(* pool.                                                                     *)
LEMMA BuildMoves ==
    ASSUME PoolInv,
           NEW rows \in SUBSET Row, NEW allow_flush \in BOOLEAN,
           NEW evicted, Built(rows, allow_flush, evicted)
    PROVE  SlotMoves(rows, allow_flush, evicted)
  <1> DEFINE missing == Missing(rows, allow_flush)
             gone    == Gone(rows, allow_flush, evicted)
             slots   == Supply(rows, allow_flush, evicted)
             placed  == Placed(rows, allow_flush, evicted)
  <1>1. evicted \subseteq RetiredNow(rows, allow_flush)
    BY DEF Built, BuildMeta, Evictions
  <1>2. gone \subseteq Held
    BY <1>1, DroppedHeld, RetiredNowFacts DEF PoolInv, Gone
  <1>3. /\ missing \subseteq Needed(rows)
        /\ missing \cap Held \subseteq Dropped(rows, allow_flush)
    BY DEF Missing, Kept
  <1>4. missing \cap evicted = {}
    BY <1>1, <1>3, RetiredNowFacts DEF PoolInv
  <1>5. slots = Available(rows, allow_flush) \cup {block_to_slot[b] : b \in evicted}
    BY DEF Available, Supply, Gone
  <1>6. slots \subseteq Slot
    BY <1>2 DEF PoolInv, PoolTypeOK, Supply
  <1>7. ExistsInjection(missing, slots)
    BY <1>5 DEF Built, BuildMeta
  <1>8. placed = Place(missing, slots)
    BY DEF Placed
  <1>9. /\ placed \in [missing -> slots]
        /\ \A a, b \in missing : placed[a] = placed[b] => a = b
    BY <1>7, <1>8, PlaceIsInjection
  <1>10. block_to_slot' = [b \in (Held \ gone) \cup missing |->
                        IF b \in missing THEN placed[b] ELSE block_to_slot[b]]
    BY <1>5, <1>8 DEF Built, BuildMeta, Gone
  <1>11. free_slots' = slots \ {placed[b] : b \in missing}
    <2>1. free_slots' = slots \ Range(placed)
      BY <1>5, <1>8 DEF Built, BuildMeta
    <2> QED BY <2>1, <1>9 DEF Range
  <1> QED BY <1>1, <1>2, <1>3, <1>4, <1>6, <1>9, <1>10, <1>11 DEF SlotMoves

-----------------------------------------------------------------------------
(* build() preserves the pool invariant.  The placement is a fresh          *)
(* injection into the slots that were free or are given up by this build.   *)
LEMMA BuildPreservesPool ==
    ASSUME PoolInv,
           NEW rows \in SUBSET Row, NEW allow_flush \in BOOLEAN,
           NEW evicted, Built(rows, allow_flush, evicted)
    PROVE  PoolInv'
  <1> DEFINE missing == Missing(rows, allow_flush)
             gone    == Gone(rows, allow_flush, evicted)
             slots   == Supply(rows, allow_flush, evicted)
             placed  == Placed(rows, allow_flush, evicted)
             fill    == FillAfter(rows)
  <1>1. /\ gone \subseteq Held
        /\ evicted \subseteq RetiredNow(rows, allow_flush)
        /\ missing \subseteq Needed(rows)
        /\ missing \cap Held \subseteq Dropped(rows, allow_flush)
        /\ missing \cap evicted = {}
        /\ slots \subseteq Slot
        /\ placed \in [missing -> slots]
        /\ \A a, b \in missing : placed[a] = placed[b] => a = b
        /\ block_to_slot' = [b \in (Held \ gone) \cup missing |->
                        IF b \in missing THEN placed[b] ELSE block_to_slot[b]]
        /\ free_slots' = slots \ {placed[b] : b \in missing}
    <2>1. SlotMoves(rows, allow_flush, evicted)
      BY BuildMoves
    <2> QED BY <2>1 DEF SlotMoves
  <1>s. slots = free_slots \cup {block_to_slot[b] : b \in gone}
    BY DEF Supply
  <1>2. Needed(rows) \subseteq Block /\ Written(rows) \subseteq Needed(rows)
    BY NeededIsBlocks DEF PoolInv
  <1>3. /\ RetiredNow(rows, allow_flush) \subseteq Held \ Needed(rows)
        /\ RetiredNow(rows, allow_flush) \subseteq SinksMarked(rows)
        /\ \A b \in RetiredNow(rows, allow_flush) : Complete(b)
        /\ RetiredNow(rows, allow_flush) \cap Dropped(rows, allow_flush) = {}
    BY RetiredNowFacts DEF PoolInv
  <1>4. /\ DOMAIN fill = DOMAIN block_fill \cup Written(rows)
        /\ \A b \in DOMAIN fill : fill[b] \in 0 .. Group
        /\ \A b \in DOMAIN block_fill \ Written(rows) : fill[b] = block_fill[b]
    BY FillAfterTyped DEF PoolInv, PoolTypeOK
  <1>5. /\ sinks' = SinksMarked(rows) \ gone
        /\ retired_sinks' = RetiredNow(rows, allow_flush) \ evicted
        /\ retired_before' =
                {p \in RetiredOrder(rows, allow_flush) : p[1] \notin evicted}
        /\ block_fill' = [b \in DOMAIN fill \ gone |-> fill[b]]
        /\ engine' = engine
    BY DEF Built, BuildMeta, Gone
  <1> HIDE DEF missing, gone, slots, placed, fill
  <1>6. Held' = (Held \ gone) \cup missing
    BY <1>1 DEF Held
  <1>7. \A b \in missing : block_to_slot'[b] = placed[b]
    BY <1>1
  <1>8. \A b \in Held \ (gone \cup missing) : block_to_slot'[b] = block_to_slot[b]
    BY <1>1
  <1>9. missing \cap Held \subseteq gone
    BY <1>1 DEF gone, Gone
  <1>10. PoolTypeOK'
    <2>1. Held \subseteq Block /\ sinks \subseteq Block /\ retired_sinks \subseteq Block
          /\ retired_before \subseteq Block \X Block /\ engine \in {"up", "failed"}
      BY DEF PoolInv, PoolTypeOK
    <2>2. Held' \subseteq Block
      BY <1>1, <1>2, <1>6, <2>1
    <2>3. block_to_slot' \in [Held' -> Slot]
      <3>1. \A b \in Held' : block_to_slot'[b] \in Slot
        BY <1>1, <1>6, <1>7, <1>8, <1>9 DEF PoolInv, PoolTypeOK
      <3>2. block_to_slot' = [b \in Held' |-> block_to_slot'[b]]
        BY <1>1, <1>6
      <3> QED BY <3>1, <3>2
    <2>4. free_slots' \subseteq Slot
      BY <1>1
    <2>5. sinks' \subseteq Block
      BY <1>2, <1>5, <2>1, WrittenIsBlocks DEF SinksMarked
    <2>6. RetiredNow(rows, allow_flush) \subseteq Block
      BY <1>3, <2>1
    <2>7. retired_sinks' \subseteq Block
      BY <1>5, <2>6
    <2>8. RetiredOrder(rows, allow_flush) \subseteq Block \X Block
      BY <2>1 DEF RetiredOrder, Retiring, Idle
    <2>9. retired_before' \subseteq Block \X Block
      BY <1>5, <2>8
    <2>10. block_fill' \in [DOMAIN block_fill' -> 0 .. Group]
      BY <1>4, <1>5
    <2> QED BY <1>5, <2>1, <2>2, <2>3, <2>4, <2>5, <2>7, <2>9, <2>10 DEF PoolTypeOK
  <1>11. SlotPartition'
    <2> USE DEF SlotPartition
    <2>1. \A a, b \in Held : block_to_slot[a] = block_to_slot[b] => a = b
      BY DEF PoolInv
    <2>2. \A b \in Held : block_to_slot[b] \notin free_slots
      BY DEF PoolInv
    <2>3. \A b \in Held \ gone : block_to_slot[b] \notin slots
      BY <1>1, <1>s, <2>1, <2>2
    <2>4. \A b \in missing : placed[b] \in slots
      BY <1>1
    <2>5. \A a, b \in Held' : block_to_slot'[a] = block_to_slot'[b] => a = b
      <3> SUFFICES ASSUME NEW a \in Held', NEW b \in Held',
                          block_to_slot'[a] = block_to_slot'[b]
                   PROVE  a = b
        OBVIOUS
      <3>1. CASE a \in missing /\ b \in missing
        BY <3>1, <1>1, <1>7
      <3>2. CASE a \notin missing /\ b \notin missing
        BY <3>2, <1>6, <1>8, <2>1
      <3>3. CASE a \in missing /\ b \notin missing
        BY <3>3, <1>6, <1>7, <1>8, <2>3, <2>4
      <3>4. CASE a \notin missing /\ b \in missing
        BY <3>4, <1>6, <1>7, <1>8, <2>3, <2>4
      <3> QED BY <3>1, <3>2, <3>3, <3>4
    <2>6. \A b \in Held' : block_to_slot'[b] \notin free_slots'
      BY <1>1, <1>6, <1>7, <1>8, <2>3
    <2>7. ASSUME NEW s \in Slot, s \notin free_slots'
          PROVE  \E b \in Held' : block_to_slot'[b] = s
      <3>1. CASE s \in slots
        <4>1. PICK b \in missing : placed[b] = s
          BY <3>1, <2>7, <1>1
        <4> QED BY <4>1, <1>6, <1>7
      <3>2. CASE s \notin slots
        <4>1. PICK b \in Held : block_to_slot[b] = s
          BY <3>2, <1>s DEF PoolInv
        <4>2. b \notin gone
          BY <4>1, <3>2, <1>s
        <4> QED BY <4>1, <4>2, <1>6, <1>8, <1>9
      <3> QED BY <3>1, <3>2
    <2> QED BY <2>5, <2>6, <2>7
  <1>12. LabelsResident'
    <2>1. SinksMarked(rows) \subseteq Held \cup Written(rows)
      BY DEF PoolInv, LabelsResident, SinksMarked
    <2>2. Written(rows) \subseteq (Held \ gone) \cup missing \cup gone
      BY <1>2 DEF missing, Missing, Kept, gone, Gone
    <2>3. sinks' \subseteq Held'
      BY <1>5, <1>6, <2>1, <2>2
    <2>4. retired_sinks' \subseteq sinks'
      BY <1>3, <1>5 DEF gone, Gone
    <2> QED BY <2>3, <2>4 DEF LabelsResident
  <1>13. RetiredComplete'
    <2> SUFFICES ASSUME NEW b \in retired_sinks'
                 PROVE  Complete(b)'
      BY DEF RetiredComplete
    <2>1. b \in RetiredNow(rows, allow_flush) /\ b \notin gone
      BY <1>3, <1>5 DEF gone, Gone
    <2>2. Complete(b) /\ b \notin Written(rows)
      BY <1>2, <1>3, <2>1
    <2>3. b \in DOMAIN fill \ gone /\ fill[b] = block_fill[b]
      BY <1>4, <2>1, <2>2 DEF Complete
    <2> QED BY <1>5, <2>2, <2>3 DEF Complete
  <1> QED BY <1>10, <1>11, <1>12, <1>13 DEF PoolInv

(* A build drops no block its batch needs: what it writes is not flushed, and *)
(* a first block in use is a sink.                                           *)
LEMMA NeededNotDropped ==
    ASSUME NEW rows \in SUBSET Row, NEW allow_flush \in BOOLEAN,
           allow_flush => Written(rows) \cap FlushDetected(rows) = {}
    PROVE  Needed(rows) \cap Dropped(rows, allow_flush) = {}
  <1>1. FirstBlocks(rows) \cap sinks \subseteq SinksMarked(rows)
    BY DEF SinksMarked
  <1>2. FlushDetected(rows) \cap SinksMarked(rows) = {}
    <2>1. ASSUME NEW row \in rows
          PROVE  WalkedBack(row, rows) \cap SinksMarked(rows) = {}
      <3>1. FlushTop(row) \in Int
        BY GroupAssumption DEF FlushTop, Lesser, LastCol, Row
      <3>2. \A i \in 1 .. FlushTop(row) : i \in i .. FlushTop(row)
        BY <3>1
      <3> QED BY <3>2 DEF WalkedBack
    <2> QED BY <2>1 DEF FlushDetected
  <1>3. CASE allow_flush
    BY <1>1, <1>2, <1>3 DEF Dropped, Flushed, Discarded, Idle, Needed
  <1>4. CASE ~allow_flush
    BY <1>4 DEF Dropped, Flushed, Discarded
  <1> QED BY <1>3, <1>4

(* A block that loses its fill entry loses its slot with it and the other    *)
(* way round, as long as no row writes a block that another one's walk       *)
(* flushes: that is the sharing discipline the caller has to guarantee.      *)
LEMMA BuildPreservesFill ==
    ASSUME PoolInv, SinkBookkeeping,
           NEW rows \in SUBSET Row, NEW allow_flush \in BOOLEAN,
           allow_flush => Written(rows) \cap FlushDetected(rows) = {},
           NEW evicted, Built(rows, allow_flush, evicted)
    PROVE  SinkBookkeeping'
  <1> DEFINE missing == Missing(rows, allow_flush)
             gone    == Gone(rows, allow_flush, evicted)
  <1>1. /\ missing \subseteq Needed(rows)
        /\ missing \cap evicted = {}
        /\ Held' = (Held \ gone) \cup missing
        /\ evicted \subseteq RetiredNow(rows, allow_flush)
    <2>1. SlotMoves(rows, allow_flush, evicted)
      BY BuildMoves
    <2> QED BY <2>1 DEF SlotMoves, Held
  <1>2. DOMAIN block_fill' = (Held \cup Written(rows)) \ gone
    BY FillAfterTyped DEF Built, BuildMeta, SinkBookkeeping, PoolInv, PoolTypeOK, Gone
  <1>3. Needed(rows) \cap Dropped(rows, allow_flush) = {}
    BY NeededNotDropped
  <1>4. Written(rows) \subseteq Needed(rows)
    BY DEF Needed
  <1>5. missing = Needed(rows) \ Held
    BY <1>3 DEF missing, Missing, Kept
  <1>6. Needed(rows) \subseteq Held \cup Written(rows)
    BY DEF Needed, SinkBookkeeping
  <1>7. (Held \cup Written(rows)) \ gone = (Held \ gone) \cup missing
    <2>1. missing \subseteq Written(rows)
      BY <1>5, <1>6
    <2>2. missing \cap gone = {}
      BY <1>1, <1>3 DEF Gone
    <2>3. Written(rows) \ gone \subseteq (Held \ gone) \cup missing
      BY <1>4, <1>5
    <2> QED BY <2>1, <2>2, <2>3
  <1>8. LabelsResident'
    BY BuildPreservesPool DEF PoolInv
  <1> QED BY <1>1, <1>2, <1>7, <1>8 DEF SinkBookkeeping, LabelsResident, Held

-----------------------------------------------------------------------------
(* The serving model.                                                      *)

(* The scheduled batch fits the model: what each row is about to write stays *)
(* within the length bound.                                                  *)
BatchFits ==
    /\ batch \in [DOMAIN batch -> 1 .. MaxQueryLen]
    /\ pass = 1 => \A r \in DOMAIN batch : num_computed[r] + batch[r] <= MaxModelLen

TypedInv == ServingTypeOK /\ PoolInv /\ BatchFits

-----------------------------------------------------------------------------
(* Frames and arithmetic.                                                   *)

(* The pool invariant reads the allocator's state only.                      *)
LEMMA PoolUnchanged ==
    ASSUME PoolInv, UNCHANGED poolVars
    PROVE  PoolInv'
  BY DEF poolVars, PoolInv, PoolTypeOK, SlotPartition, LabelsResident,
         RetiredComplete, Complete, Held

(* A failed build leaves the allocator as it was.                            *)
LEMMA FailedBuildKeepsPool ==
    ASSUME PoolInv, NEW rows, NEW allow_flush, BuildExhausted(rows, allow_flush)
    PROVE  PoolInv'
  BY DEF BuildExhausted, PoolInv, PoolTypeOK, SlotPartition, LabelsResident,
         RetiredComplete, Complete, Held

(* A function on 1 .. n is a sequence.                                       *)
LEMMA FunctionIsSeq ==
    ASSUME NEW S, NEW n \in Nat, NEW f \in [1 .. n -> S]
    PROVE  f \in Seq(S) /\ Len(f) = n
  OBVIOUS

(* A cached chain of a conversation is a sequence of blocks, each with the   *)
(* key of its position.                                                      *)
LEMMA ChainIsCached ==
    ASSUME NEW c, NEW hit \in CachedChain(c)
    PROVE  /\ hit \in Seq(Block) /\ Len(hit) \in Nat
           /\ \A i \in 1 .. Len(hit) : block_hash[hit[i]] = <<c, i - 1>>
  <1>1. PICK k \in 0 .. MaxModelLen \div Group : hit \in [1 .. k -> Block]
    BY DEF CachedChain
  <1>2. k \in Nat
    OBVIOUS
  <1>3. hit \in Seq(Block) /\ Len(hit) = k /\ DOMAIN hit = 1 .. k
    BY <1>1, <1>2, FunctionIsSeq
  <1>4. \A i \in DOMAIN hit : block_hash[hit[i]] = <<c, i - 1>>
    BY DEF CachedChain
  <1> QED BY <1>2, <1>3, <1>4

(* The blocks of a length are counted by a natural number.                   *)
LEMMA BlocksForNat ==
    ASSUME NEW n \in Nat
    PROVE  BlocksFor(n) \in Nat
  BY GroupAssumption DEF BlocksFor

(* The rows build() is given are rows, for the target and for the drafter.   *)
LEMMA RowsTyped ==
    ASSUME TypedInv
    PROVE  /\ BatchRows \in SUBSET Row
           /\ \A i \in Nat \ {0} : DraftRows(i) \in SUBSET Row
  <1>1. \A r \in DOMAIN batch : /\ block_table[r] \in Seq(Block)
                                /\ num_computed[r] \in Nat
                                /\ batch[r] \in Nat
    BY DEF TypedInv, ServingTypeOK, BatchFits
  <1>2. BatchRows \in SUBSET Row
    BY <1>1 DEF BatchRows, Row
  <1>3. \A i \in Nat \ {0} : DraftRows(i) \in SUBSET Row
    BY <1>1 DEF DraftRows, Row
  <1> QED BY <1>2, <1>3

-----------------------------------------------------------------------------
(* Types and the slot partition, action by action.                          *)

(* The initial state is well typed.                                          *)
LEMMA InitTyped == ServingInit => TypedInv
  <1> SUFFICES ASSUME ServingInit PROVE TypedInv
    OBVIOUS
  <1>1. PoolTypeOK
    BY DEF ServingInit, PoolInit, PoolTypeOK, Held
  <1>2. PoolInv
    BY <1>1 DEF ServingInit, PoolInit, PoolInv, SlotPartition, LabelsResident,
                RetiredComplete, Held
  <1>3. ServingTypeOK
    BY <1>1, ServingAssumption DEF ServingInit, ServingTypeOK
  <1>4. BatchFits
    BY DEF ServingInit, BatchFits
  <1> QED BY <1>2, <1>3, <1>4 DEF TypedInv

(* Admission with a prefix-cache hit keeps the types.                        *)
LEMMA AdmitTyped ==
    ASSUME TypedInv, NEW r \in Request, NEW c \in Conversation, Admit(r, c)
    PROVE  TypedInv'
  <1>1. PICK hit \in CachedChain(c) :
            /\ Len(hit) * Group < MaxModelLen
            /\ conversation' = [conversation EXCEPT ![r] = c]
            /\ block_table' = [block_table EXCEPT ![r] = hit]
            /\ num_computed' = [num_computed EXCEPT ![r] = Len(hit) * Group]
    BY DEF Admit
  <1>2. hit \in Seq(Block)
    BY ChainIsCached
  <1>3. Len(hit) \in Nat /\ Len(hit) * Group \in 0 .. MaxModelLen
    BY <1>1, <1>2, GroupAssumption, ServingAssumption
  <1>4. PoolInv'
    BY PoolUnchanged DEF Admit, TypedInv
  <1>5. ServingTypeOK'
    <2>1. PoolTypeOK'
      BY <1>4 DEF PoolInv
    <2> QED BY <2>1, <1>1, <1>2, <1>3 DEF Admit, TypedInv, ServingTypeOK, dataVars
  <1>6. BatchFits'
    BY <1>1 DEF Admit, TypedInv, BatchFits
  <1> QED BY <1>4, <1>5, <1>6 DEF TypedInv

(* A request that leaves keeps the types.                                    *)
LEMMA ReleaseTyped ==
    ASSUME TypedInv, NEW r \in Request, Release(r)
    PROVE  TypedInv'
  <1>1. PoolInv'
    BY PoolUnchanged DEF Release, TypedInv
  <1>2. ServingTypeOK'
    <2>1. PoolTypeOK'
      BY <1>1 DEF PoolInv
    <2> QED BY <2>1, ServingAssumption DEF Release, TypedInv, ServingTypeOK, dataVars
  <1>3. BatchFits'
    BY DEF Release, TypedInv, BatchFits
  <1> QED BY <1>1, <1>2, <1>3 DEF TypedInv

(* A row's table grows by blocks nobody held.                                *)
LEMMA ScheduleTyped ==
    ASSUME TypedInv, NEW rows \in SUBSET Running,
           NEW query \in [rows -> 1 .. MaxQueryLen], Schedule(rows, query)
    PROVE  TypedInv'
  <1> DEFINE total(r) == Greater(Len(block_table[r]),
                            BlocksFor(num_computed[r] + query[r] + DraftPasses))
             grown    == UNION {{r} \X (Len(block_table[r]) + 1 .. total(r)) : r \in rows}
  <1>1. PICK new \in Injection(grown, FreeBlocks) :
            /\ block_table' = [r \in Request |->
                    IF r \notin rows THEN block_table[r]
                    ELSE [i \in 1 .. total(r) |->
                            IF <<r, i>> \in grown THEN new[<<r, i>>] ELSE block_table[r][i]]]
            /\ block_hash' = [b \in Block |->
                    IF b \in Range(new) THEN NoHash ELSE block_hash[b]]
            /\ tile' = [b \in Block |->
                    IF b \in Range(new) THEN JunkTile ELSE tile[b]]
    BY DEF Schedule
  <1>2. /\ rows \subseteq Request
        /\ block_table \in [Request -> Seq(Block)]
        /\ num_computed \in [Request -> 0 .. MaxModelLen]
    BY DEF TypedInv, ServingTypeOK, Running
  <1>3. \A r \in rows : total(r) \in Nat /\ Len(block_table[r]) \in Nat
    <2> TAKE r \in rows
    <2>1. num_computed[r] + query[r] + DraftPasses \in Nat
      BY <1>2, ServingAssumption
    <2>2. BlocksFor(num_computed[r] + query[r] + DraftPasses) \in Nat
      BY <2>1, BlocksForNat
    <2> QED BY <1>2, <2>2 DEF Greater
  <1>4. \A e \in grown : new[e] \in Block
    BY <1>1 DEF Injection, FreeBlocks
  <1>5. block_table' \in [Request -> Seq(Block)]
    <2>1. ASSUME NEW r \in rows
          PROVE  [i \in 1 .. total(r) |->
                    IF <<r, i>> \in grown THEN new[<<r, i>>] ELSE block_table[r][i]]
                    \in Seq(Block)
      <3>1. ASSUME NEW i \in 1 .. total(r)
            PROVE  (IF <<r, i>> \in grown THEN new[<<r, i>>] ELSE block_table[r][i])
                        \in Block
        <4>1. CASE <<r, i>> \in grown
          BY <4>1, <1>4
        <4>2. CASE <<r, i>> \notin grown
          <5>1. i \notin Len(block_table[r]) + 1 .. total(r)
            BY <4>2
          <5>2. i \in 1 .. Len(block_table[r])
            BY <5>1, <1>3
          <5> QED BY <4>2, <5>2, <1>2
        <4> QED BY <4>1, <4>2
      <3>2. total(r) \in Nat
        BY <1>3
      <3> DEFINE blocks == [i \in 1 .. total(r) |->
                    IF <<r, i>> \in grown THEN new[<<r, i>>] ELSE block_table[r][i]]
      <3> HIDE DEF total, grown
      <3>3. blocks \in [1 .. total(r) -> Block]
        BY <3>1
      <3> QED BY <3>2, <3>3, FunctionIsSeq
    <2> HIDE DEF total, grown
    <2> QED BY <2>1, <1>1, <1>2
  <1>6. PoolInv'
    BY PoolUnchanged DEF Schedule, TypedInv
  <1>7. /\ batch' = query /\ pass' = 1 /\ pool' = pool
        /\ conversation' = conversation /\ num_computed' = num_computed
        /\ \A r \in rows : num_computed[r] + query[r] <= MaxModelLen
    BY DEF Schedule
  <1>8. DOMAIN block_hash' = Block /\ DOMAIN tile' = Block
    BY <1>1
  <1>9. ServingTypeOK'
    <2>1. PoolTypeOK'
      BY <1>6 DEF PoolInv
    <2> QED BY <2>1, <1>2, <1>5, <1>7, <1>8, ServingAssumption
            DEF TypedInv, ServingTypeOK
  <1>10. BatchFits'
    BY <1>7 DEF BatchFits
  <1> QED BY <1>6, <1>9, <1>10 DEF TypedInv

(* The end of a pass keeps the batch and the pass counter in their types.    *)
LEMMA EndPassTyped ==
    ASSUME TypedInv, EndPass
    PROVE  /\ pass' \in 0 .. DraftPasses + 1
           /\ DOMAIN batch' \subseteq Request
           /\ batch' \in [DOMAIN batch' -> 1 .. MaxQueryLen]
           /\ pass >= 1 => pass' # 1
  <1>1. pass \in 0 .. DraftPasses + 1 /\ DraftPasses \in Nat
    BY ServingAssumption DEF TypedInv, ServingTypeOK
  <1>2. /\ pass' = IF pass > DraftPasses THEN 0 ELSE pass + 1
        /\ batch' = IF pass > DraftPasses THEN <<>> ELSE batch
    BY DEF EndPass
  <1> QED BY <1>1, <1>2 DEF TypedInv, ServingTypeOK, BatchFits

(* One forward pass with its build keeps the types and the pool sound.       *)
LEMMA ExecuteTyped ==
    ASSUME TypedInv, NEW accepted \in [DOMAIN batch -> 1 .. MaxQueryLen],
           ExecuteModel(accepted)
    PROVE  TypedInv'
  <1>1. PICK evicted \in Evictions(BatchRows, AllowFlush(0)) :
            /\ Built(BatchRows, AllowFlush(0), evicted)
            /\ tile' = FlushTiles(Quantised(BatchRows, AllowFlush(0), evicted))
    BY DEF ExecuteModel, Built
  <1>2. PoolInv'
    <2>1. AllowFlush(0) \in BOOLEAN
      BY DEF AllowFlush
    <2> QED BY <1>1, <2>1, RowsTyped, BuildPreservesPool DEF TypedInv
  <1>3. num_computed' \in [Request -> 0 .. MaxModelLen]
    <2> DEFINE done == [r \in Request |-> num_computed[r] +
                            IF r \in DOMAIN batch THEN accepted[r] ELSE 0]
    <2>1. ASSUME NEW r \in Request
          PROVE  done[r] \in 0 .. MaxModelLen
      <3>1. num_computed[r] \in 0 .. MaxModelLen /\ MaxModelLen \in Nat /\ MaxQueryLen \in Nat
        BY ServingAssumption DEF TypedInv, ServingTypeOK
      <3>2. CASE r \in DOMAIN batch
        <4>1. accepted[r] \in 1 .. MaxQueryLen /\ accepted[r] <= batch[r]
          BY <3>2 DEF ExecuteModel
        <4>2. num_computed[r] + batch[r] <= MaxModelLen /\ batch[r] \in 1 .. MaxQueryLen
          BY <3>2 DEF TypedInv, BatchFits, ExecuteModel
        <4> QED BY <3>1, <3>2, <4>1, <4>2
      <3>3. CASE r \notin DOMAIN batch
        BY <3>1, <3>3
      <3> QED BY <3>2, <3>3
    <2>2. num_computed' = done
      BY DEF ExecuteModel
    <2> HIDE DEF done
    <2>3. done = [r \in Request |-> done[r]]
      BY DEF done
    <2> QED BY <2>1, <2>2, <2>3
  <1>4. /\ EndPass /\ pass = 1
        /\ UNCHANGED <<conversation, block_table>>
    BY DEF ExecuteModel
  <1>5. DOMAIN block_hash' = Block
    BY DEF ExecuteModel
  <1>6. DOMAIN tile' = Block
    BY <1>1 DEF FlushTiles
  <1>7. DOMAIN pool' = Slot
    BY DEF ExecuteModel, Scatter
  <1>8. ServingTypeOK'
    <2>1. PoolTypeOK'
      BY <1>2 DEF PoolInv
    <2>2. /\ pass' \in 0 .. DraftPasses + 1
          /\ DOMAIN batch' \subseteq Request
      BY <1>4, EndPassTyped
    <2>3. /\ conversation' \in [Request -> Conversation \cup {None}]
          /\ block_table' \in [Request -> Seq(Block)]
      BY <1>4 DEF TypedInv, ServingTypeOK
    <2> QED BY <2>1, <2>2, <2>3, <1>3, <1>5, <1>6, <1>7 DEF ServingTypeOK
  <1>9. BatchFits'
    <2>1. batch' \in [DOMAIN batch' -> 1 .. MaxQueryLen] /\ pass' # 1
      BY <1>4, EndPassTyped
    <2> QED BY <2>1 DEF BatchFits
  <1> QED BY <1>2, <1>8, <1>9 DEF TypedInv

(* A drafter pass keeps the types and the pool sound.                        *)
LEMMA DraftPassTyped ==
    ASSUME TypedInv, DraftPass
    PROVE  TypedInv'
  <1> DEFINE i == pass - 1
  <1>1. PICK evicted \in Evictions(DraftRows(i), AllowFlush(i)) :
            /\ Built(DraftRows(i), AllowFlush(i), evicted)
            /\ tile' = FlushTiles(Quantised(DraftRows(i), AllowFlush(i), evicted))
    BY DEF DraftPass, Built
  <1>2. i \in Nat \ {0} /\ pass >= 1 /\ AllowFlush(i) \in BOOLEAN
    BY ServingAssumption DEF DraftPass, TypedInv, ServingTypeOK, AllowFlush
  <1>3. PoolInv'
    <2>1. DraftRows(i) \in SUBSET Row
      BY <1>2, RowsTyped
    <2> HIDE DEF i
    <2> QED BY <1>1, <1>2, <2>1, BuildPreservesPool DEF TypedInv
  <1>4. EndPass /\ UNCHANGED engineVars
    BY DEF DraftPass
  <1>5. ServingTypeOK'
    <2>1. PoolTypeOK'
      BY <1>3 DEF PoolInv
    <2>2. /\ pass' \in 0 .. DraftPasses + 1
          /\ DOMAIN batch' \subseteq Request
      BY <1>4, EndPassTyped
    <2>3. DOMAIN tile' = Block
      BY <1>1 DEF FlushTiles
    <2>4. DOMAIN pool' = Slot
      BY DEF DraftPass, Scatter
    <2> QED BY <2>1, <2>2, <2>3, <2>4, <1>4 DEF TypedInv, ServingTypeOK, engineVars
  <1>6. BatchFits'
    <2>1. batch' \in [DOMAIN batch' -> 1 .. MaxQueryLen] /\ pass' # 1
      BY <1>2, <1>4, EndPassTyped
    <2> QED BY <2>1 DEF BatchFits
  <1> QED BY <1>3, <1>5, <1>6 DEF TypedInv

(* A failed build keeps the types.                                           *)
LEMMA ExhaustedTyped ==
    ASSUME TypedInv, Exhausted
    PROVE  TypedInv'
  <1>1. PoolInv'
    BY FailedBuildKeepsPool DEF Exhausted, TypedInv
  <1>2. PoolTypeOK'
    BY <1>1 DEF PoolInv
  <1> QED BY <1>1, <1>2 DEF Exhausted, engineVars, dataVars, TypedInv, ServingTypeOK, BatchFits

(* A stuttering step keeps the types.                                        *)
LEMMA StutterTyped ==
    ASSUME TypedInv, UNCHANGED vars
    PROVE  TypedInv'
  <1>1. PoolInv'
    BY PoolUnchanged DEF vars, TypedInv
  <1>2. PoolTypeOK'
    BY <1>1 DEF PoolInv
  <1> QED BY <1>1, <1>2 DEF vars, engineVars, dataVars, TypedInv, ServingTypeOK, BatchFits

(* Every step keeps the types and the pool sound.                            *)
LEMMA StepTyped == TypedInv /\ [Next]_vars => TypedInv'
  BY AdmitTyped, ScheduleTyped, ReleaseTyped, ExecuteTyped, DraftPassTyped,
     ExhaustedTyped, StutterTyped DEF Next

(* Every reachable state is well typed and its pool sound.                   *)
THEOREM TypedAlways == Spec => []TypedInv
  BY InitTyped, StepTyped, PTL DEF Spec

(* The types of the serving model hold for every value of the constants.     *)
THEOREM TypesHold == Spec => []ServingTypeOK
  <1>1. TypedInv => ServingTypeOK
    BY DEF TypedInv
  <1> QED BY <1>1, TypedAlways, PTL

(* No slot of the pool is ever leaked, or held by two blocks, whatever the   *)
(* batches, the sharing of prefixes and the rejected drafts: build() moves   *)
(* slots between dict_map and free_slots without losing one.                 *)
THEOREM SlotsPartitioned == Spec => []SlotPartition
  <1>1. TypedInv => SlotPartition
    BY DEF TypedInv, PoolInv
  <1> QED BY <1>1, TypedAlways, PTL

-----------------------------------------------------------------------------
(* The sharing discipline of the block tables: the environment hands out    *)
(* free blocks and full cached ones only, so a block has one position, and  *)
(* requests that share it share the conversation and have all of it behind  *)
(* their committed boundary.                                                *)

OneColumn ==
    \A r \in Request : \A i, j \in 1 .. Len(block_table[r]) :
        block_table[r][i] = block_table[r][j] => i = j

SharedAreFull ==
    \A r, q \in Request :
        \A i \in 1 .. Len(block_table[r]), j \in 1 .. Len(block_table[q]) :
            r # q /\ block_table[r][i] = block_table[q][j]
                => /\ i = j
                   /\ conversation[r] = conversation[q]
                   /\ i * Group <= num_computed[r]

KeysAreFull ==
    \A q \in Request : \A j \in 1 .. Len(block_table[q]) :
        block_hash[block_table[q][j]] # NoHash =>
            /\ block_hash[block_table[q][j]] = <<conversation[q], j - 1>>
            /\ j * Group <= num_computed[q]

BatchHasBlocks ==
    pass = 1 => \A r \in DOMAIN batch :
        num_computed[r] + batch[r] <= Len(block_table[r]) * Group

Sharing == OneColumn /\ SharedAreFull /\ KeysAreFull /\ BatchHasBlocks

(* Rounding down to blocks.                                                  *)
LEMMA DivisionBounds ==
    ASSUME NEW n \in Nat
    PROVE  /\ n \div Group \in Nat
           /\ (n \div Group) * Group <= n
           /\ n < (n \div Group) * Group + Group
  BY GroupAssumption

(* Enough blocks are enough: a table of BlocksFor(n) blocks holds n tokens.  *)
LEMMA BlocksForEnough ==
    ASSUME NEW n \in Nat
    PROVE  BlocksFor(n) \in Nat /\ n <= BlocksFor(n) * Group
  <1>1. Group \in Nat \ {0} /\ n + Group - 1 \in Nat
    BY GroupAssumption
  <1> QED BY <1>1, DivisionBounds DEF BlocksFor

(* More blocks hold more tokens.                                             *)
LEMMA TimesGroupMonotone ==
    ASSUME NEW m \in Nat, NEW n \in Nat, m <= n
    PROVE  m * Group <= n * Group /\ m * Group \in Nat /\ n * Group \in Nat
  BY GroupAssumption

(* More tokens need more blocks.                                             *)
LEMMA TimesGroupReflects ==
    ASSUME NEW m \in Nat, NEW n \in Nat, m * Group <= n * Group
    PROVE  m <= n
  <1>1. ASSUME m > n PROVE FALSE
    <2>1. n + 1 <= m
      BY <1>1
    <2>2. (n + 1) * Group <= m * Group
      BY <2>1, TimesGroupMonotone
    <2>3. (n + 1) * Group = n * Group + Group
      BY GroupAssumption
    <2>4. n * Group \in Nat /\ m * Group \in Nat
      BY GroupAssumption
    <2> QED BY <2>2, <2>3, <2>4, GroupAssumption
  <1> QED BY <1>1

(* Nothing is shared at the start.                                           *)
LEMMA InitSharing == ServingInit => Sharing
  BY DEF ServingInit, Sharing, OneColumn, SharedAreFull, KeysAreFull, BatchHasBlocks

(* A prefix-cache hit brings in full blocks of the same conversation, each   *)
(* at its own position.                                                      *)
LEMMA AdmitSharing ==
    ASSUME TypedInv, Sharing, NEW r \in Request, NEW c \in Conversation, Admit(r, c)
    PROVE  Sharing'
  <1>1. PICK hit \in CachedChain(c) :
            /\ Len(hit) * Group < MaxModelLen
            /\ conversation' = [conversation EXCEPT ![r] = c]
            /\ block_table' = [block_table EXCEPT ![r] = hit]
            /\ num_computed' = [num_computed EXCEPT ![r] = Len(hit) * Group]
            /\ block_hash' = block_hash /\ pass = 0 /\ pass' = pass
    BY DEF Admit
  <1>2. /\ hit \in Seq(Block) /\ Len(hit) \in Nat
        /\ \A i \in 1 .. Len(hit) : block_hash[hit[i]] = <<c, i - 1>>
    BY ChainIsCached
  <1>3. /\ block_table'[r] = hit /\ conversation'[r] = c
        /\ num_computed'[r] = Len(hit) * Group
        /\ \A q \in Request \ {r} : /\ block_table'[q] = block_table[q]
                                    /\ conversation'[q] = conversation[q]
                                    /\ num_computed'[q] = num_computed[q]
    BY <1>1 DEF TypedInv, ServingTypeOK
  <1>4. \A i \in 1 .. Len(hit) : i * Group <= Len(hit) * Group
    BY <1>2, TimesGroupMonotone
  <1>5. \A i \in 1 .. Len(hit) : <<c, i - 1>> # NoHash
    BY DEF NoHash
  <1>6. \A q \in Request \ {r} : \A i \in 1 .. Len(hit), j \in 1 .. Len(block_table[q]) :
            hit[i] = block_table[q][j] =>
                /\ i = j /\ conversation[q] = c
                /\ i * Group <= num_computed[q]
    <2> SUFFICES ASSUME NEW q \in Request \ {r}, NEW i \in 1 .. Len(hit),
                        NEW j \in 1 .. Len(block_table[q]), hit[i] = block_table[q][j]
                 PROVE  /\ i = j /\ conversation[q] = c
                        /\ i * Group <= num_computed[q]
      OBVIOUS
    <2>1. block_hash[block_table[q][j]] = <<c, i - 1>>
      BY <1>2
    <2>2. <<c, i - 1>> = <<conversation[q], j - 1>> /\ j * Group <= num_computed[q]
      BY <2>1, <1>5 DEF Sharing, KeysAreFull
    <2>3. block_table[q] \in Seq(Block)
      BY DEF TypedInv, ServingTypeOK
    <2>4. i - 1 = j - 1 /\ i \in Int /\ j \in Int
      BY <2>2, <2>3, <1>2
    <2> QED BY <2>2, <2>4
  <1>7. OneColumn'
    <2>1. \A i, j \in 1 .. Len(hit) : hit[i] = hit[j] => i = j
      <3> SUFFICES ASSUME NEW i \in 1 .. Len(hit), NEW j \in 1 .. Len(hit), hit[i] = hit[j]
                   PROVE  i = j
        OBVIOUS
      <3>1. <<c, i - 1>> = <<c, j - 1>>
        BY <1>2
      <3>2. i - 1 = j - 1
        BY <3>1
      <3> QED BY <3>2, <1>2
    <2> QED BY <2>1, <1>3 DEF Sharing, OneColumn
  <1>8. SharedAreFull'
    <2> SUFFICES ASSUME NEW p \in Request, NEW q \in Request,
                        NEW i \in 1 .. Len(block_table'[p]),
                        NEW j \in 1 .. Len(block_table'[q]),
                        p # q, block_table'[p][i] = block_table'[q][j]
                 PROVE  /\ i = j
                        /\ conversation'[p] = conversation'[q]
                        /\ i * Group <= num_computed'[p]
      BY DEF SharedAreFull
    <2>1. CASE p = r
      BY <2>1, <1>3, <1>4, <1>6
    <2>2. CASE q = r
      BY <2>2, <1>3, <1>6
    <2>3. CASE p # r /\ q # r
      BY <2>3, <1>3 DEF Sharing, SharedAreFull
    <2> QED BY <2>1, <2>2, <2>3
  <1>9. KeysAreFull'
    <2> SUFFICES ASSUME NEW q \in Request, NEW j \in 1 .. Len(block_table'[q]),
                        block_hash[block_table'[q][j]] # NoHash
                 PROVE  /\ block_hash[block_table'[q][j]] = <<conversation'[q], j - 1>>
                        /\ j * Group <= num_computed'[q]
      BY <1>1 DEF KeysAreFull
    <2>1. CASE q = r
      BY <2>1, <1>2, <1>3, <1>4
    <2>2. CASE q # r
      <3>1. /\ block_table'[q] = block_table[q] /\ conversation'[q] = conversation[q]
            /\ num_computed'[q] = num_computed[q]
        BY <1>3, <2>2
      <3>2. j \in 1 .. Len(block_table[q]) /\ block_hash[block_table[q][j]] # NoHash
        BY <3>1
      <3>3. /\ block_hash[block_table[q][j]] = <<conversation[q], j - 1>>
            /\ j * Group <= num_computed[q]
        BY <3>2 DEF Sharing, KeysAreFull
      <3> QED BY <3>1, <3>3
    <2> QED BY <2>1, <2>2
  <1>10. BatchHasBlocks'
    <2>1. pass' # 1
      BY <1>1
    <2> QED
      BY <2>1 DEF BatchHasBlocks
  <1> QED BY <1>7, <1>8, <1>9, <1>10 DEF Sharing

(* A request that leaves shares nothing any more.                            *)
LEMMA ReleaseSharing ==
    ASSUME TypedInv, Sharing, NEW r \in Request, Release(r)
    PROVE  Sharing'
  <1>1. /\ block_table'[r] = <<>> /\ block_hash' = block_hash /\ pass = 0 /\ pass' = pass
        /\ \A q \in Request \ {r} : /\ block_table'[q] = block_table[q]
                                    /\ conversation'[q] = conversation[q]
                                    /\ num_computed'[q] = num_computed[q]
    BY DEF Release, TypedInv, ServingTypeOK
  <1>2. \A q \in Request : \A i \in 1 .. Len(block_table'[q]) : q # r
    BY <1>1
  <1>3. OneColumn'
    BY <1>1, <1>2 DEF Sharing, OneColumn
  <1>5. KeysAreFull'
    <2> SUFFICES ASSUME NEW q \in Request, NEW j \in 1 .. Len(block_table'[q]),
                        block_hash[block_table'[q][j]] # NoHash
                 PROVE  /\ block_hash[block_table'[q][j]] = <<conversation'[q], j - 1>>
                        /\ j * Group <= num_computed'[q]
      BY <1>1 DEF KeysAreFull
    <2>1. q # r
      BY <1>2
    <2>2. /\ block_table'[q] = block_table[q] /\ conversation'[q] = conversation[q]
          /\ num_computed'[q] = num_computed[q]
      BY <2>1, <1>1
    <2>3. j \in 1 .. Len(block_table[q]) /\ block_hash[block_table[q][j]] # NoHash
      BY <2>2
    <2>4. /\ block_hash[block_table[q][j]] = <<conversation[q], j - 1>>
          /\ j * Group <= num_computed[q]
      BY <2>3 DEF Sharing, KeysAreFull
    <2> QED BY <2>2, <2>4
  <1>4. SharedAreFull'
    BY <1>1, <1>2 DEF Sharing, SharedAreFull
  <1> QED BY <1>1, <1>3, <1>4, <1>5 DEF Sharing, BatchHasBlocks

(* New blocks come from nobody's table and carry no cache key; a row gets     *)
(* enough of them for what it is about to write.                             *)
LEMMA ScheduleSharing ==
    ASSUME TypedInv, Sharing, NEW rows \in SUBSET Running,
           NEW query \in [rows -> 1 .. MaxQueryLen], Schedule(rows, query)
    PROVE  Sharing'
  <1> DEFINE total(r) == Greater(Len(block_table[r]),
                            BlocksFor(num_computed[r] + query[r] + DraftPasses))
             grown    == UNION {{r} \X (Len(block_table[r]) + 1 .. total(r)) : r \in rows}
  <1>1. PICK new \in Injection(grown, FreeBlocks) :
            /\ block_table' = [r \in Request |->
                    IF r \notin rows THEN block_table[r]
                    ELSE [i \in 1 .. total(r) |->
                            IF <<r, i>> \in grown THEN new[<<r, i>>] ELSE block_table[r][i]]]
            /\ block_hash' = [b \in Block |->
                    IF b \in Range(new) THEN NoHash ELSE block_hash[b]]
    BY DEF Schedule
  <1>2. /\ rows \subseteq Request
        /\ block_table \in [Request -> Seq(Block)]
        /\ block_table' \in [Request -> Seq(Block)]
        /\ num_computed \in [Request -> 0 .. MaxModelLen]
    BY ScheduleTyped DEF TypedInv, ServingTypeOK, Running
  <1>3. \A r \in rows : /\ total(r) \in Nat /\ Len(block_table[r]) \in Nat
                        /\ num_computed[r] + query[r] <= total(r) * Group
    <2> TAKE r \in rows
    <2> DEFINE n == num_computed[r] + query[r] + DraftPasses
    <2>1. n \in Nat /\ num_computed[r] + query[r] \in Nat /\ DraftPasses \in Nat
      BY <1>2, ServingAssumption
    <2>2. num_computed[r] + query[r] <= n
      BY <2>1
    <2> HIDE DEF n
    <2>3. BlocksFor(n) \in Nat /\ n <= BlocksFor(n) * Group
      BY <2>1, BlocksForEnough
    <2>4. Len(block_table[r]) \in Nat
      BY <1>2
    <2>5. total(r) \in Nat /\ BlocksFor(n) <= total(r)
      BY <2>3, <2>4 DEF Greater, n
    <2> HIDE DEF total
    <2>6. BlocksFor(n) * Group <= total(r) * Group /\ BlocksFor(n) * Group \in Nat
          /\ total(r) * Group \in Nat
      BY <2>3, <2>5, TimesGroupMonotone
    <2> QED BY <2>1, <2>2, <2>3, <2>4, <2>5, <2>6
  <1>4. /\ \A e \in grown : new[e] \in FreeBlocks
        /\ \A e, f \in grown : new[e] = new[f] => e = f
        /\ DOMAIN new = grown
    BY <1>1 DEF Injection, IsInjective
  <1>5. \A r \in Request : \A i \in 1 .. Len(block_table[r]) :
            block_table[r][i] \notin FreeBlocks
    BY <1>2 DEF FreeBlocks, Range
  <1>6. \A r, i : <<r, i>> \in grown <=>
                    r \in rows /\ i \in Len(block_table[r]) + 1 .. total(r)
    OBVIOUS
  <1>7. /\ batch' = query /\ pass' = 1
        /\ conversation' = conversation /\ num_computed' = num_computed
    BY DEF Schedule
  \* Every entry of a new table is an old one at its old place, or fresh.
  <1>8. \A r \in Request : \A i \in 1 .. Len(block_table'[r]) :
            \/ <<r, i>> \in grown /\ block_table'[r][i] = new[<<r, i>>]
            \/ i \in 1 .. Len(block_table[r]) /\ block_table'[r][i] = block_table[r][i]
    <2> SUFFICES ASSUME NEW r \in Request, NEW i \in 1 .. Len(block_table'[r])
                 PROVE  \/ <<r, i>> \in grown /\ block_table'[r][i] = new[<<r, i>>]
                        \/ /\ i \in 1 .. Len(block_table[r])
                           /\ block_table'[r][i] = block_table[r][i]
      OBVIOUS
    <2>1. CASE r \notin rows
      BY <2>1, <1>1
    <2>2. CASE r \in rows
      <3> HIDE DEF total, grown
      <3>1. block_table'[r] = [k \in 1 .. total(r) |->
                IF <<r, k>> \in grown THEN new[<<r, k>>] ELSE block_table[r][k]]
        BY <2>2, <1>1
      <3>2. Len(block_table'[r]) = total(r)
        BY <3>1, <2>2, <1>3
      <3>3. i \in 1 .. total(r)
        BY <3>2
      <3>4. CASE <<r, i>> \in grown
        BY <3>1, <3>3, <3>4
      <3>5. CASE <<r, i>> \notin grown
        <4>1. i \in 1 .. Len(block_table[r])
          BY <3>3, <3>5, <2>2, <1>3, <1>6
        <4> QED BY <4>1, <3>1, <3>3, <3>5
      <3> QED BY <3>4, <3>5
    <2> QED BY <2>1, <2>2
  <1>9. \A r \in rows : Len(block_table'[r]) = total(r)
    <2> TAKE r \in rows
    <2> HIDE DEF total, grown
    <2>1. block_table'[r] = [k \in 1 .. total(r) |->
              IF <<r, k>> \in grown THEN new[<<r, k>>] ELSE block_table[r][k]]
      BY <1>1, <1>2
    <2> QED BY <2>1, <1>3
  <1> HIDE DEF total, grown
  <1> DEFINE Fresh(r, i) == <<r, i>> \in grown /\ block_table'[r][i] = new[<<r, i>>]
             Old(r, i) == i \in 1 .. Len(block_table[r]) /\ block_table'[r][i] = block_table[r][i]
  <1>a. \A r \in Request : \A i \in 1 .. Len(block_table'[r]) : Fresh(r, i) \/ Old(r, i)
    BY <1>8
  <1>b. \A r \in Request : \A i \in 1 .. Len(block_table'[r]) :
            Fresh(r, i) => /\ block_table'[r][i] \in FreeBlocks
                           /\ block_table'[r][i] \in Range(new)
    BY <1>4 DEF Range
  <1>c. \A r \in Request : \A i \in 1 .. Len(block_table'[r]) :
            Old(r, i) => block_table'[r][i] \notin FreeBlocks
    BY <1>5
  <1>d. ASSUME NEW r \in Request, NEW q \in Request,
               NEW i \in 1 .. Len(block_table'[r]), NEW j \in 1 .. Len(block_table'[q]),
               Fresh(r, i), Fresh(q, j), block_table'[r][i] = block_table'[q][j]
        PROVE  r = q /\ i = j
    <2>1. <<r, i>> = <<q, j>>
      BY <1>d, <1>4
    <2> QED BY <2>1
  <1> HIDE DEF Fresh
  <1>e. ASSUME NEW r \in Request, NEW q \in Request,
               NEW i \in 1 .. Len(block_table'[r]), NEW j \in 1 .. Len(block_table'[q]),
               r # q \/ i # j, block_table'[r][i] = block_table'[q][j]
        PROVE  Old(r, i) /\ Old(q, j)
    <2>1. ~(Fresh(r, i) /\ Fresh(q, j))
      BY <1>d, <1>e
    <2> HIDE DEF Old
    <2> QED BY <2>1, <1>a, <1>b, <1>c, <1>e
  <1>10. OneColumn'
    <2> SUFFICES ASSUME NEW r \in Request, NEW i \in 1 .. Len(block_table'[r]),
                        NEW j \in 1 .. Len(block_table'[r]),
                        block_table'[r][i] = block_table'[r][j], i # j
                 PROVE  FALSE
      BY DEF OneColumn
    <2>1. Old(r, i) /\ Old(r, j)
      BY <1>e
    <2> QED BY <2>1 DEF Sharing, OneColumn
  <1>11. SharedAreFull'
    <2> SUFFICES ASSUME NEW r \in Request, NEW q \in Request,
                        NEW i \in 1 .. Len(block_table'[r]),
                        NEW j \in 1 .. Len(block_table'[q]),
                        r # q, block_table'[r][i] = block_table'[q][j]
                 PROVE  /\ i = j
                        /\ conversation[r] = conversation[q]
                        /\ i * Group <= num_computed[r]
      BY <1>7 DEF SharedAreFull
    <2>1. Old(r, i) /\ Old(q, j)
      BY <1>e
    <2> QED BY <2>1 DEF Sharing, SharedAreFull
  <1>12. KeysAreFull'
    <2> SUFFICES ASSUME NEW q \in Request, NEW j \in 1 .. Len(block_table'[q]),
                        block_hash'[block_table'[q][j]] # NoHash
                 PROVE  /\ block_hash'[block_table'[q][j]] = <<conversation[q], j - 1>>
                        /\ j * Group <= num_computed[q]
      BY <1>7 DEF KeysAreFull
    <2>1. block_table'[q][j] \in Block
      BY <1>2
    <2>2. /\ block_table'[q][j] \notin Range(new)
          /\ block_hash'[block_table'[q][j]] = block_hash[block_table'[q][j]]
      BY <2>1, <1>1
    <2>3. Old(q, j)
      BY <2>2, <1>a, <1>b
    <2> QED BY <2>2, <2>3 DEF Sharing, KeysAreFull
  <1>13. BatchHasBlocks'
    BY <1>3, <1>7, <1>9 DEF BatchHasBlocks
  <1> QED BY <1>10, <1>11, <1>12, <1>13 DEF Sharing

(* A step that leaves the tables and the keys alone keeps the discipline.    *)
LEMMA FrameSharing ==
    ASSUME Sharing, UNCHANGED engineVars, pass' # 1 \/ UNCHANGED <<pass, batch>>
    PROVE  Sharing'
  <1>1. OneColumn'
    BY DEF Sharing, OneColumn, engineVars
  <1>2. SharedAreFull'
    BY DEF Sharing, SharedAreFull, engineVars
  <1>3. KeysAreFull'
    BY DEF Sharing, KeysAreFull, engineVars
  <1>4. BatchHasBlocks'
    BY DEF Sharing, BatchHasBlocks, engineVars
  <1> QED BY <1>1, <1>2, <1>3, <1>4 DEF Sharing

(* The keys a step adds are those of blocks its rows have filled, and all    *)
(* holders of such a block agree on its place and have it behind them.       *)
LEMMA ExecuteSharing ==
    ASSUME TypedInv, Sharing, NEW accepted \in [DOMAIN batch -> 1 .. MaxQueryLen],
           ExecuteModel(accepted)
    PROVE  Sharing'
  <1> DEFINE done == [r \in Request |-> num_computed[r] +
                          IF r \in DOMAIN batch THEN accepted[r] ELSE 0]
             completed(b, h) ==
                \E r \in DOMAIN batch : \E i \in 1 .. done[r] \div Group :
                    block_table[r][i] = b /\ h = <<conversation[r], i - 1>>
             Keys == Conversation \X (0 .. MaxModelLen)
  <1>1. /\ num_computed' = done
        /\ block_table' = block_table /\ conversation' = conversation
        /\ block_hash' = [b \in Block |->
              IF \E h \in Keys : completed(b, h)
              THEN CHOOSE h \in Keys : completed(b, h)
              ELSE block_hash[b]]
        /\ pass = 1 /\ EndPass
        /\ \A r \in DOMAIN batch : accepted[r] <= batch[r]
    BY DEF ExecuteModel
  <1>f. block_table' = block_table /\ conversation' = conversation /\ num_computed' = done
    BY <1>1
  <1>2. /\ num_computed \in [Request -> 0 .. MaxModelLen]
        /\ block_table \in [Request -> Seq(Block)]
        /\ DOMAIN batch \subseteq Request
        /\ batch \in [DOMAIN batch -> 1 .. MaxQueryLen]
        /\ MaxModelLen \in Nat /\ MaxQueryLen \in Nat
    BY ServingAssumption DEF TypedInv, ServingTypeOK, BatchFits
  <1>3. \A r \in Request : /\ done[r] \in Nat
                           /\ num_computed[r] <= done[r]
                           /\ r \in DOMAIN batch => done[r] <= num_computed[r] + batch[r]
    <2> TAKE r \in Request
    <2>1. CASE r \in DOMAIN batch
      <3>1. accepted[r] \in 1 .. MaxQueryLen /\ batch[r] \in 1 .. MaxQueryLen
            /\ accepted[r] <= batch[r]
        BY <2>1, <1>1, <1>2
      <3> QED BY <2>1, <3>1, <1>2
    <2>2. CASE r \notin DOMAIN batch
      BY <2>2, <1>2
    <2> QED BY <2>1, <2>2
  <1> HIDE DEF done
  <1>4. ASSUME NEW r \in DOMAIN batch, NEW i \in 1 .. done[r] \div Group
        PROVE  i \in 1 .. Len(block_table[r]) /\ i * Group <= done[r] /\ i \in Nat
    <2>1. r \in Request /\ done[r] \in Nat /\ Len(block_table[r]) \in Nat
      BY <1>2, <1>3
    <2>2. done[r] <= Len(block_table[r]) * Group
      <3>1. done[r] <= num_computed[r] + batch[r]
        BY <2>1, <1>3
      <3>2. num_computed[r] + batch[r] <= Len(block_table[r]) * Group
        BY <1>1 DEF Sharing, BatchHasBlocks
      <3>3. num_computed[r] + batch[r] \in Nat
        BY <2>1, <1>2
      <3>4. Len(block_table[r]) * Group \in Nat
        BY <2>1, GroupAssumption
      <3> QED BY <2>1, <3>1, <3>2, <3>3, <3>4
    <2>3. /\ done[r] \div Group \in Nat
          /\ (done[r] \div Group) * Group <= done[r]
      BY <2>1, DivisionBounds
    <2>4. i \in Nat /\ i <= done[r] \div Group /\ 1 <= i
      BY <2>3
    <2>5. i * Group <= (done[r] \div Group) * Group /\ i * Group \in Nat
          /\ (done[r] \div Group) * Group \in Nat
      BY <2>3, <2>4, TimesGroupMonotone
    <2>6. i * Group <= done[r]
      BY <2>1, <2>3, <2>5
    <2>7. i * Group <= Len(block_table[r]) * Group
      <3>1. Len(block_table[r]) * Group \in Nat
        BY <2>1, GroupAssumption
      <3> QED BY <2>1, <2>2, <2>5, <2>6, <3>1
    <2>8. i <= Len(block_table[r])
      BY <2>1, <2>4, <2>7, TimesGroupReflects
    <2> QED BY <2>1, <2>4, <2>6, <2>8
  <1>5. \A q \in Request : \A j \in 1 .. Len(block_table[q]) :
            j * Group <= num_computed[q] => j * Group <= done[q]
    <2> TAKE q \in Request
    <2> TAKE j \in 1 .. Len(block_table[q])
    <2>1. j \in Nat /\ j * Group \in Nat
      BY <1>2, GroupAssumption
    <2> QED BY <2>1, <1>2, <1>3
  <1>6. OneColumn'
    BY <1>1 DEF Sharing, OneColumn
  <1>7. SharedAreFull'
    <2> SUFFICES ASSUME NEW r \in Request, NEW q \in Request,
                        NEW i \in 1 .. Len(block_table[r]),
                        NEW j \in 1 .. Len(block_table[q]),
                        r # q, block_table[r][i] = block_table[q][j]
                 PROVE  /\ i = j
                        /\ conversation[r] = conversation[q]
                        /\ i * Group <= done[r]
      BY <1>f DEF SharedAreFull
    <2> QED BY <1>5 DEF Sharing, SharedAreFull
  <1>8. KeysAreFull'
    <2> SUFFICES ASSUME NEW q \in Request, NEW j \in 1 .. Len(block_table[q]),
                        block_hash'[block_table[q][j]] # NoHash
                 PROVE  /\ block_hash'[block_table[q][j]] = <<conversation[q], j - 1>>
                        /\ j * Group <= done[q]
      BY <1>f DEF KeysAreFull
    <2> DEFINE b == block_table[q][j]
    <2>1. b \in Block
      BY <1>2
    <2> HIDE DEF Keys, completed
    <2>2. CASE \E h \in Keys : completed(b, h)
      <3>1. block_hash'[b] = CHOOSE h \in Keys : completed(b, h)
        BY <2>1, <2>2, <1>1
      <3>2. completed(b, block_hash'[b])
        BY <2>2, <3>1
      <3>a. PICK r \in DOMAIN batch : \E i \in 1 .. done[r] \div Group :
                block_table[r][i] = b /\ block_hash'[b] = <<conversation[r], i - 1>>
        BY <3>2 DEF completed
      <3>3. PICK i \in 1 .. done[r] \div Group :
                block_table[r][i] = b /\ block_hash'[b] = <<conversation[r], i - 1>>
        BY <3>a
      <3>4. i \in 1 .. Len(block_table[r]) /\ i * Group <= done[r] /\ r \in Request
        BY <1>2, <1>4
      <3>5. CASE r = q
        <4>1. i = j
          BY <3>3, <3>4, <3>5 DEF Sharing, OneColumn
        <4> QED BY <3>3, <3>4, <3>5, <4>1
      <3>6. CASE r # q
        <4>1. /\ i = j /\ conversation[r] = conversation[q]
              /\ j * Group <= num_computed[q]
          BY <3>3, <3>4, <3>6 DEF Sharing, SharedAreFull
        <4> QED BY <3>3, <4>1, <1>5
      <3> QED BY <3>5, <3>6
    <2>3. CASE ~\E h \in Keys : completed(b, h)
      <3>1. block_hash'[b] = block_hash[b]
        BY <2>1, <2>3, <1>1
      <3>2. /\ block_hash[b] = <<conversation[q], j - 1>>
            /\ j * Group <= num_computed[q]
        BY <3>1 DEF Sharing, KeysAreFull
      <3> QED BY <3>1, <3>2, <1>5
    <2> QED BY <2>2, <2>3
  <1>9. BatchHasBlocks'
    BY <1>1, EndPassTyped DEF BatchHasBlocks
  <1> QED BY <1>6, <1>7, <1>8, <1>9 DEF Sharing

-----------------------------------------------------------------------------
(* From the discipline: what one row writes, no row's walk flushes.         *)

(* No block the batch writes is flushed by the same build: the flush walk    *)
(* stops at the committed boundary, the writes start there.                  *)
LEMMA WritesMissFlushes ==
    ASSUME TypedInv, Sharing
    PROVE  Written(BatchRows) \cap FlushDetected(BatchRows) = {}
  <1> SUFFICES ASSUME NEW b, b \in Written(BatchRows), b \in FlushDetected(BatchRows)
               PROVE  FALSE
    OBVIOUS
  <1> DEFINE row(r) == [table |-> block_table[r], committed |-> num_computed[r],
                        seq_len |-> num_computed[r] + batch[r]]
  <1>1. PICK r \in DOMAIN batch : \E k \in WrittenCols(row(r)) : b = Col(row(r), k)
    BY DEF Written, BatchRows
  <1>2. PICK k \in WrittenCols(row(r)) : b = Col(row(r), k)
    BY <1>1
  <1>3. PICK q \in DOMAIN batch : b \in WalkedBack(row(q), BatchRows)
    BY DEF FlushDetected, BatchRows
  <1>4. PICK j \in 1 .. FlushTop(row(q)) : b = Col(row(q), j)
    BY <1>3 DEF WalkedBack
  <1>5. /\ r \in Request /\ q \in Request
        /\ num_computed[r] \in Nat /\ num_computed[q] \in Nat
        /\ block_table[r] \in Seq(Block) /\ block_table[q] \in Seq(Block)
        /\ Len(block_table[r]) \in Nat /\ Len(block_table[q]) \in Nat
    BY DEF TypedInv, ServingTypeOK
  <1>6. /\ k \in Nat /\ k + 1 \in 1 .. Len(block_table[r])
        /\ num_computed[r] \div Group <= k /\ b = block_table[r][k + 1]
    BY <1>2, <1>5 DEF WrittenCols, LastCol, Col
  <1>7. num_computed[q] \div Group \in Nat /\ num_computed[r] \div Group \in Nat
    BY <1>5, DivisionBounds
  <1>8. /\ j \in Nat /\ j + 1 \in 1 .. Len(block_table[q])
        /\ j + 1 <= num_computed[q] \div Group /\ b = block_table[q][j + 1]
    BY <1>4, <1>5, <1>7 DEF FlushTop, Lesser, LastCol, Col
  <1>9. CASE r = q
    <2>1. k + 1 = j + 1
      BY <1>6, <1>8, <1>9, <1>5 DEF Sharing, OneColumn
    <2> QED BY <2>1, <1>6, <1>7, <1>8, <1>9
  <1>10. CASE r # q
    <2> DEFINE m == k + 1
    <2>m. m \in 1 .. Len(block_table[r]) /\ b = block_table[r][m]
      BY <1>6
    <2> HIDE DEF m
    <2>n. m * Group <= num_computed[r]
      BY <2>m, <1>5, <1>8, <1>10 DEF Sharing, SharedAreFull
    <2>1. (k + 1) * Group <= num_computed[r]
      BY <2>n DEF m
    <2>2. num_computed[r] < (num_computed[r] \div Group) * Group + Group
      BY <1>5, DivisionBounds
    <2>3. (num_computed[r] \div Group) * Group <= k * Group /\ k * Group \in Nat
          /\ (num_computed[r] \div Group) * Group \in Nat
      BY <1>6, <1>7, TimesGroupMonotone
    <2>4. (k + 1) * Group = k * Group + Group
      BY <1>6, GroupAssumption
    <2> QED BY <2>1, <2>2, <2>3, <2>4, <1>5, GroupAssumption
  <1> QED BY <1>9, <1>10

ServingInv == TypedInv /\ Sharing /\ SinkBookkeeping

(* The invariant holds at the start.                                         *)
LEMMA InitServing == ServingInit => ServingInv
  BY InitTyped, InitSharing DEF ServingInv, SinkBookkeeping, ServingInit, PoolInit, Held

(* Labels and fills move with the allocator's state only.                    *)
LEMMA PoolFrameBookkeeping ==
    ASSUME SinkBookkeeping, UNCHANGED <<block_to_slot, sinks, retired_sinks, block_fill>>
    PROVE  SinkBookkeeping'
  BY DEF SinkBookkeeping, Held

(* The build of a forward pass keeps labels and fills with the slots.        *)
LEMMA ExecuteBookkeeping ==
    ASSUME ServingInv, NEW accepted \in [DOMAIN batch -> 1 .. MaxQueryLen],
           ExecuteModel(accepted)
    PROVE  SinkBookkeeping'
  <1>1. PICK evicted : Built(BatchRows, AllowFlush(0), evicted)
    BY DEF ExecuteModel, Built
  <1>2. BatchRows \in SUBSET Row /\ AllowFlush(0) \in BOOLEAN
    BY RowsTyped DEF ServingInv, AllowFlush
  <1> QED BY <1>1, <1>2, WritesMissFlushes, BuildPreservesFill DEF ServingInv, TypedInv

(* The build of a drafter pass keeps labels and fills with the slots.        *)
LEMMA DraftPassBookkeeping ==
    ASSUME ServingInv, DraftPass
    PROVE  SinkBookkeeping'
  <1> DEFINE i == pass - 1
  <1>1. PICK evicted : Built(DraftRows(i), AllowFlush(i), evicted)
    BY DEF DraftPass, Built
  <1>2. i \in Nat \ {0}
    BY ServingAssumption DEF DraftPass, ServingInv, TypedInv, ServingTypeOK
  <1>3. DraftRows(i) \in SUBSET Row /\ AllowFlush(i) = FALSE
    BY <1>2, RowsTyped DEF ServingInv, AllowFlush
  <1> HIDE DEF i
  <1> QED BY <1>1, <1>3, BuildPreservesFill DEF ServingInv, TypedInv

(* Every step keeps the serving invariant.                                   *)
LEMMA StepServing == ServingInv /\ [Next]_vars => ServingInv'
  <1> SUFFICES ASSUME ServingInv, [Next]_vars PROVE ServingInv'
    OBVIOUS
  <1>1. TypedInv'
    BY StepTyped DEF ServingInv
  <1> USE DEF ServingInv
  <1>2. CASE \E r \in Request, c \in Conversation : Admit(r, c)
    <2>1. SinkBookkeeping'
      BY <1>2, PoolFrameBookkeeping DEF Admit, poolVars
    <2> QED BY <1>1, <1>2, <2>1, AdmitSharing
  <1>3. CASE \E rows \in SUBSET Running : \E query \in [rows -> 1 .. MaxQueryLen] :
                Schedule(rows, query)
    <2>1. SinkBookkeeping'
      BY <1>3, PoolFrameBookkeeping DEF Schedule, poolVars
    <2> QED BY <1>1, <1>3, <2>1, ScheduleSharing
  <1>4. CASE \E r \in Request : Release(r)
    <2>1. SinkBookkeeping'
      BY <1>4, PoolFrameBookkeeping DEF Release, poolVars
    <2> QED BY <1>1, <1>4, <2>1, ReleaseSharing
  <1>5. CASE \E accepted \in [DOMAIN batch -> 1 .. MaxQueryLen] : ExecuteModel(accepted)
    BY <1>1, <1>5, ExecuteSharing, ExecuteBookkeeping
  <1>6. CASE DraftPass
    <2>1. UNCHANGED engineVars /\ EndPass /\ pass >= 1
      BY <1>6, ServingAssumption DEF DraftPass, TypedInv, ServingTypeOK
    <2>2. pass' # 1
      BY <2>1, EndPassTyped
    <2> QED BY <1>1, <1>6, <2>1, <2>2, FrameSharing, DraftPassBookkeeping
  <1>7. CASE Exhausted
    <2>1. SinkBookkeeping'
      BY <1>7, PoolFrameBookkeeping DEF Exhausted, BuildExhausted
    <2>2. UNCHANGED engineVars /\ UNCHANGED <<pass, batch>>
      BY <1>7 DEF Exhausted
    <2> QED BY <1>1, <2>1, <2>2, FrameSharing
  <1>8. CASE UNCHANGED vars
    <2>1. SinkBookkeeping'
      BY <1>8, PoolFrameBookkeeping DEF vars, poolVars
    <2>2. UNCHANGED engineVars /\ UNCHANGED <<pass, batch>>
      BY <1>8 DEF vars
    <2> QED BY <1>1, <2>1, <2>2, FrameSharing
  <1> QED BY <1>2, <1>3, <1>4, <1>5, <1>6, <1>7, <1>8 DEF Next

(* The types, the pool invariant, the sharing discipline and the bookkeeping *)
(* hold in every reachable state.                                            *)
THEOREM ServingAlways == Spec => []ServingInv
  BY InitServing, StepServing, PTL DEF Spec

(* Every sink, live or retired, holds a slot, and the fill of every          *)
(* slot-holding block is known: no build loses the label or the fill of a    *)
(* block that keeps its slot, or keeps those of a block that lost it.        *)
THEOREM SinksBooked == Spec => []SinkBookkeeping
  <1>1. ServingInv => SinkBookkeeping
    BY DEF ServingInv
  <1> QED BY <1>1, ServingAlways, PTL

-----------------------------------------------------------------------------
(* Quantising is permanent.                                                 *)

(* A column a row writes is not full of committed tokens, also when the row  *)
(* counts some of its drafts as committed.                                   *)
LEMMA WrittenIsOpen ==
    ASSUME TypedInv, NEW r \in Request, NEW n \in Nat, num_computed[r] <= n,
           NEW m, NEW k \in WrittenCols([table |-> block_table[r], committed |-> n,
                                         seq_len |-> m])
    PROVE  /\ k + 1 \in 1 .. Len(block_table[r])
           /\ num_computed[r] < (k + 1) * Group
  <1>1. /\ num_computed[r] \in Nat /\ block_table[r] \in Seq(Block)
        /\ Len(block_table[r]) \in Nat
    BY DEF TypedInv, ServingTypeOK
  <1>2. k \in Nat /\ k + 1 \in 1 .. Len(block_table[r]) /\ n \div Group <= k
    BY <1>1 DEF WrittenCols, LastCol
  <1>3. /\ n \div Group \in Nat
        /\ n < (n \div Group) * Group + Group
    BY DivisionBounds
  <1>4. (n \div Group) * Group <= k * Group /\ k * Group \in Nat
        /\ (n \div Group) * Group \in Nat
    BY <1>2, <1>3, TimesGroupMonotone
  <1>5. (k + 1) * Group = k * Group + Group
    BY <1>2, GroupAssumption
  <1> QED BY <1>1, <1>2, <1>3, <1>4, <1>5, GroupAssumption

(* No block in the prefix cache is written, by a step or by a drafter pass.  *)
LEMMA WrittenHasNoKey ==
    ASSUME TypedInv, Sharing
    PROVE  /\ \A b \in Written(BatchRows) : block_hash[b] = NoHash
           /\ \A i \in Nat \ {0} : \A b \in Written(DraftRows(i)) : block_hash[b] = NoHash
  <1>1. ASSUME NEW r \in DOMAIN batch, NEW n \in Nat, num_computed[r] <= n, NEW m,
               NEW k \in WrittenCols([table |-> block_table[r], committed |-> n,
                                      seq_len |-> m])
        PROVE  block_hash[block_table[r][k + 1]] = NoHash
    <2>1. r \in Request /\ num_computed[r] \in Nat
      BY DEF TypedInv, ServingTypeOK
    <2> DEFINE j == k + 1
    <2>2. j \in 1 .. Len(block_table[r]) /\ num_computed[r] < j * Group
      BY <1>1, <2>1, WrittenIsOpen
    <2>3. j * Group \in Nat
      <3>1. block_table[r] \in Seq(Block)
        BY <2>1 DEF TypedInv, ServingTypeOK
      <3>2. j \in Nat
        BY <2>2, <3>1
      <3> HIDE DEF j
      <3> QED BY <3>2, GroupAssumption
    <2> HIDE DEF j
    <2>4. ~(j * Group <= num_computed[r])
      BY <2>1, <2>2, <2>3
    <2>5. block_hash[block_table[r][j]] = NoHash
      BY <2>1, <2>2, <2>4 DEF Sharing, KeysAreFull
    <2> QED BY <2>5 DEF j
  <1>2. \A r \in DOMAIN batch : num_computed[r] \in Nat /\ batch[r] \in Nat
    BY DEF TypedInv, ServingTypeOK, BatchFits
  <1>3. ASSUME NEW b \in Written(BatchRows) PROVE block_hash[b] = NoHash
    <2>1. PICK r \in DOMAIN batch :
            \E k \in WrittenCols([table |-> block_table[r], committed |-> num_computed[r],
                                  seq_len |-> num_computed[r] + batch[r]]) :
                b = block_table[r][k + 1]
      BY <1>3 DEF Written, BatchRows, Col
    <2> QED BY <2>1, <1>1, <1>2
  <1>4. ASSUME NEW i \in Nat \ {0}, NEW b \in Written(DraftRows(i))
        PROVE  block_hash[b] = NoHash
    <2>1. PICK r \in DOMAIN batch :
            \E k \in WrittenCols([table |-> block_table[r],
                                  committed |-> num_computed[r] + i - 1,
                                  seq_len |-> num_computed[r] + i]) :
                b = block_table[r][k + 1]
      BY <1>4 DEF Written, DraftRows, Col
    <2>2. num_computed[r] + i - 1 \in Nat /\ num_computed[r] <= num_computed[r] + i - 1
      BY <1>2
    <2> QED BY <2>1, <2>2, <1>1
  <1> QED BY <1>3, <1>4

(* A block that build() gives a slot anew is one its batch writes: a labelled *)
(* sink has its slot already.                                                *)
LEMMA NewSlotsAreWritten ==
    ASSUME PoolInv, SinkBookkeeping, NEW rows \in SUBSET Row,
           NEW allow_flush \in BOOLEAN, NEW evicted,
           Built(rows, allow_flush, evicted)
    PROVE  Held' \ Held \subseteq Written(rows)
  <1>1. SlotMoves(rows, allow_flush, evicted)
    BY BuildMoves
  <1>2. Held' \ Held \subseteq Needed(rows)
    BY <1>1 DEF SlotMoves, Held
  <1> QED BY <1>2 DEF Needed, SinkBookkeeping

(* Once a cached block left the fp16 pool, no later build gives it a slot,   *)
(* which would shadow its int4 tile with empty memory, until its id is handed *)
(* to a new owner: for every batch, every shared prefix and every drafter     *)
(* pass.                                                                      *)
THEOREM QuantisingIsFinal == Spec => Int4IsFinal
  <1> DEFINE Final == \A b \in Block :
                b \notin Held /\ block_hash[b] # NoHash /\ block_hash'[b] = block_hash[b]
                    => b \notin DOMAIN block_to_slot'
  <1>1. ServingInv /\ [Next]_vars => [Final]_vars
    <2> SUFFICES ASSUME ServingInv, Next PROVE Final
      BY DEF vars
    <2>1. ASSUME UNCHANGED block_to_slot PROVE Final
      BY <2>1 DEF Held
    <2>2. CASE \E accepted \in [DOMAIN batch -> 1 .. MaxQueryLen] : ExecuteModel(accepted)
      <3>1. PICK evicted : Built(BatchRows, AllowFlush(0), evicted)
        BY <2>2 DEF ExecuteModel, Built
      <3>2. BatchRows \in SUBSET Row /\ AllowFlush(0) \in BOOLEAN
        BY RowsTyped DEF ServingInv, AllowFlush
      <3>3. Held' \ Held \subseteq Written(BatchRows)
        BY <3>1, <3>2, NewSlotsAreWritten DEF ServingInv, TypedInv
      <3> QED BY <3>3, WrittenHasNoKey DEF ServingInv, Held
    <2>3. CASE DraftPass
      <3> DEFINE i == pass - 1
      <3>1. PICK evicted : Built(DraftRows(i), AllowFlush(i), evicted)
        BY <2>3 DEF DraftPass, Built
      <3>2. i \in Nat \ {0}
        BY <2>3, ServingAssumption DEF DraftPass, ServingInv, TypedInv, ServingTypeOK
      <3>3. DraftRows(i) \in SUBSET Row /\ AllowFlush(i) \in BOOLEAN
        BY <3>2, RowsTyped DEF ServingInv, AllowFlush
      <3> HIDE DEF i
      <3>4. Held' \ Held \subseteq Written(DraftRows(i))
        BY <3>1, <3>3, NewSlotsAreWritten DEF ServingInv, TypedInv
      <3> QED BY <3>2, <3>4, WrittenHasNoKey DEF ServingInv, Held
    <2> QED BY <2>1, <2>2, <2>3
            DEF Next, Admit, Schedule, Release, Exhausted, BuildExhausted, poolVars
  <1>2. [][Final]_vars => Int4IsFinal
    BY PTL DEF Int4IsFinal
  <1> QED BY <1>1, <1>2, ServingAlways, PTL DEF Spec

-----------------------------------------------------------------------------
(* Running out of slots.                                                    *)

(* The age of retired sinks is a strict order: each one was retired before   *)
(* or after any other, or in the same build.                                 *)
OrderInv ==
    /\ \A a : <<a, a>> \notin retired_before
    /\ \A a, b, c : <<a, b>> \in retired_before /\ <<b, c>> \in retired_before
                        => <<a, c>> \in retired_before

(* A nonempty set of numbers has a least one.                                *)
LEMMA LeastNat ==
    ASSUME NEW T, T \subseteq Nat, T # {}
    PROVE  \E x \in T : \A y \in T : x <= y
  <1>1. \E R : IsWellFoundedOn(R, Nat) /\ \A x, y \in Nat : x < y => <<x, y>> \in R
    <2> DEFINE R == OpToRel(<, Nat)
    <2>1. IsWellFoundedOn(R, Nat)
      BY NatLessThanWellFounded
    <2>2. \A x, y \in Nat : x < y => <<x, y>> \in R
      BY DEF OpToRel
    <2> HIDE DEF R
    <2> QED BY <2>1, <2>2
  <1>2. PICK R : IsWellFoundedOn(R, Nat) /\ \A x, y \in Nat : x < y => <<x, y>> \in R
    BY <1>1
  <1>3. IsWellFoundedOn(R, Nat)
    BY <1>2
  <1>4. \E x \in T : \A y \in T : ~(<<y, x>> \in R)
    BY <1>3, WFMin, Zenon
  <1>5. PICK x \in T : \A y \in T : ~(y < x)
    BY <1>2, <1>4
  <1>6. \A y \in T : x <= y
    BY <1>5
  <1> QED BY <1>6

(* A finite nonempty set has an element that nothing in it precedes.         *)
LEMMA FirstElement ==
    ASSUME NEW R, IsFiniteSet(R), R # {}, NEW O,
           \A a \in R : <<a, a>> \notin O,
           \A a, b, c \in R : <<a, b>> \in O /\ <<b, c>> \in O => <<a, c>> \in O
    PROVE  \E x \in R : \A y \in R : <<y, x>> \notin O
  <1> DEFINE Before(x) == {y \in R : <<y, x>> \in O}
             sizes == {Cardinality(Before(x)) : x \in R}
  <1>1. \A x \in R : IsFiniteSet(Before(x)) /\ Cardinality(Before(x)) \in Nat
    <2> TAKE x \in R
    <2>1. Before(x) \in SUBSET R
      OBVIOUS
    <2>2. IsFiniteSet(Before(x))
      BY <2>1, FS_Subset
    <2> QED BY <2>2, FS_CardinalityType
  <1> HIDE DEF Before
  <1>2. sizes \subseteq Nat /\ sizes # {}
    <2>1. \E x : x \in R
      OBVIOUS
    <2> QED BY <1>1, <2>1
  <1>3. PICK n \in sizes : \A m \in sizes : n <= m
    BY <1>2, LeastNat
  <1>4. PICK x \in R : n = Cardinality(Before(x))
    OBVIOUS
  <1>5. ASSUME NEW y \in R, <<y, x>> \in O PROVE FALSE
    <2>1. Before(y) \in SUBSET Before(x)
      BY <1>5 DEF Before
    <2>2. y \in Before(x) /\ y \notin Before(y)
      BY <1>5 DEF Before
    <2>3. Cardinality(Before(y)) <= Cardinality(Before(x))
          /\ Cardinality(Before(y)) # Cardinality(Before(x))
      BY <1>1, <2>1, <2>2, FS_Subset
    <2>4. Cardinality(Before(y)) \in sizes
      OBVIOUS
    <2>5. n <= Cardinality(Before(y))
      BY <1>3, <2>4
    <2> QED BY <1>1, <1>4, <2>3, <2>5
  <1> QED BY <1>5

(* Of a finite set in a strict order any number of elements can be taken     *)
(* oldest first.                                                             *)
LEMMA OldestFirst ==
    ASSUME NEW R, IsFiniteSet(R), NEW O,
           \A a \in R : <<a, a>> \notin O,
           \A a, b, c \in R : <<a, b>> \in O /\ <<b, c>> \in O => <<a, c>> \in O,
           NEW n \in Nat, n <= Cardinality(R)
    PROVE  \E E \in SUBSET R : /\ Cardinality(E) = n
                               /\ \A e \in E, b \in R \ E : <<b, e>> \notin O
  <1> DEFINE Takes(E, m) == /\ Cardinality(E) = m
                            /\ \A e \in E, b \in R \ E : <<b, e>> \notin O
             bad == {m \in 0 .. Cardinality(R) : ~ \E E \in SUBSET R : Takes(E, m)}
  <1>0. Cardinality(R) \in Nat
    BY FS_CardinalityType
  <1> SUFFICES ASSUME bad # {} PROVE FALSE
    BY <1>0
  <1>1. bad \subseteq Nat
    BY <1>0
  <1>2. PICK m \in bad : \A k \in bad : m <= k
    BY <1>1, LeastNat
  <1>3. m # 0
    <2>1. Takes({}, 0)
      BY FS_EmptySet
    <2> QED BY <2>1
  <1>4. m - 1 \in 0 .. Cardinality(R) /\ m - 1 \notin bad /\ m \in Nat /\ m <= Cardinality(R)
    BY <1>0, <1>2, <1>3
  <1>5. PICK E \in SUBSET R : Takes(E, m - 1)
    BY <1>4
  <1>6. IsFiniteSet(E) /\ R \ E # {} /\ IsFiniteSet(R \ E)
    <2>1. IsFiniteSet(E) /\ Cardinality(E) = m - 1
      BY <1>5, FS_Subset
    <2>2. E # R
      BY <2>1, <1>0, <1>4
    <2>3. IsFiniteSet(R \ E)
      BY FS_Difference
    <2> QED BY <2>1, <2>2, <2>3
  <1>7. PICK x \in R \ E : \A y \in R \ E : <<y, x>> \notin O
    <2> DEFINE S == R \ E
    <2>1. /\ \A a \in S : <<a, a>> \notin O
          /\ \A a, b, c \in S : <<a, b>> \in O /\ <<b, c>> \in O => <<a, c>> \in O
      OBVIOUS
    <2>2. IsFiniteSet(S) /\ S # {}
      BY <1>6
    <2> HIDE DEF S
    <2>3. \E x \in S : \A y \in S : <<y, x>> \notin O
      BY <2>1, <2>2, FirstElement
    <2> QED BY <2>3 DEF S
  <1>8. Cardinality(E \cup {x}) = m
    <2>1. x \notin E /\ Cardinality(E) = m - 1
      BY <1>5, <1>7
    <2>2. Cardinality(E \cup {x}) = Cardinality(E) + 1
      BY <1>6, <2>1, FS_AddElement
    <2> QED BY <1>4, <2>1, <2>2
  <1>9. Takes(E \cup {x}, m)
    BY <1>5, <1>7, <1>8
  <1>10. E \cup {x} \in SUBSET R
    BY <1>7
  <1> QED BY <1>2, <1>9, <1>10

(* The slots of a set of blocks are no more than the blocks.                 *)
LEMMA SlotsOfBlocks ==
    ASSUME NEW S, IsFiniteSet(S)
    PROVE  /\ IsFiniteSet({block_to_slot[b] : b \in S})
           /\ Cardinality({block_to_slot[b] : b \in S}) <= Cardinality(S)
  <1> DEFINE T == {block_to_slot[b] : b \in S}
             f == [b \in S |-> block_to_slot[b]]
  <1>1. f \in Surjection(S, T)
    BY DEF Surjection
  <1> HIDE DEF T, f
  <1>2. IsFiniteSet(T) /\ Cardinality(T) <= Cardinality(S)
    BY <1>1, FS_Surjection
  <1> QED BY <1>2 DEF T

(* The order of a build's retired sinks is strict when that of the earlier   *)
(* ones is.                                                                  *)
LEMMA RetiredOrderStrict ==
    ASSUME OrderInv, NEW rows, NEW allow_flush
    PROVE  /\ \A a : <<a, a>> \notin RetiredOrder(rows, allow_flush)
           /\ \A a, b, c : (<<a, b>> \in RetiredOrder(rows, allow_flush)
                             /\ <<b, c>> \in RetiredOrder(rows, allow_flush))
                               => <<a, c>> \in RetiredOrder(rows, allow_flush)
  <1> DEFINE stay == retired_sinks \ Readopted(rows)
             new == Retiring(rows, allow_flush) \ stay
  <1>1. RetiredOrder(rows, allow_flush) =
            (retired_before \cap (stay \X stay)) \cup (stay \X new)
    BY DEF RetiredOrder
  <1>2. stay \cap new = {}
    OBVIOUS
  <1> HIDE DEF stay, new
  <1>3. \A a, b : <<a, b>> \in RetiredOrder(rows, allow_flush) <=>
            \/ <<a, b>> \in retired_before /\ a \in stay /\ b \in stay
            \/ a \in stay /\ b \in new
    BY <1>1
  <1>4. \A a : <<a, a>> \notin RetiredOrder(rows, allow_flush)
    BY <1>2, <1>3 DEF OrderInv
  <1>5. ASSUME NEW a, NEW b, NEW c,
               <<a, b>> \in RetiredOrder(rows, allow_flush),
               <<b, c>> \in RetiredOrder(rows, allow_flush)
        PROVE  <<a, c>> \in RetiredOrder(rows, allow_flush)
    <2>1. b \in stay /\ a \in stay /\ <<a, b>> \in retired_before
      BY <1>2, <1>3, <1>5
    <2>2. CASE c \in new
      BY <2>1, <2>2, <1>3
    <2>3. CASE <<b, c>> \in retired_before /\ c \in stay
      BY <2>1, <2>3, <1>3 DEF OrderInv
    <2> QED BY <1>3, <1>5, <2>2, <2>3
  <1> QED BY <1>4, <1>5

(* build() raises only when the blocks it must keep or place outnumber the   *)
(* slots: all that is free, dropped or retired is given out first.           *)
LEMMA ExhaustedNeedsMore ==
    ASSUME PoolInv, OrderInv, NEW rows \in SUBSET Row, NEW allow_flush \in BOOLEAN,
           Evictions(rows, allow_flush) = {}
    PROVE  Cardinality(Missing(rows, allow_flush)
                        \cup (Kept(rows, allow_flush) \ RetiredNow(rows, allow_flush)))
                > Cardinality(Slot)
  <1> DEFINE M == Missing(rows, allow_flush)
             A == Available(rows, allow_flush)
             R == RetiredNow(rows, allow_flush)
             X == Kept(rows, allow_flush) \ R
             O == RetiredOrder(rows, allow_flush)
             old == {block_to_slot[b] : b \in R}
             used == {block_to_slot[b] : b \in X}
  <1>1. /\ Held \subseteq Block /\ Dropped(rows, allow_flush) \subseteq Held
        /\ free_slots \subseteq Slot
        /\ \A b \in Held : block_to_slot[b] \in Slot
        /\ \A s \in Slot : s \in free_slots \/ \E b \in Held : block_to_slot[b] = s
    BY DroppedHeld DEF PoolInv, PoolTypeOK, SlotPartition
  <1>2. M \in SUBSET Block /\ R \in SUBSET Block /\ X \in SUBSET Block /\ R \subseteq Held
    <2>1. M \subseteq Block
      BY NeededIsBlocks DEF PoolInv, Missing
    <2>2. R \subseteq Held
      BY RetiredNowFacts DEF PoolInv
    <2>3. X \subseteq Block
      BY <1>1 DEF Kept
    <2> QED BY <1>1, <2>1, <2>2, <2>3
  <1>3. A \in SUBSET Slot
    BY <1>1 DEF Available
  <1>4. Slot \subseteq A \cup (old \cup used)
    BY <1>1 DEF Available, Kept
  <1>5. M \cap X = {}
    BY DEF Missing
  <1>6. Shortfall(rows, allow_flush) =
            IF Cardinality(M) > Cardinality(A) THEN Cardinality(M) - Cardinality(A) ELSE 0
    BY DEF Shortfall
  <1>7. /\ \A a : <<a, a>> \notin O
        /\ \A a, b, c : <<a, b>> \in O /\ <<b, c>> \in O => <<a, c>> \in O
    BY RetiredOrderStrict
  <1>8. \A E \in SUBSET R : ~(/\ Cardinality(E) = Shortfall(rows, allow_flush)
                              /\ \A e \in E, b \in R \ E : <<b, e>> \notin O)
    BY DEF Evictions
  <1> HIDE DEF M, A, R, X, O
  <1>9. /\ IsFiniteSet(M) /\ IsFiniteSet(R) /\ IsFiniteSet(X) /\ IsFiniteSet(A)
        /\ Cardinality(M) \in Nat /\ Cardinality(R) \in Nat
        /\ Cardinality(X) \in Nat /\ Cardinality(A) \in Nat
    <2>1. IsFiniteSet(M) /\ IsFiniteSet(R) /\ IsFiniteSet(X)
      BY <1>2, BlockAssumption, FS_Subset
    <2>2. IsFiniteSet(A)
      BY <1>3, SlotAssumption, FS_Subset
    <2> QED BY <2>1, <2>2, FS_CardinalityType
  <1>10. Shortfall(rows, allow_flush) \in Nat
    BY <1>6, <1>9
  <1>11. Shortfall(rows, allow_flush) > Cardinality(R)
    <2> DEFINE n == Shortfall(rows, allow_flush)
    <2>1. n \in Nat
      BY <1>10
    <2> HIDE DEF n
    <2>2. ASSUME n <= Cardinality(R) PROVE FALSE
      <3>1. \A a \in R : <<a, a>> \notin O
        BY <1>7
      <3>2. \A a, b, c \in R : <<a, b>> \in O /\ <<b, c>> \in O => <<a, c>> \in O
        BY <1>7
      <3>3. IsFiniteSet(R)
        BY <1>9
      <3>4. \E E \in SUBSET R : /\ Cardinality(E) = n
                                /\ \A e \in E, b \in R \ E : <<b, e>> \notin O
        BY <3>1, <3>2, <3>3, <2>1, <2>2, OldestFirst
      <3> QED BY <3>4, <1>8 DEF n
    <2> QED BY <2>1, <2>2, <1>9 DEF n
  <1>12. Cardinality(M) > Cardinality(A) + Cardinality(R)
    BY <1>6, <1>9, <1>11
  <1>13. Cardinality(Slot) <= Cardinality(A) + Cardinality(R) + Cardinality(X)
    <2>1. /\ IsFiniteSet(old) /\ Cardinality(old) <= Cardinality(R)
          /\ IsFiniteSet(used) /\ Cardinality(used) <= Cardinality(X)
      BY <1>9, SlotsOfBlocks
    <2> HIDE DEF old, used
    <2>2. /\ Cardinality(old) \in Nat /\ Cardinality(used) \in Nat
          /\ IsFiniteSet(old \cup used)
          /\ Cardinality(old \cup used) =
                Cardinality(old) + Cardinality(used) - Cardinality(old \cap used)
          /\ IsFiniteSet(old \cap used)
      BY <2>1, FS_CardinalityType, FS_Union, FS_Intersection
    <2>3. Cardinality(old \cup used) <= Cardinality(old) + Cardinality(used)
          /\ Cardinality(old \cup used) \in Nat
      BY <2>2, FS_CardinalityType
    <2> DEFINE all == A \cup (old \cup used)
    <2>4. /\ IsFiniteSet(all)
          /\ Cardinality(all) =
                Cardinality(A) + Cardinality(old \cup used) - Cardinality(A \cap (old \cup used))
          /\ IsFiniteSet(A \cap (old \cup used))
      BY <1>9, <2>2, FS_Union, FS_Intersection
    <2>5. Cardinality(all) <= Cardinality(A) + Cardinality(old \cup used)
          /\ Cardinality(all) \in Nat
      BY <1>9, <2>3, <2>4, FS_CardinalityType
    <2> HIDE DEF all
    <2>6. Cardinality(Slot) <= Cardinality(all)
      <3>1. Slot \in SUBSET all
        BY <1>4 DEF all
      <3> QED BY <3>1, <2>4, FS_Subset
    <2>7. Cardinality(Slot) \in Nat
      BY SlotAssumption, FS_CardinalityType
    <2> QED BY <1>9, <2>1, <2>2, <2>3, <2>5, <2>6, <2>7
  <1>14. Cardinality(M \cup X) = Cardinality(M) + Cardinality(X)
    <2>1. Cardinality(M \cup X) =
                Cardinality(M) + Cardinality(X) - Cardinality(M \cap X)
      BY <1>9, FS_Union
    <2>2. Cardinality(M \cap X) = 0
      BY <1>5, FS_EmptySet
    <2> QED BY <2>1, <2>2, <1>9
  <1>15. Cardinality(Slot) \in Nat
    BY SlotAssumption, FS_CardinalityType
  <1>16. Cardinality(M \cup X) > Cardinality(Slot)
    BY <1>9, <1>12, <1>13, <1>14, <1>15
  <1> QED BY <1>16 DEF M, X, R

(* The build of a forward pass keeps what is retired and what its batch      *)
(* needs, nothing else.                                                      *)
LEMMA KeptIsNeeded ==
    ASSUME NEW rows
    PROVE  Kept(rows, TRUE) \ RetiredNow(rows, TRUE) \subseteq Needed(rows)
  BY DEF Kept, Dropped, Flushed, Discarded, RetiredNow, Retiring, Idle, Held

(* The ages stay a strict order, and the build that failed lacked slots for  *)
(* its own batch.                                                            *)
FailedBuildInv ==
    engine = "failed" =>
        /\ pass >= 1
        /\ pass = 1 => Cardinality(Needed(BatchRows)) > Cardinality(Slot)

LEMMA StepFailedBuild ==
    ServingInv /\ OrderInv /\ FailedBuildInv /\ [Next]_vars => OrderInv' /\ FailedBuildInv'
  <1> SUFFICES ASSUME ServingInv, OrderInv, FailedBuildInv, [Next]_vars
               PROVE  OrderInv' /\ FailedBuildInv'
    OBVIOUS
  <1> USE DEF ServingInv
  <1>1. ASSUME pass = 0, UNCHANGED poolVars PROVE OrderInv' /\ FailedBuildInv'
    BY <1>1 DEF OrderInv, FailedBuildInv, poolVars
  <1>2. ASSUME NEW rows, NEW allow_flush, NEW evicted, Built(rows, allow_flush, evicted)
        PROVE  OrderInv' /\ FailedBuildInv'
    <2>1. /\ \A a : <<a, a>> \notin RetiredOrder(rows, allow_flush)
          /\ \A a, b, c : (<<a, b>> \in RetiredOrder(rows, allow_flush)
                            /\ <<b, c>> \in RetiredOrder(rows, allow_flush))
                              => <<a, c>> \in RetiredOrder(rows, allow_flush)
      BY RetiredOrderStrict
    <2>2. retired_before' = {p \in RetiredOrder(rows, allow_flush) : p[1] \notin evicted}
      BY <1>2 DEF Built, BuildMeta
    <2>3. OrderInv'
      BY <2>1, <2>2 DEF OrderInv
    <2>4. engine' = "up"
      BY <1>2 DEF Built, BuildMeta
    <2> QED BY <2>3, <2>4 DEF FailedBuildInv
  <1>3. CASE Exhausted
    <2>1. OrderInv'
      BY <1>3 DEF Exhausted, BuildExhausted, OrderInv
    <2>2. pass' = pass /\ pass >= 1
      BY <1>3, ServingAssumption DEF Exhausted, TypedInv, ServingTypeOK
    <2>3. ASSUME pass = 1
          PROVE  (Cardinality(Needed(BatchRows)) > Cardinality(Slot))'
      <3>1. Evictions(BatchRows, TRUE) = {}
        <4>1. ~ pass >= 2 /\ AllowFlush(0) = TRUE
          BY <2>3 DEF AllowFlush
        <4>2. BuildExhausted(BatchRows, AllowFlush(0))
          BY <1>3, <4>1 DEF Exhausted
        <4> QED BY <4>1, <4>2 DEF BuildExhausted
      <3>2. BatchRows \in SUBSET Row /\ TRUE \in BOOLEAN
        BY RowsTyped
      <3> DEFINE kept == Missing(BatchRows, TRUE)
                            \cup (Kept(BatchRows, TRUE) \ RetiredNow(BatchRows, TRUE))
      <3>3. Cardinality(kept) > Cardinality(Slot)
        BY <3>1, <3>2, ExhaustedNeedsMore DEF TypedInv
      <3>4. kept \in SUBSET Needed(BatchRows)
        BY KeptIsNeeded DEF Missing
      <3>5. Needed(BatchRows) \in SUBSET Block
        BY <3>2, NeededIsBlocks DEF TypedInv, PoolInv
      <3> HIDE DEF kept
      <3>6. IsFiniteSet(Needed(BatchRows)) /\ IsFiniteSet(kept)
        BY <3>4, <3>5, BlockAssumption, FS_Subset
      <3>7. /\ Cardinality(kept) <= Cardinality(Needed(BatchRows))
            /\ Cardinality(kept) \in Nat /\ Cardinality(Needed(BatchRows)) \in Nat
            /\ Cardinality(Slot) \in Nat
        BY <3>4, <3>6, SlotAssumption, FS_Subset, FS_CardinalityType
      <3>8. Cardinality(Needed(BatchRows)) > Cardinality(Slot)
        BY <3>3, <3>7
      <3>9. Needed(BatchRows)' = Needed(BatchRows)
        BY <1>3 DEF Exhausted, BuildExhausted, engineVars, Needed, Written, FirstBlocks,
                    BatchRows
      <3> QED BY <3>8, <3>9
    <2> QED BY <2>1, <2>2, <2>3 DEF FailedBuildInv
  <1>4. CASE UNCHANGED vars
    <2>1. Needed(BatchRows)' = Needed(BatchRows)
      BY <1>4 DEF vars, poolVars, engineVars, Needed, Written, FirstBlocks, BatchRows
    <2> QED BY <1>4, <2>1 DEF OrderInv, FailedBuildInv, vars, poolVars
  <1>5. CASE DraftPass \/ \E accepted \in [DOMAIN batch -> 1 .. MaxQueryLen] :
                                ExecuteModel(accepted)
    BY <1>5, <1>2 DEF DraftPass, ExecuteModel, Built
  <1> QED BY <1>1, <1>3, <1>4, <1>5 DEF Next, Admit, Schedule, Release

(* Keeping finished requests' sinks resident costs live requests nothing: a  *)
(* build of a forward pass raises only when its batch alone needs more slots *)
(* than there are.  Without drafter passes no other build can raise.         *)
THEOREM ResidencyCostsNothing ==
    ASSUME DraftPasses = 0
    PROVE  Spec => []ResidencyIsFree
  <1>1. ServingInit => OrderInv /\ FailedBuildInv
    BY DEF ServingInit, PoolInit, OrderInv, FailedBuildInv
  <1>2. ServingInv /\ FailedBuildInv => ResidencyIsFree
    BY DEF ServingInv, TypedInv, ServingTypeOK, FailedBuildInv, ResidencyIsFree
  <1> QED BY <1>1, <1>2, StepFailedBuild, ServingAlways, PTL DEF Spec

-----------------------------------------------------------------------------
(* The pool suffices.  From the target's build to the last drafter pass of a *)
(* step nothing is flushed, so what is needed by one pass stays; all of it   *)
(* is within reach of where the request stood when the step began.           *)

(* Slots that one request can take in one step: its first block, the block   *)
(* it stands in, and those its tokens and drafts may open.                   *)
SlotsPerRequest == 2 + BlocksFor(MaxQueryLen + DraftPasses - 1)

Reach(base) ==
    {IF p[2] = 0 THEN block_table[p[1]][1]
                 ELSE block_table[p[1]][base[p[1]] \div Group + p[2]] :
        p \in Request \X (0 .. SlotsPerRequest - 1)}

(* The reach of all requests is as small as their number allows.             *)
LEMMA ReachSmall ==
    ASSUME IsFiniteSet(Request), NEW base
    PROVE  /\ IsFiniteSet(Reach(base))
           /\ Cardinality(Reach(base)) <= Cardinality(Request) * SlotsPerRequest
  <1> DEFINE steps == 0 .. SlotsPerRequest - 1
             S == Request \X steps
             f == [p \in S |-> IF p[2] = 0 THEN block_table[p[1]][1]
                               ELSE block_table[p[1]][base[p[1]] \div Group + p[2]]]
  <1>1. SlotsPerRequest \in Nat \ {0}
    BY BlocksForNat, ServingAssumption DEF SlotsPerRequest
  <1>2. IsFiniteSet(steps) /\ Cardinality(steps) = SlotsPerRequest
    <2>1. SlotsPerRequest - 1 \in Int /\ 0 \in Int /\ ~ 0 > SlotsPerRequest - 1
      BY <1>1
    <2>2. /\ IsFiniteSet(steps)
          /\ Cardinality(steps) = IF 0 > SlotsPerRequest - 1 THEN 0
                                  ELSE SlotsPerRequest - 1 - 0 + 1
      BY <2>1, FS_Interval
    <2> QED BY <1>1, <2>1, <2>2
  <1> HIDE DEF steps
  <1>3. /\ IsFiniteSet(S)
        /\ Cardinality(S) = Cardinality(Request) * SlotsPerRequest
    BY <1>2, FS_Product
  <1>4. f \in Surjection(S, Reach(base))
    BY DEF Surjection, Reach, steps
  <1> HIDE DEF S, f
  <1> QED BY <1>3, <1>4, FS_Surjection

(* A column within a step's tokens is within reach.                          *)
LEMMA ColumnInReach ==
    ASSUME NEW base \in Nat, NEW k \in Nat, base \div Group <= k,
           k * Group < base + MaxQueryLen + DraftPasses
    PROVE  k + 1 - base \div Group \in 1 .. SlotsPerRequest - 1
  <1> DEFINE a == base \div Group
             n == MaxQueryLen + DraftPasses - 1
             c == BlocksFor(n)
  <1>1. n \in Nat
    BY ServingAssumption
  <1>2. a \in Nat /\ base < a * Group + Group /\ a * Group \in Nat
    BY DivisionBounds, GroupAssumption
  <1>3. c \in Nat /\ n <= c * Group /\ c * Group \in Nat
    BY <1>1, BlocksForEnough, GroupAssumption
  <1>4. SlotsPerRequest = 2 + c
    BY DEF SlotsPerRequest
  <1>5. k * Group < base + n + 1
    BY ServingAssumption
  <1> HIDE DEF a, n, c
  <1>6. ASSUME k >= a + c + 1 PROVE FALSE
    <2>1. (a + c + 1) * Group <= k * Group /\ k * Group \in Nat
      BY <1>2, <1>3, <1>6, TimesGroupMonotone
    <2>2. (a + c + 1) * Group = a * Group + c * Group + Group
      BY <1>2, <1>3, GroupAssumption
    <2> QED BY <1>1, <1>2, <1>3, <1>5, <2>1, <2>2, GroupAssumption
  <1>7. k <= a + c
    BY <1>2, <1>3, <1>6
  <1>8. k + 1 - a \in 1 .. SlotsPerRequest - 1
    BY <1>2, <1>3, <1>4, <1>7 DEF a
  <1> QED BY <1>8 DEF a

(* What a pass needs is within reach of where its step began.                *)
LEMMA RowsInReach ==
    ASSUME TypedInv, NEW base \in [Request -> Nat], NEW rows \in SUBSET Row,
           \A row \in rows : \E r \in Request :
                /\ row.table = block_table[r]
                /\ base[r] <= row.committed
                /\ row.seq_len <= base[r] + MaxQueryLen + DraftPasses
    PROVE  Needed(rows) \subseteq Reach(base)
  <1>1. SlotsPerRequest \in Nat /\ SlotsPerRequest >= 2
    BY BlocksForNat, ServingAssumption DEF SlotsPerRequest
  <1>2. ASSUME NEW r \in Request, NEW j \in 1 .. SlotsPerRequest - 1
        PROVE  block_table[r][base[r] \div Group + j] \in Reach(base)
    <2>1. /\ <<r, j>> \in Request \X (0 .. SlotsPerRequest - 1)
          /\ <<r, j>>[1] = r /\ <<r, j>>[2] = j /\ j # 0
      BY <1>1
    <2> QED BY <2>1 DEF Reach
  <1>3. ASSUME NEW r \in Request PROVE block_table[r][1] \in Reach(base)
    <2>1. /\ <<r, 0>> \in Request \X (0 .. SlotsPerRequest - 1)
          /\ <<r, 0>>[1] = r /\ <<r, 0>>[2] = 0
      BY <1>1
    <2> QED BY <2>1 DEF Reach
  <1>4. ASSUME NEW row \in rows, NEW k \in WrittenCols(row)
        PROVE  Col(row, k) \in Reach(base)
    <2>1. PICK r \in Request : /\ row.table = block_table[r]
                               /\ base[r] <= row.committed
                               /\ row.seq_len <= base[r] + MaxQueryLen + DraftPasses
      OBVIOUS
    <2>2. /\ k \in Nat /\ row.committed \in Nat /\ row.seq_len \in Nat
          /\ row.committed \div Group <= k /\ k * Group < row.seq_len
      BY DEF WrittenCols, Row, LastCol
    <2>3. base[r] \in Nat /\ k * Group \in Nat
      BY <2>2, GroupAssumption
    <2>4. base[r] \div Group <= row.committed \div Group
      <3>1. /\ base[r] \div Group \in Nat /\ row.committed \div Group \in Nat
            /\ (base[r] \div Group) * Group <= base[r]
            /\ row.committed < (row.committed \div Group) * Group + Group
        BY <2>2, <2>3, DivisionBounds
      <3> DEFINE x == base[r] \div Group
                 y == row.committed \div Group
      <3> HIDE DEF x, y
      <3>2. ASSUME x >= y + 1 PROVE FALSE
        <4>1. (y + 1) * Group <= x * Group /\ x * Group \in Nat
          BY <3>1, <3>2, TimesGroupMonotone DEF x, y
        <4>2. (y + 1) * Group = y * Group + Group /\ y * Group \in Nat
          BY <3>1, GroupAssumption DEF y
        <4> QED BY <4>1, <4>2, <3>1, <2>1, <2>2, <2>3, GroupAssumption DEF x, y
      <3> QED BY <3>1, <3>2 DEF x, y
    <2>5. base[r] \div Group <= k
      BY <2>2, <2>3, <2>4, DivisionBounds
    <2>6. k * Group < base[r] + MaxQueryLen + DraftPasses
      BY <2>1, <2>2, <2>3, ServingAssumption
    <2>7. k + 1 - base[r] \div Group \in 1 .. SlotsPerRequest - 1
      BY <2>2, <2>3, <2>5, <2>6, ColumnInReach
    <2>8. base[r] \div Group + (k + 1 - base[r] \div Group) = k + 1
      BY <2>2, <2>3, DivisionBounds
    <2>9. block_table[r][k + 1] \in Reach(base)
      BY <1>2, <2>7, <2>8
    <2> QED BY <2>1, <2>9 DEF Col
  <1>5. Written(rows) \subseteq Reach(base)
    BY <1>4 DEF Written
  <1>6. FirstBlocks(rows) \subseteq Reach(base)
    BY <1>3 DEF FirstBlocks, Col
  <1> QED BY <1>5, <1>6 DEF Needed

(* What is kept at a drafter pass was needed by an earlier pass of the step, *)
(* or is retired and can be given up.                                        *)
StepInReach ==
    pass >= 2 =>
        \E base \in [Request -> 0 .. MaxModelLen] :
            /\ \A r \in DOMAIN batch : /\ base[r] <= num_computed[r]
                                       /\ num_computed[r] <= base[r] + MaxQueryLen
            /\ Held \ retired_sinks \subseteq Reach(base)

(* A build without flushes keeps what was held and not retired, and what it  *)
(* needs.                                                                    *)
LEMMA KeptWithoutFlush ==
    ASSUME NEW rows
    PROVE  Kept(rows, FALSE) \ RetiredNow(rows, FALSE)
                \subseteq (Held \ retired_sinks) \cup Needed(rows)
  BY DEF Kept, Dropped, Flushed, Discarded, RetiredNow, Retiring, Readopted

(* The tokens of a target's pass are within reach of where it begins.        *)
LEMMA BatchInReach ==
    ASSUME TypedInv, pass = 1
    PROVE  /\ num_computed \in [Request -> 0 .. MaxModelLen]
           /\ Needed(BatchRows) \subseteq Reach(num_computed)
  <1>1. num_computed \in [Request -> 0 .. MaxModelLen]
    BY DEF TypedInv, ServingTypeOK
  <1>2. num_computed \in [Request -> Nat] /\ \A r \in Request : num_computed[r] \in Nat
    BY <1>1, ServingAssumption
  <1>3. \A row \in BatchRows : \E r \in Request :
            /\ row.table = block_table[r]
            /\ num_computed[r] <= row.committed
            /\ row.seq_len <= num_computed[r] + MaxQueryLen + DraftPasses
    <2>1. TAKE row \in BatchRows
    <2>2. PICK r \in DOMAIN batch :
            row = [table |-> block_table[r], committed |-> num_computed[r],
                   seq_len |-> num_computed[r] + batch[r]]
      BY DEF BatchRows
    <2>3. /\ r \in Request /\ batch[r] \in Nat /\ batch[r] <= MaxQueryLen
          /\ MaxQueryLen \in Nat /\ DraftPasses \in Nat /\ num_computed[r] \in Nat
      BY <1>2, ServingAssumption DEF TypedInv, ServingTypeOK, BatchFits
    <2>4. /\ row.table = block_table[r] /\ row.committed = num_computed[r]
          /\ row.seq_len = num_computed[r] + batch[r]
      BY <2>2
    <2> QED BY <2>3, <2>4
  <1>4. BatchRows \in SUBSET Row
    BY RowsTyped
  <1> QED BY <1>1, <1>2, <1>3, <1>4, RowsInReach

(* The token of a drafter's pass is within reach of where its step began.    *)
LEMMA DraftInReach ==
    ASSUME TypedInv, pass >= 2, NEW base \in [Request -> 0 .. MaxModelLen],
           \A r \in DOMAIN batch : /\ base[r] <= num_computed[r]
                                   /\ num_computed[r] <= base[r] + MaxQueryLen
    PROVE  Needed(DraftRows(pass - 1)) \subseteq Reach(base)
  <1> DEFINE i == pass - 1
  <1>1. i \in Nat \ {0} /\ i <= DraftPasses /\ DraftPasses \in Nat /\ MaxQueryLen \in Nat
    BY ServingAssumption DEF TypedInv, ServingTypeOK
  <1> HIDE DEF i
  <1>2. /\ base \in [Request -> Nat]
        /\ \A r \in Request : base[r] \in Nat /\ num_computed[r] \in Nat
        /\ DOMAIN batch \subseteq Request
    BY ServingAssumption DEF TypedInv, ServingTypeOK
  <1>3. \A row \in DraftRows(i) : \E r \in Request :
            /\ row.table = block_table[r]
            /\ base[r] <= row.committed
            /\ row.seq_len <= base[r] + MaxQueryLen + DraftPasses
    <2>1. TAKE row \in DraftRows(i)
    <2>2. PICK r \in DOMAIN batch :
            row = [table |-> block_table[r], committed |-> num_computed[r] + i - 1,
                   seq_len |-> num_computed[r] + i]
      BY DEF DraftRows
    <2>3. /\ r \in Request /\ base[r] \in Nat /\ num_computed[r] \in Nat
          /\ base[r] <= num_computed[r] /\ num_computed[r] <= base[r] + MaxQueryLen
      BY <1>2
    <2>4. /\ row.table = block_table[r] /\ row.committed = num_computed[r] + i - 1
          /\ row.seq_len = num_computed[r] + i
      BY <2>2
    <2> QED BY <1>1, <2>3, <2>4
  <1>4. DraftRows(i) \in SUBSET Row
    BY <1>1, RowsTyped
  <1>5. Needed(DraftRows(i)) \subseteq Reach(base)
    BY <1>2, <1>3, <1>4, RowsInReach
  <1> QED BY <1>5 DEF i

(* A build that keeps and needs only what is within reach does not raise.    *)
LEMMA ReachNeverExhausts ==
    ASSUME IsFiniteSet(Request), Cardinality(Slot) >= Cardinality(Request) * SlotsPerRequest,
           PoolInv, OrderInv, NEW rows \in SUBSET Row, NEW allow_flush \in BOOLEAN,
           NEW base, Needed(rows) \subseteq Reach(base),
           Kept(rows, allow_flush) \ RetiredNow(rows, allow_flush) \subseteq Reach(base)
    PROVE  Evictions(rows, allow_flush) # {}
  <1> DEFINE M == Missing(rows, allow_flush)
                    \cup (Kept(rows, allow_flush) \ RetiredNow(rows, allow_flush))
  <1> SUFFICES ASSUME Evictions(rows, allow_flush) = {} PROVE FALSE
    OBVIOUS
  <1>1. Cardinality(M) > Cardinality(Slot)
    BY ExhaustedNeedsMore
  <1>2. M \in SUBSET Reach(base)
    BY DEF Missing
  <1> HIDE DEF M
  <1>3. /\ IsFiniteSet(Reach(base))
        /\ Cardinality(Reach(base)) <= Cardinality(Request) * SlotsPerRequest
    BY ReachSmall
  <1>4. IsFiniteSet(M) /\ Cardinality(M) <= Cardinality(Reach(base))
    BY <1>2, <1>3, FS_Subset
  <1>5. SlotsPerRequest \in Nat
    BY BlocksForNat, ServingAssumption DEF SlotsPerRequest
  <1>6. /\ Cardinality(M) \in Nat /\ Cardinality(Reach(base)) \in Nat
        /\ Cardinality(Slot) \in Nat /\ Cardinality(Request) \in Nat
    BY <1>3, <1>4, SlotAssumption, FS_CardinalityType
  <1>7. Cardinality(Request) * SlotsPerRequest \in Nat
    BY <1>5, <1>6
  <1> QED BY <1>1, <1>3, <1>4, <1>6, <1>7

(* Every step keeps the engine up and what it holds within reach.            *)
LEMMA StepInReachKept ==
    ASSUME IsFiniteSet(Request), Cardinality(Slot) >= Cardinality(Request) * SlotsPerRequest,
           ServingInv, OrderInv, StepInReach, NeverExhausted, [Next]_vars
    PROVE  StepInReach' /\ NeverExhausted'
  <1> USE DEF ServingInv
  <1>0. PoolInv /\ pass \in 0 .. DraftPasses + 1 /\ DraftPasses \in Nat
    BY ServingAssumption DEF TypedInv, ServingTypeOK
  <1>1. ASSUME pass' \in {0, 1}, UNCHANGED poolVars PROVE StepInReach' /\ NeverExhausted'
    BY <1>1 DEF StepInReach, NeverExhausted, poolVars
  <1>2. ASSUME NEW rows \in SUBSET Row, NEW allow_flush \in BOOLEAN, NEW evicted,
               Built(rows, allow_flush, evicted), NEW base,
               Needed(rows) \subseteq Reach(base),
               Kept(rows, allow_flush) \ RetiredNow(rows, allow_flush) \subseteq Reach(base)
        PROVE  Held' \ retired_sinks' \subseteq Reach(base)
    <2>1. SlotMoves(rows, allow_flush, evicted)
      BY <1>0, <1>2, BuildMoves
    <2>2. Held' = (Held \ (Dropped(rows, allow_flush) \cup evicted))
                    \cup Missing(rows, allow_flush)
      BY <2>1 DEF SlotMoves, Held, Gone
    <2>3. retired_sinks' = RetiredNow(rows, allow_flush) \ evicted
      BY <1>2 DEF Built, BuildMeta
    <2> QED BY <1>2, <2>2, <2>3 DEF Kept, Missing
  <1>3. ASSUME NEW accepted \in [DOMAIN batch -> 1 .. MaxQueryLen], ExecuteModel(accepted)
        PROVE  StepInReach' /\ NeverExhausted'
    <2>1. PICK evicted : Built(BatchRows, TRUE, evicted)
      BY <1>3 DEF ExecuteModel, AllowFlush, Built
    <2>2. /\ pass = 1 /\ block_table' = block_table /\ EndPass
          /\ \A r \in DOMAIN batch : accepted[r] <= batch[r]
          /\ num_computed' = [r \in Request |-> num_computed[r] +
                                IF r \in DOMAIN batch THEN accepted[r] ELSE 0]
      BY <1>3 DEF ExecuteModel
    <2>3. /\ num_computed \in [Request -> 0 .. MaxModelLen]
          /\ Needed(BatchRows) \subseteq Reach(num_computed)
      BY <2>2, BatchInReach
    <2>4. Held' \ retired_sinks' \subseteq Reach(num_computed)
      BY <1>2, <2>1, <2>3, KeptIsNeeded, RowsTyped
    <2>5. NeverExhausted'
      BY <2>1 DEF Built, BuildMeta, NeverExhausted
    <2>6. ASSUME pass' >= 2 PROVE StepInReach'
      <3> PICK base : base = num_computed
        OBVIOUS
      <3>1. batch' = batch /\ DOMAIN batch \subseteq Request
        BY <2>2, <2>6, <1>0 DEF EndPass, TypedInv, ServingTypeOK
      <3>2. \A r \in DOMAIN batch' : /\ base[r] <= num_computed'[r]
                                     /\ num_computed'[r] <= base[r] + MaxQueryLen
        <4>1. TAKE r \in DOMAIN batch'
        <4>2. r \in DOMAIN batch /\ r \in Request /\ accepted[r] \in 1 .. MaxQueryLen
              /\ num_computed[r] \in Nat /\ MaxQueryLen \in Nat
          BY <3>1, <2>3, ServingAssumption
        <4>3. num_computed'[r] = num_computed[r] + accepted[r]
          BY <2>2, <4>2
        <4> QED BY <4>2, <4>3
      <3>3. (Reach(base))' = Reach(base)
        BY <2>2 DEF Reach
      <3>4. Held' \ retired_sinks' \subseteq (Reach(base))'
        BY <2>4, <3>3
      <3>5. base \in [Request -> 0 .. MaxModelLen]
        BY <2>3
      <3> QED BY <3>2, <3>4, <3>5 DEF StepInReach
    <2> QED BY <2>5, <2>6 DEF StepInReach
  <1>4. ASSUME DraftPass PROVE StepInReach' /\ NeverExhausted'
    <2> DEFINE i == pass - 1
    <2>1. pass >= 2 /\ i # 0 /\ AllowFlush(i) = FALSE /\ i \in Nat \ {0}
      BY <1>0, <1>4 DEF DraftPass, AllowFlush
    <2>2. PICK evicted : Built(DraftRows(i), FALSE, evicted)
      BY <1>4, <2>1 DEF DraftPass, Built
    <2>3. UNCHANGED engineVars /\ EndPass
      BY <1>4 DEF DraftPass
    <2>4. PICK base \in [Request -> 0 .. MaxModelLen] :
            /\ \A r \in DOMAIN batch : /\ base[r] <= num_computed[r]
                                       /\ num_computed[r] <= base[r] + MaxQueryLen
            /\ Held \ retired_sinks \subseteq Reach(base)
      BY <2>1 DEF StepInReach
    <2>5. Needed(DraftRows(i)) \subseteq Reach(base)
      BY <2>1, <2>4, DraftInReach
    <2>6. DraftRows(i) \in SUBSET Row
      BY <2>1, RowsTyped
    <2>7. Held' \ retired_sinks' \subseteq Reach(base)
      <3> HIDE DEF i
      <3> QED BY <1>2, <2>2, <2>4, <2>5, <2>6, KeptWithoutFlush
    <2>8. NeverExhausted'
      BY <2>2 DEF Built, BuildMeta, NeverExhausted
    <2>9. ASSUME pass' >= 2 PROVE StepInReach'
      <3>1. batch' = batch /\ num_computed' = num_computed
        BY <2>3, <2>9, <1>0 DEF EndPass, engineVars
      <3>2. (Reach(base))' = Reach(base)
        BY <2>3 DEF Reach, engineVars
      <3>3. Held' \ retired_sinks' \subseteq (Reach(base))'
        BY <2>7, <3>2
      <3> QED BY <2>4, <3>1, <3>3 DEF StepInReach
    <2> QED BY <2>8, <2>9 DEF StepInReach
  <1>5. ASSUME Exhausted PROVE FALSE
    <2>1. CASE pass = 1
      <3>1. Evictions(BatchRows, TRUE) = {}
        <4>1. ~ pass >= 2 /\ AllowFlush(0) = TRUE
          BY <2>1 DEF AllowFlush
        <4>2. BuildExhausted(BatchRows, AllowFlush(0))
          BY <1>5, <4>1 DEF Exhausted
        <4> QED BY <4>1, <4>2 DEF BuildExhausted
      <3>2. Needed(BatchRows) \subseteq Reach(num_computed)
        BY <2>1, BatchInReach
      <3>3. BatchRows \in SUBSET Row
        BY RowsTyped
      <3> QED BY <1>0, <3>1, <3>2, <3>3, KeptIsNeeded, ReachNeverExhausts
    <2>2. CASE pass >= 2
      <3> DEFINE i == pass - 1
      <3>1. i # 0 /\ AllowFlush(i) = FALSE /\ i \in Nat \ {0} /\ pass # 1
        BY <1>0, <2>2 DEF AllowFlush
      <3>2. Evictions(DraftRows(i), FALSE) = {}
        <4>1. BuildExhausted(DraftRows(i), AllowFlush(i))
          BY <1>5, <3>1 DEF Exhausted
        <4> QED BY <3>1, <4>1 DEF BuildExhausted
      <3>3. PICK base \in [Request -> 0 .. MaxModelLen] :
              /\ \A r \in DOMAIN batch : /\ base[r] <= num_computed[r]
                                         /\ num_computed[r] <= base[r] + MaxQueryLen
              /\ Held \ retired_sinks \subseteq Reach(base)
        BY <2>2 DEF StepInReach
      <3>4. Needed(DraftRows(i)) \subseteq Reach(base)
        BY <2>2, <3>3, DraftInReach
      <3>5. DraftRows(i) \in SUBSET Row
        BY <3>1, RowsTyped
      <3> HIDE DEF i
      <3>6. Kept(DraftRows(i), FALSE) \ RetiredNow(DraftRows(i), FALSE) \subseteq Reach(base)
        BY <3>3, <3>4, KeptWithoutFlush
      <3> QED BY <1>0, <3>2, <3>4, <3>5, <3>6, ReachNeverExhausts
    <2> QED BY <1>5, <2>1, <2>2 DEF Exhausted
  <1>6. CASE UNCHANGED vars
    BY <1>6 DEF vars, poolVars, engineVars, StepInReach, NeverExhausted, Held, Reach
  <1>7. CASE \E r \in Request : Release(r) \/ \E c \in Conversation : Admit(r, c)
    <2>1. pass' = 0 /\ UNCHANGED poolVars
      BY <1>7 DEF Admit, Release
    <2> QED BY <1>1, <2>1
  <1>8. CASE \E rows \in SUBSET Running : \E query \in [rows -> 1 .. MaxQueryLen] :
                Schedule(rows, query)
    <2>1. pass' = 1 /\ UNCHANGED poolVars
      BY <1>8 DEF Schedule
    <2> QED BY <1>1, <2>1
  <1> QED BY <1>3, <1>4, <1>5, <1>6, <1>7, <1>8 DEF Next

(* build() never runs out of slots: a pool with SlotsPerRequest slots for    *)
(* every request serves any batch and all drafter passes, however many sinks *)
(* of finished requests are still resident.                                  *)
THEOREM PoolNeverExhausted ==
    ASSUME IsFiniteSet(Request), Cardinality(Slot) >= Cardinality(Request) * SlotsPerRequest
    PROVE  Spec => []NeverExhausted
  <1>1. ServingInit => OrderInv /\ FailedBuildInv /\ StepInReach /\ NeverExhausted
    BY DEF ServingInit, PoolInit, OrderInv, FailedBuildInv, StepInReach, NeverExhausted
  <1>2. ServingInv /\ OrderInv /\ FailedBuildInv /\ StepInReach /\ NeverExhausted /\ [Next]_vars
            => OrderInv' /\ FailedBuildInv' /\ StepInReach' /\ NeverExhausted'
    BY StepFailedBuild, StepInReachKept
  <1> QED BY <1>1, <1>2, ServingAlways, PTL DEF Spec

-----------------------------------------------------------------------------
(***************************************************************************)
(* What the pool's tokens are, when every step names every running request *)
(* (DeferRows = FALSE): what build() throws away holds no committed token  *)
(* of any of them, what attention and the prefix cache read is right, the  *)
(* serving model implements AttentionView, and a live sink stays in its    *)
(* slot.  A full committed block that has a slot has a full fill, so it is *)
(* flushed or retired and its data moves to the tile; an open block of a   *)
(* running request has a slot and is written by that request alone.        *)
(***************************************************************************)

(* A table covers what its request has computed.                             *)
TablesCover ==
    \A r \in Request : num_computed[r] <= Len(block_table[r]) * Group

(* The full blocks of a request, and the blocks of the prefix cache, have a  *)
(* full fill as long as they have a slot.                                    *)
FullAreFilled ==
    \A r \in Request : \A i \in 1 .. Len(block_table[r]) :
        i * Group <= num_computed[r] /\ block_table[r][i] \in Held
            => block_fill[block_table[r][i]] = Group

KeyedAreFilled ==
    \A b \in Block : block_hash[b] # NoHash /\ b \in Held => block_fill[b] = Group

FillInv == TablesCover /\ FullAreFilled /\ KeyedAreFilled

(* Without deferred rows, a scheduled batch names every running request.     *)
BatchIsRunning == pass = 1 => DOMAIN batch = Running

-----------------------------------------------------------------------------

(* An empty pool has no fill to be wrong.                                    *)
LEMMA InitFill == ServingInit => FillInv
  <1> SUFFICES ASSUME ServingInit PROVE FillInv
    OBVIOUS
  <1>1. \A r \in Request : num_computed[r] = 0 /\ block_table[r] = <<>>
    BY DEF ServingInit
  <1>2. Held = {}
    BY DEF ServingInit, PoolInit, Held
  <1>3. TablesCover
    BY <1>1, GroupAssumption DEF TablesCover
  <1> QED BY <1>2, <1>3 DEF FillInv, FullAreFilled, KeyedAreFilled

(* An admitted request holds cached blocks only.                             *)
LEMMA AdmitFill ==
    ASSUME TypedInv, FillInv, NEW r \in Request, NEW c \in Conversation, Admit(r, c)
    PROVE  FillInv'
  <1>1. PICK hit \in CachedChain(c) :
            /\ block_table' = [block_table EXCEPT ![r] = hit]
            /\ num_computed' = [num_computed EXCEPT ![r] = Len(hit) * Group]
    BY DEF Admit
  <1>2. /\ block_hash' = block_hash
        /\ block_fill' = block_fill /\ Held' = Held
    BY DEF Admit, poolVars, Held
  <1>3. /\ hit \in Seq(Block) /\ Len(hit) \in Nat
        /\ \A i \in 1 .. Len(hit) : block_hash[hit[i]] = <<c, i - 1>>
    BY ChainIsCached
  <1>4. /\ block_table'[r] = hit /\ num_computed'[r] = Len(hit) * Group
        /\ \A q \in Request \ {r} : /\ block_table'[q] = block_table[q]
                                    /\ num_computed'[q] = num_computed[q]
    BY <1>1 DEF TypedInv, ServingTypeOK
  <1>5. TablesCover'
    <2>1. Len(hit) * Group <= Len(hit) * Group
      BY <1>3, GroupAssumption
    <2> QED BY <1>4, <2>1 DEF FillInv, TablesCover
  <1>6. \A i \in 1 .. Len(hit) : hit[i] \in Block /\ block_hash[hit[i]] # NoHash
    <2> SUFFICES ASSUME NEW i \in 1 .. Len(hit)
                 PROVE  hit[i] \in Block /\ block_hash[hit[i]] # NoHash
      OBVIOUS
    <2>1. hit[i] \in Block
      BY <1>3
    <2>2. block_hash[hit[i]] = <<c, i - 1>>
      BY <1>3
    <2>3. <<c, i - 1>> # <<>>
      OBVIOUS
    <2> QED BY <2>1, <2>2, <2>3 DEF NoHash
  <1>7. FullAreFilled'
    BY <1>2, <1>4, <1>6 DEF FillInv, FullAreFilled, KeyedAreFilled
  <1>8. KeyedAreFilled'
    BY <1>2 DEF FillInv, KeyedAreFilled
  <1> QED BY <1>5, <1>7, <1>8 DEF FillInv

(* A request that leaves takes its table with it.                            *)
LEMMA ReleaseFill ==
    ASSUME TypedInv, FillInv, NEW r \in Request, Release(r)
    PROVE  FillInv'
  <1>1. /\ block_table'[r] = <<>> /\ num_computed'[r] = 0
        /\ \A q \in Request \ {r} : /\ block_table'[q] = block_table[q]
                                    /\ num_computed'[q] = num_computed[q]
        /\ block_hash' = block_hash /\ block_fill' = block_fill /\ Held' = Held
    BY DEF Release, TypedInv, ServingTypeOK, poolVars, Held
  <1>2. TablesCover'
    BY <1>1, GroupAssumption DEF FillInv, TablesCover
  <1>3. FullAreFilled'
    BY <1>1 DEF FillInv, FullAreFilled
  <1>4. KeyedAreFilled'
    BY <1>1 DEF FillInv, KeyedAreFilled
  <1> QED BY <1>2, <1>3, <1>4 DEF FillInv

(* Scheduling only appends to tables.                                        *)
LEMMA ScheduleAppends ==
    ASSUME TypedInv, NEW rows \in SUBSET Running,
           NEW query \in [rows -> 1 .. MaxQueryLen], Schedule(rows, query)
    PROVE  \A r \in Request :
            /\ Len(block_table[r]) <= Len(block_table'[r])
            /\ \A i \in 1 .. Len(block_table[r]) : block_table'[r][i] = block_table[r][i]
  <1> DEFINE total(r) == Greater(Len(block_table[r]),
                            BlocksFor(num_computed[r] + query[r] + DraftPasses))
             grown    == UNION {{r} \X (Len(block_table[r]) + 1 .. total(r)) : r \in rows}
  <1>1. PICK new \in Injection(grown, FreeBlocks) :
            block_table' = [r \in Request |->
                    IF r \notin rows THEN block_table[r]
                    ELSE [i \in 1 .. total(r) |->
                            IF <<r, i>> \in grown THEN new[<<r, i>>] ELSE block_table[r][i]]]
    BY DEF Schedule
  <1>2. /\ rows \subseteq Request
        /\ \A r \in Request : Len(block_table[r]) \in Nat
        /\ num_computed \in [Request -> 0 .. MaxModelLen]
    BY DEF TypedInv, ServingTypeOK, Running
  <1>3. \A r \in rows : total(r) \in Nat /\ Len(block_table[r]) <= total(r)
    <2> TAKE r \in rows
    <2>1. num_computed[r] + query[r] + DraftPasses \in Nat
      BY <1>2, ServingAssumption
    <2>2. BlocksFor(num_computed[r] + query[r] + DraftPasses) \in Nat
      BY <2>1, BlocksForNat
    <2> QED BY <1>2, <2>2 DEF Greater
  <1>4. \A r, i : <<r, i>> \in grown <=>
                    r \in rows /\ i \in Len(block_table[r]) + 1 .. total(r)
    OBVIOUS
  <1> HIDE DEF total, grown
  <1> SUFFICES ASSUME NEW r \in Request
               PROVE  /\ Len(block_table[r]) <= Len(block_table'[r])
                      /\ \A i \in 1 .. Len(block_table[r]) :
                            block_table'[r][i] = block_table[r][i]
    OBVIOUS
  <1>5. CASE r \notin rows
    BY <1>1, <1>2, <1>5
  <1>6. CASE r \in rows
    <2>1. block_table'[r] = [i \in 1 .. total(r) |->
              IF <<r, i>> \in grown THEN new[<<r, i>>] ELSE block_table[r][i]]
      BY <1>1, <1>2, <1>6
    <2>2. Len(block_table'[r]) = total(r)
      BY <2>1, <1>3, <1>6
    <2>3. ASSUME NEW i \in 1 .. Len(block_table[r])
          PROVE  block_table'[r][i] = block_table[r][i]
      <3>1. i \in 1 .. total(r) /\ <<r, i>> \notin grown
        BY <1>2, <1>3, <1>4, <1>6
      <3> QED BY <2>1, <3>1
    <2> QED BY <2>2, <2>3, <1>3, <1>6
  <1> QED BY <1>5, <1>6

(* New blocks have no slot yet that a request's fill could contradict.       *)
LEMMA ScheduleFill ==
    ASSUME TypedInv, FillInv, NEW rows \in SUBSET Running,
           NEW query \in [rows -> 1 .. MaxQueryLen], Schedule(rows, query)
    PROVE  FillInv'
  <1>1. \A r \in Request :
            /\ Len(block_table[r]) <= Len(block_table'[r])
            /\ \A i \in 1 .. Len(block_table[r]) : block_table'[r][i] = block_table[r][i]
    BY ScheduleAppends
  <1>2. /\ num_computed' = num_computed /\ block_fill' = block_fill /\ Held' = Held
        /\ \A b \in Block : block_hash'[b] # NoHash => block_hash[b] # NoHash
    BY DEF Schedule, poolVars, Held
  <1>3. \A r \in Request : /\ num_computed[r] \in Nat
                           /\ Len(block_table[r]) \in Nat /\ Len(block_table'[r]) \in Nat
    BY ScheduleTyped DEF TypedInv, ServingTypeOK
  <1>4. TablesCover'
    <2> SUFFICES ASSUME NEW r \in Request
                 PROVE  num_computed[r] <= Len(block_table'[r]) * Group
      BY <1>2 DEF TablesCover
    <2>1. /\ Len(block_table[r]) * Group <= Len(block_table'[r]) * Group
          /\ Len(block_table[r]) * Group \in Nat /\ Len(block_table'[r]) * Group \in Nat
      BY <1>1, <1>3, TimesGroupMonotone
    <2>2. num_computed[r] <= Len(block_table[r]) * Group
      BY DEF FillInv, TablesCover
    <2> QED BY <1>3, <2>1, <2>2
  <1>5. FullAreFilled'
    <2> SUFFICES ASSUME NEW r \in Request, NEW i \in 1 .. Len(block_table'[r]),
                        i * Group <= num_computed[r], block_table'[r][i] \in Held
                 PROVE  block_fill[block_table'[r][i]] = Group
      BY <1>2 DEF FullAreFilled
    <2>1. i \in Nat \ {0}
      BY <1>3
    <2>2. i * Group <= Len(block_table[r]) * Group
      <3>1. num_computed[r] <= Len(block_table[r]) * Group
        BY DEF FillInv, TablesCover
      <3>2. i * Group \in Nat /\ Len(block_table[r]) * Group \in Nat
        BY <1>3, <2>1, GroupAssumption
      <3> QED BY <1>3, <3>1, <3>2
    <2>3. i <= Len(block_table[r])
      BY <1>3, <2>1, <2>2, TimesGroupReflects
    <2>4. i \in 1 .. Len(block_table[r])
      BY <1>3, <2>1, <2>3
    <2>5. block_table'[r][i] = block_table[r][i]
      BY <1>1, <2>4
    <2> QED BY <2>4, <2>5 DEF FillInv, FullAreFilled
  <1>6. KeyedAreFilled'
    BY <1>2 DEF FillInv, KeyedAreFilled
  <1> QED BY <1>4, <1>5, <1>6 DEF FillInv

-----------------------------------------------------------------------------
(* What a build does to fills.                                              *)

(* A block that has a slot after a build and was not written by it had it     *)
(* before, with the same fill.                                               *)
LEMMA UnwrittenKeepFill ==
    ASSUME PoolInv, SinkBookkeeping, SinkBookkeeping', NEW rows \in SUBSET Row,
           NEW allow_flush \in BOOLEAN, NEW evicted,
           Built(rows, allow_flush, evicted),
           NEW b \in Held', b \notin Written(rows)
    PROVE  b \in Held /\ block_fill'[b] = block_fill[b]
  <1>1. b \in Held
    BY NewSlotsAreWritten
  <1>2. b \in DOMAIN block_fill /\ b \in DOMAIN block_fill'
    BY <1>1 DEF SinkBookkeeping
  <1>3. block_fill'[b] = FillAfter(rows)[b]
    BY <1>2 DEF Built, BuildMeta
  <1>4. block_fill \in [DOMAIN block_fill -> 0 .. Group]
    BY DEF PoolInv, PoolTypeOK
  <1> QED BY <1>1, <1>2, <1>3, <1>4, FillAfterTyped

(* A full committed block is written by no row of the batch, nor by a drafter *)
(* pass: the row that writes a block has not committed all of it, and who     *)
(* shares a block has.                                                       *)
LEMMA WritersAreOpen ==
    ASSUME TypedInv, Sharing, NEW r \in DOMAIN batch, NEW n \in Nat, num_computed[r] <= n,
           NEW m, NEW k \in WrittenCols([table |-> block_table[r], committed |-> n,
                                         seq_len |-> m]),
           NEW q \in Request, NEW i \in 1 .. Len(block_table[q]),
           block_table[q][i] = block_table[r][k + 1]
    PROVE  q = r /\ i = k + 1 /\ ~(i * Group <= num_computed[q])
  <1>1. r \in Request /\ num_computed[r] \in Nat /\ block_table[r] \in Seq(Block)
        /\ Len(block_table[r]) \in Nat
    BY DEF TypedInv, ServingTypeOK
  <1> DEFINE j == k + 1
  <1>2. j \in 1 .. Len(block_table[r]) /\ num_computed[r] < j * Group
    BY <1>1, WrittenIsOpen
  <1>3. j \in Nat /\ block_table[q][i] = block_table[r][j]
    BY <1>1, <1>2
  <1> HIDE DEF j
  <1>4. j * Group \in Nat
    BY <1>3, GroupAssumption
  <1>5. ~(j * Group <= num_computed[r])
    BY <1>1, <1>2, <1>4
  <1>6. q = r
    BY <1>1, <1>2, <1>3, <1>5 DEF Sharing, SharedAreFull
  <1>7. i = j
    BY <1>1, <1>2, <1>3, <1>6 DEF Sharing, OneColumn
  <1> QED BY <1>5, <1>6, <1>7 DEF j

(* A block behind the committed boundary of its request is written by        *)
(* nobody, by the batch or by a drafter pass.                                *)
LEMMA FullNotWritten ==
    ASSUME TypedInv, Sharing,
           NEW q \in Request, NEW i \in 1 .. Len(block_table[q]),
           i * Group <= num_computed[q]
    PROVE  /\ block_table[q][i] \notin Written(BatchRows)
           /\ \A p \in Nat \ {0} : block_table[q][i] \notin Written(DraftRows(p))
  <1>1. \A r \in DOMAIN batch : num_computed[r] \in Nat
    BY DEF TypedInv, ServingTypeOK
  <1>2. ASSUME block_table[q][i] \in Written(BatchRows) PROVE FALSE
    <2>1. PICK r \in DOMAIN batch :
            \E k \in WrittenCols([table |-> block_table[r], committed |-> num_computed[r],
                                  seq_len |-> num_computed[r] + batch[r]]) :
                block_table[q][i] = block_table[r][k + 1]
      BY <1>2 DEF Written, BatchRows, Col
    <2> QED BY <1>1, <2>1, WritersAreOpen
  <1>3. ASSUME NEW p \in Nat \ {0}, block_table[q][i] \in Written(DraftRows(p)) PROVE FALSE
    <2>1. PICK r \in DOMAIN batch :
            \E k \in WrittenCols([table |-> block_table[r],
                                  committed |-> num_computed[r] + p - 1,
                                  seq_len |-> num_computed[r] + p]) :
                block_table[q][i] = block_table[r][k + 1]
      BY <1>3 DEF Written, DraftRows, Col
    <2>2. num_computed[r] + p - 1 \in Nat /\ num_computed[r] <= num_computed[r] + p - 1
      BY <1>1
    <2> QED BY <2>1, <2>2, WritersAreOpen
  <1> QED BY <1>2, <1>3

(* The fill of a block a batch row writes is that row's.                     *)
LEMMA WrittenFill ==
    ASSUME TypedInv, Sharing, NEW r \in DOMAIN batch,
           NEW k \in WrittenCols([table |-> block_table[r], committed |-> num_computed[r],
                                  seq_len |-> num_computed[r] + batch[r]])
    PROVE  /\ block_table[r][k + 1] \in Written(BatchRows)
           /\ FillAfter(BatchRows)[block_table[r][k + 1]]
                = FillOf([table |-> block_table[r], committed |-> num_computed[r],
                          seq_len |-> num_computed[r] + batch[r]], k)
  <1> DEFINE row(q) == [table |-> block_table[q], committed |-> num_computed[q],
                        seq_len |-> num_computed[q] + batch[q]]
             b == block_table[r][k + 1]
             fills == UNION {{FillOf(w, c) : c \in {d \in WrittenCols(w) : Col(w, d) = b}} :
                                w \in BatchRows}
  <1>1. /\ r \in Request /\ num_computed[r] \in Nat /\ Len(block_table[r]) \in Nat
        /\ \A q \in DOMAIN batch : num_computed[q] \in Nat
    BY DEF TypedInv, ServingTypeOK
  <1>2. k \in Nat /\ k + 1 \in 1 .. Len(block_table[r]) /\ Col(row(r), k) = b
    BY <1>1 DEF WrittenCols, LastCol, Col
  <1>3. row(r) \in BatchRows
    BY DEF BatchRows
  <1>4. b \in Written(BatchRows)
    BY <1>2, <1>3 DEF Written
  <1>5. FillOf(row(r), k) \in fills
    BY <1>2, <1>3
  <1>6. ASSUME NEW f \in fills PROVE f = FillOf(row(r), k)
    <2>1. PICK q \in DOMAIN batch : \E c \in WrittenCols(row(q)) :
                Col(row(q), c) = b /\ f = FillOf(row(q), c)
      BY <1>6 DEF BatchRows
    <2>2. PICK c \in WrittenCols(row(q)) : Col(row(q), c) = b /\ f = FillOf(row(q), c)
      BY <2>1
    <2>3. /\ q \in Request /\ Len(block_table[q]) \in Nat
      BY DEF TypedInv, ServingTypeOK
    <2>4. c \in Nat /\ b = block_table[q][c + 1]
      BY <2>2, <2>3 DEF WrittenCols, LastCol, Col
    <2> DEFINE j == k + 1
    <2>5. j \in 1 .. Len(block_table[r]) /\ block_table[r][j] = block_table[q][c + 1]
      BY <1>2, <2>4
    <2>6. num_computed[q] \in Nat /\ num_computed[q] <= num_computed[q]
      BY <1>1
    <2> HIDE DEF j
    <2>7. r = q /\ j = c + 1
      BY <1>1, <2>2, <2>5, <2>6, WritersAreOpen
    <2>8. k = c
      BY <1>2, <2>4, <2>7 DEF j
    <2> QED BY <2>2, <2>7, <2>8
  <1>7. FillAfter(BatchRows)[b] = CHOOSE f \in fills : TRUE
    BY <1>4 DEF FillAfter
  <1>8. (CHOOSE f \in fills : TRUE) \in fills
    BY <1>5
  <1> QED BY <1>4, <1>6, <1>7, <1>8

-----------------------------------------------------------------------------

(* A step fills the blocks it completes: their fill is the whole block.      *)
LEMMA ExecuteFill ==
    ASSUME ServingInv, SinkBookkeeping', FillInv,
           NEW accepted \in [DOMAIN batch -> 1 .. MaxQueryLen], ExecuteModel(accepted)
    PROVE  FillInv'
  <1> USE DEF ServingInv
  <1>1. PICK evicted : Built(BatchRows, AllowFlush(0), evicted)
    BY DEF ExecuteModel, Built
  <1>2. BatchRows \in SUBSET Row /\ AllowFlush(0) \in BOOLEAN
    BY RowsTyped DEF AllowFlush
  <1>3. \A b \in Held' : b \notin Written(BatchRows) =>
                b \in Held /\ block_fill'[b] = block_fill[b]
    BY <1>1, <1>2, UnwrittenKeepFill DEF TypedInv
  <1>4. \A r \in Request : /\ num_computed[r] \in Nat /\ num_computed'[r] \in Nat
                           /\ Len(block_table[r]) \in Nat
    BY ExecuteTyped DEF TypedInv, ServingTypeOK
  <1>5. /\ pass = 1 /\ block_table' = block_table
        /\ \A r \in Request \ DOMAIN batch : num_computed'[r] = num_computed[r]
        /\ \A r \in DOMAIN batch :
                /\ batch[r] \in Nat
                /\ num_computed'[r] <= num_computed[r] + batch[r]
    <2>1. /\ pass = 1 /\ block_table' = block_table
          /\ num_computed' = [r \in Request |-> num_computed[r] +
                                IF r \in DOMAIN batch THEN accepted[r] ELSE 0]
          /\ \A r \in DOMAIN batch : accepted[r] <= batch[r]
      BY DEF ExecuteModel
    <2>2. \A r \in DOMAIN batch : r \in Request /\ batch[r] \in Nat /\ accepted[r] \in Nat
      BY DEF TypedInv, ServingTypeOK, BatchFits
    <2> QED BY <2>1, <2>2, <1>4
  <1>6. TablesCover'
    <2> SUFFICES ASSUME NEW r \in Request
                 PROVE  num_computed'[r] <= Len(block_table[r]) * Group
      BY <1>5 DEF TablesCover
    <2>1. CASE r \in DOMAIN batch
      <3>1. num_computed[r] + batch[r] <= Len(block_table[r]) * Group
        BY <2>1, <1>5 DEF Sharing, BatchHasBlocks
      <3>2. Len(block_table[r]) * Group \in Nat
        BY <1>4, GroupAssumption
      <3> QED BY <2>1, <3>1, <3>2, <1>4, <1>5
    <2>2. CASE r \notin DOMAIN batch
      BY <2>2, <1>5 DEF FillInv, TablesCover
    <2> QED BY <2>1, <2>2
  <1>7. FullAreFilled'
    <2> SUFFICES ASSUME NEW r \in Request, NEW i \in 1 .. Len(block_table[r]),
                        i * Group <= num_computed'[r], block_table[r][i] \in Held'
                 PROVE  block_fill'[block_table[r][i]] = Group
      BY <1>5 DEF FullAreFilled
    <2>1. CASE i * Group <= num_computed[r]
      <3>1. block_table[r][i] \notin Written(BatchRows)
        BY <2>1, FullNotWritten
      <3> QED BY <2>1, <3>1, <1>3 DEF FillInv, FullAreFilled
    <2>2. CASE ~(i * Group <= num_computed[r])
      <3> DEFINE k == i - 1
                 row == [table |-> block_table[r], committed |-> num_computed[r],
                         seq_len |-> num_computed[r] + batch[r]]
      <3>1. r \in DOMAIN batch
        BY <2>2, <1>5
      <3>2. /\ k \in Nat /\ k + 1 = i /\ k <= LastCol(row)
            /\ k * Group \in Nat /\ i * Group \in Nat /\ (k + 1) * Group = i * Group
            /\ i * Group = k * Group + Group /\ Group \in Nat \ {0}
        BY <1>4, GroupAssumption DEF LastCol
      <3>3. i * Group <= num_computed[r] + batch[r]
        BY <3>1, <3>2, <1>4, <1>5
      <3>4. k * Group < num_computed[r] + batch[r]
        BY <3>1, <3>2, <3>3, <1>4, <1>5
      <3>5. num_computed[r] \div Group <= k
        <4> DEFINE n == num_computed[r] \div Group
        <4>1. n \in Nat /\ n * Group <= num_computed[r]
          BY <1>4, DivisionBounds
        <4> HIDE DEF n, k
        <4>2. ASSUME ~(n <= k) PROVE FALSE
          <5>1. k + 1 <= n /\ k + 1 \in Nat
            BY <4>1, <4>2, <3>2
          <5>2. (k + 1) * Group <= n * Group /\ n * Group \in Nat
            BY <4>1, <5>1, TimesGroupMonotone
          <5>3. i * Group <= num_computed[r]
            BY <5>2, <4>1, <3>2, <1>4
          <5> QED BY <5>3, <2>2
        <4> QED BY <4>2 DEF n
      <3>6. k \in WrittenCols(row)
        BY <3>2, <3>4, <3>5 DEF WrittenCols
      <3> DEFINE b == block_table[r][k + 1]
      <3>7. /\ b \in Written(BatchRows)
            /\ FillAfter(BatchRows)[b] = FillOf(row, k)
        BY <3>1, <3>6, WrittenFill
      <3>8. FillOf(row, k) = Group
        <4>1. row.seq_len = num_computed[r] + batch[r] /\ row.seq_len \in Nat
          BY <3>1, <1>4, <1>5
        <4> DEFINE base == k * Group
                   end == i * Group
        <4>2. base \in Nat /\ end \in Nat /\ (k + 1) * Group = end /\ end - base = Group
              /\ end <= row.seq_len
          BY <4>1, <3>2, <3>3
        <4>3. FillOf(row, k) = Lesser(row.seq_len, (k + 1) * Group) - k * Group
          BY DEF FillOf
        <4> HIDE DEF k, row, base, end
        <4>4. Lesser(row.seq_len, end) = end
          BY <4>1, <4>2 DEF Lesser
        <4>5. FillOf(row, k) = end - base
          BY <4>2, <4>3, <4>4 DEF base
        <4> QED BY <4>2, <4>5
      <3>9. b \in DOMAIN block_fill' /\ b = block_table[r][i]
        BY <3>2 DEF SinkBookkeeping
      <3>10. block_fill'[b] = FillAfter(BatchRows)[b]
        BY <3>9, <1>1 DEF Built, BuildMeta
      <3> QED BY <3>7, <3>8, <3>9, <3>10
    <2> QED BY <2>1, <2>2
  <1>8. KeyedAreFilled'
    <2> SUFFICES ASSUME NEW b \in Block, block_hash'[b] # NoHash, b \in Held'
                 PROVE  block_fill'[b] = Group
      BY DEF KeyedAreFilled
    <2>1. CASE block_hash[b] # NoHash
      <3>1. b \notin Written(BatchRows)
        BY <2>1, WrittenHasNoKey
      <3> QED BY <2>1, <3>1, <1>3 DEF FillInv, KeyedAreFilled
    <2>2. CASE block_hash[b] = NoHash
      <3>1. PICK r \in DOMAIN batch : \E i \in 1 .. num_computed'[r] \div Group :
                block_table[r][i] = b
        BY <2>2, Zenon DEF ExecuteModel
      <3>2. PICK i \in 1 .. num_computed'[r] \div Group : block_table[r][i] = b
        BY <3>1
      <3>3. r \in Request
        BY DEF TypedInv, ServingTypeOK
      <3> DEFINE n == num_computed'[r] \div Group
      <3>4. n \in Nat /\ n * Group <= num_computed'[r]
        BY <3>3, <1>4, DivisionBounds
      <3>5. i \in Nat \ {0} /\ i <= n
        BY <3>2, <3>4
      <3> HIDE DEF n
      <3>6. i * Group <= n * Group /\ i * Group \in Nat /\ n * Group \in Nat
        BY <3>4, <3>5, TimesGroupMonotone
      <3>7. i * Group <= num_computed'[r]
        BY <3>3, <3>4, <3>6, <1>4
      <3>8. i * Group <= Len(block_table[r]) * Group
        <4>1. num_computed'[r] <= Len(block_table[r]) * Group
          BY <3>3, <1>5, <1>6 DEF TablesCover
        <4>2. Len(block_table[r]) * Group \in Nat
          BY <3>3, <1>4, GroupAssumption
        <4> QED BY <3>3, <3>6, <3>7, <4>1, <4>2, <1>4
      <3>9. i \in 1 .. Len(block_table[r])
        BY <3>3, <3>5, <3>8, <1>4, TimesGroupReflects
      <3> QED BY <3>2, <3>3, <3>7, <3>9, <1>5, <1>7 DEF FullAreFilled
    <2> QED BY <2>1, <2>2
  <1> QED BY <1>6, <1>7, <1>8 DEF FillInv

(* A drafter pass leaves the fill of every full or cached block alone.       *)
LEMMA DraftPassFill ==
    ASSUME ServingInv, SinkBookkeeping', FillInv, DraftPass
    PROVE  FillInv'
  <1> USE DEF ServingInv
  <1> DEFINE p == pass - 1
  <1>1. PICK evicted : Built(DraftRows(p), AllowFlush(p), evicted)
    BY DEF DraftPass, Built
  <1>2. p \in Nat \ {0}
    BY ServingAssumption DEF DraftPass, TypedInv, ServingTypeOK
  <1>3. DraftRows(p) \in SUBSET Row /\ AllowFlush(p) \in BOOLEAN
    BY <1>2, RowsTyped DEF AllowFlush
  <1> HIDE DEF p
  <1>4. \A b \in Held' : b \notin Written(DraftRows(p)) =>
                b \in Held /\ block_fill'[b] = block_fill[b]
    BY <1>1, <1>3, UnwrittenKeepFill DEF TypedInv
  <1>5. block_table' = block_table /\ num_computed' = num_computed /\ block_hash' = block_hash
    BY DEF DraftPass, engineVars
  <1>6. TablesCover'
    BY <1>5 DEF FillInv, TablesCover
  <1>7. FullAreFilled'
    BY <1>2, <1>4, <1>5, FullNotWritten DEF FillInv, FullAreFilled
  <1>8. KeyedAreFilled'
    BY <1>2, <1>4, <1>5, WrittenHasNoKey DEF FillInv, KeyedAreFilled
  <1> QED BY <1>6, <1>7, <1>8 DEF FillInv

(* Fills follow from the tables, the keys, the slots and the fills alone.    *)
LEMMA FrameFill ==
    ASSUME FillInv, UNCHANGED engineVars, UNCHANGED <<block_to_slot, block_fill>>
    PROVE  FillInv'
  BY DEF FillInv, TablesCover, FullAreFilled, KeyedAreFilled, engineVars, Held

(* Every step keeps the fills right.                                         *)
LEMMA StepFill == ServingInv /\ ServingInv' /\ FillInv /\ [Next]_vars => FillInv'
  <1> SUFFICES ASSUME ServingInv, ServingInv', FillInv, [Next]_vars PROVE FillInv'
    OBVIOUS
  <1>1. ASSUME Exhausted \/ UNCHANGED vars PROVE FillInv'
    BY <1>1, FrameFill DEF Exhausted, BuildExhausted, vars, poolVars
  <1> QED BY <1>1, AdmitFill, ScheduleFill, ReleaseFill, ExecuteFill, DraftPassFill
          DEF Next, ServingInv

(* In every reachable state the full blocks of a request, and the blocks of  *)
(* the prefix cache, have a full fill as long as they hold a slot.           *)
THEOREM FillsAlways == Spec => [](ServingInv /\ FillInv)
  BY InitServing, InitFill, StepServing, StepFill, ServingAlways, PTL DEF Spec

-----------------------------------------------------------------------------

(* Without deferred rows the batch of a scheduled step names every running   *)
(* request.                                                                  *)
LEMMA BatchIsRunningAlways ==
    ASSUME DeferRows = FALSE
    PROVE  Spec => []BatchIsRunning
  <1>1. ServingInit => BatchIsRunning
    BY DEF ServingInit, BatchIsRunning
  <1>2. ServingInv /\ BatchIsRunning /\ [Next]_vars => BatchIsRunning'
    <2> SUFFICES ASSUME ServingInv, BatchIsRunning, [Next]_vars PROVE BatchIsRunning'
      OBVIOUS
    <2>1. CASE \E r \in Request, c \in Conversation : Admit(r, c)
      BY <2>1 DEF Admit, BatchIsRunning
    <2>2. ASSUME NEW rows \in SUBSET Running, NEW query \in [rows -> 1 .. MaxQueryLen],
                 Schedule(rows, query)
          PROVE  BatchIsRunning'
      BY <2>2 DEF Schedule, BatchIsRunning, Running
    <2>3. CASE \E r \in Request : Release(r)
      BY <2>3 DEF Release, BatchIsRunning
    <2>4. CASE \E accepted \in [DOMAIN batch -> 1 .. MaxQueryLen] : ExecuteModel(accepted)
      <3>1. EndPass /\ pass = 1
        BY <2>4 DEF ExecuteModel
      <3> QED BY <3>1, EndPassTyped DEF ServingInv, BatchIsRunning
    <2>5. CASE DraftPass
      <3>1. EndPass /\ pass >= 1
        BY <2>5, ServingAssumption DEF DraftPass, ServingInv, TypedInv, ServingTypeOK
      <3> QED BY <3>1, EndPassTyped DEF ServingInv, BatchIsRunning
    <2>6. CASE Exhausted \/ UNCHANGED vars
      BY <2>6 DEF Exhausted, vars, engineVars, BatchIsRunning, Running
    <2> QED BY <2>1, <2>2, <2>3, <2>4, <2>5, <2>6 DEF Next
  <1> QED BY <1>1, <1>2, ServingAlways, PTL DEF Spec

(* When no step leaves a running request out of its batch, build() discards  *)
(* no block with a committed token of a running request: its full blocks are *)
(* complete by their fill, and its partial block is one the batch writes.    *)
THEOREM ReclaimSafe ==
    ASSUME DeferRows = FALSE
    PROVE  Spec => ReclaimSparesRunning
  <1> DEFINE Spares == pass = 1 /\ pass' # 1 =>
                \A r \in Running : \A i \in 1 .. BlocksFor(num_computed[r]) :
                    block_table[r][i] \notin Discarded(BatchRows, TRUE)
  <1>1. ServingInv /\ FillInv /\ BatchIsRunning => Spares
    <2> SUFFICES ASSUME ServingInv, FillInv, pass = 1, DOMAIN batch = Running,
                        NEW r \in Running, NEW i \in 1 .. BlocksFor(num_computed[r]),
                        block_table[r][i] \in Discarded(BatchRows, TRUE)
                 PROVE  FALSE
      BY DEF BatchIsRunning
    <2> USE DEF ServingInv
    <2>1. /\ r \in Request /\ r \in DOMAIN batch /\ num_computed[r] \in Nat
          /\ block_table[r] \in Seq(Block) /\ Len(block_table[r]) \in Nat
          /\ batch[r] \in Nat \ {0}
      BY DEF TypedInv, ServingTypeOK, Running, BatchFits
    <2>2. block_table[r][i] \in Held /\ ~Complete(block_table[r][i])
          /\ block_table[r][i] \notin Written(BatchRows)
      BY DEF Discarded, Idle, Needed
    <2> DEFINE k == i - 1
               row == [table |-> block_table[r], committed |-> num_computed[r],
                       seq_len |-> num_computed[r] + batch[r]]
    <2>3. BlocksFor(num_computed[r]) \in Nat
          /\ BlocksFor(num_computed[r]) * Group < num_computed[r] + Group
      <3>1. Group \in Nat \ {0} /\ num_computed[r] + Group - 1 \in Nat
        BY <2>1, GroupAssumption
      <3>2. BlocksFor(num_computed[r]) * Group <= num_computed[r] + Group - 1
        BY <3>1, DivisionBounds DEF BlocksFor
      <3>3. BlocksFor(num_computed[r]) \in Nat
        BY <2>1, BlocksForNat
      <3>4. BlocksFor(num_computed[r]) * Group \in Nat
        BY <3>1, <3>3
      <3> QED BY <3>1, <3>2, <3>3, <3>4, <2>1
    <2>4. /\ k \in Nat /\ k + 1 = i /\ i \in Nat /\ Group \in Nat \ {0}
          /\ k * Group \in Nat /\ i * Group \in Nat /\ i * Group = k * Group + Group
      BY <2>3, GroupAssumption
    <2>5. k * Group < num_computed[r]
      <3>1. i <= BlocksFor(num_computed[r])
        BY <2>3
      <3>2. i * Group <= BlocksFor(num_computed[r]) * Group
            /\ BlocksFor(num_computed[r]) * Group \in Nat
        BY <3>1, <2>3, <2>4, TimesGroupMonotone
      <3> QED BY <3>2, <2>1, <2>3, <2>4
    <2>6. i \in 1 .. Len(block_table[r])
      <3> DEFINE len == Len(block_table[r])
      <3>1. num_computed[r] <= len * Group /\ len \in Nat
        BY <2>1 DEF FillInv, TablesCover
      <3> HIDE DEF len, k
      <3>2. ASSUME ~(i <= len) PROVE FALSE
        <4>1. len <= k
          BY <3>1, <3>2, <2>4
        <4>2. len * Group <= k * Group /\ len * Group \in Nat
          BY <3>1, <4>1, <2>4, TimesGroupMonotone
        <4> QED BY <4>2, <3>1, <2>1, <2>4, <2>5
      <3> QED BY <3>1, <3>2, <2>4 DEF len, k
    <2>7. CASE i * Group <= num_computed[r]
      <3>1. block_fill[block_table[r][i]] = Group
        BY <2>1, <2>2, <2>6, <2>7 DEF FillInv, FullAreFilled
      <3>2. block_table[r][i] \in DOMAIN block_fill
        BY <2>2 DEF SinkBookkeeping
      <3> QED BY <3>1, <3>2, <2>2, <2>4 DEF Complete
    <2>8. CASE ~(i * Group <= num_computed[r])
      <3>1. num_computed[r] \div Group <= k
        <4> DEFINE n == num_computed[r] \div Group
        <4>1. n \in Nat /\ n * Group <= num_computed[r]
          BY <2>1, DivisionBounds
        <4> HIDE DEF n, k
        <4>2. ASSUME ~(n <= k) PROVE FALSE
          <5>1. i <= n
            BY <4>1, <4>2, <2>4
          <5>2. i * Group <= n * Group /\ n * Group \in Nat
            BY <4>1, <5>1, <2>4, TimesGroupMonotone
          <5> QED BY <5>2, <4>1, <2>1, <2>4, <2>8
        <4> QED BY <4>2 DEF n
      <3>2. k \in WrittenCols(row)
        BY <3>1, <2>1, <2>4, <2>5, <2>6 DEF WrittenCols, LastCol
      <3>3. block_table[r][k + 1] \in Written(BatchRows)
        BY <3>2, <2>1, WrittenFill
      <3> QED BY <3>3, <2>2, <2>4
    <2> QED BY <2>7, <2>8
  <1>2. [][Spares]_vars => ReclaimSparesRunning
    BY PTL DEF ReclaimSparesRunning
  <1> QED BY <1>1, <1>2, FillsAlways, BatchIsRunningAlways, PTL DEF Spec

-----------------------------------------------------------------------------
(* What is in the slots and the tiles.                                      *)

(* A block a running request has filled in part is in the pool, and it is no *)
(* retired sink: it has no other copy, and nobody may evict it.              *)
OpenResident ==
    \A r \in Request : \A i \in 1 .. Len(block_table[r]) :
        (i - 1) * Group < num_computed[r] /\ num_computed[r] < i * Group
            => block_table[r][i] \in Held \ retired_sinks

(* The tables of a batch have room for the drafter's passes to come.         *)
RoomForDrafts ==
    pass >= 1 => \A r \in DOMAIN batch :
        num_computed[r] + (IF pass = 1 THEN batch[r] ELSE 0) + DraftPasses
            <= Len(block_table[r]) * Group

(* From its scheduling to its last pass, a batch names every running request. *)
BatchServesAll == pass # 0 => DOMAIN batch = Running

(* An empty request slot has computed nothing.                               *)
EmptyRowsEmpty == \A r \in Request : conversation[r] = None => num_computed[r] = 0

(* What attention reads for a committed position is that position's token.   *)
CommittedReadable ==
    \A r \in Request : \A p \in 0 .. num_computed[r] - 1 :
        ReadKV(block_table[r][p \div Group + 1], p % Group) = Token(conversation[r], p)

-----------------------------------------------------------------------------
(* Where a token lives.                                                     *)

(* A position below a table's length has a block and an offset in it.        *)
LEMMA PositionInTable ==
    ASSUME NEW p \in Nat, NEW n \in Nat, p < n * Group
    PROVE  /\ p \div Group \in Nat /\ p \div Group + 1 \in 1 .. n
           /\ p % Group \in 0 .. Group - 1
           /\ p = (p \div Group) * Group + (p % Group)
           /\ (p \div Group) * Group <= p
           /\ p < (p \div Group + 1) * Group
  <1> DEFINE k == p \div Group
  <1>1. /\ k \in Nat /\ k * Group <= p /\ p < k * Group + Group
        /\ k * Group \in Nat
    BY DivisionBounds, GroupAssumption
  <1>2. p % Group \in 0 .. Group - 1 /\ p = k * Group + (p % Group)
    BY GroupAssumption
  <1> HIDE DEF k
  <1>3. (k + 1) * Group = k * Group + Group
    BY <1>1, GroupAssumption
  <1>4. k < n
    <2>1. ASSUME n <= k PROVE FALSE
      <3>1. n * Group <= k * Group
        BY <2>1, <1>1, TimesGroupMonotone
      <3> QED BY <3>1, <1>1, GroupAssumption
    <2> QED BY <2>1, <1>1
  <1>5. k + 1 \in 1 .. n
    BY <1>1, <1>4
  <1> QED BY <1>1, <1>2, <1>3, <1>5 DEF k

(* Two positions with the same block index and offset are the same.          *)
LEMMA PositionUnique ==
    ASSUME NEW p \in Nat, NEW q \in Nat,
           p \div Group = q \div Group, p % Group = q % Group
    PROVE  p = q
  <1>1. p = (p \div Group) * Group + (p % Group) /\ q = (q \div Group) * Group + (q % Group)
    BY GroupAssumption
  <1> QED BY <1>1

(* A build moves the data of every block it neither discards nor opens: kept *)
(* blocks keep their slot and its content, quantised ones leave it in their  *)
(* tile, and the others had it there already.                                *)
LEMMA BuildKeepsData ==
    ASSUME PoolInv, NEW rows \in SUBSET Row, NEW allow_flush \in BOOLEAN,
           allow_flush => Written(rows) \cap FlushDetected(rows) = {},
           NEW evicted, Built(rows, allow_flush, evicted),
           tile' = FlushTiles(Quantised(rows, allow_flush, evicted)),
           NEW b \in Block, b \notin Discarded(rows, allow_flush),
           b \in Held \/ b \notin Held', NEW o
    PROVE  (IF b \in Held' THEN KeepOwned(block_to_slot')[block_to_slot'[b]][o]
                           ELSE tile'[b][o]) = ReadKV(b, o)
  <1> DEFINE missing == Missing(rows, allow_flush)
             gone    == Gone(rows, allow_flush, evicted)
  <1>1. SlotMoves(rows, allow_flush, evicted)
    BY BuildMoves
  <1>2. /\ missing \subseteq Needed(rows)
        /\ missing \cap Held \subseteq Dropped(rows, allow_flush)
        /\ Held' = (Held \ gone) \cup missing
        /\ \A a \in Held \ (gone \cup missing) : block_to_slot'[a] = block_to_slot[a]
    BY <1>1 DEF SlotMoves, Held
  <1>3. missing \cap Held = {}
    BY <1>2, NeededNotDropped
  <1>4. \A a \in Held : block_to_slot[a] \in Slot
    BY DEF PoolInv, PoolTypeOK
  <1>5. CASE b \in Held /\ b \in Held'
    <2>1. b \notin gone /\ block_to_slot'[b] = block_to_slot[b]
      BY <1>2, <1>3, <1>5
    <2>2. block_to_slot[b] \in Slot
      BY <1>4, <1>5
    <2>3. KeepOwned(block_to_slot')[block_to_slot[b]] = pool[block_to_slot[b]]
      BY <1>5, <2>1, <2>2 DEF KeepOwned, Held
    <2> QED BY <1>5, <2>1, <2>3 DEF ReadKV
  <1>6. CASE b \in Held /\ b \notin Held'
    <2>1. b \in Quantised(rows, allow_flush, evicted)
      BY <1>2, <1>6 DEF Gone, Dropped, Quantised
    <2>2. tile'[b] = pool[block_to_slot[b]]
      BY <1>6, <2>1 DEF FlushTiles
    <2> QED BY <1>6, <2>2 DEF ReadKV
  <1>7. CASE b \notin Held /\ b \notin Held'
    <2>1. tile'[b] = tile[b]
      BY <1>7 DEF FlushTiles
    <2> QED BY <1>7, <2>1 DEF ReadKV
  <1> QED BY <1>5, <1>6, <1>7

(* The forward pass leaves alone what no token of the step is written to.    *)
LEMMA UnwrittenRead ==
    ASSUME PoolInv', NEW writes, NEW slots,
           pool' = Scatter(block_to_slot', slots, writes),
           NEW b, NEW o \in 0 .. Group - 1,
           \A w \in writes : ~(w.block = b /\ w.offset = o)
    PROVE  ReadKV(b, o)' = IF b \in Held' THEN slots[block_to_slot'[b]][o] ELSE tile'[b][o]
  <1>1. CASE b \in Held'
    <2> DEFINE s == block_to_slot'[b]
    <2>1. s \in Slot
      BY <1>1 DEF PoolInv, PoolTypeOK
    <2>2. \A w \in writes : ~(w.block \in DOMAIN block_to_slot'
                              /\ block_to_slot'[w.block] = s /\ w.offset = o)
      BY <1>1 DEF PoolInv, SlotPartition, Held
    <2> HIDE DEF s
    <2>3. pool'[s][o] = slots[s][o]
      BY <2>1, <2>2 DEF Scatter
    <2> QED BY <1>1, <2>3 DEF ReadKV, s
  <1>2. CASE b \notin Held'
    BY <1>2 DEF ReadKV
  <1> QED BY <1>1, <1>2

(* A token written to a block with a slot is read there, when all that is    *)
(* written to the place is that token.                                       *)
LEMMA WrittenRead ==
    ASSUME PoolInv', NEW writes, NEW slots,
           pool' = Scatter(block_to_slot', slots, writes),
           NEW b \in Held', NEW o \in 0 .. Group - 1, NEW t,
           \E w \in writes : w.block = b /\ w.offset = o,
           \A w \in writes : w.block = b /\ w.offset = o => w.token = t
    PROVE  ReadKV(b, o)' = t
  <1> DEFINE s == block_to_slot'[b]
             Here(w) == w.block \in DOMAIN block_to_slot'
                            /\ block_to_slot'[w.block] = s /\ w.offset = o
  <1>1. s \in Slot
    BY DEF PoolInv, PoolTypeOK
  <1>2. \A w \in writes : Here(w) => w.token = t
    BY DEF PoolInv, SlotPartition, Held
  <1>3. \E w \in writes : Here(w)
    BY DEF Held
  <1>4. pool'[s][o] = (CHOOSE w \in writes : Here(w)).token
    BY <1>1, <1>3 DEF Scatter
  <1>5. (CHOOSE w \in writes : Here(w)).token = t
    <2> HIDE DEF Here
    <2> QED BY <1>2, <1>3
  <1> QED BY <1>4, <1>5 DEF ReadKV

(* What no token of the step is written to reads after the step as before    *)
(* it, unless the build discards the block or gives it an empty slot.        *)
LEMMA DataKept ==
    ASSUME PoolInv, PoolInv', NEW rows \in SUBSET Row, NEW allow_flush \in BOOLEAN,
           allow_flush => Written(rows) \cap FlushDetected(rows) = {},
           NEW evicted, Built(rows, allow_flush, evicted),
           tile' = FlushTiles(Quantised(rows, allow_flush, evicted)),
           NEW writes,
           pool' = Scatter(block_to_slot', KeepOwned(block_to_slot'), writes),
           NEW b \in Block, b \notin Discarded(rows, allow_flush),
           b \in Held \/ b \notin Held', NEW o \in 0 .. Group - 1,
           \A w \in writes : ~(w.block = b /\ w.offset = o)
    PROVE  ReadKV(b, o)' = ReadKV(b, o)
  <1> DEFINE slots == KeepOwned(block_to_slot')
  <1>1. (IF b \in Held' THEN slots[block_to_slot'[b]][o] ELSE tile'[b][o]) = ReadKV(b, o)
    BY BuildKeepsData
  <1>2. pool' = Scatter(block_to_slot', slots, writes)
    OBVIOUS
  <1> HIDE DEF slots
  <1>3. ReadKV(b, o)' = IF b \in Held' THEN slots[block_to_slot'[b]][o] ELSE tile'[b][o]
    BY <1>2, UnwrittenRead
  <1> QED BY <1>1, <1>3

(* A complete block that no row writes keeps its data through a build and    *)
(* the forward pass, in its slot or in its tile.                             *)
LEMMA CompleteKept ==
    ASSUME PoolInv, PoolInv', SinkBookkeeping,
           NEW rows \in SUBSET Row, NEW allow_flush \in BOOLEAN,
           allow_flush => Written(rows) \cap FlushDetected(rows) = {},
           NEW evicted, Built(rows, allow_flush, evicted),
           tile' = FlushTiles(Quantised(rows, allow_flush, evicted)),
           NEW writes, \A w \in writes : w.block \in Written(rows),
           pool' = Scatter(block_to_slot', KeepOwned(block_to_slot'), writes),
           NEW b \in Block, b \notin Written(rows), b \in Held => block_fill[b] = Group,
           NEW o \in 0 .. Group - 1
    PROVE  ReadKV(b, o)' = ReadKV(b, o)
  <1>1. b \in Held \/ b \notin Held'
    BY NewSlotsAreWritten
  <1>2. b \notin Discarded(rows, allow_flush)
    BY GroupAssumption DEF Discarded, Idle, Complete, SinkBookkeeping
  <1>3. \A w \in writes : ~(w.block = b /\ w.offset = o)
    OBVIOUS
  <1> QED BY <1>1, <1>2, <1>3, DataKept

(* What a build's batch writes has a slot after it and is no retired sink.   *)
LEMMA WrittenResident ==
    ASSUME PoolInv, NEW rows \in SUBSET Row, NEW allow_flush \in BOOLEAN,
           NEW evicted, Built(rows, allow_flush, evicted)
    PROVE  Written(rows) \subseteq Held' \ retired_sinks'
  <1>1. SlotMoves(rows, allow_flush, evicted)
    BY BuildMoves
  <1>2. /\ Held' = (Held \ Gone(rows, allow_flush, evicted)) \cup Missing(rows, allow_flush)
        /\ evicted \subseteq RetiredNow(rows, allow_flush)
    BY <1>1 DEF SlotMoves, Held
  <1>3. RetiredNow(rows, allow_flush) \cap Needed(rows) = {}
    BY RetiredNowFacts DEF PoolInv
  <1>4. Written(rows) \subseteq Needed(rows)
    BY DEF Needed
  <1>5. retired_sinks' \subseteq RetiredNow(rows, allow_flush)
    BY DEF Built, BuildMeta
  <1> QED BY <1>2, <1>3, <1>4, <1>5 DEF Missing, Kept, Gone

(* The column of a position a row is to write is one of its written columns. *)
LEMMA PositionIsWritten ==
    ASSUME NEW table, Len(table) \in Nat, NEW n \in Nat, NEW m \in Nat, NEW p \in Nat,
           n \div Group <= p \div Group, (p \div Group) * Group < m,
           p < Len(table) * Group
    PROVE  p \div Group \in WrittenCols([table |-> table, committed |-> n, seq_len |-> m])
  <1>1. p \div Group \in Nat /\ p \div Group + 1 \in 1 .. Len(table)
    BY PositionInTable
  <1> QED BY <1>1 DEF WrittenCols, LastCol

(* Rounding down keeps the order.                                            *)
LEMMA QuotientMonotone ==
    ASSUME NEW n \in Nat, NEW p \in Nat, n < (p \div Group + 1) * Group
    PROVE  n \div Group <= p \div Group
  <1> DEFINE a == n \div Group
             k == p \div Group
  <1>1. a \in Nat /\ a * Group <= n /\ k \in Nat
    BY DivisionBounds
  <1>2. n < (k + 1) * Group
    OBVIOUS
  <1> HIDE DEF a, k
  <1>3. ASSUME k + 1 <= a PROVE FALSE
    <2>1. k + 1 \in Nat
      BY <1>1
    <2>2. (k + 1) * Group <= a * Group /\ a * Group \in Nat /\ (k + 1) * Group \in Nat
      BY <1>1, <1>3, <2>1, TimesGroupMonotone
    <2> QED BY <2>2, <1>1, <1>2
  <1>4. a <= k
    BY <1>1, <1>3
  <1> QED BY <1>4 DEF a, k

(* A place in the cache that an uncommitted position of a row names is named *)
(* by no other position of any request.                                      *)
LEMMA OnlyWriter ==
    ASSUME TypedInv, Sharing, NEW q \in Request, NEW r \in Request,
           NEW p \in Nat, p < Len(block_table[q]) * Group, num_computed[q] <= p,
           NEW t \in Nat, t < Len(block_table[r]) * Group,
           block_table[q][p \div Group + 1] = block_table[r][t \div Group + 1],
           p % Group = t % Group
    PROVE  q = r /\ p = t
  <1>1. /\ Len(block_table[q]) \in Nat /\ Len(block_table[r]) \in Nat
        /\ num_computed[q] \in Nat
    BY DEF TypedInv, ServingTypeOK
  <1> DEFINE i == p \div Group + 1
             j == t \div Group + 1
  <1>2. /\ i \in 1 .. Len(block_table[q]) /\ p < i * Group /\ i - 1 = p \div Group
        /\ j \in 1 .. Len(block_table[r]) /\ j - 1 = t \div Group
        /\ block_table[q][i] = block_table[r][j]
        /\ i \in Nat
    <2>1. /\ p \div Group \in Nat /\ i \in 1 .. Len(block_table[q]) /\ p < i * Group
      BY <1>1, PositionInTable
    <2>2. t \div Group \in Nat /\ j \in 1 .. Len(block_table[r])
      BY <1>1, PositionInTable
    <2> QED BY <2>1, <2>2
  <1> HIDE DEF i, j
  <1>3. q = r
    <2>1. i * Group \in Nat
      BY <1>2, GroupAssumption
    <2>2. ~(i * Group <= num_computed[q])
      BY <1>1, <1>2, <2>1
    <2> QED BY <1>2, <2>2 DEF Sharing, SharedAreFull
  <1>4. i = j
    BY <1>2, <1>3 DEF Sharing, OneColumn
  <1>5. p \div Group = t \div Group
    BY <1>2, <1>4
  <1> QED BY <1>3, <1>5, PositionUnique

(* A write of a step goes to the block and offset of its position.           *)
LEMMA WriteAtIs ==
    ASSUME NEW r, NEW p, NEW t
    PROVE  /\ WriteAt(r, p, t).block = block_table[r][p \div Group + 1]
           /\ WriteAt(r, p, t).offset = p % Group
           /\ WriteAt(r, p, t).token = t
  BY DEF WriteAt

-----------------------------------------------------------------------------
(* The data through the environment's actions.                              *)

ReadInv ==
    /\ OpenResident /\ RoomForDrafts /\ BatchServesAll /\ EmptyRowsEmpty
    /\ CommittedReadable /\ CachedReadable

(* At the start nobody has computed or cached anything.                      *)
LEMMA InitRead == ServingInit => ReadInv
  <1> SUFFICES ASSUME ServingInit PROVE ReadInv
    OBVIOUS
  <1>1. /\ \A r \in Request : num_computed[r] = 0 /\ block_table[r] = <<>>
        /\ \A b \in Block : block_hash[b] = NoHash
        /\ pass = 0
    BY DEF ServingInit
  <1>2. OpenResident
    BY <1>1 DEF OpenResident
  <1>3. RoomForDrafts /\ BatchServesAll /\ EmptyRowsEmpty
    BY <1>1 DEF RoomForDrafts, BatchServesAll, EmptyRowsEmpty
  <1>4. CommittedReadable /\ CachedReadable
    BY <1>1 DEF CommittedReadable, CachedReadable
  <1> QED BY <1>2, <1>3, <1>4 DEF ReadInv

(* What attention reads for a request depends on its table and the data.     *)
LEMMA ReadFrame ==
    ASSUME UNCHANGED <<block_to_slot, pool, tile>>, NEW b, NEW o
    PROVE  ReadKV(b, o)' = ReadKV(b, o)
  BY DEF ReadKV, Held

(* An admitted request reads its prefix in the cached blocks it hits.        *)
LEMMA AdmitRead ==
    ASSUME ServingInv, ReadInv, NEW r \in Request, NEW c \in Conversation, Admit(r, c)
    PROVE  ReadInv'
  <1> USE DEF ServingInv
  <1>1. PICK hit \in CachedChain(c) :
            /\ conversation' = [conversation EXCEPT ![r] = c]
            /\ block_table' = [block_table EXCEPT ![r] = hit]
            /\ num_computed' = [num_computed EXCEPT ![r] = Len(hit) * Group]
    BY DEF Admit
  <1>2. /\ block_hash' = block_hash /\ pass = 0 /\ pass' = 0
        /\ UNCHANGED <<block_to_slot, retired_sinks, pool, tile>>
    BY DEF Admit, poolVars, dataVars
  <1>3. /\ hit \in Seq(Block) /\ Len(hit) \in Nat
        /\ \A i \in 1 .. Len(hit) : block_hash[hit[i]] = <<c, i - 1>>
    BY ChainIsCached
  <1>4. /\ block_table'[r] = hit /\ num_computed'[r] = Len(hit) * Group
        /\ conversation'[r] = c
        /\ \A q \in Request \ {r} : /\ block_table'[q] = block_table[q]
                                    /\ num_computed'[q] = num_computed[q]
                                    /\ conversation'[q] = conversation[q]
    BY <1>1 DEF TypedInv, ServingTypeOK
  <1>5. OpenResident'
    <2> SUFFICES ASSUME NEW q \in Request, NEW i \in 1 .. Len(block_table'[q]),
                        (i - 1) * Group < num_computed'[q], num_computed'[q] < i * Group
                 PROVE  block_table'[q][i] \in (Held \ retired_sinks)'
      BY DEF OpenResident
    <2>1. CASE q = r
      <3>1. i \in Nat /\ i <= Len(hit)
        BY <2>1, <1>3, <1>4
      <3>2. i * Group <= Len(hit) * Group /\ i * Group \in Nat /\ Len(hit) * Group \in Nat
        BY <3>1, <1>3, TimesGroupMonotone
      <3> QED BY <3>2, <2>1, <1>4
    <2>2. CASE q # r
      BY <2>2, <1>2, <1>4 DEF ReadInv, OpenResident, Held
    <2> QED BY <2>1, <2>2
  <1>6. RoomForDrafts' /\ BatchServesAll'
    BY <1>2 DEF RoomForDrafts, BatchServesAll
  <1>7. EmptyRowsEmpty'
    BY <1>4, ServingAssumption DEF ReadInv, EmptyRowsEmpty
  <1>8. CommittedReadable'
    <2> SUFFICES ASSUME NEW q \in Request, NEW p \in 0 .. num_computed'[q] - 1
                 PROVE  ReadKV(block_table'[q][p \div Group + 1], p % Group)
                            = Token(conversation'[q], p)
      BY <1>2, ReadFrame DEF CommittedReadable, ReadKV, Held
    <2>1. CASE q = r
      <3> DEFINE i == p \div Group + 1
      <3>1. p \in Nat /\ p < Len(hit) * Group
        <4>1. Len(hit) * Group \in Nat
          BY <1>3, GroupAssumption
        <4> QED BY <4>1, <2>1, <1>4
      <3>2. /\ i \in 1 .. Len(hit) /\ p % Group \in 0 .. Group - 1
            /\ p = (i - 1) * Group + (p % Group)
        BY <3>1, <1>3, PositionInTable
      <3> HIDE DEF i
      <3>3. hit[i] \in Block /\ block_hash[hit[i]] = <<c, i - 1>>
        <4>1. hit[i] \in Block
          BY <3>2, <1>3
        <4>2. block_hash[hit[i]] = <<c, i - 1>>
          BY <3>2, <1>3
        <4> QED BY <4>1, <4>2
      <3>4. <<c, i - 1>> # NoHash
        BY DEF NoHash
      <3>5. ReadKV(hit[i], p % Group)
                = Token(block_hash[hit[i]][1], block_hash[hit[i]][2] * Group + (p % Group))
        BY <3>2, <3>3, <3>4 DEF ReadInv, CachedReadable
      <3>6. block_hash[hit[i]][1] = c /\ block_hash[hit[i]][2] = i - 1
        BY <3>3
      <3>7. ReadKV(hit[i], p % Group) = Token(c, p)
        BY <3>2, <3>5, <3>6
      <3> QED BY <3>7, <2>1, <1>4 DEF i
    <2>2. CASE q # r
      BY <2>2, <1>4 DEF ReadInv, CommittedReadable
    <2> QED BY <2>1, <2>2
  <1>9. CachedReadable'
    BY <1>2, ReadFrame DEF ReadInv, CachedReadable
  <1> QED BY <1>5, <1>6, <1>7, <1>8, <1>9 DEF ReadInv

(* A request that leaves changes what nobody else reads.                     *)
LEMMA ReleaseRead ==
    ASSUME ServingInv, ReadInv, NEW r \in Request, Release(r)
    PROVE  ReadInv'
  <1> USE DEF ServingInv
  <1>1. /\ block_table'[r] = <<>> /\ num_computed'[r] = 0
        /\ \A q \in Request \ {r} : /\ block_table'[q] = block_table[q]
                                    /\ num_computed'[q] = num_computed[q]
                                    /\ conversation'[q] = conversation[q]
    BY DEF Release, TypedInv, ServingTypeOK
  <1>2. /\ block_hash' = block_hash /\ pass = 0 /\ pass' = 0
        /\ UNCHANGED <<block_to_slot, retired_sinks, pool, tile>>
    BY DEF Release, poolVars, dataVars
  <1>3. OpenResident'
    BY <1>1, <1>2 DEF ReadInv, OpenResident, Held
  <1>4. RoomForDrafts' /\ BatchServesAll'
    BY <1>2 DEF RoomForDrafts, BatchServesAll
  <1>5. EmptyRowsEmpty'
    BY <1>1 DEF ReadInv, EmptyRowsEmpty
  <1>6. CommittedReadable'
    <2> SUFFICES ASSUME NEW q \in Request, NEW p \in 0 .. num_computed'[q] - 1
                 PROVE  ReadKV(block_table'[q][p \div Group + 1], p % Group)
                            = Token(conversation'[q], p)
      BY <1>2, ReadFrame DEF CommittedReadable, ReadKV, Held
    <2>1. q # r
      BY <1>1
    <2> QED BY <2>1, <1>1 DEF ReadInv, CommittedReadable
  <1>7. CachedReadable'
    BY <1>2, ReadFrame DEF ReadInv, CachedReadable
  <1> QED BY <1>3, <1>4, <1>5, <1>6, <1>7 DEF ReadInv

(* Scheduling hands out blocks no table holds, so no request's data and no   *)
(* cached block's is among the bytes it gives away.                          *)
LEMMA ScheduleRead ==
    ASSUME DeferRows = FALSE, ServingInv, FillInv, ReadInv, NEW rows \in SUBSET Running,
           NEW query \in [rows -> 1 .. MaxQueryLen], Schedule(rows, query)
    PROVE  ReadInv'
  <1> USE DEF ServingInv
  <1> DEFINE total(r) == Greater(Len(block_table[r]),
                            BlocksFor(num_computed[r] + query[r] + DraftPasses))
             grown    == UNION {{r} \X (Len(block_table[r]) + 1 .. total(r)) : r \in rows}
  <1>1. PICK new \in Injection(grown, FreeBlocks) :
            /\ block_table' = [r \in Request |->
                    IF r \notin rows THEN block_table[r]
                    ELSE [i \in 1 .. total(r) |->
                            IF <<r, i>> \in grown THEN new[<<r, i>>] ELSE block_table[r][i]]]
            /\ block_hash' = [b \in Block |->
                    IF b \in Range(new) THEN NoHash ELSE block_hash[b]]
            /\ tile' = [b \in Block |->
                    IF b \in Range(new) THEN JunkTile ELSE tile[b]]
    BY DEF Schedule
  <1>2. /\ UNCHANGED <<conversation, num_computed, block_to_slot, retired_sinks, pool>>
        /\ pass' = 1 /\ batch' = query /\ rows = Running
    BY DEF Schedule, poolVars
  <1>3. \A r \in Request : /\ num_computed[r] \in Nat /\ Len(block_table[r]) \in Nat
                           /\ block_table[r] \in Seq(Block) /\ Len(block_table'[r]) \in Nat
    BY ScheduleTyped DEF TypedInv, ServingTypeOK
  <1>4. \A r \in Request :
            /\ Len(block_table[r]) <= Len(block_table'[r])
            /\ \A i \in 1 .. Len(block_table[r]) : block_table'[r][i] = block_table[r][i]
    BY ScheduleAppends
  <1>5. Range(new) \subseteq FreeBlocks
    BY <1>1 DEF Injection, IsInjective, Range
  <1>6. \A r \in Request : \A i \in 1 .. Len(block_table[r]) :
            block_table[r][i] \in Block /\ block_table[r][i] \notin Range(new)
    <2> TAKE r \in Request
    <2> TAKE i \in 1 .. Len(block_table[r])
    <2>1. block_table[r][i] \in Block /\ i \in DOMAIN block_table[r]
      BY <1>3
    <2>2. block_table[r][i] \in Range(block_table[r])
      BY <2>1 DEF Range
    <2> QED BY <2>1, <2>2, <1>5 DEF FreeBlocks
  <1>7. \A b \in Block : b \notin Range(new) =>
            /\ block_hash'[b] = block_hash[b]
            /\ \A o : ReadKV(b, o)' = ReadKV(b, o)
    BY <1>1, <1>2 DEF ReadKV, Held
  <1>8. \A b \in Block : b \in Range(new) => block_hash'[b] = NoHash
    BY <1>1
  <1>9. \A r \in rows : Len(block_table'[r]) = total(r)
                        /\ num_computed[r] + query[r] + DraftPasses <= total(r) * Group
    <2> TAKE r \in rows
    <2> DEFINE n == num_computed[r] + query[r] + DraftPasses
               long == BlocksFor(n)
               len == Len(block_table[r])
    <2>1. r \in Request /\ n \in Nat
      BY <1>3, ServingAssumption DEF Running
    <2>2. long \in Nat /\ n <= long * Group /\ long * Group \in Nat
      <3> HIDE DEF n
      <3>1. long \in Nat /\ n <= long * Group
        BY <2>1, BlocksForEnough
      <3> QED BY <3>1, GroupAssumption
    <2>3. total(r) = Greater(len, long) /\ len \in Nat
      BY <2>1, <1>3
    <2> HIDE DEF n, long, len, total
    <2>4. total(r) \in Nat /\ long <= total(r)
      BY <2>2, <2>3 DEF Greater
    <2>5. long * Group <= total(r) * Group /\ total(r) * Group \in Nat
      BY <2>2, <2>4, TimesGroupMonotone
    <2>6. n <= total(r) * Group
      BY <2>1, <2>2, <2>5
    <2>7. block_table'[r] = [i \in 1 .. total(r) |->
              IF <<r, i>> \in grown THEN new[<<r, i>>] ELSE block_table[r][i]]
      BY <2>1, <1>1
    <2>8. Len(block_table'[r]) = total(r)
      BY <2>4, <2>7
    <2> QED BY <2>6, <2>8 DEF n
  <1> HIDE DEF total, grown
  <1>10. ASSUME NEW r \in Request, NEW i \in 1 .. Len(block_table'[r]),
                (i - 1) * Group < num_computed[r]
         PROVE  i \in 1 .. Len(block_table[r])
    <2> DEFINE k == i - 1
               len == Len(block_table[r])
    <2>1. /\ i \in Nat /\ k \in Nat /\ i = k + 1 /\ len \in Nat /\ k * Group < num_computed[r]
          /\ 1 <= i
      BY <1>3, <1>10
    <2>2. num_computed[r] <= len * Group
      BY DEF FillInv, TablesCover
    <2> HIDE DEF k, len
    <2>3. ASSUME len <= k PROVE FALSE
      <3>1. len * Group <= k * Group /\ len * Group \in Nat /\ k * Group \in Nat
        BY <2>1, <2>3, TimesGroupMonotone
      <3> QED BY <3>1, <2>1, <2>2, <1>3
    <2>4. k < len
      BY <2>1, <2>3
    <2>5. i \in 1 .. len
      BY <2>1, <2>4
    <2> QED BY <2>5 DEF len
  <1>11. OpenResident'
    <2> SUFFICES ASSUME NEW r \in Request, NEW i \in 1 .. Len(block_table'[r]),
                        (i - 1) * Group < num_computed[r], num_computed[r] < i * Group
                 PROVE  block_table'[r][i] \in Held \ retired_sinks
      BY <1>2 DEF OpenResident, Held
    <2>1. i \in 1 .. Len(block_table[r])
      BY <1>10
    <2> QED BY <2>1, <1>4 DEF ReadInv, OpenResident
  <1>12. RoomForDrafts'
    BY <1>2, <1>9 DEF RoomForDrafts
  <1>13. BatchServesAll' /\ EmptyRowsEmpty'
    BY <1>2 DEF ReadInv, EmptyRowsEmpty, BatchServesAll, Running
  <1>14. CommittedReadable'
    <2> SUFFICES ASSUME NEW r \in Request, NEW p \in 0 .. num_computed[r] - 1
                 PROVE  ReadKV(block_table[r][p \div Group + 1], p % Group)'
                            = Token(conversation[r], p)
      BY <1>2 DEF CommittedReadable
    <2> DEFINE i == p \div Group + 1
    <2>1. p \in Nat /\ p < Len(block_table[r]) * Group
      <3>1. num_computed[r] <= Len(block_table[r]) * Group
        BY DEF FillInv, TablesCover
      <3>2. Len(block_table[r]) * Group \in Nat
        BY <1>3, GroupAssumption
      <3> QED BY <3>1, <3>2, <1>3
    <2>2. i \in 1 .. Len(block_table[r])
      BY <2>1, <1>3, PositionInTable
    <2>3. ReadKV(block_table[r][i], p % Group) = Token(conversation[r], p)
      BY DEF ReadInv, CommittedReadable
    <2> HIDE DEF i
    <2>4. /\ block_table'[r][i] = block_table[r][i]
          /\ block_table[r][i] \in Block /\ block_table[r][i] \notin Range(new)
      BY <2>2, <1>4, <1>6
    <2>5. ReadKV(block_table[r][i], p % Group)' = Token(conversation[r], p)
      BY <2>3, <2>4, <1>7
    <2> QED BY <2>5 DEF i
  <1>15. CachedReadable'
    BY <1>7, <1>8 DEF ReadInv, CachedReadable
  <1> QED BY <1>11, <1>12, <1>13, <1>14, <1>15 DEF ReadInv

-----------------------------------------------------------------------------
(* The data through a forward pass.                                         *)

(* The writes of a step after which `done' tokens are computed: every         *)
(* scheduled position gets its token, or junk when sampling rejects it.      *)
StepWrites(done) ==
    UNION {{WriteAt(r, p, IF p < done[r] THEN Token(conversation[r], p) ELSE Junk) :
                p \in num_computed[r] .. num_computed[r] + batch[r] - 1} :
            r \in DOMAIN batch}

(* A scheduled position has a block of its request's table, which the batch  *)
(* writes, and no other request names the place.                             *)
LEMMA StepPosition ==
    ASSUME ServingInv, pass = 1, NEW r \in DOMAIN batch,
           NEW p \in num_computed[r] .. num_computed[r] + batch[r] - 1
    PROVE  /\ r \in Request /\ p \in Nat /\ num_computed[r] <= p
           /\ p < Len(block_table[r]) * Group
           /\ block_table[r][p \div Group + 1] \in Written(BatchRows)
  <1> USE DEF ServingInv
  <1> DEFINE row == [table |-> block_table[r], committed |-> num_computed[r],
                     seq_len |-> num_computed[r] + batch[r]]
             m == num_computed[r] + batch[r]
  <1>1. /\ r \in Request /\ num_computed[r] \in Nat /\ batch[r] \in Nat
        /\ Len(block_table[r]) \in Nat
    BY DEF TypedInv, ServingTypeOK, BatchFits
  <1>2. p \in Nat /\ num_computed[r] <= p /\ p < m /\ m \in Nat
    BY <1>1
  <1>3. p < Len(block_table[r]) * Group
    <2>1. m <= Len(block_table[r]) * Group
      BY DEF Sharing, BatchHasBlocks
    <2>2. Len(block_table[r]) * Group \in Nat
      BY <1>1, GroupAssumption
    <2> QED BY <1>2, <2>1, <2>2
  <1> HIDE DEF m
  <1>4. p \div Group \in WrittenCols(row)
    <2>1. /\ (p \div Group) * Group <= p /\ p < (p \div Group + 1) * Group
          /\ p \div Group \in Nat
      BY <1>1, <1>2, <1>3, PositionInTable
    <2>2. (p \div Group + 1) * Group \in Nat /\ (p \div Group) * Group \in Nat
      BY <2>1, GroupAssumption
    <2>3. num_computed[r] < (p \div Group + 1) * Group
      BY <1>1, <1>2, <2>1, <2>2
    <2>4. num_computed[r] \div Group <= p \div Group
      BY <1>1, <1>2, <2>3, QuotientMonotone
    <2>5. (p \div Group) * Group < m
      BY <1>2, <2>1, <2>2
    <2> QED BY <1>1, <1>2, <1>3, <2>4, <2>5, PositionIsWritten DEF m
  <1>5. block_table[r][p \div Group + 1] \in Written(BatchRows)
    BY <1>4, WrittenFill
  <1> QED BY <1>1, <1>2, <1>3, <1>5

(* A block that a row of the batch has filled in part is written this step.  *)
LEMMA OpenIsWritten ==
    ASSUME ServingInv, pass = 1, NEW r \in DOMAIN batch,
           NEW i \in 1 .. Len(block_table[r]), NEW n \in Nat,
           (i - 1) * Group < n, n < i * Group,
           num_computed[r] <= n, n <= num_computed[r] + batch[r]
    PROVE  block_table[r][i] \in Written(BatchRows)
  <1> USE DEF ServingInv
  <1> DEFINE k == i - 1
             row == [table |-> block_table[r], committed |-> num_computed[r],
                     seq_len |-> num_computed[r] + batch[r]]
  <1>1. /\ r \in Request /\ num_computed[r] \in Nat /\ batch[r] \in Nat
        /\ Len(block_table[r]) \in Nat
    BY DEF TypedInv, ServingTypeOK, BatchFits
  <1>2. /\ k \in Nat /\ k + 1 = i /\ i \in Nat /\ k <= LastCol(row)
        /\ k * Group \in Nat /\ i * Group \in Nat
    BY <1>1, GroupAssumption DEF LastCol
  <1>3. num_computed[r] < (k + 1) * Group
    BY <1>1, <1>2
  <1>4. k * Group < num_computed[r] + batch[r]
    BY <1>1, <1>2
  <1>5. num_computed[r] \div Group <= k
    <2> DEFINE a == num_computed[r] \div Group
    <2>1. a \in Nat /\ a * Group <= num_computed[r]
      BY <1>1, DivisionBounds
    <2> HIDE DEF a, k
    <2>2. ASSUME k + 1 <= a PROVE FALSE
      <3>1. k + 1 \in Nat
        BY <1>2
      <3>2. (k + 1) * Group <= a * Group /\ a * Group \in Nat /\ (k + 1) * Group \in Nat
        BY <2>1, <2>2, <3>1, TimesGroupMonotone
      <3> QED BY <3>2, <2>1, <1>1, <1>3
    <2>3. a <= k
      BY <2>1, <2>2, <1>2
    <2> QED BY <2>3 DEF a
  <1>6. k \in WrittenCols(row)
    BY <1>2, <1>4, <1>5 DEF WrittenCols
  <1>7. block_table[r][k + 1] \in Written(BatchRows)
    BY <1>6, WrittenFill
  <1> QED BY <1>2, <1>7

(* A forward pass, seen by the data: the build, its flushes, its writes.     *)
LEMMA ExecuteSteps ==
    ASSUME ServingInv, BatchServesAll, EmptyRowsEmpty,
           NEW accepted \in [DOMAIN batch -> 1 .. MaxQueryLen], ExecuteModel(accepted)
    PROVE  /\ pass = 1 /\ conversation' = conversation /\ block_table' = block_table
           /\ BatchRows \in SUBSET Row
           /\ \E evicted :
                /\ Built(BatchRows, TRUE, evicted)
                /\ tile' = FlushTiles(Quantised(BatchRows, TRUE, evicted))
           /\ pool' = Scatter(block_to_slot', KeepOwned(block_to_slot'),
                              StepWrites(num_computed'))
           /\ \A r \in Request : num_computed[r] <= num_computed'[r]
           /\ \A r \in DOMAIN batch : num_computed'[r] <= num_computed[r] + batch[r]
           /\ \A r \in Request \ DOMAIN batch : num_computed[r] = 0 /\ num_computed'[r] = 0
  <1> USE DEF ServingInv
  <1> DEFINE done == [r \in Request |-> num_computed[r] +
                        IF r \in DOMAIN batch THEN accepted[r] ELSE 0]
  <1>1. /\ pass = 1 /\ conversation' = conversation /\ block_table' = block_table
        /\ num_computed' = done
        /\ \A r \in DOMAIN batch : accepted[r] <= batch[r]
    BY DEF ExecuteModel
  <1>2. BatchRows \in SUBSET Row
    BY RowsTyped
  <1>3. \E evicted : /\ Built(BatchRows, TRUE, evicted)
                     /\ tile' = FlushTiles(Quantised(BatchRows, TRUE, evicted))
    BY DEF ExecuteModel, AllowFlush, Built
  <1>4. pool' = Scatter(block_to_slot', KeepOwned(block_to_slot'), StepWrites(done))
    BY DEF ExecuteModel, StepWrites
  <1>5. /\ DOMAIN batch \subseteq Request
        /\ \A r \in DOMAIN batch : batch[r] \in Nat /\ accepted[r] \in Nat
        /\ \A r \in Request : num_computed[r] \in Nat
    BY DEF TypedInv, ServingTypeOK, BatchFits
  <1>6. \A r \in Request \ DOMAIN batch : num_computed[r] = 0
    BY <1>1, ServingAssumption DEF BatchServesAll, EmptyRowsEmpty, Running
  <1>7. \A r \in Request : done[r] = num_computed[r] +
                              IF r \in DOMAIN batch THEN accepted[r] ELSE 0
    OBVIOUS
  <1> HIDE DEF done
  <1>8. \A r \in Request \ DOMAIN batch : done[r] = 0
    BY <1>6, <1>7
  <1>9. \A r \in DOMAIN batch :
            num_computed[r] <= done[r] /\ done[r] <= num_computed[r] + batch[r]
    BY <1>1, <1>5, <1>7
  <1>10. \A r \in Request : num_computed[r] <= done[r]
    BY <1>5, <1>6, <1>8, <1>9
  <1> QED BY <1>1, <1>2, <1>3, <1>4, <1>6, <1>8, <1>9, <1>10

(* After a forward pass every committed position, the old and the new ones,  *)
(* reads as its token.                                                       *)
LEMMA ExecuteCommitted ==
    ASSUME ServingInv, ServingInv', FillInv, ReadInv,
           NEW accepted \in [DOMAIN batch -> 1 .. MaxQueryLen], ExecuteModel(accepted)
    PROVE  CommittedReadable'
  <1> USE DEF ServingInv
  <1>1. /\ pass = 1 /\ conversation' = conversation /\ block_table' = block_table
        /\ BatchRows \in SUBSET Row
        /\ pool' = Scatter(block_to_slot', KeepOwned(block_to_slot'),
                           StepWrites(num_computed'))
        /\ \A r \in DOMAIN batch : num_computed'[r] <= num_computed[r] + batch[r]
        /\ \A r \in Request \ DOMAIN batch : num_computed'[r] = 0
    BY ExecuteSteps DEF ReadInv
  <1>2. PICK evicted : /\ Built(BatchRows, TRUE, evicted)
                       /\ tile' = FlushTiles(Quantised(BatchRows, TRUE, evicted))
    BY ExecuteSteps DEF ReadInv, Built
  <1> DEFINE writes == StepWrites(num_computed')
  <1>3. PoolInv /\ PoolInv' /\ SinkBookkeeping /\ TRUE \in BOOLEAN
        /\ Written(BatchRows) \cap FlushDetected(BatchRows) = {}
    BY WritesMissFlushes DEF TypedInv
  <1>4. \A w \in writes : \E q \in DOMAIN batch :
            \E t \in num_computed[q] .. num_computed[q] + batch[q] - 1 :
                w = WriteAt(q, t, IF t < num_computed'[q]
                                  THEN Token(conversation[q], t) ELSE Junk)
    BY DEF StepWrites
  <1>5. \A r \in DOMAIN batch :
            \A t \in num_computed[r] .. num_computed[r] + batch[r] - 1 :
                WriteAt(r, t, IF t < num_computed'[r]
                              THEN Token(conversation[r], t) ELSE Junk) \in writes
    BY DEF StepWrites
  <1> HIDE DEF writes
  <1>6. \A w \in writes : w.block \in Written(BatchRows)
    BY <1>1, <1>4, StepPosition, WriteAtIs
  <1>7. Written(BatchRows) \subseteq Held'
    BY <1>1, <1>2, <1>3, WrittenResident
  <1>c. \A c \in Block : \A u \in 0 .. Group - 1 :
            c \notin Written(BatchRows) /\ (c \in Held => block_fill[c] = Group)
                => ReadKV(c, u)' = ReadKV(c, u)
    BY <1>1, <1>2, <1>3, <1>6, CompleteKept DEF writes
  <1>d. ASSUME NEW c \in Block, c \in Held, NEW u \in 0 .. Group - 1,
               c \notin Discarded(BatchRows, TRUE),
               \A w \in writes : ~(w.block = c /\ w.offset = u)
        PROVE  ReadKV(c, u)' = ReadKV(c, u)
    <2>1. c \in Held \/ c \notin Held'
      BY <1>d
    <2>2. pool' = Scatter(block_to_slot', KeepOwned(block_to_slot'), writes)
      BY <1>1 DEF writes
    <2>3. BatchRows \in SUBSET Row /\ TRUE \in BOOLEAN
      BY <1>1
    <2>4. (IF c \in Held' THEN KeepOwned(block_to_slot')[block_to_slot'[c]][u]
                          ELSE tile'[c][u]) = ReadKV(c, u)
      BY <1>2, <1>3, <1>d, <2>1, <2>3, BuildKeepsData
    <2>5. ReadKV(c, u)' = IF c \in Held' THEN KeepOwned(block_to_slot')[block_to_slot'[c]][u]
                                        ELSE tile'[c][u]
      BY <1>3, <1>d, <2>2, UnwrittenRead
    <2> QED BY <2>4, <2>5
  <1>e. ASSUME NEW c \in Held', NEW u \in 0 .. Group - 1, NEW token,
               \E w \in writes : w.block = c /\ w.offset = u,
               \A w \in writes : w.block = c /\ w.offset = u => w.token = token
        PROVE  ReadKV(c, u)' = token
    BY <1>1, <1>3, <1>e, WrittenRead DEF writes
  <1> SUFFICES ASSUME NEW r \in Request, NEW p \in 0 .. num_computed'[r] - 1
               PROVE  ReadKV(block_table[r][p \div Group + 1], p % Group)'
                        = Token(conversation[r], p)
    BY <1>1 DEF CommittedReadable
  <1>8. /\ r \in DOMAIN batch /\ num_computed[r] \in Nat /\ batch[r] \in Nat
        /\ num_computed'[r] \in Nat /\ Len(block_table[r]) \in Nat
        /\ block_table[r] \in Seq(Block)
    BY <1>1 DEF TypedInv, ServingTypeOK, BatchFits
  <1>9. p \in Nat /\ p < Len(block_table[r]) * Group /\ p < num_computed[r] + batch[r]
        /\ p < num_computed'[r]
    <2>1. num_computed[r] + batch[r] <= Len(block_table[r]) * Group
      BY <1>1, <1>8 DEF Sharing, BatchHasBlocks
    <2>2. Len(block_table[r]) * Group \in Nat
      BY <1>8, GroupAssumption
    <2> QED BY <2>1, <2>2, <1>1, <1>8
  <1>i. PICK i \in Nat : i = p \div Group + 1
    BY <1>8, <1>9, PositionInTable
  <1>o. PICK o \in 0 .. Group - 1 : o = p % Group
    BY <1>8, <1>9, PositionInTable
  <1>10. /\ i \in 1 .. Len(block_table[r])
         /\ (i - 1) * Group <= p /\ p < i * Group
         /\ i * Group \in Nat /\ (i - 1) * Group \in Nat
    <2>1. /\ p \div Group \in Nat /\ i \in 1 .. Len(block_table[r])
          /\ (p \div Group) * Group <= p /\ p < i * Group
      BY <1>i, <1>8, <1>9, PositionInTable
    <2>2. i - 1 = p \div Group
      BY <2>1, <1>i
    <2> QED BY <2>1, <2>2, GroupAssumption
  <1>b. PICK b \in Block : b = block_table[r][i]
    BY <1>8, <1>10
  <1> SUFFICES ReadKV(b, o)' = Token(conversation[r], p)
    BY <1>b, <1>i, <1>o, <1>1
  <1>12. \A w \in writes : w.block = b /\ w.offset = o =>
            /\ num_computed[r] <= p
            /\ w.token = Token(conversation[r], p)
    <2> SUFFICES ASSUME NEW w \in writes, w.block = b, w.offset = o
                 PROVE  num_computed[r] <= p /\ w.token = Token(conversation[r], p)
      OBVIOUS
    <2>1. PICK q \in DOMAIN batch :
            \E t \in num_computed[q] .. num_computed[q] + batch[q] - 1 :
                w = WriteAt(q, t, IF t < num_computed'[q]
                                  THEN Token(conversation[q], t) ELSE Junk)
      BY <1>4
    <2>2. PICK t \in num_computed[q] .. num_computed[q] + batch[q] - 1 :
                w = WriteAt(q, t, IF t < num_computed'[q]
                                  THEN Token(conversation[q], t) ELSE Junk)
      BY <2>1
    <2>3. /\ q \in Request /\ t \in Nat /\ num_computed[q] <= t
          /\ t < Len(block_table[q]) * Group
      BY <1>1, StepPosition
    <2>4. /\ w.block = block_table[q][t \div Group + 1] /\ w.offset = t % Group
          /\ w.token = IF t < num_computed'[q] THEN Token(conversation[q], t) ELSE Junk
      BY <2>2, WriteAtIs
    <2>5. /\ block_table[q][t \div Group + 1] = block_table[r][p \div Group + 1]
          /\ t % Group = p % Group
      BY <2>4, <1>i, <1>o, <1>b
    <2>6. q = r /\ t = p
      BY <2>3, <2>5, <1>9, OnlyWriter
    <2> QED BY <2>3, <2>4, <2>6, <1>9
  <1>13. CASE p < num_computed[r]
    <2>1. ReadKV(b, o) = Token(conversation[r], p)
      BY <1>8, <1>9, <1>13, <1>b, <1>i, <1>o DEF ReadInv, CommittedReadable
    <2>2. \A w \in writes : ~(w.block = b /\ w.offset = o)
      BY <1>12, <1>13, <1>8, <1>9
    <2>3. CASE i * Group <= num_computed[r]
      <3>1. b \notin Written(BatchRows)
        BY <2>3, <1>10, <1>b, FullNotWritten
      <3>2. b \in Held => block_fill[b] = Group
        BY <2>3, <1>10, <1>b DEF FillInv, FullAreFilled
      <3> QED BY <3>1, <3>2, <2>1, <1>c
    <2>4. CASE ~(i * Group <= num_computed[r])
      <3>1. (i - 1) * Group < num_computed[r] /\ num_computed[r] < i * Group
        BY <2>4, <1>8, <1>9, <1>10, <1>13
      <3>2. b \in Held
        BY <3>1, <1>10, <1>b DEF ReadInv, OpenResident
      <3>3. b \in Written(BatchRows)
        <4>1. num_computed[r] <= num_computed[r] + batch[r] /\ num_computed[r] <= num_computed[r]
          BY <1>8
        <4> QED BY <3>1, <4>1, <1>1, <1>8, <1>10, <1>b, OpenIsWritten
      <3>4. b \notin Discarded(BatchRows, TRUE)
        BY <3>3 DEF Discarded, Idle, Needed
      <3> QED BY <3>2, <3>4, <2>1, <2>2, <1>d
    <2> QED BY <2>3, <2>4
  <1>14. CASE ~(p < num_computed[r])
    <2>1. p \in num_computed[r] .. num_computed[r] + batch[r] - 1
      BY <1>8, <1>9, <1>14
    <2>2. b \in Written(BatchRows)
      BY <2>1, <1>1, <1>8, <1>b, <1>i, StepPosition
    <2>3. \E w \in writes : w.block = b /\ w.offset = o
      <3>1. PICK t : WriteAt(r, p, t) \in writes
        BY <2>1, <1>5, <1>8
      <3>2. WriteAt(r, p, t).block = b /\ WriteAt(r, p, t).offset = o
        BY <1>b, <1>i, <1>o, WriteAtIs
      <3> QED BY <3>1, <3>2
    <2>4. \A w \in writes : w.block = b /\ w.offset = o => w.token = Token(conversation[r], p)
      BY <1>12
    <2> QED BY <2>2, <2>3, <2>4, <1>7, <1>e
  <1> QED BY <1>13, <1>14

(* The offsets of a block's index are its positions.                         *)
LEMMA OffsetPosition ==
    ASSUME NEW k \in Nat, NEW o \in 0 .. Group - 1
    PROVE  /\ k * Group + o \in Nat
           /\ (k * Group + o) \div Group = k
           /\ (k * Group + o) % Group = o
           /\ k * Group + o < (k + 1) * Group
  <1> DEFINE p == k * Group + o
  <1>1. /\ k * Group \in Nat /\ (k + 1) * Group = k * Group + Group /\ Group \in Nat \ {0}
        /\ (k + 1) * Group \in Nat
    BY GroupAssumption
  <1>2. p \in Nat /\ k * Group <= p /\ p < (k + 1) * Group /\ p = k * Group + o
    BY <1>1
  <1> DEFINE a == p \div Group
  <1>3. /\ a \in Nat /\ a * Group <= p /\ p < a * Group + Group
        /\ a * Group \in Nat
        /\ p = a * Group + (p % Group) /\ p % Group \in 0 .. Group - 1
    BY <1>2, DivisionBounds, GroupAssumption
  <1> HIDE DEF a, p
  <1>4. ASSUME k + 1 <= a PROVE FALSE
    <2>1. k + 1 \in Nat
      OBVIOUS
    <2>2. (k + 1) * Group <= a * Group
      BY <1>3, <1>4, <2>1, TimesGroupMonotone
    <2> QED BY <2>2, <1>1, <1>2, <1>3
  <1>5. ASSUME a + 1 <= k PROVE FALSE
    <2>1. a + 1 \in Nat /\ (a + 1) * Group = a * Group + Group
      BY <1>3, GroupAssumption
    <2>2. (a + 1) * Group <= k * Group /\ (a + 1) * Group \in Nat
      BY <1>5, <2>1, TimesGroupMonotone
    <2> QED BY <2>1, <2>2, <1>1, <1>2, <1>3
  <1>6. a = k
    BY <1>3, <1>4, <1>5
  <1>7. p % Group = o
    BY <1>1, <1>2, <1>3, <1>6
  <1> QED BY <1>2, <1>6, <1>7 DEF a, p

(* A key given to a block says what is in it, and old keys stay right.       *)
LEMMA ExecuteCached ==
    ASSUME ServingInv, ServingInv', FillInv, ReadInv, CommittedReadable',
           NEW accepted \in [DOMAIN batch -> 1 .. MaxQueryLen], ExecuteModel(accepted)
    PROVE  CachedReadable'
  <1> USE DEF ServingInv
  <1>1. /\ pass = 1 /\ conversation' = conversation /\ block_table' = block_table
        /\ BatchRows \in SUBSET Row
        /\ pool' = Scatter(block_to_slot', KeepOwned(block_to_slot'),
                           StepWrites(num_computed'))
    BY ExecuteSteps DEF ReadInv
  <1>2. PICK evicted : /\ Built(BatchRows, TRUE, evicted)
                       /\ tile' = FlushTiles(Quantised(BatchRows, TRUE, evicted))
    BY ExecuteSteps DEF ReadInv, Built
  <1>3. PoolInv /\ PoolInv' /\ SinkBookkeeping /\ TRUE \in BOOLEAN
        /\ Written(BatchRows) \cap FlushDetected(BatchRows) = {}
    BY WritesMissFlushes DEF TypedInv
  <1> DEFINE writes == StepWrites(num_computed')
  <1>4. \A w \in writes : w.block \in Written(BatchRows)
    <2> TAKE w \in writes
    <2>1. PICK q \in DOMAIN batch :
            \E t \in num_computed[q] .. num_computed[q] + batch[q] - 1 :
                w = WriteAt(q, t, IF t < num_computed'[q]
                                  THEN Token(conversation[q], t) ELSE Junk)
      BY DEF StepWrites
    <2> QED BY <1>1, <2>1, StepPosition, WriteAtIs
  <1> HIDE DEF writes
  <1> DEFINE Completed(b, h) ==
                \E r \in DOMAIN batch : \E i \in 1 .. num_computed'[r] \div Group :
                    block_table[r][i] = b /\ h = <<conversation[r], i - 1>>
             Keys == Conversation \X (0 .. MaxModelLen)
  <1>5. block_hash' = [b \in Block |-> IF \E h \in Keys : Completed(b, h)
                                       THEN CHOOSE h \in Keys : Completed(b, h)
                                       ELSE block_hash[b]]
    BY DEF ExecuteModel
  <1> HIDE DEF Keys
  <1> SUFFICES ASSUME NEW b \in Block, block_hash'[b] # NoHash, NEW o \in 0 .. Group - 1
               PROVE  ReadKV(b, o)' = Token(block_hash'[b][1], block_hash'[b][2] * Group + o)
    BY DEF CachedReadable
  <1>6. CASE \E h \in Keys : Completed(b, h)
    <2>1. block_hash'[b] = CHOOSE h \in Keys : Completed(b, h)
      BY <1>5, <1>6
    <2>2. Completed(b, block_hash'[b])
      <3> HIDE DEF Completed
      <3> QED BY <1>6, <2>1
    <2>3. PICK r \in DOMAIN batch : \E i \in 1 .. num_computed'[r] \div Group :
                block_table[r][i] = b /\ block_hash'[b] = <<conversation[r], i - 1>>
      BY <2>2
    <2>4. PICK i \in 1 .. num_computed'[r] \div Group :
                block_table[r][i] = b /\ block_hash'[b] = <<conversation[r], i - 1>>
      BY <2>3
    <2>5. r \in Request /\ num_computed'[r] \in Nat
      BY DEF TypedInv, ServingTypeOK
    <2> DEFINE n == num_computed'[r] \div Group
               k == i - 1
               p == k * Group + o
    <2>6. n \in Nat /\ n * Group <= num_computed'[r] /\ n * Group \in Nat
      BY <2>5, DivisionBounds, GroupAssumption
    <2>7. i \in Nat /\ i <= n /\ k \in Nat /\ k + 1 = i
      BY <2>4, <2>6
    <2> HIDE DEF n
    <2>8. i * Group <= n * Group /\ i * Group \in Nat
      BY <2>6, <2>7, TimesGroupMonotone
    <2>9. p \in Nat /\ p \div Group = k /\ p % Group = o /\ p < (k + 1) * Group
      BY <2>7, OffsetPosition
    <2> HIDE DEF p
    <2>10. p < num_computed'[r]
      BY <2>5, <2>6, <2>7, <2>8, <2>9
    <2>11. p \in 0 .. num_computed'[r] - 1
      BY <2>5, <2>9, <2>10
    <2>12. ReadKV(block_table[r][p \div Group + 1], p % Group)' = Token(conversation[r], p)
      BY <2>5, <2>11, <1>1 DEF CommittedReadable
    <2>13. p \div Group + 1 = i
      BY <2>7, <2>9
    <2>14. ReadKV(b, o)' = Token(conversation[r], p)
      BY <2>4, <2>9, <2>12, <2>13, <1>1
    <2>15. block_hash'[b][1] = conversation[r] /\ block_hash'[b][2] = k
      BY <2>4
    <2> QED BY <2>14, <2>15 DEF p
  <1>7. CASE ~ \E h \in Keys : Completed(b, h)
    <2>1. block_hash'[b] = block_hash[b]
      BY <1>5, <1>7
    <2>2. b \notin Written(BatchRows)
      BY <2>1, WrittenHasNoKey
    <2>3. b \in Held => block_fill[b] = Group
      BY <2>1 DEF FillInv, KeyedAreFilled
    <2>4. ReadKV(b, o)' = ReadKV(b, o)
      BY <2>2, <2>3, <1>1, <1>2, <1>3, <1>4, CompleteKept DEF writes
    <2>5. ReadKV(b, o) = Token(block_hash[b][1], block_hash[b][2] * Group + o)
      BY <2>1 DEF ReadInv, CachedReadable
    <2> QED BY <2>1, <2>4, <2>5
  <1> QED BY <1>6, <1>7

(* A forward pass keeps what attention reads right.                          *)
LEMMA ExecuteRead ==
    ASSUME ServingInv, ServingInv', FillInv, ReadInv,
           NEW accepted \in [DOMAIN batch -> 1 .. MaxQueryLen], ExecuteModel(accepted)
    PROVE  ReadInv'
  <1> USE DEF ServingInv
  <1>1. /\ pass = 1 /\ conversation' = conversation /\ block_table' = block_table
        /\ BatchRows \in SUBSET Row
        /\ \A r \in Request : num_computed[r] <= num_computed'[r]
        /\ \A r \in DOMAIN batch : num_computed'[r] <= num_computed[r] + batch[r]
        /\ \A r \in Request \ DOMAIN batch : num_computed[r] = 0 /\ num_computed'[r] = 0
    BY ExecuteSteps DEF ReadInv
  <1>2. PICK evicted : Built(BatchRows, TRUE, evicted)
    BY ExecuteSteps DEF ReadInv, Built
  <1>3. /\ \A r \in Request : /\ num_computed[r] \in Nat /\ num_computed'[r] \in Nat
                              /\ Len(block_table[r]) \in Nat
        /\ DOMAIN batch \subseteq Request
        /\ \A r \in DOMAIN batch : batch[r] \in Nat
    BY DEF TypedInv, ServingTypeOK, BatchFits
  <1>4. /\ pass' = IF pass > DraftPasses THEN 0 ELSE pass + 1
        /\ batch' = IF pass > DraftPasses THEN <<>> ELSE batch
    BY DEF ExecuteModel, EndPass
  <1>5. OpenResident'
    <2> SUFFICES ASSUME NEW r \in Request, NEW i \in 1 .. Len(block_table[r]),
                        (i - 1) * Group < num_computed'[r], num_computed'[r] < i * Group
                 PROVE  block_table[r][i] \in Held' \ retired_sinks'
      BY <1>1 DEF OpenResident
    <2>1. r \in DOMAIN batch
      <3>1. (i - 1) * Group \in Nat
        BY <1>3, GroupAssumption
      <3> QED BY <3>1, <1>1, <1>3
    <2>2. block_table[r][i] \in Written(BatchRows)
      BY <2>1, <1>1, <1>3, OpenIsWritten
    <2> QED BY <2>2, <1>1, <1>2, WrittenResident DEF TypedInv
  <1>6. RoomForDrafts'
    <2>1. CASE pass > DraftPasses
      BY <2>1, <1>4 DEF RoomForDrafts
    <2>2. CASE ~(pass > DraftPasses)
      <3>1. pass' = 2 /\ batch' = batch
        BY <2>2, <1>1, <1>4
      <3>2. ASSUME NEW r \in DOMAIN batch
            PROVE  num_computed'[r] + DraftPasses <= Len(block_table[r]) * Group
        <4>1. num_computed[r] + batch[r] + DraftPasses <= Len(block_table[r]) * Group
          BY <1>1 DEF ReadInv, RoomForDrafts
        <4>2. Len(block_table[r]) * Group \in Nat
          BY <1>3, GroupAssumption
        <4> QED BY <4>1, <4>2, <1>1, <1>3, ServingAssumption
      <3>3. ASSUME NEW r \in DOMAIN batch
            PROVE  num_computed'[r] + 0 + DraftPasses <= Len(block_table[r]) * Group
        BY <3>2, <1>3, ServingAssumption
      <3> QED BY <3>1, <3>3, <1>1 DEF RoomForDrafts
    <2> QED BY <2>1, <2>2
  <1>7. BatchServesAll'
    BY <1>1, <1>4, ServingAssumption DEF ReadInv, BatchServesAll, Running
  <1>8. EmptyRowsEmpty'
    BY <1>1 DEF ReadInv, BatchServesAll, EmptyRowsEmpty, Running
  <1>9. CommittedReadable'
    BY ExecuteCommitted
  <1>10. CachedReadable'
    BY <1>9, ExecuteCached
  <1> QED BY <1>5, <1>6, <1>7, <1>8, <1>9, <1>10 DEF ReadInv

-----------------------------------------------------------------------------
(* The data through a drafter pass.                                         *)

(* The writes of the drafter's pass i: one token per row, never committed.   *)
DraftWrites(i) == {WriteAt(r, num_computed[r] + i - 1, Junk) : r \in DOMAIN batch}

(* A draft token has a block of its request's table, past everything that is *)
(* committed, and the pass counts the block as written.                      *)
LEMMA DraftPosition ==
    ASSUME ServingInv, RoomForDrafts, DraftPass, NEW r \in DOMAIN batch
    PROVE  /\ r \in Request
           /\ num_computed[r] + (pass - 1) - 1 \in Nat
           /\ num_computed[r] <= num_computed[r] + (pass - 1) - 1
           /\ num_computed[r] + (pass - 1) - 1 < Len(block_table[r]) * Group
           /\ block_table[r][(num_computed[r] + (pass - 1) - 1) \div Group + 1]
                    \in Written(DraftRows(pass - 1))
  <1> USE DEF ServingInv
  <1> DEFINE i == pass - 1
             p == num_computed[r] + i - 1
             row == [table |-> block_table[r], committed |-> num_computed[r] + i - 1,
                     seq_len |-> num_computed[r] + i]
  <1>1. /\ r \in Request /\ num_computed[r] \in Nat /\ Len(block_table[r]) \in Nat
        /\ pass \in 0 .. DraftPasses + 1 /\ pass >= 2 /\ pass # 1 /\ DraftPasses \in Nat
    BY ServingAssumption DEF DraftPass, TypedInv, ServingTypeOK
  <1>2. i \in Nat \ {0} /\ i <= DraftPasses /\ p \in Nat /\ num_computed[r] <= p
        /\ p < num_computed[r] + i
    BY <1>1
  <1>3. num_computed[r] + DraftPasses <= Len(block_table[r]) * Group
    <2>1. num_computed[r] + 0 + DraftPasses <= Len(block_table[r]) * Group
      BY <1>1 DEF RoomForDrafts
    <2> QED BY <1>1, <2>1
  <1>4. p < Len(block_table[r]) * Group
    <2>1. Len(block_table[r]) * Group \in Nat
      BY <1>1, GroupAssumption
    <2> QED BY <2>1, <1>1, <1>2, <1>3
  <1> HIDE DEF p
  <1>5. p \div Group \in WrittenCols(row)
    <2>1. /\ (p \div Group) * Group <= p /\ p < (p \div Group + 1) * Group
          /\ p \div Group \in Nat
      BY <1>1, <1>2, <1>4, PositionInTable
    <2>2. (p \div Group) * Group \in Nat
      BY <2>1, GroupAssumption
    <2>3. (p \div Group) * Group < num_computed[r] + i
      BY <1>1, <1>2, <2>1, <2>2
    <2>4. p \div Group \in WrittenCols([table |-> block_table[r], committed |-> p,
                                        seq_len |-> num_computed[r] + i])
      <3>1. num_computed[r] + i \in Nat /\ p \div Group <= p \div Group
        BY <1>1, <1>2, <2>1
      <3> QED BY <1>1, <1>2, <1>4, <2>3, <3>1, PositionIsWritten
    <2> QED BY <2>4 DEF p
  <1>6. block_table[r][p \div Group + 1] \in Written(DraftRows(i))
    <2>1. row \in DraftRows(i)
      BY DEF DraftRows
    <2>2. Col(row, p \div Group) = block_table[r][p \div Group + 1]
      BY DEF Col
    <2> QED BY <1>5, <2>1, <2>2 DEF Written
  <1> QED BY <1>1, <1>2, <1>4, <1>6 DEF p

(* A drafter pass evicts retired sinks only and writes uncommitted places    *)
(* only, so what is committed and what is cached reads as before.            *)
LEMMA DraftPassRead ==
    ASSUME ServingInv, ServingInv', FillInv, ReadInv, DraftPass
    PROVE  ReadInv'
  <1> USE DEF ServingInv
  <1>0. PICK i \in Nat \ {0} : i = pass - 1
    BY ServingAssumption DEF DraftPass, TypedInv, ServingTypeOK
  <1>1. /\ UNCHANGED engineVars
        /\ pool' = Scatter(block_to_slot', KeepOwned(block_to_slot'), DraftWrites(i))
        /\ DraftRows(i) \in SUBSET Row
        /\ FALSE \in BOOLEAN /\ AllowFlush(i) = FALSE
    BY <1>0, RowsTyped DEF DraftPass, DraftWrites, AllowFlush
  <1>2. PICK evicted : /\ Built(DraftRows(i), FALSE, evicted)
                       /\ tile' = FlushTiles(Quantised(DraftRows(i), FALSE, evicted))
    BY <1>0, <1>1 DEF DraftPass, Built
  <1>3. PoolInv /\ PoolInv' /\ SinkBookkeeping
        /\ (FALSE => Written(DraftRows(i)) \cap FlushDetected(DraftRows(i)) = {})
    BY DEF TypedInv
  <1> DEFINE writes == DraftWrites(i)
  <1>4. \A w \in writes : \E r \in DOMAIN batch :
            w = WriteAt(r, num_computed[r] + i - 1, Junk)
    BY DEF DraftWrites
  <1>w. pool' = Scatter(block_to_slot', KeepOwned(block_to_slot'), writes)
    BY <1>1
  <1> HIDE DEF writes
  <1>5. \A w \in writes : w.block \in Written(DraftRows(i))
    BY <1>0, <1>4, DraftPosition, WriteAtIs DEF ReadInv
  <1>6. /\ \A r \in Request : /\ num_computed[r] \in Nat /\ Len(block_table[r]) \in Nat
                              /\ block_table[r] \in Seq(Block)
        /\ DOMAIN batch \subseteq Request
    BY DEF TypedInv, ServingTypeOK
  <1>c. \A c \in Block : \A u \in 0 .. Group - 1 :
            c \notin Written(DraftRows(i)) /\ (c \in Held => block_fill[c] = Group)
                => ReadKV(c, u)' = ReadKV(c, u)
    BY <1>1, <1>2, <1>3, <1>5, <1>w, CompleteKept
  <1>d. ASSUME NEW c \in Block, c \in Held, NEW u \in 0 .. Group - 1,
               \A w \in writes : ~(w.block = c /\ w.offset = u)
        PROVE  ReadKV(c, u)' = ReadKV(c, u)
    <2>1. c \notin Discarded(DraftRows(i), FALSE)
      BY DEF Discarded
    <2>2. c \in Held \/ c \notin Held'
      BY <1>d
    <2>3. (IF c \in Held' THEN KeepOwned(block_to_slot')[block_to_slot'[c]][u]
                          ELSE tile'[c][u]) = ReadKV(c, u)
      BY <1>1, <1>2, <1>3, <2>1, <2>2, BuildKeepsData
    <2>4. ReadKV(c, u)' = IF c \in Held' THEN KeepOwned(block_to_slot')[block_to_slot'[c]][u]
                                        ELSE tile'[c][u]
      BY <1>3, <1>d, <1>w, UnwrittenRead
    <2> QED BY <2>3, <2>4
  <1>7. OpenResident'
    <2>1. SlotMoves(DraftRows(i), FALSE, evicted)
      BY <1>1, <1>2, <1>3, BuildMoves
    <2>2. Held' = (Held \ Gone(DraftRows(i), FALSE, evicted)) \cup Missing(DraftRows(i), FALSE)
          /\ evicted \subseteq RetiredNow(DraftRows(i), FALSE)
      BY <2>1 DEF SlotMoves, Held
    <2>3. RetiredNow(DraftRows(i), FALSE) \subseteq retired_sinks
      BY DEF RetiredNow, Retiring
    <2>4. Dropped(DraftRows(i), FALSE) = {}
      BY DEF Dropped, Flushed, Discarded
    <2>5. retired_sinks' \subseteq retired_sinks
      BY <1>2, <2>3 DEF Built, BuildMeta
    <2>6. Held \ retired_sinks \subseteq Held' \ retired_sinks'
      BY <2>2, <2>3, <2>4, <2>5 DEF Gone
    <2> QED BY <2>6, <1>1 DEF ReadInv, OpenResident, engineVars
  <1>8. /\ pass' = IF pass > DraftPasses THEN 0 ELSE pass + 1
        /\ batch' = IF pass > DraftPasses THEN <<>> ELSE batch
        /\ pass >= 2 /\ pass \in Nat
    BY ServingAssumption DEF DraftPass, EndPass, TypedInv, ServingTypeOK
  <1>9. RoomForDrafts'
    <2>1. CASE pass > DraftPasses
      BY <2>1, <1>8 DEF RoomForDrafts
    <2>2. CASE ~(pass > DraftPasses)
      <3>1. pass' # 1 /\ pass # 1 /\ pass >= 1 /\ batch' = batch
        BY <2>2, <1>8
      <3> QED BY <3>1, <1>1 DEF ReadInv, RoomForDrafts, engineVars
    <2> QED BY <2>1, <2>2
  <1>10. BatchServesAll' /\ EmptyRowsEmpty'
    BY <1>1, <1>8 DEF ReadInv, BatchServesAll, EmptyRowsEmpty, Running, engineVars
  <1>11. CommittedReadable'
    <2> SUFFICES ASSUME NEW r \in Request, NEW p \in 0 .. num_computed[r] - 1
                 PROVE  ReadKV(block_table[r][p \div Group + 1], p % Group)'
                            = Token(conversation[r], p)
      BY <1>1 DEF CommittedReadable, engineVars
    <2>1. p \in Nat /\ p < num_computed[r] /\ p < Len(block_table[r]) * Group
      <3>1. num_computed[r] <= Len(block_table[r]) * Group
        BY DEF FillInv, TablesCover
      <3>2. Len(block_table[r]) * Group \in Nat
        BY <1>6, GroupAssumption
      <3> QED BY <3>1, <3>2, <1>6
    <2>2. PICK j \in Nat : j = p \div Group + 1
      BY <1>6, <2>1, PositionInTable
    <2>3. PICK o \in 0 .. Group - 1 : o = p % Group
      BY <1>6, <2>1, PositionInTable
    <2>4. /\ j \in 1 .. Len(block_table[r]) /\ (j - 1) * Group <= p
          /\ (j - 1) * Group \in Nat /\ j * Group \in Nat
      <3>1. p \div Group \in Nat /\ j \in 1 .. Len(block_table[r])
            /\ (p \div Group) * Group <= p
        BY <2>1, <2>2, <1>6, PositionInTable
      <3>2. j - 1 = p \div Group
        BY <2>2, <3>1
      <3> QED BY <3>1, <3>2, GroupAssumption
    <2>5. PICK b \in Block : b = block_table[r][j]
      BY <1>6, <2>4
    <2>6. ReadKV(b, o) = Token(conversation[r], p)
      BY <2>2, <2>3, <2>5 DEF ReadInv, CommittedReadable
    <2>7. \A w \in writes : ~(w.block = b /\ w.offset = o)
      <3> SUFFICES ASSUME NEW w \in writes, w.block = b, w.offset = o PROVE FALSE
        OBVIOUS
      <3>1. PICK q \in DOMAIN batch : w = WriteAt(q, num_computed[q] + i - 1, Junk)
        BY <1>4
      <3>2. PICK t \in Nat : t = num_computed[q] + i - 1
        BY <1>0, DraftPosition DEF ReadInv
      <3>3. q \in Request /\ num_computed[q] <= t /\ t < Len(block_table[q]) * Group
        BY <1>0, <3>2, DraftPosition DEF ReadInv
      <3>4. /\ block_table[q][t \div Group + 1] = block_table[r][p \div Group + 1]
            /\ t % Group = p % Group
        BY <3>1, <3>2, <2>2, <2>3, <2>5, WriteAtIs
      <3>5. q = r /\ t = p
        BY <3>3, <3>4, <2>1, OnlyWriter
      <3> QED BY <3>3, <3>5, <2>1, <1>6
    <2>8. ReadKV(b, o)' = ReadKV(b, o)
      <3>1. CASE j * Group <= num_computed[r]
        <4>1. b \notin Written(DraftRows(i))
          BY <3>1, <2>4, <2>5, FullNotWritten
        <4>2. b \in Held => block_fill[b] = Group
          BY <3>1, <2>4, <2>5 DEF FillInv, FullAreFilled
        <4> QED BY <4>1, <4>2, <1>c
      <3>2. CASE ~(j * Group <= num_computed[r])
        <4>1. (j - 1) * Group < num_computed[r] /\ num_computed[r] < j * Group
          BY <3>2, <2>1, <2>4, <1>6
        <4>2. b \in Held
          BY <4>1, <2>4, <2>5 DEF ReadInv, OpenResident
        <4> QED BY <4>2, <2>7, <1>d
      <3> QED BY <3>1, <3>2
    <2> QED BY <2>2, <2>3, <2>5, <2>6, <2>8, <1>1 DEF engineVars
  <1>12. CachedReadable'
    <2>1. \A b \in Block : block_hash[b] # NoHash => \A o \in 0 .. Group - 1 :
                ReadKV(b, o)' = ReadKV(b, o)
      BY <1>c, WrittenHasNoKey DEF FillInv, KeyedAreFilled
    <2> QED BY <2>1, <1>1 DEF ReadInv, CachedReadable, engineVars
  <1> QED BY <1>7, <1>9, <1>10, <1>11, <1>12 DEF ReadInv

-----------------------------------------------------------------------------
(* What attention reads, in every reachable state.                          *)

(* A step that touches neither tables nor data leaves every read as it was.  *)
LEMMA FrameRead ==
    ASSUME ReadInv, UNCHANGED <<engineVars, dataVars, batch, pass>>,
           UNCHANGED <<block_to_slot, retired_sinks>>
    PROVE  ReadInv'
  <1>1. /\ OpenResident' /\ RoomForDrafts' /\ BatchServesAll' /\ EmptyRowsEmpty'
    BY DEF ReadInv, OpenResident, RoomForDrafts, BatchServesAll, EmptyRowsEmpty, Running,
           Held, engineVars
  <1>2. CommittedReadable' /\ CachedReadable'
    BY DEF ReadInv, CommittedReadable, CachedReadable, ReadKV, Held, engineVars, dataVars
  <1> QED BY <1>1, <1>2 DEF ReadInv

(* Every step keeps what attention reads right, when no step leaves a running *)
(* request out of its batch.                                                 *)
LEMMA StepRead ==
    ASSUME DeferRows = FALSE
    PROVE  ServingInv /\ ServingInv' /\ FillInv /\ ReadInv /\ [Next]_vars => ReadInv'
  <1> SUFFICES ASSUME ServingInv, ServingInv', FillInv, ReadInv, [Next]_vars
               PROVE  ReadInv'
    OBVIOUS
  <1>1. ASSUME Exhausted \/ UNCHANGED vars PROVE ReadInv'
    BY <1>1, FrameRead DEF Exhausted, BuildExhausted, vars, poolVars
  <1> QED BY <1>1, AdmitRead, ScheduleRead, ReleaseRead, ExecuteRead, DraftPassRead DEF Next

(* The data invariant holds in every reachable state.                        *)
THEOREM ReadsAlwaysRight ==
    ASSUME DeferRows = FALSE
    PROVE  Spec => [](ServingInv /\ FillInv /\ ReadInv)
  <1>1. ServingInit => ServingInv /\ FillInv /\ ReadInv
    BY InitServing, InitFill, InitRead
  <1>2. ServingInv /\ FillInv /\ ReadInv /\ [Next]_vars
            => ServingInv' /\ FillInv' /\ ReadInv'
    BY StepServing, StepFill, StepRead
  <1> QED BY <1>1, <1>2, PTL DEF Spec

(* Whoever hits a block of the prefix cache reads the tokens of its key, in  *)
(* the pool or in its int4 tile, however long its owner is gone and whatever *)
(* slots the pool has recycled since.                                        *)
THEOREM CacheReadable ==
    ASSUME DeferRows = FALSE
    PROVE  Spec => []CachedReadable
  <1>1. ReadInv => CachedReadable
    BY DEF ReadInv
  <1> QED BY <1>1, ReadsAlwaysRight, PTL

-----------------------------------------------------------------------------
(* The detailed cache implements the abstract promise of AttentionView.      *)

Shown ==
    [r \in Request |-> [p \in 1 .. num_computed[r] |->
        ReadKV(block_table[r][(p - 1) \div Group + 1], (p - 1) % Group)]]

Prefix(c, n) == [i \in 1 .. n |-> <<c, i - 1>>]

(* The view is a prefix of each request's own stream.                        *)
LEMMA ShownIsPrefix ==
    ASSUME ServingInv, ReadInv
    PROVE  Shown = [r \in Request |-> Prefix(conversation[r], num_computed[r])]
  <1>1. \A r \in Request : num_computed[r] \in Nat
    BY DEF ServingInv, TypedInv, ServingTypeOK
  <1>2. ASSUME NEW r \in Request, NEW p \in 1 .. num_computed[r]
        PROVE  ReadKV(block_table[r][(p - 1) \div Group + 1], (p - 1) % Group)
                    = <<conversation[r], p - 1>>
    <2> DEFINE t == p - 1
    <2>1. t \in 0 .. num_computed[r] - 1
      BY <1>1
    <2> HIDE DEF t
    <2>2. ReadKV(block_table[r][t \div Group + 1], t % Group) = Token(conversation[r], t)
      BY <2>1 DEF ReadInv, CommittedReadable
    <2> QED BY <2>2 DEF t, Token
  <1>3. \A r \in Request :
            [p \in 1 .. num_computed[r] |->
                ReadKV(block_table[r][(p - 1) \div Group + 1], (p - 1) % Group)]
              = Prefix(conversation[r], num_computed[r])
    BY <1>2 DEF Prefix
  <1> QED BY <1>3 DEF Shown

(* A prefix has its length.                                                  *)
LEMMA PrefixLen ==
    ASSUME NEW c, NEW n \in Nat
    PROVE  Len(Prefix(c, n)) = n /\ (n = 0 => Prefix(c, n) = <<>>)
  <1>1. Prefix(c, n) \in Seq({c} \X Nat) /\ Len(Prefix(c, n)) = n
    <2>1. Prefix(c, n) \in [1 .. n -> {c} \X Nat]
      BY DEF Prefix
    <2> QED BY <2>1, FunctionIsSeq
  <1>2. n = 0 => Prefix(c, n) = <<>>
    BY <1>1
  <1> QED BY <1>1, <1>2

(* At the start every view is empty.                                         *)
LEMMA ViewInit == ServingInit => View!Init
  <1> SUFFICES ASSUME ServingInit PROVE View!Init
    OBVIOUS
  <1>1. ServingInv /\ ReadInv
    BY InitServing, InitRead
  <1>2. Shown = [r \in Request |-> Prefix(conversation[r], num_computed[r])]
    BY <1>1, ShownIsPrefix
  <1>3. \A r \in Request : num_computed[r] = 0
    BY DEF ServingInit
  <1>4. \A r \in Request : Prefix(conversation[r], num_computed[r]) = <<>>
    BY <1>3, PrefixLen
  <1>5. Shown = [r \in Request |-> <<>>]
    BY <1>2, <1>4
  <1>6. conversation = [r \in Request |-> None]
    BY DEF ServingInit
  <1> QED BY <1>5, <1>6 DEF View!Init, Shown

(* Every step of the pool, the tiles and the tables is a step of the view or *)
(* leaves it alone.                                                          *)

LEMMA ViewStep ==
    ASSUME ServingInv, ServingInv', ReadInv, ReadInv', [Next]_vars
    PROVE  [View!Next]_<<conversation, Shown>>
  <1>1. /\ Shown = [r \in Request |-> Prefix(conversation[r], num_computed[r])]
        /\ Shown' = [r \in Request |-> Prefix(conversation'[r], num_computed'[r])]
    <2>1. Shown = [r \in Request |-> Prefix(conversation[r], num_computed[r])]
      BY ShownIsPrefix
    <2>2. (ServingInv /\ ReadInv
            => Shown = [r \in Request |-> Prefix(conversation[r], num_computed[r])])'
      BY ShownIsPrefix, PTL
    <2> QED BY <2>1, <2>2
  <1>2. /\ \A r \in Request : num_computed[r] \in Nat /\ num_computed'[r] \in Nat
        /\ \A r \in Request : conversation[r] = None => num_computed[r] = 0
        /\ conversation \in [Request -> Conversation \cup {None}]
        /\ num_computed \in [Request -> 0 .. MaxModelLen]
    BY DEF ServingInv, TypedInv, ServingTypeOK, ReadInv, EmptyRowsEmpty
  <1>3. \A r \in Request :
            /\ Len(Shown[r]) = num_computed[r] /\ Len(Shown'[r]) = num_computed'[r]
            /\ num_computed[r] = 0 => Shown[r] = <<>>
            /\ num_computed'[r] = 0 => Shown'[r] = <<>>
    BY <1>1, <1>2, PrefixLen
  <1>4. ASSUME UNCHANGED <<conversation, num_computed>>
        PROVE  UNCHANGED <<conversation, Shown>>
    BY <1>1, <1>4
  <1>5. ASSUME NEW r \in Request, NEW c \in Conversation, Admit(r, c)
        PROVE  View!Open(r)
    <2>1. PICK n : /\ conversation[r] = None
                   /\ conversation' = [conversation EXCEPT ![r] = c]
                   /\ num_computed' = [num_computed EXCEPT ![r] = n]
      BY <1>5 DEF Admit
    <2>2. Shown' = [Shown EXCEPT ![r] = Prefix(c, Len(Shown'[r]))]
      BY <2>1, <1>1, <1>2, <1>3
    <2> QED BY <2>1, <2>2 DEF View!Open, View!Prefix, View!Token, Shown, Prefix
  <1>6. ASSUME NEW r \in Request, Release(r)
        PROVE  View!Close(r)
    <2>1. /\ conversation[r] # None
          /\ conversation' = [conversation EXCEPT ![r] = None]
          /\ num_computed' = [num_computed EXCEPT ![r] = 0]
      BY <1>6 DEF Release, Running
    <2>2. Shown' = [Shown EXCEPT ![r] = <<>>]
      BY <2>1, <1>1, <1>2, <1>3
    <2> QED BY <2>1, <2>2 DEF View!Close, Shown
  <1>7. ASSUME NEW accepted \in [DOMAIN batch -> 1 .. MaxQueryLen], ExecuteModel(accepted)
        PROVE  View!Extend
    <2>1. /\ conversation' = conversation
          /\ \A r \in Request : num_computed[r] <= num_computed'[r]
          /\ \A r \in Request \ DOMAIN batch : num_computed'[r] = 0
      BY <1>7, ExecuteSteps DEF ReadInv
    <2>2. DOMAIN batch = Running
      BY <1>7 DEF ReadInv, BatchServesAll, ExecuteModel
    <2>3. \A r \in Request :
            /\ Len(Shown'[r]) >= Len(Shown[r])
            /\ Shown'[r] = Prefix(conversation[r], Len(Shown'[r]))
            /\ conversation[r] = None => Shown'[r] = <<>>
      <3> TAKE r \in Request
      <3>1. Len(Shown'[r]) >= Len(Shown[r])
        BY <2>1, <1>2, <1>3
      <3>2. Shown'[r] = Prefix(conversation[r], Len(Shown'[r]))
        BY <2>1, <1>1, <1>3
      <3>3. conversation[r] = None => Shown'[r] = <<>>
        BY <2>1, <2>2, <1>3 DEF Running
      <3> QED BY <3>1, <3>2, <3>3
    <2> QED BY <2>1, <2>3 DEF View!Extend, View!Prefix, View!Token, Shown, Prefix
  <1>8. ASSUME DraftPass \/ Exhausted \/ UNCHANGED vars
               \/ \E rows \in SUBSET Running : \E query \in [rows -> 1 .. MaxQueryLen] :
                        Schedule(rows, query)
        PROVE  UNCHANGED <<conversation, num_computed>>
    BY <1>8 DEF DraftPass, Exhausted, Schedule, vars, engineVars
  <1> QED BY <1>4, <1>5, <1>6, <1>7, <1>8 DEF Next, View!Next

(* What each request's attention reads over its committed positions is its   *)
(* own tokens, in order, from admission to release: the pool, its flushes,   *)
(* evictions and retired sinks, the int4 tiles and the prefix cache together *)
(* implement AttentionView, for every size of each.                          *)
THEOREM PoolImplementsView ==
    ASSUME DeferRows = FALSE
    PROVE  Spec => AttentionReadsOwnTokens
  <1>1. ServingInit => View!Init
    BY ViewInit
  <1>2. ServingInv /\ ServingInv' /\ ReadInv /\ ReadInv' /\ [Next]_vars
            => [View!Next]_<<conversation, Shown>>
    BY ViewStep
  <1>3. ServingInv /\ ServingInv' /\ ReadInv /\ ReadInv' /\ [Next]_vars
            => [View!Next]_<<conversation,
                  [r \in Request |-> [p \in 1 .. num_computed[r] |->
                    ReadKV(block_table[r][(p - 1) \div Group + 1], (p - 1) % Group)]]>>
    BY <1>2 DEF Shown
  <1> QED BY <1>1, <1>3, ReadsAlwaysRight, PTL DEF Spec, AttentionReadsOwnTokens, View!Spec

-----------------------------------------------------------------------------
(* The sink of a running request.                                           *)

(* A build keeps the slot of every sink that is a row's first block.         *)
LEMMA FirstSinkStays ==
    ASSUME PoolInv, NEW rows \in SUBSET Row, NEW allow_flush \in BOOLEAN,
           allow_flush => Written(rows) \cap FlushDetected(rows) = {},
           NEW evicted, Built(rows, allow_flush, evicted),
           NEW b \in FirstBlocks(rows) \cap sinks
    PROVE  b \in DOMAIN block_to_slot' /\ block_to_slot'[b] = block_to_slot[b]
  <1>1. SlotMoves(rows, allow_flush, evicted)
    BY BuildMoves
  <1>2. b \in Held /\ b \in Needed(rows)
    BY DEF PoolInv, LabelsResident, Needed
  <1>3. b \notin Dropped(rows, allow_flush)
    BY <1>2, NeededNotDropped
  <1>4. b \notin RetiredNow(rows, allow_flush)
    BY <1>2, RetiredNowFacts DEF PoolInv
  <1>5. /\ b \notin Gone(rows, allow_flush, evicted)
        /\ b \notin Missing(rows, allow_flush)
    BY <1>1, <1>2, <1>3, <1>4 DEF SlotMoves, Gone
  <1> QED BY <1>1, <1>2, <1>5 DEF SlotMoves

(* A running request keeps its fp16 sink, in one slot, from the build that   *)
(* labels it until the request leaves: every build of a step names it.       *)
THEOREM SinksStay ==
    ASSUME DeferRows = FALSE
    PROVE  Spec => LiveSinkResident
  <1> DEFINE Stays == \A r \in Running :
                LET first == Head(block_table[r])
                IN  conversation'[r] = conversation[r] /\ block_table[r] # <<>>
                        /\ first \in sinks
                      => /\ first \in DOMAIN block_to_slot'
                         /\ block_to_slot'[first] = block_to_slot[first]
  <1>1. ServingInv /\ ReadInv /\ [Next]_vars => [Stays]_vars
    <2> SUFFICES ASSUME ServingInv, ReadInv, Next PROVE Stays
      BY DEF vars
    <2> USE DEF ServingInv
    <2>1. ASSUME UNCHANGED block_to_slot PROVE Stays
      BY <2>1 DEF TypedInv, PoolInv, LabelsResident, Held
    <2>2. \A r \in Running : block_table[r] # <<>> =>
                /\ r \in Request
                /\ Head(block_table[r]) = block_table[r][0 + 1]
      BY DEF Running, TypedInv, ServingTypeOK
    <2>3. CASE \E accepted \in [DOMAIN batch -> 1 .. MaxQueryLen] : ExecuteModel(accepted)
      <3>1. PICK evicted : Built(BatchRows, TRUE, evicted)
        BY <2>3 DEF ExecuteModel, AllowFlush, Built
      <3>2. BatchRows \in SUBSET Row /\ TRUE \in BOOLEAN
            /\ Written(BatchRows) \cap FlushDetected(BatchRows) = {}
        BY RowsTyped, WritesMissFlushes
      <3>3. DOMAIN batch = Running
        BY <2>3 DEF ReadInv, BatchServesAll, ExecuteModel
      <3>4. \A r \in Running : block_table[r] # <<>> =>
                Head(block_table[r]) \in FirstBlocks(BatchRows)
        <4> SUFFICES ASSUME NEW r \in Running, block_table[r] # <<>>
                     PROVE  Head(block_table[r]) \in FirstBlocks(BatchRows)
          OBVIOUS
        <4> DEFINE row == [table |-> block_table[r], committed |-> num_computed[r],
                           seq_len |-> num_computed[r] + batch[r]]
        <4>1. row \in BatchRows
          BY <3>3 DEF BatchRows
        <4>2. row.table # <<>> /\ Col(row, 0) = block_table[r][0 + 1]
          BY DEF Col
        <4> HIDE DEF row
        <4>3. Col(row, 0) \in FirstBlocks(BatchRows)
          BY <4>1, <4>2 DEF FirstBlocks
        <4> QED BY <4>2, <4>3, <2>2
      <3> QED BY <3>1, <3>2, <3>4, FirstSinkStays DEF TypedInv
    <2>4. CASE DraftPass
      <3>0. PICK i \in Nat \ {0} : i = pass - 1
        BY <2>4, ServingAssumption DEF DraftPass, TypedInv, ServingTypeOK
      <3>1. PICK evicted : Built(DraftRows(i), FALSE, evicted)
        BY <2>4, <3>0 DEF DraftPass, AllowFlush, Built
      <3>2. DraftRows(i) \in SUBSET Row /\ FALSE \in BOOLEAN
        BY RowsTyped
      <3>3. DOMAIN batch = Running
        BY <2>4, ServingAssumption
           DEF ReadInv, BatchServesAll, DraftPass, TypedInv, ServingTypeOK
      <3>4. \A r \in Running : block_table[r] # <<>> =>
                Head(block_table[r]) \in FirstBlocks(DraftRows(i))
        <4> SUFFICES ASSUME NEW r \in Running, block_table[r] # <<>>
                     PROVE  Head(block_table[r]) \in FirstBlocks(DraftRows(i))
          OBVIOUS
        <4> DEFINE row == [table |-> block_table[r], committed |-> num_computed[r] + i - 1,
                           seq_len |-> num_computed[r] + i]
        <4>1. row \in DraftRows(i)
          BY <3>3 DEF DraftRows
        <4>2. row.table # <<>> /\ Col(row, 0) = block_table[r][0 + 1]
          BY DEF Col
        <4> HIDE DEF row
        <4>3. Col(row, 0) \in FirstBlocks(DraftRows(i))
          BY <4>1, <4>2 DEF FirstBlocks
        <4> QED BY <4>2, <4>3, <2>2
      <3> QED BY <3>1, <3>2, <3>4, FirstSinkStays DEF TypedInv
    <2> QED BY <2>1, <2>3, <2>4
            DEF Next, Admit, Schedule, Release, Exhausted, BuildExhausted, poolVars
  <1>2. [][Stays]_vars => LiveSinkResident
    BY PTL DEF LiveSinkResident
  <1> QED BY <1>1, <1>2, ReadsAlwaysRight, PTL DEF Spec
=============================================================================
