-------------------------- MODULE KVarNSizing_proofs --------------------------
(***************************************************************************)
(* The pool is large enough for every step with few multi-token rows, and  *)
(* fits every feasible budget, for any group size, flags and row shapes.   *)
(***************************************************************************)
EXTENDS KVarNSizing, TLAPS

(* Integer division by a positive divisor, as Python's //.                    *)
LEMMA Division ==
    ASSUME NEW a \in Int, NEW d \in Nat \ {0}
    PROVE  /\ a \div d \in Int
           /\ d * (a \div d) <= a
           /\ a < d * (a \div d) + d
  BY Z3

(* A row with one token needs two slots; one with more needs two and the      *)
(* blocks its further tokens can open, one of them for a start mid-block.     *)
LEMMA RowSlotsBound ==
    ASSUME NEW committed \in Nat, NEW query \in Nat \ {0}
    PROVE  /\ RowSlots(committed, query) \in Nat
           /\ query = 1 => RowSlots(committed, query) <= 2
           /\ Group * RowSlots(committed, query)
                <= 2 * Group + (query - 1) + (Group - 1)
  <1> DEFINE first == committed \div Group
             last  == (committed + query - 1) \div Group
  <1>1. Group \in Nat \ {0} /\ committed + query - 1 \in Nat
    BY GroupAssumption
  <1>2. /\ first \in Int /\ Group * first <= committed
        /\ committed < Group * first + Group
    BY <1>1, Division
  <1>3. /\ last \in Int /\ Group * last <= committed + query - 1
        /\ committed + query - 1 < Group * last + Group
    BY <1>1, Division
  <1>4. first >= 0
    BY <1>1, <1>2, Z3
  <1>5. last >= first
    BY <1>1, <1>2, <1>3, Z3
  <1>6. RowSlots(committed, query) = last - first + 1 + IF first = 0 THEN 0 ELSE 1
    BY DEF RowSlots
  <1>7. Group * (last - first) <= (query - 1) + (Group - 1)
    <2>1. Group * (last - first) = Group * last - Group * first
      BY <1>1, <1>2, <1>3, Z3
    <2> QED BY <2>1, <1>1, <1>2, <1>3
  <1>8. RowSlots(committed, query) \in Nat /\ RowSlots(committed, query) <= last - first + 2
    BY <1>2, <1>3, <1>5, <1>6
  <1>9. Group * RowSlots(committed, query) <= Group * (last - first) + 2 * Group
    <2> DEFINE r == RowSlots(committed, query)
    <2> HIDE DEF r, first, last
    <2>1. r \in Nat /\ r <= last - first + 2 /\ last - first \in Int
      BY <1>2, <1>3, <1>8 DEF r
    <2>2. Group * r <= Group * (last - first + 2)
      BY <2>1, <1>1, Z3
    <2>3. Group * (last - first + 2) = Group * (last - first) + 2 * Group
      BY <2>1, <1>1, Z3
    <2> QED BY <2>2, <2>3 DEF r
  <1> HIDE DEF first, last
  <1> QED
    <2>1. ASSUME query = 1 PROVE RowSlots(committed, query) <= 2
      <3>1. committed + query - 1 = committed
        BY <2>1
      <3>2. last = first
        BY <3>1 DEF first, last
      <3> QED BY <3>2, <1>2, <1>8
    <2>2. Group * RowSlots(committed, query) \in Int /\ Group * (last - first) \in Int
      BY <1>1, <1>2, <1>3, <1>8
    <2> QED BY <2>1, <2>2, <1>1, <1>7, <1>8, <1>9

-----------------------------------------------------------------------------

\* What a step has taken of the pool, in tokens: two blocks a row, the tokens
\* past the first of each row, and a block's rounding for each long row.
StepDemand ==
    /\ rows <= max_num_seqs
    /\ rows <= tokens /\ tokens <= max_num_batched_tokens
    /\ long <= LongRows
    /\ Group * demand <= 2 * Group * rows + (tokens - rows) + (Group - 1) * long

\* Before the pool exists no row is scheduled; then its size is as configured.
PoolSized ==
    /\ phase # "serving" => rows = 0 /\ long = 0 /\ tokens = 0 /\ demand = 0
    /\ phase = "serving" /\ env_slots = 0
            => pool_size = PoolSlots(max_num_seqs, max_num_batched_tokens)
    /\ phase \in {"capped", "serving"}
            => max_num_seqs <= MaxSupportedSeqs(budget, max_num_batched_tokens)

IInv == SizingTypeOK /\ StepDemand /\ PoolSized

(* The sizes derived from well-typed flags are natural numbers.               *)
LEMMA SizesTyped ==
    ASSUME NEW seqs \in Nat, NEW t \in Nat, NEW bytes \in Nat
    PROVE  /\ PrefillBlocks(t) \in Int
           /\ PoolSlots(seqs, t) \in Nat
           /\ PoolSlots(seqs, t) >= 2 * seqs + PrefillBlocks(t) + Headroom
           /\ MaxSupportedSeqs(bytes, t) \in Nat \ {0}
  <1>1. Group \in Nat \ {0} /\ SlotBytes \in Nat \ {0}
    BY GroupAssumption, SlotBytesAssumption
  <1>2. PrefillBlocks(t) \in Int
    BY <1>1, Division DEF PrefillBlocks
  <1>3. bytes \div SlotBytes \in Int
    BY <1>1, Division
  <1>4. (bytes \div SlotBytes - PrefillBlocks(t) - Headroom) \div 2 \in Int
    BY <1>2, <1>3, Division DEF Headroom
  <1>5. MaxSupportedSeqs(bytes, t) \in Nat \ {0}
    BY <1>4 DEF MaxSupportedSeqs, Greater
  <1>6. PoolSlots(seqs, t) \in Nat /\ PoolSlots(seqs, t) >= 2 * seqs + PrefillBlocks(t) + Headroom
    BY <1>2 DEF PoolSlots, Greater, Headroom
  <1> QED BY <1>2, <1>5, <1>6

(* Adding a row keeps the step within its measure.                            *)
LEMMA AddRowDemand ==
    ASSUME SizingTypeOK, StepDemand,
           NEW committed \in Committed, NEW query \in Query,
           AddRow(committed, query)
    PROVE  StepDemand' /\ demand' \in Nat
  <1>1. /\ Group \in Nat \ {0} /\ committed \in Nat /\ query \in Nat \ {0}
        /\ LongRows \in Nat
    BY GroupAssumption, RowAssumption
  <1>2. /\ rows \in Nat /\ long \in Nat /\ tokens \in Nat /\ demand \in Nat
        /\ max_num_seqs \in Nat /\ max_num_batched_tokens \in Nat
    BY FlagAssumption DEF SizingTypeOK
  <1> DEFINE slots == RowSlots(committed, query)
  <1>3. /\ slots \in Nat
        /\ query = 1 => slots <= 2
        /\ Group * slots <= 2 * Group + (query - 1) + (Group - 1)
    BY <1>1, RowSlotsBound
  <1>4. /\ rows' = rows + 1 /\ tokens' = tokens + query /\ demand' = demand + slots
        /\ long' = IF query > 1 THEN long + 1 ELSE long
        /\ UNCHANGED <<max_num_seqs, max_num_batched_tokens>>
        /\ rows < max_num_seqs /\ tokens + query <= max_num_batched_tokens
        /\ query > 1 => long < LongRows
    BY DEF AddRow, configVars
  <1> HIDE DEF slots
  <1>5. Group * demand' = Group * demand + Group * slots
    BY <1>1, <1>2, <1>3, <1>4, Z3
  <1>6. 2 * Group * rows' = 2 * Group * rows + 2 * Group
    BY <1>1, <1>2, <1>4, Z3
  <1>7. Group * slots <= 2 * Group + (query - 1) + (Group - 1) * (long' - long)
    <2>1. CASE query = 1
      <3>1. Group * slots <= 2 * Group
        BY <2>1, <1>1, <1>3, Z3
      <3>2. long' - long = 0
        BY <2>1, <1>2, <1>4
      <3> QED BY <3>1, <3>2, <2>1, <1>1, <1>3, Z3
    <2>2. CASE query > 1
      BY <2>2, <1>1, <1>2, <1>3, <1>4, Z3
    <2> QED BY <2>1, <2>2, <1>1
  <1>8. (Group - 1) * long' = (Group - 1) * long + (Group - 1) * (long' - long)
    BY <1>1, <1>2, <1>4, Z3
  <1>9. /\ Group * demand \in Int /\ Group * slots \in Int
        /\ 2 * Group * rows \in Int /\ (Group - 1) * long \in Int
        /\ (Group - 1) * (long' - long) \in Int
    BY <1>1, <1>2, <1>3, <1>4
  <1>10. Group * demand' <= 2 * Group * rows' + (tokens' - rows') + (Group - 1) * long'
    BY <1>1, <1>2, <1>4, <1>5, <1>6, <1>7, <1>8, <1>9 DEF StepDemand
  <1>11. rows' <= max_num_seqs' /\ rows' <= tokens' /\ tokens' <= max_num_batched_tokens'
    BY <1>1, <1>2, <1>4 DEF StepDemand
  <1>12. long' <= LongRows
    BY <1>1, <1>2, <1>4 DEF StepDemand
  <1> QED BY <1>2, <1>3, <1>4, <1>10, <1>11, <1>12 DEF StepDemand

-----------------------------------------------------------------------------

(* The sizing invariant holds for any flags, budgets and rows.                *)
LEMMA SizingAlways == Spec => []IInv
<1>1. Init => IInv
  <2> SUFFICES ASSUME Init PROVE IInv
    OBVIOUS
  <2>1. SizingTypeOK
    BY FlagAssumption DEF Init, SizingTypeOK
  <2>2. StepDemand
    BY FlagAssumption, GroupAssumption, RowAssumption DEF Init, StepDemand
  <2>3. PoolSized
    BY DEF Init, PoolSized
  <2> QED BY <2>1, <2>2, <2>3 DEF IInv
<1>2. IInv /\ [Next]_vars => IInv'
  <2> SUFFICES ASSUME IInv, [Next]_vars PROVE IInv'
    OBVIOUS
  <2>1. /\ max_num_seqs \in Nat \ {0} /\ max_num_batched_tokens \in Nat
        /\ budget \in Nat /\ env_slots \in Nat
    BY FlagAssumption DEF IInv, SizingTypeOK
  <2>2. CASE CheckAndUpdateConfig
    <3>1. MaxSupportedSeqs(budget, max_num_batched_tokens) \in Nat \ {0}
      BY <2>1, SizesTyped
    <3>2. /\ rows = 0 /\ long = 0 /\ tokens = 0 /\ demand = 0
      BY <2>2 DEF IInv, PoolSized, CheckAndUpdateConfig
    <3>3. SizingTypeOK'
      BY <2>1, <2>2, <3>1 DEF IInv, SizingTypeOK, CheckAndUpdateConfig, stepVars
    <3>4. StepDemand'
      BY <2>1, <2>2, <3>2, <3>3, GroupAssumption, RowAssumption
         DEF CheckAndUpdateConfig, stepVars, StepDemand, SizingTypeOK
    <3>5. PoolSized'
      <4>1. MaxSupportedSeqs(budget, max_num_batched_tokens)'
                = MaxSupportedSeqs(budget, max_num_batched_tokens)
        BY <2>2 DEF CheckAndUpdateConfig
      <4>2. max_num_seqs' <= MaxSupportedSeqs(budget, max_num_batched_tokens)
        BY <2>1, <2>2, <3>1 DEF CheckAndUpdateConfig
      <4> QED BY <2>2, <3>2, <4>1, <4>2 DEF PoolSized, CheckAndUpdateConfig, stepVars
    <3> QED BY <3>3, <3>4, <3>5 DEF IInv
  <2>3. CASE EnsurePool
    <3>1. PoolSlots(max_num_seqs, max_num_batched_tokens) \in Nat
      BY <2>1, SizesTyped
    <3>2. pool_size' \in Nat
      BY <2>1, <2>3, <3>1 DEF EnsurePool, Greater
    <3>3. SizingTypeOK'
      BY <2>3, <3>2 DEF IInv, SizingTypeOK, EnsurePool, configVars, stepVars
    <3>4. StepDemand'
      BY <2>3 DEF IInv, StepDemand, EnsurePool, configVars, stepVars
    <3>5. PoolSized'
      BY <2>3 DEF IInv, PoolSized, EnsurePool, configVars, stepVars
    <3> QED BY <3>3, <3>4, <3>5 DEF IInv
  <2>4. ASSUME NEW committed \in Committed, NEW query \in Query,
               AddRow(committed, query)
        PROVE  IInv'
    <3>1. StepDemand' /\ demand' \in Nat
      BY <2>4, AddRowDemand DEF IInv
    <3>2. SizingTypeOK'
      BY <2>4, <3>1, RowAssumption DEF IInv, SizingTypeOK, AddRow, configVars
    <3>3. PoolSized'
      BY <2>4 DEF IInv, PoolSized, AddRow, configVars
    <3> QED BY <3>1, <3>2, <3>3 DEF IInv
  <2>5. CASE EndStep
    <3>1. SizingTypeOK'
      BY <2>5 DEF IInv, SizingTypeOK, EndStep, configVars
    <3>2. StepDemand'
      BY <2>1, <2>5, GroupAssumption, RowAssumption DEF EndStep, StepDemand, configVars
    <3>3. PoolSized'
      BY <2>5 DEF IInv, PoolSized, EndStep, configVars
    <3> QED BY <3>1, <3>2, <3>3 DEF IInv
  <2>6. CASE UNCHANGED vars
    BY <2>6 DEF IInv, SizingTypeOK, StepDemand, PoolSized, vars, configVars, stepVars
  <2> QED BY <2>2, <2>3, <2>4, <2>5, <2>6 DEF Next
<1> QED BY <1>1, <1>2, PTL DEF Spec

(* The sizing is well typed for any flags: in particular the cap never leaves *)
(* the scheduler without a request to run.                                    *)
THEOREM TypesHold == Spec => []SizingTypeOK
<1>1. IInv => SizingTypeOK
  BY DEF IInv
<1> QED BY <1>1, SizingAlways, PTL

(* When no step has more multi-token rows than the pool has headroom, no step *)
(* needs more slots than the pool has, whatever the rows' positions.          *)
THEOREM PoolSufficesForFewLongRows ==
    ASSUME LongRows <= Headroom
    PROVE  Spec => []PoolSuffices
<1>1. IInv => PoolSuffices
  <2> SUFFICES ASSUME IInv, env_slots = 0, phase = "serving"
               PROVE  demand <= pool_size
    BY DEF PoolSuffices
  <2>1. /\ Group \in Nat \ {0} /\ LongRows \in Nat
        /\ rows \in Nat /\ long \in Nat /\ tokens \in Nat /\ demand \in Nat
        /\ max_num_seqs \in Nat /\ max_num_batched_tokens \in Nat /\ budget \in Nat
    BY GroupAssumption, RowAssumption, FlagAssumption DEF IInv, SizingTypeOK
  <2> DEFINE prefill == PrefillBlocks(max_num_batched_tokens)
  <2>2. /\ prefill \in Int
        /\ pool_size \in Nat /\ pool_size >= 2 * max_num_seqs + prefill + 8
    BY <2>1, SizesTyped DEF IInv, PoolSized, Headroom
  <2>3. max_num_batched_tokens <= Group * prefill
    <3>1. max_num_batched_tokens + Group - 1 \in Int
      BY <2>1
    <3> QED BY <2>1, <3>1, Division DEF PrefillBlocks
  <2> HIDE DEF prefill
  <2>4. (Group - 1) * long <= 8 * (Group - 1)
    BY <2>1, Z3 DEF IInv, StepDemand, Headroom
  <2>5. Group * demand < Group * (2 * rows + prefill + 8) + 1
    <3>1. Group * (2 * rows + prefill + 8) = 2 * Group * rows + Group * prefill + 8 * Group
      BY <2>1, <2>2, Z3
    <3>2. /\ Group * demand \in Int /\ 2 * Group * rows \in Int
          /\ Group * prefill \in Int /\ (Group - 1) * long \in Int
      BY <2>1, <2>2
    <3> QED BY <2>1, <2>3, <2>4, <3>1, <3>2 DEF IInv, StepDemand
  <2>6. demand <= 2 * rows + prefill + 8
    BY <2>1, <2>2, <2>5, Z3
  <2> QED BY <2>1, <2>2, <2>6 DEF IInv, StepDemand
<1> QED BY <1>1, SizingAlways, PTL

(* A budget that holds the pool of one request holds the pool that is         *)
(* allocated, whatever concurrency was asked for.                             *)
THEOREM FeasibleBudgetKept == Spec => []PoolFitsAFeasibleBudget
<1>1. IInv => PoolFitsAFeasibleBudget
  <2> DEFINE one == PoolSlots(1, max_num_batched_tokens)
             prefill == PrefillBlocks(max_num_batched_tokens)
             afford == budget \div SlotBytes
  <2> SUFFICES ASSUME IInv, env_slots = 0, phase = "serving", one * SlotBytes <= budget
               PROVE  pool_size * SlotBytes <= budget
    BY DEF PoolFitsAFeasibleBudget, PoolBytes
  <2>1. /\ SlotBytes \in Nat \ {0} /\ budget \in Nat
        /\ max_num_seqs \in Nat \ {0} /\ max_num_batched_tokens \in Nat
    BY SlotBytesAssumption, FlagAssumption DEF IInv, SizingTypeOK
  <2>2. prefill \in Int /\ one \in Nat /\ one >= 2 + prefill + 8
    BY <2>1, SizesTyped DEF Headroom
  <2>3. afford \in Int /\ SlotBytes * afford <= budget /\ budget < SlotBytes * afford + SlotBytes
    BY <2>1, Division
  <2>4. PrefillBlocks(max_num_batched_tokens) >= 0
    <3>1. Group \in Nat \ {0} /\ max_num_batched_tokens + Group - 1 \in Nat
      BY <2>1, GroupAssumption
    <3> QED BY <3>1, Division, Z3 DEF PrefillBlocks
  <2>5. /\ max_num_seqs <= Greater(1, (afford - prefill - 8) \div 2)
        /\ pool_size = 2 * max_num_seqs + prefill + 8
    <3>1. pool_size = PoolSlots(max_num_seqs, max_num_batched_tokens)
      BY DEF IInv, PoolSized
    <3>2. pool_size = 2 * max_num_seqs + prefill + 8
      BY <2>1, <2>2, <2>4, <3>1 DEF PoolSlots, Greater, Headroom
    <3> QED BY <3>2 DEF IInv, PoolSized, MaxSupportedSeqs, Headroom
  <2> HIDE DEF one, prefill, afford
  <2>6. afford >= one
    BY <2>1, <2>2, <2>3, Z3
  <2>7. afford - prefill - 8 >= 2 /\ afford - prefill - 8 \in Int
    BY <2>2, <2>3, <2>6
  <2>8. 2 * max_num_seqs <= afford - prefill - 8
    <3>1. /\ (afford - prefill - 8) \div 2 \in Int
          /\ 2 * ((afford - prefill - 8) \div 2) <= afford - prefill - 8
      BY <2>7, Division
    <3> QED BY <2>1, <2>5, <2>7, <3>1 DEF Greater
  <2>9. pool_size <= afford /\ pool_size \in Nat
    BY <2>1, <2>2, <2>3, <2>5, <2>8 DEF IInv, SizingTypeOK
  <2> QED BY <2>1, <2>3, <2>9, Z3
<1> QED BY <1>1, SizingAlways, PTL
=============================================================================
