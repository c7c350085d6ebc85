-------------------------- MODULE KVarNOwner_proofs --------------------------
(***************************************************************************)
(* Proofs about KVarNOwner, for any groups, any drafter's layers and any   *)
(* number of re-initialisations: one builder drives each layer, what a     *)
(* pass or a captured graph reads is its driver's, no slot outlives its    *)
(* cache, and no slot is freed whose layers cannot be flushed.             *)
(***************************************************************************)
EXTENDS KVarNOwner, FiniteSetTheorems, WellFoundedInduction, TLAPS

\* Every builder there has been, of this cache and of the earlier ones.
Builders ==
    [side : {"target"}, layers : Groups, cache : 1 .. inits]
        \cup [side : {"drafter"}, layers : {DraftLayers} \ {{}}, cache : 1 .. inits]

\* The registry: an owner lists the layer it owns and gave it its key; builders
\* of this cache own the layers they execute.
RegistryInv ==
    /\ inits \in 0 .. MaxInits
    /\ made \subseteq Expected /\ made \subseteq DOMAIN impl_by_name
    /\ inits = 0 => made = {}
    /\ \A b \in made : b.side = "drafter" => made = Expected
    /\ DOMAIN impl_by_name \subseteq Builders
    /\ \A b \in DOMAIN impl_by_name : b.cache = inits => b \in made
    /\ \A b \in DOMAIN impl_by_name : impl_by_name[b] \subseteq b.layers \cap DOMAIN owner
    /\ DOMAIN owner \subseteq Layer
    /\ group_key \in [Layer -> SUBSET Layer]
    /\ \A l \in DOMAIN owner :
            /\ owner[l] \in DOMAIN impl_by_name
            /\ l \in impl_by_name[owner[l]] /\ l \in owner[l].layers
            /\ group_key[l] = Key(owner[l])
    /\ \A b \in made : \A l \in b.layers :
            /\ l \in DOMAIN owner
            /\ (l \notin DraftLayers \/ b.side = "drafter") => owner[l] = b

\* Builds and passes happen only while the cache serves, and what the last pass
\* read is forgotten before the next build.
StepInv ==
    /\ step \in Side \cup {"idle"}
    /\ step = "idle" => built = {}
    /\ step # "idle" => Serving /\ DOMAIN used = {}
    /\ \A b \in built : b \in made /\ b.side = step
    /\ DOMAIN used # {} => Serving
    /\ DOMAIN captured # {} => Serving

\* A mirror has exactly the slot-holding blocks of its key, and room for them.
MirrorInv ==
    /\ DOMAIN mirrors = DOMAIN block_to_slot
    /\ \A k \in DOMAIN mirrors :
            /\ mirrors[k].key = k
            /\ mirrors[k].size \in LookupBound .. Greater(LookupBound, NumBlocks)
            /\ mirrors[k] \in DOMAIN content
            /\ content[mirrors[k]] = DOMAIN block_to_slot[k]
            /\ DOMAIN block_to_slot[k] \subseteq 0 .. mirrors[k].size - 1
    /\ \A t \in DOMAIN content : content[t] \subseteq Block

\* A layer that has run in this cache is bound to the mirror of its key, which
\* is as large as the cache and so never outgrown; graphs captured it.
BoundInv ==
    /\ kv_cache_ref \in [Layer -> 0 .. inits]
    /\ \A l \in Layer : inits > 0 /\ kv_cache_ref[l] = inits =>
            /\ Serving
            /\ group_key[l] \in DOMAIN mirrors
            /\ bound[l] = mirrors[group_key[l]]
            /\ bound[l].size >= NumBlocks
    /\ DOMAIN captured \subseteq Layer
    /\ \A l \in DOMAIN captured : kv_cache_ref[l] = inits /\ captured[l] = bound[l]

\* The slots a builder of this cache holds are of this cache, there are none
\* before the cache serves, and its layers have run unless it built just now.
SlotsInv ==
    /\ \A k \in DOMAIN block_to_slot :
            block_to_slot[k] \in [DOMAIN block_to_slot[k] -> 1 .. inits]
    /\ \A l \in DOMAIN owner : owner[l] \in made => kv_cache_ref[l] \in {0, inits}
    /\ \A b \in made : Key(b) \in DOMAIN block_to_slot =>
            /\ Serving
            /\ Range(block_to_slot[Key(b)]) \subseteq {inits}
            /\ b \notin built /\ DOMAIN block_to_slot[Key(b)] # {} =>
                    \A l \in Owned(b) : kv_cache_ref[l] = inits

OwnerInv == RegistryInv /\ StepInv /\ MirrorInv /\ BoundInv /\ SlotsInv /\ ReadsDriversSlots

-----------------------------------------------------------------------------
(* The operators of the model.                                             *)

LEMMA LayerFacts ==
    /\ IsFiniteSet(Layer) /\ DraftLayers \subseteq Layer
    /\ \A g \in Groups : g \subseteq Layer /\ g # {} /\ IsFiniteSet(g)
    /\ \A l \in Layer : \E g \in Groups : l \in g
    /\ \A g, h \in Groups : \A l \in g : l \in h => g = h
    /\ \A g \in Groups : \A l \in g : l \in DraftLayers => DraftLayers \subseteq g
  <1>1. \A g \in Groups : g \subseteq Layer /\ g # {}
    BY LayerAssumption
  <1>2. \A g \in Groups : IsFiniteSet(g)
    BY <1>1, LayerAssumption, FS_Subset
  <1>3. \A g, h \in Groups : \A l \in g : l \in h => g = h
    BY LayerAssumption
  <1>4. PICK g \in Groups : DraftLayers \subseteq g
    BY LayerAssumption
  <1>5. \A h \in Groups : \A l \in h : l \in DraftLayers => DraftLayers \subseteq h
    BY <1>3, <1>4
  <1>6. IsFiniteSet(Layer) /\ \A l \in Layer : \E h \in Groups : l \in h
    BY LayerAssumption
  <1> QED
    BY <1>1, <1>2, <1>3, <1>4, <1>5, <1>6

LEMMA ExpectedFacts ==
    ASSUME NEW b \in Expected
    PROVE  /\ b.side \in Side /\ b.cache = inits
           /\ b.side = "target" => b.layers \in Groups /\ b = Builder("target", b.layers)
           /\ b.side = "drafter" => b.layers = DraftLayers /\ b = Builder("drafter", DraftLayers)
           /\ b.layers # {} /\ b.layers \subseteq Layer
           /\ inits \in 1 .. MaxInits => b \in Builders
  BY LayerFacts DEF Expected, Builder, Builders, Side

LEMMA BuilderFacts ==
    ASSUME NEW b \in Builders
    PROVE  /\ b.layers \subseteq Layer /\ b.layers # {} /\ IsFiniteSet(b.layers)
           /\ b.side \in Side /\ b.cache \in 1 .. inits
           /\ b.side = "target" => b.layers \in Groups
           /\ b.side = "drafter" => b.layers = DraftLayers
  BY LayerFacts, FS_Subset DEF Builders, Side

LEMMA WithFacts ==
    ASSUME NEW f, NEW x, NEW v
    PROVE  /\ DOMAIN With(f, x, v) = DOMAIN f \cup {x}
           /\ With(f, x, v)[x] = v
           /\ \A y \in DOMAIN f : y # x => With(f, x, v)[y] = f[y]
  BY DEF With

LEMMA WithoutFacts ==
    ASSUME NEW f, NEW x
    PROVE  /\ DOMAIN Without(f, x) = DOMAIN f \ {x}
           /\ \A y \in DOMAIN f : y # x => Without(f, x)[y] = f[y]
  BY DEF Without, Restrict

\* While the cache serves every layer has an owner among its builders, the one
\* of the side that executes it.
LEMMA ServingOwns ==
    ASSUME RegistryInv, Serving, NEW l \in Layer
    PROVE  /\ l \in DOMAIN owner /\ owner[l] \in made
           /\ owner[l].side = (IF l \in DraftLayers THEN "drafter" ELSE "target")
           /\ l \in Executed(owner[l].side)
           /\ group_key[l] = Key(owner[l])
           /\ \A b \in made : l \in Owned(b) <=> owner[l] = b
  <1>1. PICK g \in Groups : l \in g
    BY LayerFacts
  <1>2. Builder("target", g) \in made
    BY <1>1 DEF Serving, Expected
  <1>3. Builder("target", g).layers = g /\ Builder("target", g).side = "target"
    BY DEF Builder
  <1>4. l \in DOMAIN owner
    BY <1>1, <1>2, <1>3 DEF RegistryInv
  <1>5. CASE l \in DraftLayers
    <2>1. Builder("drafter", DraftLayers) \in made
      BY <1>5 DEF Serving, Expected
    <2>2. Builder("drafter", DraftLayers).layers = DraftLayers
          /\ Builder("drafter", DraftLayers).side = "drafter"
      BY DEF Builder
    <2>3. owner[l] = Builder("drafter", DraftLayers)
      BY <1>5, <2>1, <2>2 DEF RegistryInv
    <2> QED
      BY <1>4, <1>5, <2>1, <2>2, <2>3 DEF RegistryInv, Executed, Owned
  <1>6. CASE l \notin DraftLayers
    <2>1. owner[l] = Builder("target", g)
      BY <1>1, <1>2, <1>3, <1>6 DEF RegistryInv
    <2> QED
      BY <1>2, <1>3, <1>4, <1>6, <2>1 DEF RegistryInv, Executed, Owned
  <1> QED
    BY <1>5, <1>6

\* A new builder of the side that executes a layer claims it, whoever owns it.
LEMMA NewBuilderClaims ==
    ASSUME RegistryInv, NEW b \in Expected, NEW l \in b.layers,
           l \notin DraftLayers \/ b.side = "drafter"
    PROVE  l \in Claims(b.layers)
  <1>1. SUFFICES ASSUME l \in DOMAIN owner
                 PROVE  Cardinality(b.layers) <= Cardinality(owner[l].layers)
    BY DEF Claims
  <1>2. owner[l] \in Builders /\ l \in owner[l].layers
    BY <1>1 DEF RegistryInv
  <1>3. b.layers \subseteq owner[l].layers /\ IsFiniteSet(owner[l].layers)
    BY <1>2, BuilderFacts, ExpectedFacts, LayerFacts DEF Side
  <1> QED
    BY <1>3, FS_Subset

LEMMA LeastNat ==
    ASSUME NEW T, T \subseteq Nat, T # {}
    PROVE  \E x \in T : \A y \in T : x <= y
  <1>1. \E R : IsWellFoundedOn(R, Nat) /\ \A x, y \in Nat : x < y => <<x, y>> \in R
    <2> DEFINE R == OpToRel(<, Nat)
    <2>1. IsWellFoundedOn(R, Nat)
      BY NatLessThanWellFounded
    <2>2. \A x, y \in Nat : x < y => <<x, y>> \in R
      BY DEF OpToRel
    <2> HIDE DEF R
    <2> QED
      BY <2>1, <2>2
  <1>2. PICK R : IsWellFoundedOn(R, Nat) /\ \A x, y \in Nat : x < y => <<x, y>> \in R
    BY <1>1
  <1>3. IsWellFoundedOn(R, Nat)
    BY <1>2
  <1>4. \E x \in T : \A y \in T : ~(<<y, x>> \in R)
    BY <1>3, WFMin, Zenon
  <1>5. PICK x \in T : \A y \in T : ~(y < x)
    BY <1>2, <1>4
  <1>6. \A y \in T : x <= y
    BY <1>5
  <1> QED
    BY <1>6

LEMMA NeededHint ==
    ASSUME NEW needed \in SUBSET Block, needed # {}
    PROVE  Hint(needed) \in 1 .. NumBlocks /\ needed \subseteq 0 .. Hint(needed) - 1
  <1> DEFINE above == {NumBlocks - m : m \in needed}
  <1>1. NumBlocks \in Nat /\ \A m \in needed : m \in Nat /\ m < NumBlocks
    BY SizeAssumption DEF Block
  <1>2. above \subseteq Nat /\ above # {}
    BY <1>1
  <1>3. PICK x \in above : \A y \in above : x <= y
    BY <1>2, LeastNat
  <1>4. PICK m \in needed : x = NumBlocks - m
    OBVIOUS
  <1>5. \A n \in needed : n <= m
    BY <1>1, <1>3, <1>4
  <1>6. Hint(needed) = 1 + CHOOSE k \in needed : \A n \in needed : n <= k
    BY DEF Hint
  <1>7. PICK k \in needed : (\A n \in needed : n <= k) /\ Hint(needed) = 1 + k
    BY <1>5, <1>6
  <1> QED
    BY <1>1, <1>7

\* _ensure_pool leaves a mirror of the key's slots, with room for the hint; one
\* as large as the cache is kept.
LEMMA EnsuredFacts ==
    ASSUME MirrorInv, NEW key, NEW hint \in 0 .. NumBlocks
    PROVE  LET old == EnsuredSlots(key)[key]
               tensor == EnsuredTensor(key, hint)
           IN  /\ tensor.key = key
               /\ tensor.size \in LookupBound .. Greater(LookupBound, NumBlocks)
               /\ hint <= tensor.size
               /\ key \in DOMAIN mirrors /\ mirrors[key].size >= NumBlocks => tensor = mirrors[key]
               /\ EnsuredContent(key, hint) = DOMAIN old
               /\ DOMAIN old \subseteq 0 .. tensor.size - 1
               /\ DOMAIN old \subseteq Block
               /\ old = IF key \in DOMAIN block_to_slot THEN block_to_slot[key] ELSE <<>>
  <1> DEFINE old == EnsuredSlots(key)[key]
             tensor == EnsuredTensor(key, hint)
             size == Greater(hint, LookupBound)
             new == [key |-> key, size |-> size, cache |-> inits]
  <1>1. NumBlocks \in Nat /\ LookupBound \in Nat /\ hint \in Nat
    BY SizeAssumption
  <1>2. /\ size \in LookupBound .. Greater(LookupBound, NumBlocks) /\ hint <= size
        /\ size \in Nat /\ (size = hint \/ size = LookupBound)
    BY <1>1 DEF Greater
  <1>3. old = IF key \in DOMAIN block_to_slot THEN block_to_slot[key] ELSE <<>>
    BY DEF EnsuredSlots, With
  <1>4. CASE key \in DOMAIN mirrors /\ mirrors[key].size >= size
    <2>1. tensor = mirrors[key]
      BY <1>4 DEF EnsuredTensor
    <2>2. /\ mirrors[key].key = key
          /\ mirrors[key].size \in LookupBound .. Greater(LookupBound, NumBlocks)
          /\ content[mirrors[key]] = DOMAIN old /\ DOMAIN old \subseteq 0 .. mirrors[key].size - 1
          /\ DOMAIN old \subseteq Block
      BY <1>3, <1>4 DEF MirrorInv
    <2>3. EnsuredContent(key, hint) = DOMAIN old
      BY <1>4, <2>1, <2>2 DEF EnsuredContent
    <2>4. hint <= tensor.size
      BY <1>1, <1>2, <1>4, <2>1, <2>2 DEF Greater
    <2> QED
      BY <1>3, <2>1, <2>2, <2>3, <2>4
  <1>5. CASE key \in DOMAIN mirrors /\ ~(mirrors[key].size >= size)
    <2>1. tensor = new
      BY <1>5 DEF EnsuredTensor
    <2>2. /\ mirrors[key].size \in LookupBound .. Greater(LookupBound, NumBlocks)
          /\ content[mirrors[key]] = DOMAIN old /\ DOMAIN old \subseteq 0 .. mirrors[key].size - 1
          /\ DOMAIN old \subseteq Block
      BY <1>3, <1>5 DEF MirrorInv
    <2>3. mirrors[key].size < size /\ mirrors[key].size \in Nat
      BY <1>1, <1>2, <1>5, <2>2 DEF Greater
    <2>4. mirrors[key] # new
      BY <1>2, <2>3
    <2>5. DOMAIN old \subseteq 0 .. size - 1
      BY <1>2, <2>2, <2>3
    <2>6. EnsuredContent(key, hint) = DOMAIN old
      BY <1>5, <2>1, <2>4, <2>5 DEF EnsuredContent
    <2>7. ~(mirrors[key].size >= NumBlocks)
      BY <1>1, <1>2, <2>2, <2>3
    <2> QED
      BY <1>2, <1>3, <2>1, <2>2, <2>5, <2>6, <2>7
  <1>6. CASE key \notin DOMAIN mirrors
    <2>1. tensor = new
      BY <1>6 DEF EnsuredTensor
    <2>2. old = <<>> /\ DOMAIN old = {}
      BY <1>3, <1>6 DEF MirrorInv
    <2>3. EnsuredContent(key, hint) = DOMAIN old
      BY <1>6, <2>2 DEF EnsuredContent
    <2> QED
      BY <1>2, <1>3, <1>6, <2>1, <2>2, <2>3
  <1> QED
    BY <1>4, <1>5, <1>6

\* RegistryInv reads the registry's variables only.
LEMMA RegistryKept ==
    ASSUME RegistryInv, UNCHANGED <<inits, made, owner, impl_by_name, group_key>>
    PROVE  RegistryInv'
  BY DEF RegistryInv, Expected, Builder, Builders, Key

LEMMA InitOwner == Init => OwnerInv
  <1> SUFFICES ASSUME Init PROVE OwnerInv
    OBVIOUS
  <1>1. DOMAIN <<>> = {}
    OBVIOUS
  <1>2. RegistryInv
    BY <1>1, SizeAssumption DEF Init, RegistryInv, Proxy, Expected
  <1>3. StepInv
    BY <1>1 DEF Init, StepInv
  <1>4. MirrorInv
    BY <1>1 DEF Init, MirrorInv
  <1>5. BoundInv
    BY <1>1 DEF Init, BoundInv
  <1>6. SlotsInv /\ ReadsDriversSlots
    BY <1>1 DEF Init, SlotsInv, ReadsDriversSlots
  <1> QED
    BY <1>2, <1>3, <1>4, <1>5, <1>6 DEF OwnerInv

-----------------------------------------------------------------------------
(* The actions that change no builder's state.                             *)

LEMMA ProfileRunKeeps ==
    ASSUME OwnerInv, ProfileRun
    PROVE  OwnerInv'
  <1> DEFINE t == EnsuredTensor(Proxy, 0)
             slots == EnsuredSlots(Proxy)
  <1>1. /\ inits = 0 /\ made = {} /\ DOMAIN used = {} /\ DOMAIN captured = {}
        /\ block_to_slot' = slots /\ mirrors' = With(mirrors, Proxy, t)
        /\ content' = With(content, t, EnsuredContent(Proxy, 0))
        /\ UNCHANGED <<inits, registryVars, group_key, kv_cache_ref, captured, step, built, used>>
    <2>1. inits = 0 /\ ~Serving
      BY DEF ProfileRun, Serving
    <2>2. made = {} /\ DOMAIN used = {} /\ DOMAIN captured = {}
      BY <2>1 DEF OwnerInv, RegistryInv, StepInv
    <2> QED
      BY <2>1, <2>2 DEF ProfileRun
  <1>2. RegistryInv'
    BY <1>1, RegistryKept DEF OwnerInv, registryVars
  <1>3. StepInv'
    BY <1>1 DEF OwnerInv, StepInv, Serving, Expected, Builder, registryVars
  <1>4. 0 \in 0 .. NumBlocks
    BY SizeAssumption
  <1>5. /\ t.key = Proxy /\ t.size \in LookupBound .. Greater(LookupBound, NumBlocks)
        /\ EnsuredContent(Proxy, 0) = DOMAIN slots[Proxy]
        /\ DOMAIN slots[Proxy] \subseteq 0 .. t.size - 1 /\ DOMAIN slots[Proxy] \subseteq Block
        /\ slots[Proxy] = IF Proxy \in DOMAIN block_to_slot THEN block_to_slot[Proxy] ELSE <<>>
    BY <1>4, EnsuredFacts DEF OwnerInv
  <1>6. /\ DOMAIN slots = DOMAIN block_to_slot \cup {Proxy}
        /\ \A k \in DOMAIN block_to_slot : slots[k] = block_to_slot[k]
    BY DEF EnsuredSlots, With
  <1>7. /\ DOMAIN mirrors' = DOMAIN mirrors \cup {Proxy} /\ mirrors'[Proxy] = t
        /\ \A k \in DOMAIN mirrors : k # Proxy => mirrors'[k] = mirrors[k]
        /\ DOMAIN content' = DOMAIN content \cup {t} /\ content'[t] = DOMAIN slots[Proxy]
        /\ \A x \in DOMAIN content : x # t => content'[x] = content[x]
    BY <1>1, <1>5 DEF With
  <1> HIDE DEF t, slots
  <1>8. MirrorInv'
    <2>1. DOMAIN mirrors' = DOMAIN block_to_slot'
      BY <1>1, <1>6, <1>7 DEF OwnerInv, MirrorInv
    <2>2. ASSUME NEW k \in DOMAIN mirrors'
          PROVE  /\ mirrors'[k].key = k
                 /\ mirrors'[k].size \in LookupBound .. Greater(LookupBound, NumBlocks)
                 /\ mirrors'[k] \in DOMAIN content'
                 /\ content'[mirrors'[k]] = DOMAIN block_to_slot'[k]
                 /\ DOMAIN block_to_slot'[k] \subseteq 0 .. mirrors'[k].size - 1
      <3>1. CASE k = Proxy
        BY <3>1, <1>1, <1>5, <1>7
      <3>2. CASE k # Proxy
        BY <3>2, <1>1, <1>5, <1>6, <1>7 DEF OwnerInv, MirrorInv
      <3> QED
        BY <3>1, <3>2
    <2>3. \A x \in DOMAIN content' : content'[x] \subseteq Block
      BY <1>5, <1>7 DEF OwnerInv, MirrorInv
    <2> QED
      BY <2>1, <2>2, <2>3 DEF MirrorInv
  <1>9. BoundInv'
    BY <1>1 DEF OwnerInv, BoundInv
  <1>10. SlotsInv'
    <2>1. \A k \in DOMAIN block_to_slot' :
              block_to_slot'[k] \in [DOMAIN block_to_slot'[k] -> 1 .. inits']
      <3>1. <<>> \in [DOMAIN <<>> -> 1 .. inits]
        OBVIOUS
      <3>2. slots[Proxy] \in [DOMAIN slots[Proxy] -> 1 .. inits]
        BY <3>1, <1>5 DEF OwnerInv, SlotsInv
      <3> QED
        BY <1>1, <1>6, <3>2 DEF OwnerInv, SlotsInv
    <2> QED
      BY <1>1, <2>1 DEF OwnerInv, SlotsInv, registryVars
  <1>11. ReadsDriversSlots'
    BY <1>1 DEF ReadsDriversSlots
  <1> QED
    BY <1>2, <1>3, <1>8, <1>9, <1>10, <1>11 DEF OwnerInv

LEMMA InitializeKeeps ==
    ASSUME OwnerInv, InitializeKvCache
    PROVE  OwnerInv'
  <1>1. /\ step = "idle" /\ inits \in 0 .. MaxInits /\ inits < MaxInits /\ inits' = inits + 1
        /\ made' = {} /\ captured' = <<>> /\ used' = <<>> /\ DOMAIN <<>> = {}
        /\ UNCHANGED <<owner, impl_by_name, groupVars, step, built>>
    BY DEF OwnerInv, RegistryInv, InitializeKvCache
  <1>2. inits \in Nat /\ inits' \in 1 .. MaxInits /\ inits' \in Nat
    BY <1>1, SizeAssumption
  <1>3. Builders \subseteq Builders'
    BY <1>1, <1>2 DEF Builders
  <1>4. RegistryInv'
    <2>1. \A b \in DOMAIN impl_by_name : b.cache # inits'
      BY <1>1, <1>2, BuilderFacts DEF OwnerInv, RegistryInv
    <2> QED
      BY <1>1, <1>2, <1>3, <2>1 DEF OwnerInv, RegistryInv, groupVars, Key
  <1>5. StepInv'
    BY <1>1 DEF OwnerInv, StepInv
  <1>6. MirrorInv'
    BY <1>1 DEF OwnerInv, MirrorInv, groupVars
  <1>7. BoundInv'
    <2>1. \A l \in Layer : kv_cache_ref'[l] \in 0 .. inits /\ kv_cache_ref'[l] # inits'
      BY <1>1, <1>2 DEF OwnerInv, BoundInv, groupVars
    <2>2. kv_cache_ref' \in [Layer -> 0 .. inits']
      BY <1>1, <1>2 DEF OwnerInv, BoundInv, groupVars
    <2> QED
      BY <1>1, <2>1, <2>2 DEF BoundInv
  <1>8. SlotsInv'
    <2>1. \A k \in DOMAIN block_to_slot :
              block_to_slot[k] \in [DOMAIN block_to_slot[k] -> 1 .. inits']
      BY <1>1, <1>2 DEF OwnerInv, SlotsInv
    <2> QED
      BY <1>1, <2>1 DEF SlotsInv, groupVars
  <1>9. ReadsDriversSlots'
    BY <1>1 DEF ReadsDriversSlots
  <1> QED
    BY <1>4, <1>5, <1>6, <1>7, <1>8, <1>9 DEF OwnerInv

LEMMA BeginStepKeeps ==
    ASSUME OwnerInv, NEW side \in Side, BeginStep(side)
    PROVE  OwnerInv'
  <1>1. /\ Serving /\ step = "idle" /\ step' = side /\ built' = {} /\ used' = <<>> /\ DOMAIN <<>> = {}
        /\ built = {}
        /\ UNCHANGED <<inits, registryVars, groupVars, captured>>
    BY DEF OwnerInv, StepInv, BeginStep
  <1>2. Serving'
    BY <1>1 DEF Serving, Expected, Builder, registryVars
  <1>3. RegistryInv'
    BY <1>1, RegistryKept DEF OwnerInv, registryVars, groupVars
  <1>4. StepInv'
    BY <1>1, <1>2 DEF StepInv
  <1>5. MirrorInv'
    BY <1>1 DEF OwnerInv, MirrorInv, groupVars
  <1>6. BoundInv'
    BY <1>1, <1>2 DEF OwnerInv, BoundInv, groupVars
  <1>7. SlotsInv'
    BY <1>1, <1>2 DEF OwnerInv, SlotsInv, groupVars, registryVars, Key, Owned
  <1>8. ReadsDriversSlots'
    BY <1>1 DEF ReadsDriversSlots
  <1> QED
    BY <1>3, <1>4, <1>5, <1>6, <1>7, <1>8 DEF OwnerInv

-----------------------------------------------------------------------------
(* A new builder: nothing has run in this cache yet.                       *)

LEMMA MakeBuilderRegistry ==
    ASSUME OwnerInv, NEW b \in Expected, MakeBuilder(b)
    PROVE  /\ RegistryInv' /\ inits \in 1 .. MaxInits
           /\ b \notin DOMAIN impl_by_name
           /\ \A l \in DOMAIN owner : owner[l] # b
  <1> DEFINE claims == Claims(b.layers)
  <1>1. /\ inits > 0 /\ b \notin made /\ made' = made \cup {b}
        /\ b.side = "drafter" => made = Expected \ {b}
        /\ owner' = [l \in DOMAIN owner \cup claims |-> IF l \in claims THEN b ELSE owner[l]]
        /\ impl_by_name' = With(impl_by_name, b, claims)
        /\ group_key' = [l \in Layer |-> IF l \in claims THEN Key(b) ELSE group_key[l]]
        /\ inits' = inits
    BY DEF MakeBuilder
  <1>2. RegistryInv
    BY DEF OwnerInv
  <1>3. inits \in 1 .. MaxInits /\ Expected' = Expected /\ Builders' = Builders
    BY <1>1, <1>2, SizeAssumption DEF RegistryInv, Expected, Builder, Builders
  <1>4. /\ b.side \in Side /\ b.cache = inits /\ b \in Builders /\ b.layers \subseteq Layer
        /\ b.side = "target" => b.layers \in Groups /\ b = Builder("target", b.layers)
        /\ b.side = "drafter" => b.layers = DraftLayers /\ b = Builder("drafter", DraftLayers)
    BY <1>3, ExpectedFacts
  <1>5. b \notin DOMAIN impl_by_name
    BY <1>1, <1>2, <1>4 DEF RegistryInv
  <1>6. /\ claims \subseteq b.layers
        /\ \A l \in b.layers : l \in claims \/ l \in DOMAIN owner
        /\ \A l \in b.layers : l \notin DraftLayers \/ b.side = "drafter" => l \in claims
    BY <1>2, NewBuilderClaims DEF Claims
  <1>7. /\ DOMAIN impl_by_name' = DOMAIN impl_by_name \cup {b} /\ impl_by_name'[b] = claims
        /\ \A c \in DOMAIN impl_by_name : impl_by_name'[c] = impl_by_name[c]
    BY <1>1, <1>5 DEF With
  <1>8. \A c \in made : c.side # "drafter"
    BY <1>1, <1>2 DEF RegistryInv
  <1> HIDE DEF claims
  <1>9. \A l \in DOMAIN owner : owner[l] \in DOMAIN impl_by_name /\ owner[l] # b
    BY <1>2, <1>5 DEF RegistryInv
  <1>10. ASSUME NEW l \in DOMAIN owner'
         PROVE  /\ owner'[l] \in DOMAIN impl_by_name'
                /\ l \in impl_by_name'[owner'[l]] /\ l \in owner'[l].layers
                /\ group_key'[l] = owner'[l].layers
    <2>1. CASE l \in claims
      BY <2>1, <1>1, <1>4, <1>6, <1>7 DEF Key
    <2>2. CASE l \notin claims
      <3>1. l \in DOMAIN owner /\ owner'[l] = owner[l]
        BY <1>1, <2>2
      <3>2. l \in Layer /\ owner[l] \in DOMAIN impl_by_name /\ l \in impl_by_name[owner[l]]
            /\ l \in owner[l].layers /\ group_key[l] = Key(owner[l])
        BY <3>1, <1>2 DEF RegistryInv
      <3> QED
        BY <1>1, <1>7, <2>2, <3>1, <3>2 DEF Key
    <2> QED
      BY <2>1, <2>2
  <1>11. ASSUME NEW c \in made', NEW l \in c.layers
         PROVE  /\ l \in DOMAIN owner'
                /\ l \notin DraftLayers \/ c.side = "drafter" => owner'[l] = c
    <2>1. CASE c = b
      BY <2>1, <1>1, <1>6
    <2>2. CASE c # b
      <3>1. c \in made /\ c \in Expected /\ c.side = "target"
        BY <1>1, <1>2, <1>8, <2>2, ExpectedFacts DEF RegistryInv, Side
      <3>2. c.layers \in Groups /\ c = Builder("target", c.layers)
        BY <3>1, ExpectedFacts
      <3>3. l \in DOMAIN owner /\ (l \notin DraftLayers => owner[l] = c)
        BY <1>2, <3>1 DEF RegistryInv
      <3>4. ASSUME l \notin DraftLayers PROVE l \notin claims
        <4>1. CASE b.side = "drafter"
          BY <1>4, <1>6, <3>4, <4>1
        <4>2. CASE b.side = "target"
          BY <1>4, <1>6, <2>2, <3>2, <4>2, LayerFacts
        <4> QED
          BY <1>4, <4>1, <4>2 DEF Side
      <3> QED
        BY <1>1, <3>1, <3>3, <3>4
    <2> QED
      BY <2>1, <2>2
  <1>12. /\ inits' \in 0 .. MaxInits /\ made' \subseteq Expected' /\ made' \subseteq DOMAIN impl_by_name'
         /\ DOMAIN impl_by_name' \subseteq Builders' /\ (inits' = 0 => made' = {})
    BY <1>1, <1>2, <1>3, <1>4, <1>7 DEF RegistryInv
  <1>13. \A c \in made' : c.side = "drafter" => made' = Expected'
    BY <1>1, <1>3, <1>8
  <1>14. /\ \A c \in DOMAIN impl_by_name' : c.cache = inits' => c \in made'
         /\ \A c \in DOMAIN impl_by_name' : impl_by_name'[c] \subseteq c.layers \cap DOMAIN owner'
    BY <1>1, <1>2, <1>6, <1>7 DEF RegistryInv
  <1>15. DOMAIN owner' \subseteq Layer /\ group_key' \in [Layer -> SUBSET Layer]
    <2>1. DOMAIN owner' = DOMAIN owner \cup claims /\ claims \subseteq Layer /\ Key(b) \subseteq Layer
      BY <1>1, <1>4, <1>6 DEF Key
    <2> QED
      BY <1>1, <1>2, <2>1 DEF RegistryInv
  <1> QED
    BY <1>3, <1>5, <1>9, <1>10, <1>11, <1>12, <1>13, <1>14, <1>15 DEF RegistryInv, Key

LEMMA MakeBuilderKeeps ==
    ASSUME OwnerInv, NEW b \in Expected, MakeBuilder(b)
    PROVE  OwnerInv'
  <1> DEFINE claims == Claims(b.layers)
  <1>1. RegistryInv' /\ inits \in 1 .. MaxInits /\ \A l \in DOMAIN owner : owner[l] # b
    BY MakeBuilderRegistry
  <1>2. /\ b \notin made /\ made' = made \cup {b}
        /\ owner' = [l \in DOMAIN owner \cup claims |-> IF l \in claims THEN b ELSE owner[l]]
        /\ block_to_slot' = Without(block_to_slot, Key(b)) /\ mirrors' = Without(mirrors, Key(b))
        /\ kv_cache_ref' = [l \in Layer |-> IF l \in claims THEN 0 ELSE kv_cache_ref[l]]
        /\ UNCHANGED <<inits, content, captured, step, built, used>>
    BY DEF MakeBuilder, ResetSlots, ResetMirrors
  <1>3. ~Serving
    BY <1>2 DEF Serving
  <1>4. step = "idle" /\ built = {} /\ DOMAIN used = {} /\ DOMAIN captured = {}
    BY <1>3 DEF OwnerInv, StepInv
  <1>5. StepInv'
    BY <1>2, <1>4 DEF OwnerInv, StepInv
  <1> HIDE DEF claims
  <1>6. /\ DOMAIN mirrors' = DOMAIN mirrors \ {Key(b)}
        /\ DOMAIN block_to_slot' = DOMAIN block_to_slot \ {Key(b)}
        /\ \A k \in DOMAIN mirrors' : mirrors'[k] = mirrors[k]
        /\ \A k \in DOMAIN block_to_slot' : block_to_slot'[k] = block_to_slot[k]
    BY <1>2 DEF Without, Restrict
  <1>7. MirrorInv'
    <2>1. MirrorInv
      BY DEF OwnerInv
    <2>2. DOMAIN mirrors' = DOMAIN block_to_slot' /\ \A t \in DOMAIN content' : content'[t] \subseteq Block
      BY <1>2, <1>6, <2>1 DEF MirrorInv
    <2>3. ASSUME NEW k \in DOMAIN mirrors'
          PROVE  /\ mirrors'[k].key = k
                 /\ mirrors'[k].size \in LookupBound .. Greater(LookupBound, NumBlocks)
                 /\ mirrors'[k] \in DOMAIN content'
                 /\ content'[mirrors'[k]] = DOMAIN block_to_slot'[k]
                 /\ DOMAIN block_to_slot'[k] \subseteq 0 .. mirrors'[k].size - 1
      BY <1>2, <1>6, <2>1 DEF MirrorInv
    <2> QED
      BY <2>2, <2>3 DEF MirrorInv
  <1>8. \A l \in Layer : kv_cache_ref'[l] \in 0 .. inits /\ kv_cache_ref'[l] # inits
    <2>1. \A l \in Layer : kv_cache_ref[l] \in 0 .. inits /\ kv_cache_ref[l] # inits
      BY <1>1, <1>3 DEF OwnerInv, BoundInv
    <2> QED
      BY <1>1, <1>2, <2>1
  <1>9. BoundInv'
    <2>1. kv_cache_ref' \in [Layer -> 0 .. inits']
      BY <1>2, <1>8
    <2> QED
      BY <1>2, <1>4, <1>8, <2>1 DEF BoundInv
  <1>10. SlotsInv'
    <2>1. SlotsInv /\ RegistryInv
      BY DEF OwnerInv
    <2>2. \A k \in DOMAIN block_to_slot' :
              block_to_slot'[k] \in [DOMAIN block_to_slot'[k] -> 1 .. inits']
      BY <1>2, <1>6, <2>1 DEF SlotsInv
    <2>3. ASSUME NEW l \in DOMAIN owner', owner'[l] \in made'
          PROVE  kv_cache_ref'[l] \in {0, inits'}
      <3>1. l \in Layer
        BY <1>1 DEF RegistryInv
      <3>2. CASE l \in claims
        BY <1>2, <3>1, <3>2
      <3>3. CASE l \notin claims
        BY <1>1, <1>2, <2>1, <2>3, <3>1, <3>3 DEF SlotsInv
      <3> QED
        BY <3>2, <3>3
    <2>4. \A c \in made' : Key(c) \notin DOMAIN block_to_slot'
      BY <1>2, <1>3, <1>6, <2>1 DEF SlotsInv
    <2> QED
      BY <2>2, <2>3, <2>4 DEF SlotsInv, Key
  <1>11. ReadsDriversSlots'
    BY <1>2, <1>4 DEF ReadsDriversSlots
  <1> QED
    BY <1>1, <1>5, <1>7, <1>9, <1>10, <1>11 DEF OwnerInv

-----------------------------------------------------------------------------
(* A step of a side.                                                       *)

\* Two builders of one cache with one key: a group that is all the drafter's.
\* The target's drives none of its layers.
LEMMA OneKeyOneDriver ==
    ASSUME RegistryInv, Serving, NEW b \in made, NEW c \in made, b # c, Key(b) = Key(c),
           Owned(b) # {}
    PROVE  Owned(c) = {}
  <1>1. b \in Expected /\ c \in Expected
    BY DEF RegistryInv
  <1>2. b.side # c.side /\ b.layers = DraftLayers /\ c.layers = DraftLayers
    BY <1>1, ExpectedFacts DEF Key, Side
  <1>3. \A l \in DraftLayers : l \in DOMAIN owner /\ owner[l].side = "drafter"
    BY ServingOwns, LayerFacts
  <1>4. \A d \in made : \A l \in Owned(d) : l \in d.layers
    BY DEF RegistryInv, Owned
  <1>5. \A l \in Owned(b) : b.side = "drafter"
    BY <1>2, <1>3, <1>4 DEF Owned
  <1>6. \A l \in Owned(c) : c.side = "drafter"
    BY <1>2, <1>3, <1>4 DEF Owned
  <1> QED
    BY <1>2, <1>5, <1>6

LEMMA BuildKeeps ==
    ASSUME OwnerInv, NEW b \in made, NEW needed \in (SUBSET Block) \ {{}}, NEW freed \in SUBSET Block,
           Build(b, needed, freed)
    PROVE  OwnerInv'
  <1> DEFINE key == Key(b)
             old == EnsuredSlots(key)[key]
             tensor == EnsuredTensor(key, Hint(needed))
             range == 0 .. tensor.size - 1
             kept == DOMAIN old \ freed
             slots == [n \in kept \cup needed |-> IF n \in kept THEN old[n] ELSE inits]
  <1>1. /\ step = b.side /\ b \notin built /\ built' = built \cup {b} /\ b.side \in Side
        /\ UNCHANGED <<inits, made, owner, impl_by_name, captured, step, used, kv_cache_ref>>
    BY ExpectedFacts DEF Build, OwnerInv, RegistryInv, registryVars, groupVars
  <1>2. RegistryInv /\ StepInv /\ MirrorInv /\ BoundInv /\ SlotsInv
    BY DEF OwnerInv
  <1>3. Serving /\ Serving' /\ DOMAIN used = {}
    BY <1>1, <1>2 DEF StepInv, Side, Serving, Expected, Builder
  <1>4. StepInv'
    BY <1>1, <1>2, <1>3 DEF StepInv, Side
  <1>5. ReadsDriversSlots'
    BY <1>1, <1>3 DEF ReadsDriversSlots
  <1>6. CASE Owned(b) = {}
    <2>1. UNCHANGED <<group_key, block_to_slot, mirrors, content, bound>>
      BY <1>6 DEF Build, groupVars
    <2>2. RegistryInv' /\ MirrorInv' /\ BoundInv'
      BY <1>1, <1>2, <1>3, <2>1, RegistryKept DEF MirrorInv, BoundInv
    <2>3. SlotsInv'
      BY <1>1, <1>2, <1>3, <1>6, <2>1 DEF SlotsInv, Key, Owned
    <2> QED
      BY <1>4, <1>5, <2>2, <2>3 DEF OwnerInv
  <1>7. CASE Owned(b) # {}
    <2>1. /\ freed \subseteq DOMAIN old \ needed
          /\ group_key' = [l \in Layer |-> IF l \in Owned(b) THEN key ELSE group_key[l]]
          /\ \E impl0 \in Owned(b) : bound' = [bound EXCEPT ![impl0] = tensor]
          /\ block_to_slot' = With(EnsuredSlots(key), key, slots)
          /\ mirrors' = With(mirrors, key, tensor)
          /\ content' = With(content, tensor,
                (EnsuredContent(key, Hint(needed)) \ (freed \cap range))
                    \cup ((needed \ DOMAIN old) \cap range))
      BY <1>7 DEF Build
    <2>2. needed \subseteq 0 .. Hint(needed) - 1 /\ Hint(needed) \in 1 .. NumBlocks /\ needed \subseteq Block
      BY NeededHint
    <2>3. /\ tensor.key = key /\ tensor.size \in LookupBound .. Greater(LookupBound, NumBlocks)
          /\ Hint(needed) <= tensor.size
          /\ key \in DOMAIN mirrors /\ mirrors[key].size >= NumBlocks => tensor = mirrors[key]
          /\ EnsuredContent(key, Hint(needed)) = DOMAIN old
          /\ DOMAIN old \subseteq range /\ DOMAIN old \subseteq Block
          /\ old = IF key \in DOMAIN block_to_slot THEN block_to_slot[key] ELSE <<>>
      <3>1. Hint(needed) \in 0 .. NumBlocks
        BY <2>2, SizeAssumption
      <3> QED
        BY <1>2, <3>1, EnsuredFacts
    <2>4. needed \subseteq range
      BY <2>2, <2>3, SizeAssumption
    <2>5. /\ DOMAIN EnsuredSlots(key) = DOMAIN block_to_slot \cup {key}
          /\ \A k \in DOMAIN block_to_slot : EnsuredSlots(key)[k] = block_to_slot[k]
      BY DEF EnsuredSlots, With
    <2> HIDE DEF tensor, old
    <2>6. /\ DOMAIN mirrors' = DOMAIN mirrors \cup {key} /\ mirrors'[key] = tensor
          /\ \A k \in DOMAIN mirrors : k # key => mirrors'[k] = mirrors[k]
          /\ DOMAIN block_to_slot' = DOMAIN block_to_slot \cup {key} /\ block_to_slot'[key] = slots
          /\ \A k \in DOMAIN block_to_slot : k # key => block_to_slot'[k] = block_to_slot[k]
      BY <2>1, <2>5 DEF With
    <2>7. /\ DOMAIN content' = DOMAIN content \cup {tensor}
          /\ content'[tensor] = kept \cup needed
          /\ \A x \in DOMAIN content : x # tensor => content'[x] = content[x]
      <3>1. (DOMAIN old \ (freed \cap range)) \cup ((needed \ DOMAIN old) \cap range) = kept \cup needed
        BY <2>1, <2>3, <2>4
      <3> QED
        BY <2>1, <2>3, <3>1 DEF With
    <2>8. DOMAIN slots = kept \cup needed /\ kept \cup needed \subseteq Block /\ kept \cup needed \subseteq range
      BY <2>2, <2>3, <2>4
    <2>9. Owned(b) \subseteq Layer /\ \A l \in Owned(b) : group_key[l] = key /\ l \in DOMAIN owner
      BY <1>2, <1>3, ExpectedFacts DEF RegistryInv, Owned, Key
    <2>10. group_key' = group_key
      BY <1>2, <2>1, <2>9 DEF RegistryInv
    <2>11. RegistryInv'
      BY <1>1, <1>2, <2>10, RegistryKept
    <2> HIDE DEF slots, kept, key, range
    <2>12. MirrorInv'
      <3>1. ASSUME NEW k \in DOMAIN mirrors'
            PROVE  /\ mirrors'[k].key = k
                   /\ mirrors'[k].size \in LookupBound .. Greater(LookupBound, NumBlocks)
                   /\ mirrors'[k] \in DOMAIN content'
                   /\ content'[mirrors'[k]] = DOMAIN block_to_slot'[k]
                   /\ DOMAIN block_to_slot'[k] \subseteq 0 .. mirrors'[k].size - 1
        <4>1. CASE k = key
          BY <4>1, <2>3, <2>6, <2>7, <2>8 DEF range
        <4>2. CASE k # key
          <5>1. k \in DOMAIN mirrors /\ k \in DOMAIN block_to_slot /\ mirrors[k].key = k
            BY <1>2, <2>6, <4>2 DEF MirrorInv
          <5>2. mirrors[k] # tensor
            BY <2>3, <4>2, <5>1
          <5> QED
            BY <1>2, <2>6, <2>7, <4>2, <5>1, <5>2 DEF MirrorInv
        <4> QED
          BY <4>1, <4>2
      <3>2. DOMAIN mirrors' = DOMAIN block_to_slot'
        BY <1>2, <2>6 DEF MirrorInv
      <3>3. \A x \in DOMAIN content' : content'[x] \subseteq Block
        BY <1>2, <2>7, <2>8 DEF MirrorInv
      <3> QED
        BY <3>1, <3>2, <3>3 DEF MirrorInv
    <2>13. \A l \in Layer : inits > 0 /\ kv_cache_ref[l] = inits =>
              /\ group_key[l] \in DOMAIN mirrors /\ bound[l] = mirrors[group_key[l]]
              /\ bound[l].size >= NumBlocks
              /\ bound'[l] = bound[l] /\ mirrors'[group_key[l]] = mirrors[group_key[l]]
      <3> SUFFICES ASSUME NEW l \in Layer, inits > 0, kv_cache_ref[l] = inits
                   PROVE  /\ group_key[l] \in DOMAIN mirrors /\ bound[l] = mirrors[group_key[l]]
                          /\ bound[l].size >= NumBlocks
                          /\ bound'[l] = bound[l] /\ mirrors'[group_key[l]] = mirrors[group_key[l]]
        OBVIOUS
      <3>1. /\ group_key[l] \in DOMAIN mirrors /\ bound[l] = mirrors[group_key[l]]
            /\ bound[l].size >= NumBlocks
        BY <1>2 DEF BoundInv
      <3>2. mirrors'[group_key[l]] = mirrors[group_key[l]]
        BY <2>3, <2>6, <3>1
      <3>3. bound'[l] = bound[l]
        BY <2>1, <2>3, <2>9, <3>1
      <3> QED
        BY <3>1, <3>2, <3>3
    <2>14. BoundInv'
      <3>1. kv_cache_ref' \in [Layer -> 0 .. inits'] /\ DOMAIN captured' \subseteq Layer
        BY <1>1, <1>2 DEF BoundInv
      <3>2. \A l \in Layer : inits' > 0 /\ kv_cache_ref'[l] = inits' =>
                /\ group_key'[l] \in DOMAIN mirrors' /\ bound'[l] = mirrors'[group_key'[l]]
                /\ bound'[l].size >= NumBlocks
        BY <1>1, <2>6, <2>10, <2>13
      <3>3. inits > 0
        BY <1>3 DEF Serving
      <3>4. \A l \in DOMAIN captured' : kv_cache_ref'[l] = inits' /\ captured'[l] = bound'[l]
        BY <1>1, <1>2, <2>13, <3>1, <3>3 DEF BoundInv
      <3> QED
        BY <1>3, <3>1, <3>2, <3>4 DEF BoundInv
    <2>15. key \in DOMAIN block_to_slot => Range(block_to_slot[key]) \subseteq {inits}
      BY <1>2 DEF SlotsInv, key
    <2>16. /\ slots \in [DOMAIN slots -> 1 .. inits]
           /\ Range(slots) \subseteq {inits}
      <3>1. inits \in 1 .. inits
        BY <1>2, <1>3, SizeAssumption DEF RegistryInv, Serving
      <3>2. \A n \in DOMAIN old : old[n] = inits
        BY <2>3, <2>15 DEF Range
      <3>3. slots = [n \in kept \cup needed |-> inits]
        BY <3>2 DEF slots, kept
      <3> QED
        BY <3>1, <3>3 DEF Range
    <2>17. SlotsInv'
      <3>1. \A k \in DOMAIN block_to_slot' :
                block_to_slot'[k] \in [DOMAIN block_to_slot'[k] -> 1 .. inits']
        BY <1>1, <1>2, <2>6, <2>16 DEF SlotsInv
      <3>2. \A l \in DOMAIN owner' : owner'[l] \in made' => kv_cache_ref'[l] \in {0, inits'}
        BY <1>1, <1>2 DEF SlotsInv
      <3>3. \A c \in made' : c.layers \in DOMAIN block_to_slot' =>
                Range(block_to_slot'[c.layers]) \subseteq {inits'}
        BY <1>1, <1>2, <2>6, <2>16 DEF SlotsInv, Key
      <3>4. ASSUME NEW c \in made', c.layers \in DOMAIN block_to_slot', c \notin built',
                   DOMAIN block_to_slot'[c.layers] # {}, NEW l \in Owned(c)
            PROVE  kv_cache_ref'[l] = inits'
        <4>1. c \in made /\ c # b /\ c \notin built
          BY <1>1, <3>4
        <4>2. c.layers # key
          BY <1>2, <1>3, <1>7, <3>4, <4>1, OneKeyOneDriver DEF key, Key
        <4> QED
          BY <1>1, <1>2, <2>6, <3>4, <4>1, <4>2 DEF SlotsInv, Key
      <3>5. \A c \in made : Owned(c)' = Owned(c)
        BY <1>1 DEF Owned
      <3> QED
        BY <1>1, <1>3, <3>1, <3>2, <3>3, <3>4, <3>5 DEF SlotsInv, Key
    <2> QED
      BY <1>4, <1>5, <2>11, <2>12, <2>14, <2>17 DEF OwnerInv
  <1> QED
    BY <1>6, <1>7

\* The layers a builder drives are the ones its side executes.
LEMMA OwnedRun ==
    ASSUME RegistryInv, Serving, NEW b \in made, NEW l \in Owned(b)
    PROVE  l \in Executed(b.side)
  BY ServingOwns DEF RegistryInv, Owned

LEMMA ForwardKeeps ==
    ASSUME OwnerInv, NEW side \in Side, Forward(side)
    PROVE  OwnerInv'
  <1> DEFINE run == Executed(side)
             keys == {group_key[l] : l \in run}
             tensor(k) == EnsuredTensor(k, NumBlocks)
             slots(k) == EnsuredSlots(k)[k]
  <1>1. /\ step = side /\ AllBuilt(side) /\ step' = "idle" /\ built' = {}
        /\ block_to_slot' = [k \in DOMAIN block_to_slot \cup keys |->
                IF k \in keys THEN slots(k) ELSE block_to_slot[k]]
        /\ mirrors' = [k \in DOMAIN mirrors \cup keys |-> IF k \in keys THEN tensor(k) ELSE mirrors[k]]
        /\ content' = [t \in DOMAIN content \cup {tensor(k) : k \in keys} |->
                IF \E k \in keys : tensor(k) = t
                THEN EnsuredContent(CHOOSE k \in keys : tensor(k) = t, NumBlocks)
                ELSE content[t]]
        /\ bound' = [l \in Layer |-> IF l \in run THEN tensor(group_key[l]) ELSE bound[l]]
        /\ kv_cache_ref' = [l \in Layer |-> IF l \in run THEN inits ELSE kv_cache_ref[l]]
        /\ used' = [l \in run |-> tensor(group_key[l])]
        /\ UNCHANGED <<inits, made, owner, impl_by_name, group_key, captured>>
    BY DEF Forward, EndStep, CachedRefs, registryVars
  <1>2. RegistryInv /\ StepInv /\ MirrorInv /\ BoundInv /\ SlotsInv
    BY DEF OwnerInv
  <1>3. Serving /\ Serving'
    BY <1>1, <1>2 DEF StepInv, Side, Serving, Expected, Builder
  <1>4. inits \in Nat /\ inits > 0 /\ inits \in 0 .. inits
    BY <1>2, <1>3, SizeAssumption DEF RegistryInv, Serving
  <1>5. run \subseteq Layer
    BY LayerFacts DEF Executed
  <1>6. RegistryInv'
    BY <1>1, <1>2, RegistryKept
  <1>7. StepInv'
    BY <1>1, <1>2, <1>3 DEF StepInv
  <1>8. NumBlocks \in 0 .. NumBlocks
    BY SizeAssumption
  <1>9. ASSUME NEW k
        PROVE  /\ tensor(k).key = k /\ tensor(k).size \in LookupBound .. Greater(LookupBound, NumBlocks)
               /\ NumBlocks <= tensor(k).size
               /\ k \in DOMAIN mirrors /\ mirrors[k].size >= NumBlocks => tensor(k) = mirrors[k]
               /\ EnsuredContent(k, NumBlocks) = DOMAIN slots(k)
               /\ DOMAIN slots(k) \subseteq 0 .. tensor(k).size - 1 /\ DOMAIN slots(k) \subseteq Block
               /\ slots(k) = IF k \in DOMAIN block_to_slot THEN block_to_slot[k] ELSE <<>>
    BY <1>2, <1>8, EnsuredFacts
  <1> HIDE DEF tensor, slots
  <1>10. /\ DOMAIN block_to_slot' = DOMAIN block_to_slot \cup keys
         /\ \A k \in keys : block_to_slot'[k] = slots(k) /\ mirrors'[k] = tensor(k)
         /\ \A k \in DOMAIN block_to_slot : block_to_slot'[k] = block_to_slot[k]
         /\ DOMAIN mirrors' = DOMAIN mirrors \cup keys
         /\ \A k \in DOMAIN mirrors : k \notin keys => mirrors'[k] = mirrors[k]
    BY <1>1, <1>9
  <1>11. /\ DOMAIN content' = DOMAIN content \cup {tensor(k) : k \in keys}
         /\ \A k \in keys : content'[tensor(k)] = DOMAIN slots(k)
         /\ \A t \in DOMAIN content : t.key \notin keys => content'[t] = content[t]
         /\ \A t \in DOMAIN content' : content'[t] \subseteq Block
    <2>1. \A k \in keys : (CHOOSE x \in keys : tensor(x) = tensor(k)) = k
      BY <1>9
    <2>2. \A t : (\E k \in keys : tensor(k) = t) => t.key \in keys
      BY <1>9
    <2>3. \A k \in keys : content'[tensor(k)] = DOMAIN slots(k)
      BY <1>1, <1>9, <2>1
    <2>4. \A t \in DOMAIN content : ~(\E k \in keys : tensor(k) = t) => content'[t] = content[t]
      BY <1>1
    <2>5. \A t \in DOMAIN content' : content'[t] \subseteq Block
      <3> TAKE t \in DOMAIN content'
      <3>1. CASE \E k \in keys : tensor(k) = t
        BY <1>9, <2>3, <3>1
      <3>2. CASE ~(\E k \in keys : tensor(k) = t)
        BY <1>1, <1>2, <2>4, <3>2 DEF MirrorInv
      <3> QED
        BY <3>1, <3>2
    <2> QED
      BY <1>1, <2>2, <2>3, <2>4, <2>5
  <1> HIDE DEF keys, run
  <1>12. \A l \in run : group_key[l] \in keys
    BY DEF keys
  <1>13. MirrorInv'
    <2>1. ASSUME NEW k \in DOMAIN mirrors'
          PROVE  /\ mirrors'[k].key = k
                 /\ mirrors'[k].size \in LookupBound .. Greater(LookupBound, NumBlocks)
                 /\ mirrors'[k] \in DOMAIN content'
                 /\ content'[mirrors'[k]] = DOMAIN block_to_slot'[k]
                 /\ DOMAIN block_to_slot'[k] \subseteq 0 .. mirrors'[k].size - 1
      <3>1. CASE k \in keys
        BY <3>1, <1>9, <1>10, <1>11
      <3>2. CASE k \notin keys
        BY <3>2, <1>2, <1>10, <1>11 DEF MirrorInv
      <3> QED
        BY <3>1, <3>2
    <2> QED
      BY <1>2, <1>10, <1>11, <2>1 DEF MirrorInv
  <1>14. ASSUME NEW l \in Layer, kv_cache_ref[l] = inits
         PROVE  /\ group_key[l] \in DOMAIN mirrors' /\ bound[l].size >= NumBlocks
                /\ bound'[l] = bound[l] /\ mirrors'[group_key[l]] = bound[l]
    <2>1. group_key[l] \in DOMAIN mirrors /\ bound[l] = mirrors[group_key[l]] /\ bound[l].size >= NumBlocks
      BY <1>2, <1>4, <1>14 DEF BoundInv
    <2>2. tensor(group_key[l]) = bound[l]
      BY <1>9, <2>1
    <2> QED
      BY <1>1, <1>10, <2>1, <2>2
  <1>15. BoundInv'
    <2>1. kv_cache_ref' \in [Layer -> 0 .. inits'] /\ DOMAIN captured' \subseteq Layer
      BY <1>1, <1>2, <1>4 DEF BoundInv
    <2>2. ASSUME NEW l \in Layer, kv_cache_ref'[l] = inits'
          PROVE  /\ group_key'[l] \in DOMAIN mirrors' /\ bound'[l] = mirrors'[group_key'[l]]
                 /\ bound'[l].size >= NumBlocks
      <3>1. CASE l \in run
        BY <1>1, <1>9, <1>10, <1>12, <2>2, <3>1
      <3>2. CASE l \notin run
        BY <1>1, <1>14, <2>2, <3>2
      <3> QED
        BY <3>1, <3>2
    <2>3. \A l \in DOMAIN captured' : kv_cache_ref'[l] = inits' /\ captured'[l] = bound'[l]
      BY <1>1, <1>2, <1>14, <2>1 DEF BoundInv
    <2> QED
      BY <1>3, <2>1, <2>2, <2>3 DEF BoundInv
  <1>16. SlotsInv'
    <2>1. <<>> \in [DOMAIN <<>> -> 1 .. inits] /\ DOMAIN <<>> = {} /\ Range(<<>>) = {}
      BY DEF Range
    <2>2. ASSUME NEW k \in DOMAIN block_to_slot'
          PROVE  \/ k \in DOMAIN block_to_slot /\ block_to_slot'[k] = block_to_slot[k]
                 \/ k \notin DOMAIN block_to_slot /\ block_to_slot'[k] = <<>>
      BY <1>9, <1>10
    <2>3. \A k \in DOMAIN block_to_slot' :
              block_to_slot'[k] \in [DOMAIN block_to_slot'[k] -> 1 .. inits']
      BY <1>1, <1>2, <2>1, <2>2 DEF SlotsInv
    <2>4. \A l \in DOMAIN owner' : owner'[l] \in made' => kv_cache_ref'[l] \in {0, inits'}
      BY <1>1, <1>2 DEF SlotsInv, RegistryInv
    <2>5. \A c \in made' : c.layers \in DOMAIN block_to_slot' =>
              Range(block_to_slot'[c.layers]) \subseteq {inits'}
      BY <1>1, <1>2, <2>1, <2>2 DEF SlotsInv, Key
    <2>6. ASSUME NEW c \in made', c.layers \in DOMAIN block_to_slot',
                 DOMAIN block_to_slot'[c.layers] # {}, NEW l \in Owned(c)
          PROVE  kv_cache_ref'[l] = inits'
      <3>1. c \in made /\ l \in Layer
        BY <1>1, <1>2, ExpectedFacts DEF RegistryInv, Owned
      <3>2. CASE c.side = side
        BY <1>1, <1>2, <1>3, <3>1, <3>2, OwnedRun DEF run
      <3>3. CASE c.side # side
        <4>1. c \notin built /\ c.layers \in DOMAIN block_to_slot /\ DOMAIN block_to_slot[c.layers] # {}
          BY <1>1, <1>2, <2>1, <2>2, <2>6, <3>3 DEF StepInv
        <4>2. kv_cache_ref[l] = inits
          BY <1>2, <3>1, <4>1 DEF SlotsInv, Key
        <4> QED
          BY <1>1, <3>1, <4>2
      <3> QED
        BY <3>2, <3>3
    <2>7. \A c \in made : Owned(c)' = Owned(c)
      BY <1>1 DEF Owned
    <2>8. \A c \in made' : Key(c) \in DOMAIN block_to_slot' =>
              /\ Range(block_to_slot'[Key(c)]) \subseteq {inits'}
              /\ DOMAIN block_to_slot'[Key(c)] # {} => \A l \in Owned(c)' : kv_cache_ref'[l] = inits'
      BY <1>1, <2>5, <2>6, <2>7 DEF Key
    <2> QED
      BY <1>3, <2>3, <2>4, <2>8 DEF SlotsInv, Key
  <1>17. ReadsDriversSlots'
    <2> SUFFICES ASSUME NEW l \in run
                 PROVE  content'[used'[l]] = DOMAIN block_to_slot'[owner'[l].layers]
      BY <1>1 DEF ReadsDriversSlots, Key
    <2>1. group_key[l] = owner[l].layers
      BY <1>2, <1>3, <1>5, ServingOwns DEF Key
    <2>2. used'[l] = tensor(group_key[l]) /\ group_key[l] \in keys
      BY <1>1, <1>12
    <2>3. content'[tensor(group_key[l])] = DOMAIN slots(group_key[l])
      BY <1>11, <2>2
    <2>4. block_to_slot'[group_key[l]] = slots(group_key[l])
      BY <1>10, <2>2
    <2> QED
      BY <1>1, <2>1, <2>2, <2>3, <2>4
  <1> QED
    BY <1>6, <1>7, <1>13, <1>15, <1>16, <1>17 DEF OwnerInv

\* A pass that reads bound tensors of layers that have all run in this cache.
LEMMA ReadBoundKeeps ==
    ASSUME OwnerInv, NEW side \in Side, step = side, EndStep,
           \A l \in Executed(side) : kv_cache_ref[l] = inits,
           used' = [l \in Executed(side) |-> bound[l]],
           DOMAIN captured' \subseteq DOMAIN captured \cup Executed(side),
           \A l \in DOMAIN captured' : captured'[l] = bound[l],
           UNCHANGED groupVars
    PROVE  OwnerInv'
  <1>1. /\ step' = "idle" /\ built' = {}
        /\ UNCHANGED <<inits, made, owner, impl_by_name, group_key, block_to_slot, mirrors, content, bound,
                       kv_cache_ref>>
    BY DEF EndStep, registryVars, groupVars
  <1>2. RegistryInv /\ StepInv /\ MirrorInv /\ BoundInv /\ SlotsInv
    BY DEF OwnerInv
  <1>3. Serving /\ Serving'
    BY <1>1, <1>2 DEF StepInv, Side, Serving, Expected, Builder
  <1>4. inits > 0 /\ Executed(side) \subseteq Layer
    BY <1>3, LayerFacts DEF Serving, Executed
  <1>5. RegistryInv' /\ MirrorInv'
    BY <1>1, <1>2, RegistryKept DEF MirrorInv
  <1>6. StepInv'
    BY <1>1, <1>2, <1>3 DEF StepInv
  <1>7. BoundInv'
    <2>1. DOMAIN captured' \subseteq Layer /\ \A l \in DOMAIN captured' : kv_cache_ref[l] = inits
      BY <1>2, <1>4 DEF BoundInv
    <2> QED
      BY <1>1, <1>2, <1>3, <2>1 DEF BoundInv
  <1>8. SlotsInv'
    <2>1. ASSUME NEW c \in made, Key(c) \in DOMAIN block_to_slot, DOMAIN block_to_slot[Key(c)] # {},
                 NEW l \in Owned(c)
          PROVE  kv_cache_ref[l] = inits
      <3>1. CASE c \in built
        BY <1>2, <1>3, <3>1, OwnedRun DEF StepInv
      <3>2. CASE c \notin built
        BY <1>2, <2>1, <3>2 DEF SlotsInv
      <3> QED
        BY <3>1, <3>2
    <2>2. \A c \in made : Owned(c)' = Owned(c)
      BY <1>1 DEF Owned
    <2>3. \A c \in made' : Key(c) \in DOMAIN block_to_slot' =>
              /\ Range(block_to_slot'[Key(c)]) \subseteq {inits'}
              /\ DOMAIN block_to_slot'[Key(c)] # {} => \A l \in Owned(c)' : kv_cache_ref'[l] = inits'
      BY <1>1, <1>2, <2>1, <2>2 DEF SlotsInv, Key
    <2> QED
      BY <1>1, <1>2, <1>3, <2>3 DEF SlotsInv, Key
  <1>9. ReadsDriversSlots'
    <2> SUFFICES ASSUME NEW l \in Executed(side)
                 PROVE  content[bound[l]] = DOMAIN block_to_slot[owner[l].layers]
      BY <1>1 DEF ReadsDriversSlots, Key
    <2>1. group_key[l] = owner[l].layers
      BY <1>2, <1>3, <1>4, ServingOwns DEF Key
    <2>2. group_key[l] \in DOMAIN mirrors /\ bound[l] = mirrors[group_key[l]]
      BY <1>2, <1>4 DEF BoundInv
    <2> QED
      BY <1>2, <2>1, <2>2 DEF MirrorInv
  <1> QED
    BY <1>5, <1>6, <1>7, <1>8, <1>9 DEF OwnerInv

LEMMA CaptureKeeps ==
    ASSUME OwnerInv, NEW side \in Side, Capture(side)
    PROVE  OwnerInv'
  <1>1. /\ step = side /\ EndStep /\ \A l \in Executed(side) : kv_cache_ref[l] = inits
        /\ used' = [l \in Executed(side) |-> bound[l]] /\ UNCHANGED groupVars
    BY DEF Capture
  <1>2. /\ DOMAIN captured' = DOMAIN captured \cup Executed(side)
        /\ \A l \in DOMAIN captured' : captured'[l] = IF l \in Executed(side) THEN bound[l] ELSE captured[l]
    BY DEF Capture
  <1>3. \A l \in DOMAIN captured' : captured'[l] = bound[l]
    BY <1>2 DEF OwnerInv, BoundInv
  <1> QED
    BY <1>1, <1>2, <1>3, ReadBoundKeeps

LEMMA ReplayKeeps ==
    ASSUME OwnerInv, NEW side \in Side, Replay(side)
    PROVE  OwnerInv'
  <1>1. /\ step = side /\ EndStep /\ Executed(side) \subseteq DOMAIN captured
        /\ used' = [l \in Executed(side) |-> captured[l]]
        /\ UNCHANGED groupVars /\ captured' = captured
    BY DEF Replay
  <1>2. \A l \in DOMAIN captured : kv_cache_ref[l] = inits /\ captured[l] = bound[l]
    BY DEF OwnerInv, BoundInv
  <1>3. used' = [l \in Executed(side) |-> bound[l]]
    BY <1>1, <1>2
  <1> QED
    BY <1>1, <1>2, <1>3, ReadBoundKeeps

LEMMA StutterKeeps ==
    ASSUME OwnerInv, UNCHANGED vars
    PROVE  OwnerInv'
  <1>1. UNCHANGED <<inits, made, owner, impl_by_name, group_key, block_to_slot, mirrors, content, bound,
                    kv_cache_ref, captured, step, built, used>>
    BY DEF vars, registryVars, groupVars
  <1>2. Expected' = Expected /\ Serving' = Serving /\ \A b \in made : Owned(b)' = Owned(b)
    BY <1>1 DEF Expected, Serving, Builder, Owned
  <1>3. RegistryInv' /\ StepInv' /\ MirrorInv' /\ BoundInv'
    BY <1>1, <1>2, RegistryKept DEF OwnerInv, StepInv, MirrorInv, BoundInv
  <1>4. SlotsInv' /\ ReadsDriversSlots'
    BY <1>1, <1>2 DEF OwnerInv, SlotsInv, ReadsDriversSlots, Key
  <1> QED
    BY <1>3, <1>4 DEF OwnerInv

LEMMA NextKeeps == OwnerInv /\ [Next]_vars => OwnerInv'
  <1> SUFFICES ASSUME OwnerInv, [Next]_vars
               PROVE  OwnerInv'
    OBVIOUS
  <1>1. CASE ProfileRun
    BY <1>1, ProfileRunKeeps
  <1>2. CASE InitializeKvCache
    BY <1>2, InitializeKeeps
  <1>3. CASE \E b \in Expected : MakeBuilder(b)
    BY <1>3, MakeBuilderKeeps
  <1>4. CASE \E side \in Side : BeginStep(side)
    BY <1>4, BeginStepKeeps
  <1>5. CASE \E b \in made, needed \in (SUBSET Block) \ {{}}, freed \in SUBSET Block :
                 Build(b, needed, freed)
    BY <1>5, BuildKeeps
  <1>6. CASE \E side \in Side : Forward(side)
    BY <1>6, ForwardKeeps
  <1>7. CASE \E side \in Side : Capture(side)
    BY <1>7, CaptureKeeps
  <1>8. CASE \E side \in Side : Replay(side)
    BY <1>8, ReplayKeeps
  <1>9. CASE UNCHANGED vars
    BY <1>9, StutterKeeps
  <1> QED
    BY <1>1, <1>2, <1>3, <1>4, <1>5, <1>6, <1>7, <1>8, <1>9 DEF Next

\* The invariant holds throughout.
THEOREM OwnerAlways == Spec => []OwnerInv
  BY InitOwner, NextKeeps, PTL DEF Spec

-----------------------------------------------------------------------------
(* The properties.                                                         *)

\* The registry, the mirrors and the builders' bookkeeping have their types.
THEOREM TypesHold == Spec => []OwnerTypeOK
  <1>1. OwnerInv => OwnerTypeOK
    <2> SUFFICES ASSUME OwnerInv PROVE OwnerTypeOK
      OBVIOUS
    <2>1. \A k \in DOMAIN block_to_slot :
              block_to_slot[k] \in [DOMAIN block_to_slot[k] -> 1 .. MaxInits]
      BY SizeAssumption DEF OwnerInv, RegistryInv, SlotsInv
    <2>2. kv_cache_ref \in [Layer -> 0 .. MaxInits]
      BY SizeAssumption DEF OwnerInv, RegistryInv, BoundInv
    <2>3. built \subseteq DOMAIN impl_by_name
      BY DEF OwnerInv, RegistryInv, StepInv
    <2> QED
      BY <2>1, <2>2, <2>3 DEF OwnerInv, RegistryInv, StepInv, MirrorInv, OwnerTypeOK
  <1> QED
    BY <1>1, OwnerAlways, PTL

\* Each layer has one driver, of the side that executes it, whatever builders of
\* earlier caches the registry still holds.
THEOREM OneDriverAlways == Spec => []OneDriver
  <1>1. OwnerInv => OneDriver
    <2> SUFFICES ASSUME OwnerInv, Serving, NEW l \in Layer
                 PROVE  \E b \in made :
                            /\ b.side = (IF l \in DraftLayers THEN "drafter" ELSE "target")
                            /\ {c \in made : l \in Owned(c)} = {b}
      BY DEF OneDriver
    <2>1. /\ owner[l] \in made
          /\ owner[l].side = (IF l \in DraftLayers THEN "drafter" ELSE "target")
          /\ \A c \in made : l \in Owned(c) <=> owner[l] = c
      BY ServingOwns DEF OwnerInv
    <2>2. {c \in made : l \in Owned(c)} = {owner[l]}
      BY <2>1
    <2> QED
      BY <2>1, <2>2
  <1> QED
    BY <1>1, OwnerAlways, PTL

\* Whatever tensor a pass or a captured graph reads gives a slot to exactly the
\* blocks its layer's driver gave one.
THEOREM ReadsAlways == Spec => []ReadsDriversSlots
  <1>1. OwnerInv => ReadsDriversSlots
    BY DEF OwnerInv
  <1> QED
    BY <1>1, OwnerAlways, PTL

\* No slot of an earlier cache is held, and no layer flushes into one.
THEOREM NoStaleAlways == Spec => []NoStaleSlots
  <1>1. OwnerInv => NoStaleSlots
    <2> SUFFICES ASSUME OwnerInv, NEW b \in made
                 PROVE  /\ Key(b) \in DOMAIN block_to_slot => Range(block_to_slot[Key(b)]) \subseteq {inits}
                        /\ \A l \in Owned(b) : kv_cache_ref[l] \in {0, inits}
      BY DEF NoStaleSlots
    <2> QED
      BY DEF OwnerInv, RegistryInv, SlotsInv, Owned
  <1> QED
    BY <1>1, OwnerAlways, PTL

\* A build that frees a slot finds a cache to flush it to in every layer it drives.
THEOREM FreedHaveACache == Spec => FreedSlotsHaveACache
  <1> DEFINE Step ==
          \A b \in built' \ built :
              (/\ Key(b) \in DOMAIN block_to_slot
               /\ ~(DOMAIN block_to_slot[Key(b)] \subseteq DOMAIN block_to_slot'[Key(b)]))
              => \A l \in Owned(b) : kv_cache_ref[l] = inits
  <1>1. ASSUME OwnerInv, [Next]_vars
        PROVE  Step
    <2> SUFFICES ASSUME NEW b \in built', b \notin built, Key(b) \in DOMAIN block_to_slot,
                        ~(DOMAIN block_to_slot[Key(b)] \subseteq DOMAIN block_to_slot'[Key(b)])
                 PROVE  \A l \in Owned(b) : kv_cache_ref[l] = inits
      OBVIOUS
    <2>1. b \in made
      <3>1. ProfileRun \/ InitializeKvCache \/ (\E c \in Expected : MakeBuilder(c)) \/ UNCHANGED vars
                => built' = built
        BY DEF ProfileRun, InitializeKvCache, MakeBuilder, vars
      <3>2. ASSUME NEW side \in Side, BeginStep(side) \/ Forward(side) \/ Capture(side) \/ Replay(side)
            PROVE  built' = {}
        BY <3>2 DEF BeginStep, Forward, Capture, Replay, EndStep
      <3>3. ASSUME NEW c \in made, NEW needed, NEW freed, Build(c, needed, freed)
            PROVE  built' = built \cup {c}
        BY <3>3 DEF Build
      <3> QED
        BY <1>1, <3>1, <3>2, <3>3 DEF Next
    <2>2. DOMAIN block_to_slot[Key(b)] # {}
      OBVIOUS
    <2> QED
      BY <1>1, <2>1, <2>2 DEF OwnerInv, SlotsInv
  <1>2. OwnerInv /\ [Next]_vars => [Step]_vars
    BY <1>1
  <1> QED
    BY <1>2, OwnerAlways, PTL DEF Spec, FreedSlotsHaveACache
=============================================================================
