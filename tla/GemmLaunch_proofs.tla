------------------------- MODULE GemmLaunch_proofs --------------------------
(***************************************************************************)
(* The launches of a GGUF matrix multiplication, for every call.  The      *)
(* split partitions of GemmSplit put each k-block in exactly one split;    *)
(* the shared memory of every kernel is laid out without overlap; and the  *)
(* launches the ops build of a call, with its row blocks, descriptors and  *)
(* splits, put a CTA on every tile, split and rows of every shard, on the  *)
(* tile's own weights and columns (LaunchesReach).  Last the repack of the *)
(* weights at load, which the prefill's reader inverts (RepackInverted).   *)
(***************************************************************************)
EXTENDS GemmTile, FiniteSetTheorems, WellFoundedInduction, TLAPS

Owned(part, kb) == part[1] <= kb /\ kb < part[2]

\* The quotient of a division and its bounds.
LEMMA DivBounds ==
    ASSUME NEW a \in Nat, NEW b \in Nat \ {0}
    PROVE  a \div b \in Nat /\ b * (a \div b) <= a /\ a < b * (a \div b) + b
  OBVIOUS

\* A product orders as its factor does.
LEMMA TimesMonotone ==
    ASSUME NEW b \in Nat \ {0}, NEW x \in Int, NEW y \in Int, b * x < b * y
    PROVE  x < y
  OBVIOUS

\* Multiplying keeps an order.
LEMMA TimesLeq ==
    ASSUME NEW b \in Nat, NEW x \in Int, NEW y \in Int, x <= y
    PROVE  b * x <= b * y
  OBVIOUS

\* a lies in block q of the multiples of b exactly when q is its quotient.
LEMMA DivAtMost ==
    ASSUME NEW a \in Nat, NEW b \in Nat \ {0}, NEW k \in Nat, a < b * (k + 1)
    PROVE  a \div b <= k
  <1> DEFINE q == a \div b
  <1>1. q \in Nat /\ b * q <= a
    BY DivBounds
  <1>2. b * q < b * (k + 1)
    <2>1. b * q \in Int /\ b * (k + 1) \in Int
      BY <1>1
    <2> QED
      BY <1>1, <2>1
  <1>3. q < k + 1
    BY <1>1, <1>2, TimesMonotone
  <1> QED
    BY <1>1, <1>3

\* A quotient is at least what its divisor fits.
LEMMA DivAtLeast ==
    ASSUME NEW a \in Nat, NEW b \in Nat \ {0}, NEW k \in Nat, b * k <= a
    PROVE  k <= a \div b
  <1> DEFINE q == a \div b
  <1>1. q \in Nat /\ a < b * q + b
    BY DivBounds
  <1>2. b * q + b = b * (q + 1)
    BY <1>1
  <1>3. b * k < b * (q + 1)
    <2>1. b * k \in Int /\ b * (q + 1) \in Int
      BY <1>1
    <2> QED
      BY <1>1, <1>2, <2>1
  <1>4. k < q + 1
    BY <1>1, <1>3, TimesMonotone
  <1> QED
    BY <1>1, <1>4

-----------------------------------------------------------------------------

\* The descriptors' partition: no split is left without a k-block, each stays
\* within the row, and every k-block is some split's (descriptors: "every
\* split index owns a non-empty range").
THEOREM BalancedSplitsCover ==
    ASSUME NEW nb \in Nat \ {0}, NEW splits \in 1 .. nb
    PROVE  /\ \A s \in 0 .. splits - 1 :
                 /\ BalancedPart(s, splits, nb)[1] \in Nat /\ BalancedPart(s, splits, nb)[2] <= nb
                 /\ BalancedPart(s, splits, nb)[1] < BalancedPart(s, splits, nb)[2]
           /\ \A kb \in 0 .. nb - 1 : \E s \in 0 .. splits - 1 : Owned(BalancedPart(s, splits, nb), kb)
  <1>1. ASSUME NEW s \in 0 .. splits - 1
        PROVE  /\ BalancedPart(s, splits, nb)[1] \in Nat /\ BalancedPart(s, splits, nb)[2] <= nb
               /\ BalancedPart(s, splits, nb)[1] < BalancedPart(s, splits, nb)[2]
    <2> DEFINE first == (s * nb) \div splits
               past == ((s + 1) * nb) \div splits
    <2>1. s * nb \in Nat /\ (s + 1) * nb \in Nat /\ (s + 1) * nb = s * nb + nb
      OBVIOUS
    <2>2. first \in Nat /\ splits * first <= s * nb
      BY <2>1, DivBounds
    <2>3. splits * (first + 1) <= (s + 1) * nb
      <3>1. splits * (first + 1) = splits * first + splits
        BY <2>2
      <3>2. splits * first \in Nat /\ splits <= nb
        BY <2>2
      <3> QED
        BY <2>1, <2>2, <3>1, <3>2
    <2>4. first + 1 <= past
      BY <2>1, <2>2, <2>3, DivAtLeast
    <2>5. past <= nb
      <3>1. (s + 1) * nb <= splits * nb
        BY TimesLeq
      <3>2. (s + 1) * nb < splits * (nb + 1)
        BY <2>1, <3>1
      <3> QED
        BY <2>1, <3>2, DivAtMost
    <2>6. past \in Nat
      BY <2>1, DivBounds
    <2> QED
      BY <2>2, <2>4, <2>5, <2>6 DEF BalancedPart
  <1>2. ASSUME NEW kb \in 0 .. nb - 1
        PROVE  \E s \in 0 .. splits - 1 : Owned(BalancedPart(s, splits, nb), kb)
    \* The last split that starts before the k-block's end.
    <2> DEFINE a == (kb + 1) * splits - 1
               s == a \div nb
    <2>1. a \in Nat
      <3>1. 1 * splits <= (kb + 1) * splits
        BY TimesLeq
      <3> QED
        BY <3>1
    <2>2. s \in Nat /\ nb * s <= a /\ a < nb * s + nb
      BY <2>1, DivBounds
    <2>3. nb * s < splits * (kb + 1) /\ splits * (kb + 1) <= nb * (s + 1)
      <3>1. splits * (kb + 1) = a + 1 /\ nb * (s + 1) = nb * s + nb
        BY <2>1, <2>2
      <3>2. nb * s \in Nat
        BY <2>2
      <3> QED
        BY <2>1, <2>2, <3>1, <3>2
    <2>4. s < splits
      <3>1. splits * (kb + 1) <= splits * nb
        BY TimesLeq
      <3>2. nb * s < nb * splits
        BY <2>2, <2>3, <3>1
      <3> QED
        BY <2>2, <3>2, TimesMonotone
    <2>5. (s * nb) \div splits <= kb
      BY <2>2, <2>3, DivAtMost
    <2>6. kb + 1 <= ((s + 1) * nb) \div splits
      BY <2>2, <2>3, DivAtLeast
    <2>7. ((s + 1) * nb) \div splits \in Nat
      BY <2>2, DivBounds
    <2> HIDE DEF s
    <2>8. s \in 0 .. splits - 1 /\ Owned(BalancedPart(s, splits, nb), kb)
      BY <2>2, <2>4, <2>5, <2>6, <2>7 DEF BalancedPart, Owned
    <2> QED
      BY <2>8
  <1> QED
    BY <1>1, <1>2

\* A k-block has one split: two splits that own it are the same.
THEOREM BalancedSplitsDisjoint ==
    ASSUME NEW nb \in Nat \ {0}, NEW splits \in 1 .. nb, NEW kb \in 0 .. nb - 1,
           NEW s \in 0 .. splits - 1, NEW t \in 0 .. splits - 1,
           Owned(BalancedPart(s, splits, nb), kb), Owned(BalancedPart(t, splits, nb), kb)
    PROVE  s = t
  <1>1. ASSUME NEW x \in 0 .. splits - 1, NEW y \in 0 .. splits - 1, x < y,
               Owned(BalancedPart(x, splits, nb), kb), Owned(BalancedPart(y, splits, nb), kb)
        PROVE  FALSE
    <2>1. kb < ((x + 1) * nb) \div splits /\ (y * nb) \div splits <= kb
      BY <1>1 DEF BalancedPart, Owned
    <2>2. (x + 1) * nb \in Nat /\ y * nb \in Nat
      OBVIOUS
    <2>3. (x + 1) * nb <= y * nb
      BY <1>1, TimesLeq
    <2> DEFINE p == ((x + 1) * nb) \div splits
    <2>4. p \in Nat /\ splits * p <= (x + 1) * nb
      BY <2>2, DivBounds
    <2>5. splits * p <= y * nb
      <3>1. splits * p \in Nat
        BY <2>4
      <3> QED
        BY <2>2, <2>3, <2>4, <3>1
    <2>6. p <= (y * nb) \div splits
      BY <2>2, <2>4, <2>5, DivAtLeast
    <2>7. (y * nb) \div splits \in Nat
      BY <2>2, DivBounds
    <2> QED
      BY <2>1, <2>4, <2>6, <2>7
  <1> QED
    BY <1>1

\* The standalone kernels' partition: every k-block is exactly one split's,
\* although the last splits may own none.
THEOREM CeilSplitsPartition ==
    ASSUME NEW nb \in Nat \ {0}, NEW splits \in 1 .. nb, NEW kb \in 0 .. nb - 1
    PROVE  \E s \in 0 .. splits - 1 :
             /\ Owned(CeilPart(s, splits, nb), kb)
             /\ \A t \in 0 .. splits - 1 : Owned(CeilPart(t, splits, nb), kb) => t = s
  <1> DEFINE top == nb + splits - 1
             per == top \div splits
             s == kb \div per
  <1>1. per \in Nat /\ nb <= splits * per
    <2>1. top \in Nat
      OBVIOUS
    <2>2. per \in Nat /\ top < splits * per + splits
      <3> HIDE DEF top
      <3> QED
        BY <2>1, DivBounds
    <2>3. splits * per \in Nat
      BY <2>2
    <2> QED
      BY <2>2, <2>3
  <1>2. per \in Nat \ {0}
    <2>1. splits * 1 <= nb + splits - 1
      OBVIOUS
    <2> QED
      BY <1>1, <2>1, DivAtLeast
  <1> HIDE DEF per
  <1>3. s \in Nat /\ per * s <= kb /\ kb < per * s + per
    BY <1>2, DivBounds
  <1>4. s \in 0 .. splits - 1
    <2>1. per * s < per * splits
      <3>1. per * s \in Nat /\ per * splits = splits * per /\ splits * per \in Nat
        BY <1>2, <1>3
      <3> QED
        BY <1>1, <1>3, <3>1
    <2> QED
      BY <1>2, <1>3, <2>1, TimesMonotone
  <1> HIDE DEF s
  <1>5. \A t \in 0 .. splits - 1 :
           Owned(CeilPart(t, splits, nb), kb) <=> (t * per <= kb /\ kb < (t + 1) * per)
    <2> SUFFICES ASSUME NEW t \in 0 .. splits - 1
                 PROVE  Owned(CeilPart(t, splits, nb), kb) <=> (t * per <= kb /\ kb < (t + 1) * per)
      OBVIOUS
    <2>1. CeilPart(t, splits, nb) = <<t * per, IF (t + 1) * per < nb THEN (t + 1) * per ELSE nb>>
      BY DEF CeilPart, per, top
    <2>2. (t + 1) * per \in Nat
      BY <1>2
    <2> QED
      BY <2>1, <2>2 DEF Owned
  <1>6. Owned(CeilPart(s, splits, nb), kb)
    <2>1. s * per = per * s /\ (s + 1) * per = per * s + per
      BY <1>2, <1>3
    <2> QED
      BY <1>3, <1>4, <1>5, <2>1
  <1>7. ASSUME NEW t \in 0 .. splits - 1, Owned(CeilPart(t, splits, nb), kb)
        PROVE  t = s
    <2>1. t * per <= kb /\ kb < (t + 1) * per /\ s * per <= kb /\ kb < (s + 1) * per
      BY <1>4, <1>5, <1>6, <1>7
    <2>2. per * t < per * (s + 1) /\ per * s < per * (t + 1)
      <3>1. /\ t * per \in Nat /\ s * per \in Nat /\ (t + 1) * per \in Nat /\ (s + 1) * per \in Nat
            /\ per * t = t * per /\ per * s = s * per
            /\ per * (s + 1) = (s + 1) * per /\ per * (t + 1) = (t + 1) * per
        BY <1>2, <1>4
      <3> QED
        BY <2>1, <3>1
    <2>3. t < s + 1 /\ s < t + 1
      BY <1>2, <1>4, <2>2, TimesMonotone
    <2> QED
      BY <1>4, <2>3
  <1> QED
    BY <1>4, <1>6, <1>7

-----------------------------------------------------------------------------
(* The shared memory of the kernels: every part of a stage has its own words. *)

\* Every part lies in the kernel's shared memory, and no two have a word in common.
Apart(k) ==
    \A p \in Parts(k) :
        /\ Extent(k, p).past <= k.size
        /\ \A q \in Parts(k) : q # p => ~Overlap(Extent(k, q), Extent(k, p))

\* Words of a stage, and the first word of stage s.
StageWords(k) == IF k.raw THEN k.slot ELSE 64 * k.words
StageAt(k, s) == k.stages + s * k.slot

\* The regions of shared memory, one behind the other, whatever their order.
Layout(k) ==
    /\ k.depth \in {2, 3} /\ k.nst \in {1, 2}
    /\ k.depth = 3 => k.nst = 1 /\ k.acts = None
    /\ k.stages \in Nat /\ k.slot \in Nat /\ k.size \in Nat /\ k.bm \in Nat
    /\ StageWords(k) \in Nat /\ StageWords(k) % 2 = 0 /\ StageWords(k) <= k.slot
    /\ StageAt(k, k.depth - 1) + StageWords(k) <= k.size
    /\ k.acts # None =>
          /\ k.acts \in Nat /\ k.acts + 128 * k.bm <= k.size
          /\ k.acts >= StageAt(k, k.depth - 1) + StageWords(k) \/ k.acts + 128 * k.bm <= k.stages
    /\ k.tab # None =>
          /\ k.tab \in Nat /\ k.tabWords \in Nat /\ k.tabWords % 2 = 0 /\ k.tab + k.tabWords <= k.size
          /\ \A s \in 0 .. k.depth - 1 : k.tab >= StageAt(k, s) + StageWords(k) \/ k.tab + k.tabWords <= StageAt(k, s)
          /\ k.acts # None => k.acts >= k.tab + k.tabWords \/ k.tab >= k.acts + 128 * k.bm

\* Half of an even number.
LEMMA HalfOfEven ==
    ASSUME NEW n \in Nat, n % 2 = 0
    PROVE  n \div 2 \in Nat /\ n = 2 * (n \div 2)
  OBVIOUS

\* A part is of a stage, of the activations or of the table.
LEMMA PartKinds ==
    ASSUME NEW k, Layout(k), NEW p \in Parts(k)
    PROVE  \/ \E s \in 0 .. k.depth - 1, w \in Warp : p = <<"w", s, w>>
           \/ k.acts # None /\ \E s \in 0 .. 1, w \in Warp : p = <<"a", s, w>>
           \/ k.tab # None /\ \E w \in Warp : p = <<"t", 0, w>>
  BY DEF Parts

\* Where the parts of a stage lie.
LEMMA ExtentOfStage ==
    ASSUME NEW k, NEW s, NEW w
    PROVE  /\ Extent(k, <<"w", s, w>>).first = StageAt(k, s) + w * (StageWords(k) \div 2)
           /\ Extent(k, <<"w", s, w>>).past = StageAt(k, s) + w * (StageWords(k) \div 2) + StageWords(k) \div 2
  BY DEF Extent, StageAt, StageWords

\* Where the activations lie.
LEMMA ExtentOfActs ==
    ASSUME NEW k, NEW s \in 0 .. 1, NEW w \in Warp, k.bm \in Nat, k.acts \in Nat
    PROVE  /\ Extent(k, <<"a", s, w>>).first = k.acts + s * (64 * k.bm) + w * (32 * k.bm)
           /\ Extent(k, <<"a", s, w>>).past = k.acts + s * (64 * k.bm) + w * (32 * k.bm) + 32 * k.bm
  <1>1. (64 * k.bm) \div 2 = 32 * k.bm /\ s * 64 * k.bm = s * (64 * k.bm)
    OBVIOUS
  <1> QED
    BY <1>1 DEF Extent

\* Where the grid table lies.
LEMMA ExtentOfTable ==
    ASSUME NEW k, NEW w
    PROVE  /\ Extent(k, <<"t", 0, w>>).first = k.tab + w * (k.tabWords \div 2)
           /\ Extent(k, <<"t", 0, w>>).past = k.tab + w * (k.tabWords \div 2) + k.tabWords \div 2
  BY DEF Extent

\* No two parts of a kernel laid out like this overlap, and every part lies in the
\* allocation.
LEMMA LayoutApart ==
    ASSUME NEW k, Layout(k)
    PROVE  Apart(k)
  <1> DEFINE h == StageWords(k) \div 2
             d == k.slot
             b == 32 * k.bm
             u == k.tabWords \div 2
             ActsAt(s, w) == k.acts + (IF s = 0 THEN 0 ELSE 2 * b) + (IF w = 0 THEN 0 ELSE b)
             top == StageAt(k, k.depth - 1)
  <1>1. h \in Nat /\ StageWords(k) = 2 * h /\ d \in Nat /\ 2 * h <= d /\ k.stages \in Nat /\ k.size \in Nat
    BY HalfOfEven DEF Layout
  <1>2. ASSUME NEW s \in 0 .. k.depth - 1
        PROVE  /\ s \in {0, 1, 2} /\ StageAt(k, s) \in Nat
               /\ StageAt(k, s) = (IF s = 0 THEN k.stages ELSE IF s = 1 THEN k.stages + d ELSE k.stages + d + d)
               /\ k.stages <= StageAt(k, s) /\ StageAt(k, s) <= top
    <2>1. StageAt(k, 0) = k.stages /\ StageAt(k, 1) = k.stages + d /\ StageAt(k, 2) = k.stages + d + d
      BY <1>1 DEF StageAt
    <2>2. k.depth - 1 \in {1, 2} /\ s \in {0, 1, 2} /\ s <= k.depth - 1
      BY DEF Layout
    <2> HIDE DEF d
    <2> QED
      BY <1>1, <2>1, <2>2
  <1>3. top \in Nat /\ top + 2 * h <= k.size
    <2>1. k.depth - 1 \in 0 .. k.depth - 1
      BY DEF Layout
    <2> QED
      BY <1>1, <1>2, <2>1 DEF Layout
  <1>4. ASSUME NEW s \in 0 .. k.depth - 1, NEW w \in Warp
        PROVE  /\ Extent(k, <<"w", s, w>>).first = StageAt(k, s) + w * h
               /\ Extent(k, <<"w", s, w>>).past = StageAt(k, s) + w * h + h
    BY ExtentOfStage
  <1>5. k.acts # None => /\ k.acts \in Nat /\ b \in Nat /\ k.acts + 4 * b <= k.size
                         /\ k.acts >= top + 2 * h \/ k.acts + 4 * b <= k.stages
    BY <1>1 DEF Layout
  <1>6. ASSUME k.acts # None, NEW s \in 0 .. 1, NEW w \in Warp
        PROVE  /\ Extent(k, <<"a", s, w>>).first = ActsAt(s, w)
               /\ Extent(k, <<"a", s, w>>).past = ActsAt(s, w) + b
    <2>1. k.bm \in Nat
      BY DEF Layout
    <2>2. s * (64 * k.bm) = (IF s = 0 THEN 0 ELSE 2 * b) /\ w * b = (IF w = 0 THEN 0 ELSE b)
      BY <2>1 DEF Warp
    <2> QED
      BY <1>5, <1>6, <2>1, <2>2, ExtentOfActs
  <1>7. k.tab # None =>
          /\ k.tab \in Nat /\ u \in Nat /\ k.tab + 2 * u <= k.size
          /\ \A s \in 0 .. k.depth - 1 : k.tab >= StageAt(k, s) + 2 * h \/ k.tab + 2 * u <= StageAt(k, s)
          /\ k.acts # None => k.acts >= k.tab + 2 * u \/ k.tab >= k.acts + 4 * b
    <2> SUFFICES ASSUME k.tab # None
                 PROVE  /\ k.tab \in Nat /\ u \in Nat /\ k.tab + 2 * u <= k.size
                        /\ \A s \in 0 .. k.depth - 1 : k.tab >= StageAt(k, s) + 2 * h \/ k.tab + 2 * u <= StageAt(k, s)
                        /\ k.acts # None => k.acts >= k.tab + 2 * u \/ k.tab >= k.acts + 4 * b
      OBVIOUS
    <2>1. u \in Nat /\ k.tabWords = 2 * u
      BY HalfOfEven DEF Layout
    <2>2. k.acts # None => 128 * k.bm = 4 * b
      BY <1>5 DEF Layout
    <2> QED
      BY <1>1, <2>1, <2>2 DEF Layout
  <1>8. ASSUME NEW w \in Warp
        PROVE  /\ Extent(k, <<"t", 0, w>>).first = k.tab + w * u
               /\ Extent(k, <<"t", 0, w>>).past = k.tab + w * u + u
    BY ExtentOfTable
  <1> DEFINE IsStage(p, s, w) == s \in 0 .. k.depth - 1 /\ w \in Warp /\ p = <<"w", s, w>>
             IsActs(p, s, w) == k.acts # None /\ s \in 0 .. 1 /\ w \in Warp /\ p = <<"a", s, w>>
             IsTable(p, w) == k.tab # None /\ w \in Warp /\ p = <<"t", 0, w>>
  <1>9. \A p \in Parts(k) : \/ \E s, w : IsStage(p, s, w)
                            \/ \E s, w : IsActs(p, s, w)
                            \/ \E w : IsTable(p, w)
    BY PartKinds
  <1>w. Warp = {0, 1} /\ 0 .. 1 = {0, 1}
    BY DEF Warp
  <1> HIDE DEF h, d, b, u, top
  <1>10. ASSUME NEW p, NEW s, NEW w, IsStage(p, s, w)
         PROVE  /\ Extent(k, p).past <= k.size
                /\ \A q \in Parts(k) : q # p => ~Overlap(Extent(k, q), Extent(k, p))
    <2> DEFINE e == Extent(k, p)
    <2>1. s \in {0, 1, 2} /\ s \in 0 .. k.depth - 1 /\ w \in {0, 1} /\ w \in Warp /\ p = <<"w", s, w>>
      BY <1>2, <1>10, <1>w
    <2>2. /\ e.first = StageAt(k, s) + w * h /\ e.past = StageAt(k, s) + w * h + h
          /\ StageAt(k, s) \in Nat
          /\ StageAt(k, s) = (IF s = 0 THEN k.stages ELSE IF s = 1 THEN k.stages + d ELSE k.stages + d + d)
          /\ k.stages <= StageAt(k, s) /\ StageAt(k, s) <= top
      BY <1>2, <1>4, <2>1
    <2>3. e.past <= k.size
      BY <1>1, <1>3, <2>1, <2>2
    <2>4. ASSUME NEW q, NEW s2, NEW w2, IsStage(q, s2, w2), q # p
          PROVE  ~Overlap(Extent(k, q), e)
      <3>1. s2 \in {0, 1, 2} /\ s2 \in 0 .. k.depth - 1 /\ w2 \in {0, 1} /\ q = <<"w", s2, w2>> /\ (s2 # s \/ w2 # w)
        BY <1>2, <1>w, <2>1, <2>4
      <3>2. /\ Extent(k, q).first = StageAt(k, s2) + w2 * h /\ Extent(k, q).past = StageAt(k, s2) + w2 * h + h
            /\ StageAt(k, s2) = (IF s2 = 0 THEN k.stages ELSE IF s2 = 1 THEN k.stages + d ELSE k.stages + d + d)
        BY <1>2, <1>4, <1>w, <3>1
      <3> HIDE DEF e, IsStage
      <3> QED
        BY <1>1, <2>1, <2>2, <3>1, <3>2 DEF Overlap
    <2>5. ASSUME NEW q, NEW s2, NEW w2, IsActs(q, s2, w2)
          PROVE  ~Overlap(Extent(k, q), e)
      <3>1. s2 \in {0, 1} /\ w2 \in {0, 1} /\ q = <<"a", s2, w2>> /\ k.acts # None
        BY <1>w, <2>5
      <3>2. /\ Extent(k, q).first = ActsAt(s2, w2) /\ Extent(k, q).past = ActsAt(s2, w2) + b
        BY <1>6, <1>w, <3>1
      <3> HIDE DEF e, IsActs
      <3> QED
        BY <1>1, <1>3, <1>5, <2>1, <2>2, <3>1, <3>2 DEF Overlap
    <2>6. ASSUME NEW q, NEW w2, IsTable(q, w2)
          PROVE  ~Overlap(Extent(k, q), e)
      <3>1. w2 \in {0, 1} /\ q = <<"t", 0, w2>> /\ k.tab # None
        BY <1>w, <2>6
      <3>2. /\ Extent(k, q).first = k.tab + w2 * u /\ Extent(k, q).past = k.tab + w2 * u + u
        BY <1>8, <1>w, <3>1
      <3> HIDE DEF e, IsTable
      <3> QED
        BY <1>1, <1>7, <2>1, <2>2, <3>1, <3>2 DEF Overlap
    <2> HIDE DEF IsStage, IsActs, IsTable
    <2> QED
      BY <1>9, <2>3, <2>4, <2>5, <2>6
  <1>11. ASSUME NEW p, NEW s, NEW w, IsActs(p, s, w)
         PROVE  /\ Extent(k, p).past <= k.size
                /\ \A q \in Parts(k) : q # p => ~Overlap(Extent(k, q), Extent(k, p))
    <2> DEFINE e == Extent(k, p)
    <2>1. s \in {0, 1} /\ w \in {0, 1} /\ w \in Warp /\ p = <<"a", s, w>> /\ k.acts # None
      BY <1>11, <1>w
    <2>2. /\ e.first = ActsAt(s, w) /\ e.past = ActsAt(s, w) + b
      BY <1>6, <1>w, <2>1
    <2>3. e.past <= k.size
      BY <1>1, <1>5, <2>1, <2>2
    <2>4. ASSUME NEW q, NEW s2, NEW w2, IsStage(q, s2, w2)
          PROVE  ~Overlap(Extent(k, q), e)
      <3>1. q \in Parts(k) /\ p \in Parts(k) /\ p # q
        BY <2>1, <2>4 DEF Parts
      <3>2. ~Overlap(e, Extent(k, q))
        BY <1>10, <2>4, <3>1
      <3> QED
        BY <3>2 DEF Overlap
    <2>5. ASSUME NEW q, NEW s2, NEW w2, IsActs(q, s2, w2), q # p
          PROVE  ~Overlap(Extent(k, q), e)
      <3>1. s2 \in {0, 1} /\ w2 \in {0, 1} /\ q = <<"a", s2, w2>> /\ (s2 # s \/ w2 # w)
        BY <1>w, <2>1, <2>5
      <3>2. /\ Extent(k, q).first = ActsAt(s2, w2) /\ Extent(k, q).past = ActsAt(s2, w2) + b
        BY <1>6, <1>w, <2>1, <3>1
      <3> HIDE DEF e, IsActs
      <3> QED
        BY <1>5, <2>1, <2>2, <3>1, <3>2 DEF Overlap
    <2>6. ASSUME NEW q, NEW w2, IsTable(q, w2)
          PROVE  ~Overlap(Extent(k, q), e)
      <3>1. w2 \in {0, 1} /\ q = <<"t", 0, w2>> /\ k.tab # None
        BY <1>w, <2>6
      <3>2. /\ Extent(k, q).first = k.tab + w2 * u /\ Extent(k, q).past = k.tab + w2 * u + u
        BY <1>8, <1>w, <3>1
      <3> HIDE DEF e, IsTable
      <3> QED
        BY <1>5, <1>7, <2>1, <2>2, <3>1, <3>2 DEF Overlap
    <2> HIDE DEF IsStage, IsActs, IsTable
    <2> QED
      BY <1>9, <2>3, <2>4, <2>5, <2>6
  <1>12. ASSUME NEW p, NEW w, IsTable(p, w)
         PROVE  /\ Extent(k, p).past <= k.size
                /\ \A q \in Parts(k) : q # p => ~Overlap(Extent(k, q), Extent(k, p))
    <2> DEFINE e == Extent(k, p)
    <2>1. w \in {0, 1} /\ w \in Warp /\ p = <<"t", 0, w>> /\ k.tab # None
      BY <1>12, <1>w
    <2>2. e.first = k.tab + w * u /\ e.past = k.tab + w * u + u
      BY <1>8, <2>1
    <2>3. e.past <= k.size
      BY <1>1, <1>7, <2>1, <2>2
    <2>4. ASSUME NEW q, NEW s2, NEW w2, IsStage(q, s2, w2) \/ IsActs(q, s2, w2)
          PROVE  ~Overlap(Extent(k, q), e)
      <3>1. p \in Parts(k)
        BY <2>1 DEF Parts
      <3>2. CASE IsStage(q, s2, w2)
        <4>1. q = <<"w", s2, w2>> /\ p # q
          BY <2>1, <3>2
        <4> QED
          BY <1>10, <3>1, <3>2, <4>1 DEF Overlap
      <3>3. CASE IsActs(q, s2, w2)
        <4>1. q = <<"a", s2, w2>> /\ p # q
          BY <2>1, <3>3
        <4> QED
          BY <1>11, <3>1, <3>3, <4>1 DEF Overlap
      <3> QED
        BY <2>4, <3>2, <3>3
    <2>5. ASSUME NEW q, NEW w2, IsTable(q, w2), q # p
          PROVE  ~Overlap(Extent(k, q), e)
      <3>1. w2 \in {0, 1} /\ q = <<"t", 0, w2>> /\ w2 # w
        BY <1>w, <2>1, <2>5
      <3>2. Extent(k, q).first = k.tab + w2 * u /\ Extent(k, q).past = k.tab + w2 * u + u
        BY <1>8, <1>w, <3>1
      <3> HIDE DEF e, IsTable
      <3> QED
        BY <1>7, <2>1, <2>2, <3>1, <3>2 DEF Overlap
    <2> HIDE DEF IsStage, IsActs, IsTable
    <2> QED
      BY <1>9, <2>3, <2>4, <2>5
  <1> HIDE DEF IsStage, IsActs, IsTable
  <1> QED
    BY <1>9, <1>10, <1>11, <1>12 DEF Apart

\* A nonempty set of numbers has a least one.
LEMMA LeastNat ==
    ASSUME NEW T, T \subseteq Nat, T # {}
    PROVE  \E x \in T : \A y \in T : x <= y
  <1>1. \E R : IsWellFoundedOn(R, Nat) /\ \A x, y \in Nat : x < y => <<x, y>> \in R
    <2> DEFINE R == OpToRel(<, Nat)
    <2>1. IsWellFoundedOn(R, Nat)
      BY NatLessThanWellFounded
    <2>2. \A x, y \in Nat : x < y => <<x, y>> \in R
      BY DEF OpToRel
    <2> HIDE DEF R
    <2> QED
      BY <2>1, <2>2
  <1>2. PICK R : IsWellFoundedOn(R, Nat) /\ \A x, y \in Nat : x < y => <<x, y>> \in R
    BY <1>1
  <1>3. \E x \in T : \A y \in T : ~(<<y, x>> \in R)
    <2>1. IsWellFoundedOn(R, Nat)
      BY <1>2
    <2> QED
      BY <2>1, WFMin, Zenon
  <1>4. PICK x \in T : \A y \in T : ~(y < x)
    BY <1>2, <1>3
  <1> QED
    BY <1>4

\* The powers of two up to 1024.
LEMMA PowersToTen ==
    /\ 2 ^ 0 = 1 /\ 2 ^ 1 = 2 /\ 2 ^ 2 = 4 /\ 2 ^ 3 = 8 /\ 2 ^ 4 = 16 /\ 2 ^ 5 = 32
    /\ 2 ^ 6 = 64 /\ 2 ^ 7 = 128 /\ 2 ^ 8 = 256 /\ 2 ^ 9 = 512 /\ 2 ^ 10 = 1024
  OBVIOUS

\* The flat slot of a tile kernel holds a stage.
LEMMA SlotHolds ==
    ASSUME NEW words \in 0 .. 1024
    PROVE  /\ Slot(words) \in Nat /\ 64 * words <= Slot(words)
           /\ tile_geometry(words) \in Nat /\ 64 * words <= tile_geometry(words)
  <1> DEFINE sizes == {64 * 2 ^ i : i \in 0 .. 10}
             enough == {n \in sizes : n >= 64 * words}
  <1>1. \A i \in 0 .. 10 : 2 ^ i \in Nat
    <2> SUFFICES ASSUME NEW i \in 0 .. 10
                 PROVE  2 ^ i \in Nat
      OBVIOUS
    <2> DEFINE f(x) == 2 ^ x
    <2>1. i = 0 \/ i = 1 \/ i = 2 \/ i = 3 \/ i = 4 \/ i = 5 \/ i = 6 \/ i = 7 \/ i = 8 \/ i = 9 \/ i = 10
      OBVIOUS
    <2>2. /\ f(0) \in Nat /\ f(1) \in Nat /\ f(2) \in Nat /\ f(3) \in Nat /\ f(4) \in Nat /\ f(5) \in Nat
          /\ f(6) \in Nat /\ f(7) \in Nat /\ f(8) \in Nat /\ f(9) \in Nat /\ f(10) \in Nat
      BY PowersToTen
    <2> HIDE DEF f
    <2>3. f(i) \in Nat
      BY <2>1, <2>2
    <2> QED
      BY <2>3 DEF f
  <1>2. sizes \subseteq Nat
    BY <1>1
  <1>3. 64 * 2 ^ 10 \in enough
    <2>1. 2 ^ 10 = 1024 /\ 10 \in 0 .. 10
      BY PowersToTen
    <2> QED
      BY <2>1
  <1>4. PICK n \in enough : \A m \in enough : n <= m
    BY <1>2, <1>3, LeastNat
  <1>5. \E x \in sizes : x >= 64 * words /\ \A m \in sizes : m >= 64 * words => x <= m
    BY <1>4
  <1>6. Slot(words) \in sizes /\ Slot(words) >= 64 * words
    <2> DEFINE P(x) == x >= 64 * words /\ \A m \in sizes : m >= 64 * words => x <= m
    <2>1. \E x \in sizes : P(x)
      BY <1>5
    <2>2. Slot(words) = CHOOSE x \in sizes : P(x)
      BY Zenon DEF Slot
    <2> HIDE DEF P, sizes
    <2>3. Slot(words) \in sizes /\ P(Slot(words))
      BY <2>1, <2>2
    <2> QED
      BY <2>3 DEF P
  <1>7. 2048 * ((64 * words + 2047) \div 2048) \in Nat
    OBVIOUS
  <1> QED
    BY <1>2, <1>6, <1>7 DEF tile_geometry

-----------------------------------------------------------------------------
(* The kernels' layouts, family by family.                                  *)

Fields == {"type", "raw", "align", "words", "nst", "stages", "slot", "size", "acts", "bm", "depth", "tab",
           "tabWords", "ahead"}

\* What a kernel's geometry keeps of it.
LEMMA FieldsKept ==
    ASSUME NEW k, DOMAIN k = Fields \cup {"cell"}
    PROVE  LET g == Geometry(k)
           IN  /\ g.raw = k.raw /\ g.words = k.words /\ g.nst = k.nst /\ g.stages = k.stages /\ g.slot = k.slot
               /\ g.size = k.size /\ g.acts = k.acts /\ g.bm = k.bm /\ g.depth = k.depth /\ g.tab = k.tab
               /\ g.tabWords = k.tabWords /\ g.type = k.type
  BY DEF Geometry, Fields

\* The layout of a kernel for blocks of type t, on raw rows or on tiles.
LaidRaw(g, t) == Layout(g) /\ g.type = t /\ g.raw = TRUE
LaidTile(g, t) == Layout(g) /\ g.type = t /\ g.raw = FALSE

\* Two stages and nothing else.
LEMMA PlainLayout ==
    ASSUME NEW g, g.nst = 1, g.stages = 0, g.slot \in Nat, g.acts = None, g.bm = 16,
           g.depth = 2, g.tab = None, g.size = 2 * g.slot,
           StageWords(g) \in Nat, StageWords(g) % 2 = 0, StageWords(g) <= g.slot
    PROVE  Layout(g)
  <1>1. StageAt(g, g.depth - 1) = g.slot
    BY DEF StageAt
  <1>2. g.depth \in {2, 3} /\ g.nst \in {1, 2} /\ g.depth # 3 /\ g.size \in Nat /\ g.stages \in Nat /\ g.bm \in Nat
    OBVIOUS
  <1>3. StageAt(g, g.depth - 1) + StageWords(g) <= g.size
    BY <1>1
  <1> QED
    BY <1>2, <1>3 DEF Layout

\* Two stages, then the staged activations, then the grid table of IQ3_S.
LEMMA StagedLayout ==
    ASSUME NEW g, g.nst = 1, g.stages = 0, g.slot = 2048, g.acts = 4096, g.bm = 16,
           g.depth = 2, g.tab = 6144, g.tabWords = 512, g.size = 6656,
           StageWords(g) \in Nat, StageWords(g) % 2 = 0, StageWords(g) <= 2048
    PROVE  Layout(g)
  <1>1. StageAt(g, 0) = 0 /\ StageAt(g, 1) = 2048 /\ StageAt(g, g.depth - 1) = 2048
    BY DEF StageAt
  <1>2. g.depth \in {2, 3} /\ g.nst \in {1, 2} /\ g.depth # 3 /\ g.size \in Nat /\ g.stages \in Nat /\ g.bm \in Nat
    OBVIOUS
  <1>3. \A s \in 0 .. g.depth - 1 : StageAt(g, s) + StageWords(g) <= 4096
    <2>1. \A s \in 0 .. g.depth - 1 : s = 0 \/ s = 1
      OBVIOUS
    <2> QED
      BY <1>1, <2>1
  <1>4. 512 % 2 = 0 /\ g.acts + 128 * g.bm = 6144
    OBVIOUS
  <1>5. \A s \in 0 .. g.depth - 1 : g.tab >= StageAt(g, s) + StageWords(g)
    <2>1. \A s \in 0 .. g.depth - 1 : StageAt(g, s) \in Nat
      <3>1. \A s \in 0 .. g.depth - 1 : s = 0 \/ s = 1
        OBVIOUS
      <3> QED
        BY <1>1, <3>1
    <2> QED
      BY <1>3, <2>1
  <1> QED
    BY <1>1, <1>2, <1>3, <1>4, <1>5 DEF Layout, None

\* The kernels over raw rows are laid out.
LEMMA RawLayout ==
    ASSUME NEW t, NEW align, NEW words, NEW cell
    PROVE  LET k == RawKernel(t, align, words, cell)
           IN  DOMAIN k = Fields \cup {"cell"} /\ LaidRaw(Geometry(k), t)
  <1> DEFINE k == RawKernel(t, align, words, cell)
             g == Geometry(k)
  <1>1. DOMAIN k = Fields \cup {"cell"}
    BY DEF RawKernel, Fields
  <1>2. /\ k.type = t /\ k.raw = TRUE /\ k.nst = 1 /\ k.stages = 0 /\ k.slot = 2048 /\ k.size = 2 * 2048 /\ k.acts = None
        /\ k.bm = 16 /\ k.depth = 2 /\ k.tab = None
    BY DEF RawKernel
  <1> HIDE DEF k
  <1>3. /\ g.type = k.type /\ g.raw = k.raw /\ g.nst = k.nst /\ g.stages = k.stages /\ g.slot = k.slot /\ g.size = k.size
        /\ g.acts = k.acts /\ g.bm = k.bm /\ g.depth = k.depth /\ g.tab = k.tab
    BY <1>1, FieldsKept
  <1> HIDE DEF g
  <1>4. StageWords(g) = 2048 /\ 2048 % 2 = 0
    BY <1>2, <1>3 DEF StageWords
  <1>5. Layout(g)
    BY <1>2, <1>3, <1>4, PlainLayout
  <1> QED
    BY <1>1, <1>2, <1>3, <1>5 DEF k, g, LaidRaw, LaidTile

\* So are those whose stages keep the quant words and the header words apart.
LEMMA TwoArraysLayout ==
    ASSUME NEW t, NEW align, NEW words, NEW cell, NEW head \in Nat
    PROVE  LaidRaw(Geometry(TwoArrays(RawKernel(t, align, words, cell), head)), t)
  <1> DEFINE r == RawKernel(t, align, words, cell)
             k == TwoArrays(r, head)
             g == Geometry(k)
             n == 2048 + 64 * head
  <1>1. DOMAIN r = Fields \cup {"cell"}
    BY RawLayout
  <1>2. /\ r.type = t /\ r.raw = TRUE /\ r.nst = 1 /\ r.stages = 0 /\ r.acts = None
        /\ r.bm = 16 /\ r.depth = 2 /\ r.tab = None
    BY DEF RawKernel
  <1> HIDE DEF r
  <1>3. DOMAIN k = Fields \cup {"cell"}
    BY <1>1 DEF TwoArrays
  <1>4. /\ k.type = t /\ k.raw = TRUE /\ k.nst = 1 /\ k.stages = 0 /\ k.slot = n /\ k.size = 2 * n /\ k.acts = None
        /\ k.bm = 16 /\ k.depth = 2 /\ k.tab = None
    BY <1>1, <1>2 DEF TwoArrays, Fields
  <1> HIDE DEF k
  <1>5. /\ g.type = k.type /\ g.raw = k.raw /\ g.nst = k.nst /\ g.stages = k.stages /\ g.slot = k.slot /\ g.size = k.size
        /\ g.acts = k.acts /\ g.bm = k.bm /\ g.depth = k.depth /\ g.tab = k.tab
    BY <1>3, FieldsKept
  <1> HIDE DEF g
  <1>6. StageWords(g) = n /\ n % 2 = 0 /\ n \in Nat
    BY <1>4, <1>5 DEF StageWords
  <1>7. Layout(g)
    <2> HIDE DEF n
    <2> QED
      BY <1>4, <1>5, <1>6, PlainLayout
  <1> QED
    BY <1>4, <1>5, <1>7 DEF k, g, r, LaidRaw, LaidTile

\* The kernels over tiles are laid out.
LEMMA TileLayout ==
    ASSUME NEW t, NEW slot \in Nat, NEW cell, Words(t) \in Nat, 64 * Words(t) <= slot
    PROVE  LET k == TileKernel(t, slot, cell)
           IN  DOMAIN k = Fields \cup {"cell"} /\ LaidTile(Geometry(k), t)
  <1> DEFINE k == TileKernel(t, slot, cell)
             g == Geometry(k)
  <1>1. DOMAIN k = Fields \cup {"cell"}
    BY DEF TileKernel, Fields
  <1>2. /\ k.type = t /\ k.raw = FALSE /\ k.nst = 1 /\ k.stages = 0 /\ k.slot = slot /\ k.size = 2 * slot /\ k.acts = None
        /\ k.bm = 16 /\ k.depth = 2 /\ k.tab = None /\ k.words = Words(t)
    BY DEF TileKernel
  <1> HIDE DEF k
  <1>3. /\ g.type = k.type /\ g.raw = k.raw /\ g.nst = k.nst /\ g.stages = k.stages /\ g.slot = k.slot /\ g.size = k.size
        /\ g.acts = k.acts /\ g.bm = k.bm /\ g.depth = k.depth /\ g.tab = k.tab /\ g.words = k.words
    BY <1>1, FieldsKept
  <1> HIDE DEF g
  <1>4. StageWords(g) = 64 * Words(t) /\ (64 * Words(t)) % 2 = 0 /\ StageWords(g) \in Nat
    BY <1>2, <1>3 DEF StageWords
  <1>5. Layout(g)
    BY <1>2, <1>3, <1>4, PlainLayout
  <1> QED
    BY <1>1, <1>2, <1>3, <1>5 DEF k, g, LaidRaw, LaidTile

\* The int8 kernels that stage the activations and IQ3_S's grid table.
LEMMA StagedKernels == LaidRaw(Geometry(iq3s_int8c), "IQ3_S") /\ LaidTile(Geometry(iq3s_int8t), "IQ3_S")
  <1>1. LaidRaw(Geometry(iq3s_int8c), "IQ3_S")
    <2> DEFINE k == iq3s_int8c
               g == Geometry(k)
    <2>1. /\ DOMAIN iq3s = Fields \cup {"cell"} /\ iq3s.type = "IQ3_S" /\ iq3s.raw = TRUE /\ iq3s.nst = 1 /\ iq3s.stages = 0
          /\ iq3s.slot = 2048 /\ iq3s.bm = 16 /\ iq3s.depth = 2
      BY DEF iq3s, RawKernel, Fields
    <2>2. /\ DOMAIN iq3s_int8b = Fields \cup {"cell"} /\ iq3s_int8b.type = "IQ3_S" /\ iq3s_int8b.raw = TRUE /\ iq3s_int8b.nst = 1 /\ iq3s_int8b.stages = 0
          /\ iq3s_int8b.slot = 2048 /\ iq3s_int8b.bm = 16 /\ iq3s_int8b.depth = 2
      BY <2>1 DEF iq3s_int8b, Fields
    <2>3. /\ DOMAIN k = Fields \cup {"cell"} /\ k.type = "IQ3_S" /\ k.raw = TRUE /\ k.nst = 1 /\ k.stages = 0
          /\ k.slot = 2048 /\ k.bm = 16 /\ k.depth = 2
          /\ k.acts = 4096 /\ k.tab = 6144 /\ k.tabWords = 512 /\ k.size = 6656
      BY <2>2 DEF iq3s_int8c, Fields
    <2> HIDE DEF k
    <2>4. /\ g.type = k.type /\ g.raw = k.raw /\ g.nst = k.nst /\ g.stages = k.stages /\ g.slot = k.slot /\ g.size = k.size
          /\ g.acts = k.acts /\ g.bm = k.bm /\ g.depth = k.depth /\ g.tab = k.tab /\ g.tabWords = k.tabWords
      BY <2>3, FieldsKept
    <2> HIDE DEF g
    <2>5. StageWords(g) = 2048 /\ 2048 % 2 = 0
      BY <2>3, <2>4 DEF StageWords
    <2>6. Layout(g)
      BY <2>3, <2>4, <2>5, StagedLayout
    <2> QED
      BY <2>3, <2>4, <2>6 DEF k, g, LaidRaw, LaidTile
  <1>2. LaidTile(Geometry(iq3s_int8t), "IQ3_S")
    <2> DEFINE k == iq3s_int8t
               g == Geometry(k)
    <2> DEFINE cell == [s \in {0}, c \in Cells |->
                   LET row == RowOf("IQ3_S")
                       h == IF c[2] < 4 THEN HalfIq3s(row, 2 * c[1], c[1], c[2], 8 - c[2], 4 * c[2])
                            ELSE HalfIq3s(row, 2 * c[1] + 1, c[1], c[2] - 4, 4 - (c[2] - 4), 16 + 4 * (c[2] - 4))
                   IN  GridCell(h.idx, 0, h.sign, Bits(row, 26, 4 * c[1], 4), Bits(row, 27, 0, 16))]
    <2>1. k = [TileKernel("IQ3_S", 64 * 32, cell) EXCEPT !.acts = 4096, !.tab = 6144, !.tabWords = 512, !.size = 6656]
      BY DEF iq3s_int8t
    <2> HIDE DEF cell
    <2> DEFINE r == TileKernel("IQ3_S", 64 * 32, cell)
    <2> HIDE DEF k
    <2>2. /\ DOMAIN r = Fields \cup {"cell"} /\ r.type = "IQ3_S" /\ r.raw = FALSE /\ r.nst = 1 /\ r.stages = 0
          /\ r.slot = 2048 /\ r.bm = 16 /\ r.depth = 2 /\ r.words = Words("IQ3_S")
      BY DEF TileKernel, Fields
    <2>3. Words("IQ3_S") = 28
      BY DEF Words, RowBytes
    <2>4. /\ DOMAIN k = Fields \cup {"cell"} /\ k.type = "IQ3_S" /\ k.raw = FALSE /\ k.nst = 1 /\ k.stages = 0
          /\ k.slot = 2048 /\ k.bm = 16 /\ k.depth = 2 /\ k.words = 28
          /\ k.acts = 4096 /\ k.tab = 6144 /\ k.tabWords = 512 /\ k.size = 6656
      <3> HIDE DEF r
      <3>1. k = [r EXCEPT !.acts = 4096, !.tab = 6144, !.tabWords = 512, !.size = 6656]
        BY <2>1 DEF r
      <3> QED
        BY <2>2, <2>3, <3>1 DEF Fields
    <2>5. /\ g.type = k.type /\ g.raw = k.raw /\ g.nst = k.nst /\ g.stages = k.stages /\ g.slot = k.slot /\ g.size = k.size
          /\ g.acts = k.acts /\ g.bm = k.bm /\ g.depth = k.depth /\ g.tab = k.tab /\ g.tabWords = k.tabWords
          /\ g.words = k.words
      BY <2>4, FieldsKept
    <2> HIDE DEF g
    <2>6. StageWords(g) = 1792 /\ 1792 % 2 = 0
      BY <2>4, <2>5 DEF StageWords
    <2>7. Layout(g)
      BY <2>4, <2>5, <2>6, StagedLayout
    <2> QED
      BY <2>4, <2>5, <2>7 DEF k, g, LaidRaw, LaidTile
  <1> QED
    BY <1>1, <1>2

\* The kernels on raw rows.
LEMMA RawKernels ==
    ASSUME NEW t \in DOMAIN _KERNELS
    PROVE  /\ LaidRaw(Geometry(_KERNELS[t]), t)
           /\ t \in DOMAIN _INT8_KERNELS => LaidRaw(Geometry(_INT8_KERNELS[t]), t)
  <1>1. /\ LaidRaw(Geometry(iq3s), "IQ3_S") /\ LaidRaw(Geometry(iq3xxs), "IQ3_XXS")
        /\ LaidRaw(Geometry(q2k), "Q2_K") /\ \A u : LaidRaw(Geometry(iq2(u)), u)
    <2>1. LaidRaw(Geometry(iq3s), "IQ3_S")
      BY RawLayout DEF iq3s
    <2>2. LaidRaw(Geometry(iq3xxs), "IQ3_XXS")
      BY RawLayout DEF iq3xxs
    <2>3. LaidRaw(Geometry(q2k), "Q2_K")
      BY RawLayout DEF q2k
    <2>4. ASSUME NEW u
          PROVE  LaidRaw(Geometry(iq2(u)), u)
      BY RawLayout DEF iq2
    <2> QED
      BY <2>1, <2>2, <2>3, <2>4
  <1>2. LaidRaw(Geometry(iq4xs), "IQ4_XS") /\ LaidRaw(Geometry(q4k), "Q4_K")
    <2>1. LaidRaw(Geometry(iq4xs), "IQ4_XS")
      BY TwoArraysLayout DEF iq4xs
    <2>2. LaidRaw(Geometry(q4k), "Q4_K")
      BY TwoArraysLayout DEF q4k
    <2> QED
      BY <2>1, <2>2
  <1>3. /\ t = "IQ3_S" => _KERNELS[t] = iq3s
        /\ t = "IQ4_XS" => _KERNELS[t] = iq4xs
        /\ t = "IQ3_XXS" => _KERNELS[t] = iq3xxs
        /\ t = "Q4_K" => _KERNELS[t] = q4k
        /\ t = "Q2_K" => _KERNELS[t] = q2k
        /\ t \notin {"IQ3_S", "IQ4_XS", "IQ3_XXS", "Q4_K", "Q2_K"} => _KERNELS[t] = iq2(t)
    BY DEF _KERNELS
  <1>4. ASSUME t \in DOMAIN _INT8_KERNELS
        PROVE  \/ t = "IQ3_S" /\ _INT8_KERNELS[t] = iq3s_int8c
               \/ _INT8_KERNELS[t] = _KERNELS[t]
    <2>1. t \in DOMAIN _KERNELS \ {"Q2_K"}
      BY <1>4 DEF _INT8_KERNELS
    <2> QED
      BY <1>3, <2>1 DEF _INT8_KERNELS, iq4xs_int8, iq3xxs_int8, q4k_int8, iq2_int8
  <1>5. LaidRaw(Geometry(_KERNELS[t]), t)
    BY <1>1, <1>2, <1>3
  <1> QED
    BY <1>4, <1>5, StagedKernels

\* Words of a padded row and of a stage's row, type by type.
LEMMA RowsOfTypes ==
    ASSUME NEW t \in DOMAIN RowBytes
    PROVE  /\ Words(t) \in 0 .. 1024
           /\ Halves[t] \in {1, 2} /\ (t \notin DOMAIN tile_map => Halves[t] = 1)
           /\ StageRow(t) \in 0 .. 44 /\ (StageRow(t) > 36 => t = "Q5_K")
           /\ (t = "IQ3_S" => StageRow(t) = 28 /\ Words(t) = 28) /\ (t = "IQ3_XXS" => StageRow(t) = 25)
  <1>1. t \in {"IQ3_S", "IQ4_XS", "Q4_K", "IQ3_XXS", "IQ2_XXS", "IQ2_XS", "IQ2_S", "Q8_0", "Q3_K", "Q5_K", "Q6_K"}
    BY DEF RowBytes
  <1>2. Halves[t] = (IF t \in {"Q8_0", "Q6_K"} THEN 2 ELSE 1)
    BY DEF Halves
  <1>3. t \notin DOMAIN tile_map => t \notin {"Q8_0", "Q6_K"}
    BY DEF tile_map
  <1>4. CASE t \in {"Q8_0", "Q6_K"}
    <2>1. RowBytes[t] = 272 \/ RowBytes[t] = 216
      BY <1>4 DEF RowBytes
    <2>2. Halves[t] = 2
      BY <1>2, <1>4
    <2> QED
      BY <1>3, <1>4, <2>1, <2>2 DEF Words, StageRow
  <1>5. CASE t \notin {"Q8_0", "Q6_K"}
    <2>1. Halves[t] = 1
      BY <1>2, <1>5
    <2>2. /\ RowBytes[t] \in {112, 136, 144, 100, 68, 76, 84, 176} /\ (RowBytes[t] = 176 => t = "Q5_K")
          /\ (t = "IQ3_S" => RowBytes[t] = 112) /\ (t = "IQ3_XXS" => RowBytes[t] = 100)
      BY <1>1, <1>5 DEF RowBytes
    <2> QED
      BY <2>1, <2>2 DEF Words, StageRow
  <1> QED
    BY <1>4, <1>5

\* The largest stage row of a layer's types is one of them.
LEMMA LargestRowBounds ==
    ASSUME NEW types \in SUBSET DOMAIN RowBytes, NEW t \in types
    PROVE  /\ LargestRow(types) \in 0 .. 44 /\ StageRow(t) <= LargestRow(types)
           /\ LargestRow(types) > 36 => "Q5_K" \in types
  <1> DEFINE S == {StageRow(u) : u \in types}
             T == {44 - x : x \in S}
  <1>1. \A u \in types : StageRow(u) \in 0 .. 44 /\ (StageRow(u) > 36 => u = "Q5_K")
    BY RowsOfTypes
  <1>2. S \subseteq 0 .. 44 /\ StageRow(t) \in S /\ \A x \in S : x > 36 => "Q5_K" \in types
    BY <1>1
  <1> HIDE DEF S
  <1>3. T \subseteq Nat /\ T # {}
    <2>1. \A x \in S : 44 - x \in Nat
      BY <1>2
    <2>2. S # {}
      BY <1>2
    <2> QED
      BY <2>1, <2>2
  <1>4. PICK y \in T : \A z \in T : y <= z
    <2> HIDE DEF T
    <2> QED
      BY <1>3, LeastNat
  <1>5. \E x \in S : \A z \in S : x >= z
    <2>1. PICK x \in S : y = 44 - x
      BY <1>4
    <2>2. \A z \in S : 44 - z \in T
      OBVIOUS
    <2>3. \A z \in S : y <= 44 - z
      BY <1>4, <2>2
    <2> HIDE DEF T
    <2> QED
      BY <1>2, <2>1, <2>3
  <1>6. Max(S) \in S /\ \A z \in S : Max(S) >= z
    BY <1>5, Zenon DEF Max
  <1>7. LargestRow(types) = Max(S)
    BY DEF LargestRow, S
  <1> QED
    BY <1>2, <1>6, <1>7

\* The tile kernels of the registry.
LEMMA TileKernels ==
    ASSUME NEW t \in DOMAIN RowBytes, t \notin DOMAIN tile_map, NEW m
    PROVE  LaidTile(Geometry(_GEMM(t, m)), t)
  <1>1. ASSUME NEW u \in DOMAIN RowBytes, NEW cell
        PROVE  /\ LaidTile(Geometry(TileKernel(u, tile_geometry(Words(u)), cell)), u)
               /\ LaidTile(Geometry(TileKernel(u, Slot(Words(u)), cell)), u)
    <2>1. Words(u) \in 0 .. 1024
      BY RowsOfTypes
    <2>2. Words(u) \in Nat
      BY <2>1
    <2>3. /\ tile_geometry(Words(u)) \in Nat /\ 64 * Words(u) <= tile_geometry(Words(u))
          /\ Slot(Words(u)) \in Nat /\ 64 * Words(u) <= Slot(Words(u))
      BY <2>1, SlotHolds
    <2> QED
      BY <2>2, <2>3, TileLayout
  <1>2. t \in {"IQ3_S", "IQ4_XS", "Q4_K", "IQ3_XXS", "IQ2_XXS", "IQ2_XS", "IQ2_S"}
    BY DEF RowBytes, tile_map
  <1>3. CASE t = "IQ3_S"
    BY <1>3, StagedKernels DEF _GEMM, iq3s_int8te
  <1>4. CASE t = "IQ4_XS"
    <2>1. Words(t) = 34 /\ _GEMM(t, m) = iq4xs_int8t
      BY <1>4 DEF Words, RowBytes, _GEMM
    <2> QED
      BY <1>1, <1>4, <2>1 DEF iq4xs_int8t
  <1>5. CASE t = "Q4_K"
    <2>1. Words(t) = 36 /\ _GEMM(t, m) = q4k_int8t
      BY <1>5 DEF Words, RowBytes, _GEMM
    <2> QED
      BY <1>1, <1>5, <2>1 DEF q4k_int8t
  <1>6. CASE t = "IQ3_XXS"
    <2>1. Words(t) = 25 /\ _GEMM(t, m) = iq3xxs_int8t
      BY <1>6 DEF Words, RowBytes, _GEMM
    <2> QED
      BY <1>1, <1>6, <2>1 DEF iq3xxs_int8t
  <1>7. CASE t \in {"IQ2_XXS", "IQ2_XS", "IQ2_S"}
    <2>1. _GEMM(t, m) = iq2_int8t(t)
      BY <1>7 DEF _GEMM
    <2> QED
      BY <1>1, <2>1 DEF iq2_int8t
  <1> QED
    BY <1>2, <1>3, <1>4, <1>5, <1>6, <1>7

-----------------------------------------------------------------------------
(* The grouped kernel's regions.                                            *)

\* The regions whose grid tables lie in the gap a stage's row leaves in its slot.
GapShape(g) ==
    /\ g.raw = FALSE /\ g.nst \in {1, 2} /\ g.depth \in {2, 3} /\ (g.depth = 3 => g.nst = 1 /\ g.acts = None)
    /\ g.stages \in Nat /\ g.slot \in Nat /\ g.size \in Nat /\ g.bm \in Nat /\ g.words \in Nat
    /\ 64 * g.words <= g.slot
    /\ g.stages + 3 * g.slot <= g.size \/ (g.depth = 2 /\ g.stages + 2 * g.slot <= g.size)
    /\ g.acts # None => /\ g.acts \in Nat /\ g.acts + 128 * g.bm <= g.size
                        /\ g.acts >= g.stages + 2 * g.slot \/ g.acts + 128 * g.bm <= g.stages
    /\ g.tab # None => /\ g.tab \in Nat /\ g.tabWords \in {256, 512} /\ g.tab >= g.stages + 64 * g.words
                       /\ g.tab + g.tabWords <= g.stages + g.slot

\* Such a kernel is laid out.
LEMMA GapLayout ==
    ASSUME NEW g, GapShape(g)
    PROVE  Layout(g)
  <1> DEFINE n == 64 * g.words
  <1>1. StageWords(g) = n /\ n % 2 = 0 /\ n \in Nat /\ n <= g.slot
    BY DEF StageWords, GapShape
  <1>2. StageAt(g, 0) = g.stages /\ StageAt(g, 1) = g.stages + g.slot /\ StageAt(g, 2) = g.stages + 2 * g.slot
    BY DEF StageAt, GapShape
  <1>3. \A s \in 0 .. g.depth - 1 : s = 0 \/ s = 1 \/ (s = 2 /\ g.depth = 3)
    BY DEF GapShape
  <1>4. g.depth - 1 = 1 \/ (g.depth - 1 = 2 /\ g.depth = 3)
    BY DEF GapShape
  <1>5. StageAt(g, g.depth - 1) + n <= g.size
    BY <1>1, <1>2, <1>4 DEF GapShape
  <1>6. ASSUME g.acts # None
        PROVE  /\ g.acts \in Nat /\ g.acts + 128 * g.bm <= g.size
               /\ g.acts >= StageAt(g, g.depth - 1) + n \/ g.acts + 128 * g.bm <= g.stages
    BY <1>1, <1>2, <1>4, <1>6 DEF GapShape
  <1>7. ASSUME g.tab # None
        PROVE  /\ g.tab \in Nat /\ g.tabWords \in Nat /\ g.tabWords % 2 = 0 /\ g.tab + g.tabWords <= g.size
               /\ \A s \in 0 .. g.depth - 1 : g.tab >= StageAt(g, s) + n \/ g.tab + g.tabWords <= StageAt(g, s)
               /\ g.acts # None => g.acts >= g.tab + g.tabWords \/ g.tab >= g.acts + 128 * g.bm
    <2>1. g.tab \in Nat /\ g.tabWords \in Nat /\ g.tabWords % 2 = 0 /\ g.tab >= g.stages + n /\ g.tab + g.tabWords <= g.stages + g.slot
      BY <1>7 DEF GapShape
    <2>2. g.tab + g.tabWords <= g.size
      BY <2>1 DEF GapShape
    <2>3. \A s \in 0 .. g.depth - 1 : g.tab >= StageAt(g, s) + n \/ g.tab + g.tabWords <= StageAt(g, s)
      <3>1. g.tab >= StageAt(g, 0) + n
        BY <1>2, <2>1
      <3>2. g.tab + g.tabWords <= StageAt(g, 1) /\ g.tab + g.tabWords <= StageAt(g, 2)
        BY <1>2, <2>1 DEF GapShape
      <3> QED
        BY <1>3, <3>1, <3>2
    <2>4. g.acts # None => g.acts >= g.tab + g.tabWords \/ g.tab >= g.acts + 128 * g.bm
      BY <1>1, <2>1 DEF GapShape
    <2> QED
      BY <2>1, <2>2, <2>3, <2>4
  <1> HIDE DEF n
  <1> QED
    BY <1>1, <1>5, <1>6, <1>7 DEF Layout, GapShape

\* The compact regions: stages of 1792 words, the tables behind them.
CompactShape(g) ==
    /\ g.raw = FALSE /\ g.nst \in {1, 2} /\ g.depth = 2 /\ g.stages = 0 /\ g.slot = 1792 /\ g.size \in Nat
    /\ g.size >= 4096 /\ g.bm \in Nat /\ g.words \in Nat /\ g.words <= 28
    /\ g.acts # None => g.acts = 4096 /\ 4096 + 128 * g.bm <= g.size
    /\ g.tab # None => g.tab = 3584 /\ g.tabWords \in {256, 512}

\* Such a kernel is laid out too.
LEMMA CompactLayout ==
    ASSUME NEW g, CompactShape(g)
    PROVE  Layout(g)
  <1> DEFINE n == 64 * g.words
  <1>1. StageWords(g) = n /\ n % 2 = 0 /\ n \in Nat /\ n <= 1792
    BY DEF StageWords, CompactShape
  <1>2. StageAt(g, 0) = 0 /\ StageAt(g, 1) = 1792 /\ StageAt(g, g.depth - 1) = 1792
    BY DEF StageAt, CompactShape
  <1>3. \A s \in 0 .. g.depth - 1 : s = 0 \/ s = 1
    BY DEF CompactShape
  <1>4. ASSUME g.acts # None
        PROVE  /\ g.acts \in Nat /\ g.acts + 128 * g.bm <= g.size
               /\ g.acts >= StageAt(g, g.depth - 1) + n \/ g.acts + 128 * g.bm <= g.stages
    BY <1>1, <1>2, <1>4 DEF CompactShape
  <1>5. ASSUME g.tab # None
        PROVE  /\ g.tab \in Nat /\ g.tabWords \in Nat /\ g.tabWords % 2 = 0 /\ g.tab + g.tabWords <= g.size
               /\ \A s \in 0 .. g.depth - 1 : g.tab >= StageAt(g, s) + n \/ g.tab + g.tabWords <= StageAt(g, s)
               /\ g.acts # None => g.acts >= g.tab + g.tabWords \/ g.tab >= g.acts + 128 * g.bm
    <2>1. g.tab = 3584 /\ g.tabWords \in {256, 512} /\ g.tabWords % 2 = 0
      BY <1>5 DEF CompactShape
    <2>2. \A s \in 0 .. g.depth - 1 : g.tab >= StageAt(g, s) + n
      BY <1>1, <1>2, <1>3, <2>1
    <2> QED
      BY <1>4, <2>1, <2>2 DEF CompactShape
  <1>6. StageAt(g, g.depth - 1) + n <= g.size /\ g.depth \in {2, 3} /\ g.depth # 3
    BY <1>1, <1>2 DEF CompactShape
  <1> HIDE DEF n
  <1> QED
    BY <1>1, <1>4, <1>5, <1>6 DEF Layout, CompactShape

\* What a layer's call gives its kernels.
GroupedCall(types, rows, bm, depth, compact) ==
    /\ types \subseteq DOMAIN RowBytes /\ rows \in Nat \ {0} /\ bm \in {16, 32, 64, 128} /\ depth \in {2, 3}
    /\ bm = 16 <=> rows <= GLUON_MAX_ROWS
    /\ bm > 32 => rows > GLUON_MAX_ROWS_GROUPED /\ types \cap GLUON_DEQUANT_TYPES = {}
    /\ depth = 3 => rows <= GLUON_MAX_ROWS_GROUPED /\ types \cap DOMAIN tile_map = {}
    /\ compact => depth = 2 /\ LargestRow(types) <= 28

\* What a grouped kernel's geometry is in a region of shared memory.
InRegion(g, t, R, staged, bm, depth) ==
    /\ g.type = t /\ g.raw = FALSE /\ g.words = StageRow(t) /\ g.nst = Halves[t] /\ g.bm = bm /\ g.depth = depth
    /\ g.stages = R.stages /\ g.slot = R.slot /\ g.size = R.alloc
    /\ g.acts = (IF staged THEN R.acts ELSE None)
    /\ t = "IQ3_S" => g.tab = R.stages + R.tab /\ g.tabWords = 512
    /\ t = "IQ3_XXS" => g.tab = R.stages + R.tabx /\ g.tabWords = 256
    /\ t \notin {"IQ3_S", "IQ3_XXS"} => g.tab = None

\* The geometry of a grouped kernel, from the regions of its types.
LEMMA GroupedGeometry ==
    ASSUME NEW types, NEW t, NEW rows, NEW bm, NEW depth, NEW compact
    PROVE  InRegion(Geometry(tiles_grouped_kernel(t, types, rows, bm, depth, compact)), t,
                    REGIONS[Region(types, rows, bm, depth, compact)], Staged(types, rows, bm) /\ depth = 2, bm, depth)
  <1> DEFINE R == REGIONS[Region(types, rows, bm, depth, compact)]
             k == tiles_grouped_kernel(t, types, rows, bm, depth, compact)
             staged == Staged(types, rows, bm) /\ depth = 2
             g == Geometry(k)
  <1> HIDE DEF R
  <1>1. DOMAIN k = Fields \cup {"cell"}
    BY DEF tiles_grouped_kernel, Fields
  <1>2. /\ k.type = t /\ k.raw = FALSE /\ k.words = StageRow(t) /\ k.nst = Halves[t] /\ k.bm = bm /\ k.depth = depth
        /\ k.stages = R.stages /\ k.slot = R.slot /\ k.size = R.alloc
        /\ k.acts = (IF staged THEN R.acts ELSE None)
        /\ k.tab = (CASE t = "IQ3_S" -> R.stages + R.tab [] t = "IQ3_XXS" -> R.stages + R.tabx [] OTHER -> None)
        /\ k.tabWords = (CASE t = "IQ3_S" -> 512 [] t = "IQ3_XXS" -> 256 [] OTHER -> 0)
    BY DEF tiles_grouped_kernel, R
  <1> HIDE DEF k, staged
  <1>3. /\ g.type = k.type /\ g.raw = k.raw /\ g.words = k.words /\ g.nst = k.nst /\ g.stages = k.stages /\ g.slot = k.slot
        /\ g.size = k.size /\ g.acts = k.acts /\ g.bm = k.bm /\ g.depth = k.depth /\ g.tab = k.tab
        /\ g.tabWords = k.tabWords
    BY <1>1, FieldsKept
  <1> HIDE DEF g
  <1>4. InRegion(g, t, R, staged, bm, depth)
    BY <1>2, <1>3 DEF InRegion
  <1> QED
    BY <1>4 DEF g, k, R, staged

\* A region whose tables lie in the slots' gap.
GapFits(t, R, staged, bm, depth) ==
    /\ t \in DOMAIN RowBytes /\ staged \in BOOLEAN /\ bm \in Nat /\ depth \in {2, 3}
    /\ depth = 3 => Halves[t] = 1 /\ ~staged
    /\ R.stages \in Nat /\ R.slot \in {2304, 2816} /\ R.alloc \in Nat /\ R.tab = 1792 /\ R.tabx = 1600
    /\ 64 * StageRow(t) <= R.slot
    /\ R.stages + 3 * R.slot <= R.alloc \/ (depth = 2 /\ R.stages + 2 * R.slot <= R.alloc)
    /\ staged => /\ R.acts \in Nat /\ R.acts + 128 * bm <= R.alloc
                 /\ R.acts >= R.stages + 2 * R.slot \/ R.acts + 128 * bm <= R.stages

\* A grouped kernel in a region it fits is laid out.
LEMMA GapRegion ==
    ASSUME NEW g, NEW t, NEW R, NEW staged, NEW bm, NEW depth,
           InRegion(g, t, R, staged, bm, depth), GapFits(t, R, staged, bm, depth)
    PROVE  Layout(g)
  <1>1. /\ Halves[t] \in {1, 2} /\ StageRow(t) \in Nat
        /\ (t = "IQ3_S" => StageRow(t) = 28) /\ (t = "IQ3_XXS" => StageRow(t) = 25)
    BY RowsOfTypes DEF GapFits
  <1>2. /\ g.raw = FALSE /\ g.nst \in {1, 2} /\ g.depth \in {2, 3} /\ (g.depth = 3 => g.nst = 1 /\ g.acts = None)
        /\ g.stages \in Nat /\ g.slot \in Nat /\ g.size \in Nat /\ g.bm \in Nat /\ g.words \in Nat
        /\ 64 * g.words <= g.slot
        /\ g.stages + 3 * g.slot <= g.size \/ (g.depth = 2 /\ g.stages + 2 * g.slot <= g.size)
    BY <1>1 DEF InRegion, GapFits
  <1>3. g.acts # None => /\ g.acts \in Nat /\ g.acts + 128 * g.bm <= g.size
                         /\ g.acts >= g.stages + 2 * g.slot \/ g.acts + 128 * g.bm <= g.stages
    BY DEF InRegion, GapFits
  <1>4. g.tab # None => /\ g.tab \in Nat /\ g.tabWords \in {256, 512} /\ g.tab >= g.stages + 64 * g.words
                        /\ g.tab + g.tabWords <= g.stages + g.slot
    <2>1. CASE t = "IQ3_S"
      BY <1>1, <2>1 DEF InRegion, GapFits
    <2>2. CASE t = "IQ3_XXS"
      BY <1>1, <2>2 DEF InRegion, GapFits
    <2> QED
      BY <2>1, <2>2 DEF InRegion, GapFits
  <1>5. GapShape(g)
    BY <1>2, <1>3, <1>4 DEF GapShape
  <1> QED
    BY <1>5, GapLayout

\* A region of compact stages.
CompactFits(t, R, staged, bm) ==
    /\ t \in DOMAIN RowBytes /\ staged \in BOOLEAN /\ bm \in Nat /\ StageRow(t) <= 28
    /\ R.stages = 0 /\ R.slot = 1792 /\ R.alloc \in Nat /\ R.alloc >= 4096 /\ R.tab = 3584 /\ R.tabx = 3584
    /\ staged => R.acts = 4096 /\ 4096 + 128 * bm <= R.alloc

\* A grouped kernel in a compact region it fits is laid out.
LEMMA CompactRegion ==
    ASSUME NEW g, NEW t, NEW R, NEW staged, NEW bm,
           InRegion(g, t, R, staged, bm, 2), CompactFits(t, R, staged, bm)
    PROVE  Layout(g)
  <1>1. Halves[t] \in {1, 2} /\ StageRow(t) \in Nat
    BY RowsOfTypes DEF CompactFits
  <1>2. /\ g.raw = FALSE /\ g.nst \in {1, 2} /\ g.depth = 2 /\ g.stages = 0 /\ g.slot = 1792 /\ g.size \in Nat
        /\ g.size >= 4096 /\ g.bm \in Nat /\ g.words \in Nat /\ g.words <= 28
        /\ (g.acts # None => g.acts = 4096 /\ 4096 + 128 * g.bm <= g.size)
    BY <1>1 DEF InRegion, CompactFits
  <1>3. g.tab # None => g.tab = 3584 /\ g.tabWords \in {256, 512}
    BY DEF InRegion, CompactFits
  <1>4. CompactShape(g)
    BY <1>2, <1>3 DEF CompactShape
  <1> QED
    BY <1>4, CompactLayout

\* The regions' words.
LEMMA RegionsAre ==
    /\ LET R == REGIONS["r0"] IN /\ R.alloc = 4096 + 512 /\ R.stages = 0 /\ R.slot = 2304 /\ R.tab = 1792 /\ R.tabx = 1600
                                /\ R.acts = None
    /\ LET R == REGIONS["r1"] IN /\ R.alloc = 8192 /\ R.stages = 0 /\ R.slot = 2304 /\ R.tab = 1792 /\ R.tabx = 1600
                                /\ R.acts = 6144
    /\ LET R == REGIONS["r2"] IN /\ R.alloc = 4096 + 2048 /\ R.stages = 0 /\ R.slot = 1792 /\ R.tab = 3584 /\ R.tabx = 3584
                                /\ R.acts = 4096
    /\ LET R == REGIONS["r3"] IN /\ R.alloc = 8192 + 4096 /\ R.stages = 0 /\ R.slot = 2304 /\ R.tab = 1792 /\ R.tabx = 1600
                                /\ R.acts = 8192
    /\ LET R == REGIONS["r4"] IN /\ R.alloc = 4096 + 4096 /\ R.stages = 0 /\ R.slot = 1792 /\ R.tab = 3584 /\ R.tabx = 3584
                                /\ R.acts = 4096
    /\ LET R == REGIONS["r5"] IN /\ R.alloc = 4096 + 2048 /\ R.stages = 0 /\ R.slot = 2816 /\ R.tab = 1792 /\ R.tabx = 1600
                                /\ R.acts = None
    /\ LET R == REGIONS["r6"] IN /\ R.alloc = 8192 /\ R.stages = 0 /\ R.slot = 2816 /\ R.tab = 1792 /\ R.tabx = 1600
                                /\ R.acts = 6144
    /\ LET R == REGIONS["r7"] IN /\ R.alloc = 8192 + 4096 /\ R.stages = 0 /\ R.slot = 2816 /\ R.tab = 1792 /\ R.tabx = 1600
                                /\ R.acts = 8192
    /\ LET R == REGIONS["r8"] IN /\ R.alloc = 8192 + 8192 /\ R.stages = 0 /\ R.slot = 2304 /\ R.tab = 1792 /\ R.tabx = 1600
                                /\ R.acts = 8192
    /\ LET R == REGIONS["r9"] IN /\ R.alloc = 16384 + 8192 /\ R.stages = 16384 /\ R.slot = 2304 /\ R.tab = 1792 /\ R.tabx = 1600
                                /\ R.acts = 0
  BY DEF REGIONS

\* Every layout of the grouped kernel keeps its stages, tables and activations apart.
LEMMA GroupedKernels ==
    ASSUME NEW types, NEW t \in types, NEW rows, NEW bm, NEW depth, NEW compact,
           GroupedCall(types, rows, bm, depth, compact)
    PROVE  LaidTile(Geometry(tiles_grouped_kernel(t, types, rows, bm, depth, compact)), t)
  <1> DEFINE g == Geometry(tiles_grouped_kernel(t, types, rows, bm, depth, compact))
             staged == Staged(types, rows, bm) /\ depth = 2
             r == Region(types, rows, bm, depth, compact)
             rest == ~(bm = 32 /\ staged) /\ bm \in {16, 32}
             wide == LargestRow(types) > 36
             narrow == LargestRow(types) <= 28
  <1>1. /\ types \subseteq DOMAIN RowBytes /\ t \in DOMAIN RowBytes /\ bm \in {16, 32, 64, 128} /\ bm \in Nat /\ depth \in {2, 3}
        /\ rows \in Nat \ {0}
    BY DEF GroupedCall
  <1>2. InRegion(g, t, REGIONS[r], staged, bm, depth) /\ staged \in BOOLEAN
    BY GroupedGeometry
  <1>3. LargestRow(types) \in 0 .. 44 /\ StageRow(t) <= LargestRow(types) /\ (wide => "Q5_K" \in types)
    BY <1>1, LargestRowBounds
  <1>4. StageRow(t) \in 0 .. 44 /\ (t \notin DOMAIN tile_map => Halves[t] = 1)
    BY <1>1, RowsOfTypes
  <1>5. "Q5_K" \in DOMAIN tile_map /\ "Q5_K" \in GLUON_DEQUANT_TYPES
    BY DEF tile_map, GLUON_DEQUANT_TYPES
  <1>6. depth = 3 => Halves[t] = 1 /\ ~staged /\ ~wide /\ (~compact)
    BY <1>3, <1>4, <1>5 DEF GroupedCall
  <1>7. bm > 32 => ~wide /\ rows > 32
    BY <1>3, <1>5 DEF GroupedCall, GLUON_MAX_ROWS_GROUPED
  <1>8. bm > 32 => depth = 2
    BY <1>1, <1>7 DEF GroupedCall, GLUON_MAX_ROWS_GROUPED
  <1>9. compact => narrow /\ depth = 2
    BY DEF GroupedCall
  <1>10. \/ bm = 128 /\ r = "r9"
         \/ bm = 64 /\ r = "r8"
         \/ bm = 32 /\ staged /\ narrow /\ r = "r4"
         \/ bm = 32 /\ staged /\ ~narrow /\ wide /\ r = "r7"
         \/ bm = 32 /\ staged /\ ~narrow /\ ~wide /\ r = "r3"
         \/ rest /\ compact /\ r = "r2"
         \/ rest /\ ~compact /\ (staged \/ depth = 3) /\ wide /\ r = "r6"
         \/ rest /\ ~compact /\ (staged \/ depth = 3) /\ ~wide /\ r = "r1"
         \/ rest /\ ~compact /\ ~staged /\ depth # 3 /\ wide /\ r = "r5"
         \/ rest /\ ~compact /\ ~staged /\ depth # 3 /\ ~wide /\ r = "r0"
    BY <1>1 DEF Region
  <1>11. bm = 32 => staged \/ depth = 3
    BY <1>1 DEF GroupedCall, Staged, GLUON_MAX_ROWS
  <1>12. wide <=> LargestRow(types) > 36
    OBVIOUS
  <1>13. narrow <=> LargestRow(types) <= 28
    OBVIOUS
  <1>14. ASSUME bm = 32 /\ rest
         PROVE  ~staged
    BY <1>14
  <1>15. rest => bm = 16 \/ bm = 32
    OBVIOUS
  <1> SUFFICES Layout(g)
    BY <1>2 DEF InRegion, LaidRaw, LaidTile
  <1> HIDE DEF g, staged, r, wide, narrow, rest
  <1>16. CASE r = "r0" /\ rest /\ ~compact /\ ~staged /\ depth # 3 /\ ~wide
    <2> DEFINE R == REGIONS["r0"]
    <2>1. R.alloc = 4096 + 512 /\ R.stages = 0 /\ R.slot = 2304 /\ R.tab = 1792 /\ R.tabx = 1600 /\ R.acts = None
      BY RegionsAre
    <2>2. InRegion(g, t, R, staged, bm, depth) /\ staged \in BOOLEAN
      BY <1>2, <1>16
    <2> HIDE DEF R
    <2>3. (depth = 3 => Halves[t] = 1 /\ ~staged) /\ 64 * StageRow(t) <= R.slot
      BY <1>3, <1>4, <1>6, <1>7, <1>12, <1>16, <2>1
    <2>4. R.stages + 3 * R.slot <= R.alloc \/ (depth = 2 /\ R.stages + 2 * R.slot <= R.alloc)
      BY <1>1, <1>6, <1>8, <1>16, <2>1
    <2>5. staged => /\ R.acts \in Nat /\ R.acts + 128 * bm <= R.alloc
                    /\ R.acts >= R.stages + 2 * R.slot \/ R.acts + 128 * bm <= R.stages
      BY <1>14, <1>15, <1>16, <2>1
    <2>6. R.alloc \in Nat /\ R.stages \in Nat /\ R.slot \in {2304, 2816}
      BY <2>1
    <2>7. GapFits(t, R, staged, bm, depth)
      BY <1>1, <2>1, <2>2, <2>3, <2>4, <2>5, <2>6 DEF GapFits
    <2> QED
      BY <2>2, <2>7, GapRegion
  <1>17. CASE r = "r1" /\ rest /\ ~compact /\ (staged \/ depth = 3) /\ ~wide
    <2> DEFINE R == REGIONS["r1"]
    <2>1. R.alloc = 8192 /\ R.stages = 0 /\ R.slot = 2304 /\ R.tab = 1792 /\ R.tabx = 1600 /\ R.acts = 6144
      BY RegionsAre
    <2>2. InRegion(g, t, R, staged, bm, depth) /\ staged \in BOOLEAN
      BY <1>2, <1>17
    <2> HIDE DEF R
    <2>3. (depth = 3 => Halves[t] = 1 /\ ~staged) /\ 64 * StageRow(t) <= R.slot
      BY <1>3, <1>4, <1>6, <1>7, <1>12, <1>17, <2>1
    <2>4. R.stages + 3 * R.slot <= R.alloc \/ (depth = 2 /\ R.stages + 2 * R.slot <= R.alloc)
      BY <1>1, <1>6, <1>8, <1>17, <2>1
    <2>5. staged => /\ R.acts \in Nat /\ R.acts + 128 * bm <= R.alloc
                    /\ R.acts >= R.stages + 2 * R.slot \/ R.acts + 128 * bm <= R.stages
      BY <1>14, <1>15, <1>17, <2>1
    <2>6. R.alloc \in Nat /\ R.stages \in Nat /\ R.slot \in {2304, 2816}
      BY <2>1
    <2>7. GapFits(t, R, staged, bm, depth)
      BY <1>1, <2>1, <2>2, <2>3, <2>4, <2>5, <2>6 DEF GapFits
    <2> QED
      BY <2>2, <2>7, GapRegion
  <1>18. CASE r = "r2" /\ rest /\ compact
    <2> DEFINE R == REGIONS["r2"]
    <2>1. R.alloc = 4096 + 2048 /\ R.stages = 0 /\ R.slot = 1792 /\ R.tab = 3584 /\ R.tabx = 3584 /\ R.acts = 4096
      BY RegionsAre
    <2>2. InRegion(g, t, R, staged, bm, depth) /\ staged \in BOOLEAN
      BY <1>2, <1>18
    <2> HIDE DEF R
    <2>3. depth = 2 /\ StageRow(t) <= 28
      BY <1>1, <1>3, <1>4, <1>6, <1>9, <1>13, <1>18
    <2>4. staged => 4096 + 128 * bm <= R.alloc
      BY <1>14, <1>15, <1>18, <2>1
    <2>5. R.alloc \in Nat /\ R.alloc >= 4096
      BY <2>1
    <2>6. CompactFits(t, R, staged, bm)
      BY <1>1, <2>1, <2>2, <2>3, <2>4, <2>5 DEF CompactFits
    <2> QED
      BY <2>2, <2>3, <2>6, CompactRegion
  <1>19. CASE r = "r3" /\ bm = 32 /\ staged /\ ~narrow /\ ~wide
    <2> DEFINE R == REGIONS["r3"]
    <2>1. R.alloc = 8192 + 4096 /\ R.stages = 0 /\ R.slot = 2304 /\ R.tab = 1792 /\ R.tabx = 1600 /\ R.acts = 8192
      BY RegionsAre
    <2>2. InRegion(g, t, R, staged, bm, depth) /\ staged \in BOOLEAN
      BY <1>2, <1>19
    <2> HIDE DEF R
    <2>3. (depth = 3 => Halves[t] = 1 /\ ~staged) /\ 64 * StageRow(t) <= R.slot
      BY <1>3, <1>4, <1>6, <1>7, <1>12, <1>19, <2>1
    <2>4. R.stages + 3 * R.slot <= R.alloc \/ (depth = 2 /\ R.stages + 2 * R.slot <= R.alloc)
      BY <1>1, <1>6, <1>8, <1>19, <2>1
    <2>5. staged => /\ R.acts \in Nat /\ R.acts + 128 * bm <= R.alloc
                    /\ R.acts >= R.stages + 2 * R.slot \/ R.acts + 128 * bm <= R.stages
      BY <1>14, <1>15, <1>19, <2>1
    <2>6. R.alloc \in Nat /\ R.stages \in Nat /\ R.slot \in {2304, 2816}
      BY <2>1
    <2>7. GapFits(t, R, staged, bm, depth)
      BY <1>1, <2>1, <2>2, <2>3, <2>4, <2>5, <2>6 DEF GapFits
    <2> QED
      BY <2>2, <2>7, GapRegion
  <1>20. CASE r = "r4" /\ bm = 32 /\ staged /\ narrow
    <2> DEFINE R == REGIONS["r4"]
    <2>1. R.alloc = 4096 + 4096 /\ R.stages = 0 /\ R.slot = 1792 /\ R.tab = 3584 /\ R.tabx = 3584 /\ R.acts = 4096
      BY RegionsAre
    <2>2. InRegion(g, t, R, staged, bm, depth) /\ staged \in BOOLEAN
      BY <1>2, <1>20
    <2> HIDE DEF R
    <2>3. depth = 2 /\ StageRow(t) <= 28
      BY <1>1, <1>3, <1>4, <1>6, <1>9, <1>13, <1>20
    <2>4. staged => 4096 + 128 * bm <= R.alloc
      BY <1>14, <1>15, <1>20, <2>1
    <2>5. R.alloc \in Nat /\ R.alloc >= 4096
      BY <2>1
    <2>6. CompactFits(t, R, staged, bm)
      BY <1>1, <2>1, <2>2, <2>3, <2>4, <2>5 DEF CompactFits
    <2> QED
      BY <2>2, <2>3, <2>6, CompactRegion
  <1>21. CASE r = "r5" /\ rest /\ ~compact /\ ~staged /\ depth # 3 /\ wide
    <2> DEFINE R == REGIONS["r5"]
    <2>1. R.alloc = 4096 + 2048 /\ R.stages = 0 /\ R.slot = 2816 /\ R.tab = 1792 /\ R.tabx = 1600 /\ R.acts = None
      BY RegionsAre
    <2>2. InRegion(g, t, R, staged, bm, depth) /\ staged \in BOOLEAN
      BY <1>2, <1>21
    <2> HIDE DEF R
    <2>3. (depth = 3 => Halves[t] = 1 /\ ~staged) /\ 64 * StageRow(t) <= R.slot
      BY <1>3, <1>4, <1>6, <1>7, <1>12, <1>21, <2>1
    <2>4. R.stages + 3 * R.slot <= R.alloc \/ (depth = 2 /\ R.stages + 2 * R.slot <= R.alloc)
      BY <1>1, <1>6, <1>8, <1>21, <2>1
    <2>5. staged => /\ R.acts \in Nat /\ R.acts + 128 * bm <= R.alloc
                    /\ R.acts >= R.stages + 2 * R.slot \/ R.acts + 128 * bm <= R.stages
      BY <1>14, <1>15, <1>21, <2>1
    <2>6. R.alloc \in Nat /\ R.stages \in Nat /\ R.slot \in {2304, 2816}
      BY <2>1
    <2>7. GapFits(t, R, staged, bm, depth)
      BY <1>1, <2>1, <2>2, <2>3, <2>4, <2>5, <2>6 DEF GapFits
    <2> QED
      BY <2>2, <2>7, GapRegion
  <1>22. CASE r = "r6" /\ rest /\ ~compact /\ (staged \/ depth = 3) /\ wide
    <2> DEFINE R == REGIONS["r6"]
    <2>1. R.alloc = 8192 /\ R.stages = 0 /\ R.slot = 2816 /\ R.tab = 1792 /\ R.tabx = 1600 /\ R.acts = 6144
      BY RegionsAre
    <2>2. InRegion(g, t, R, staged, bm, depth) /\ staged \in BOOLEAN
      BY <1>2, <1>22
    <2> HIDE DEF R
    <2>3. (depth = 3 => Halves[t] = 1 /\ ~staged) /\ 64 * StageRow(t) <= R.slot
      BY <1>3, <1>4, <1>6, <1>7, <1>12, <1>22, <2>1
    <2>4. R.stages + 3 * R.slot <= R.alloc \/ (depth = 2 /\ R.stages + 2 * R.slot <= R.alloc)
      BY <1>1, <1>6, <1>8, <1>22, <2>1
    <2>5. staged => /\ R.acts \in Nat /\ R.acts + 128 * bm <= R.alloc
                    /\ R.acts >= R.stages + 2 * R.slot \/ R.acts + 128 * bm <= R.stages
      BY <1>14, <1>15, <1>22, <2>1
    <2>6. R.alloc \in Nat /\ R.stages \in Nat /\ R.slot \in {2304, 2816}
      BY <2>1
    <2>7. GapFits(t, R, staged, bm, depth)
      BY <1>1, <2>1, <2>2, <2>3, <2>4, <2>5, <2>6 DEF GapFits
    <2> QED
      BY <2>2, <2>7, GapRegion
  <1>23. CASE r = "r7" /\ bm = 32 /\ staged /\ ~narrow /\ wide
    <2> DEFINE R == REGIONS["r7"]
    <2>1. R.alloc = 8192 + 4096 /\ R.stages = 0 /\ R.slot = 2816 /\ R.tab = 1792 /\ R.tabx = 1600 /\ R.acts = 8192
      BY RegionsAre
    <2>2. InRegion(g, t, R, staged, bm, depth) /\ staged \in BOOLEAN
      BY <1>2, <1>23
    <2> HIDE DEF R
    <2>3. (depth = 3 => Halves[t] = 1 /\ ~staged) /\ 64 * StageRow(t) <= R.slot
      BY <1>3, <1>4, <1>6, <1>7, <1>12, <1>23, <2>1
    <2>4. R.stages + 3 * R.slot <= R.alloc \/ (depth = 2 /\ R.stages + 2 * R.slot <= R.alloc)
      BY <1>1, <1>6, <1>8, <1>23, <2>1
    <2>5. staged => /\ R.acts \in Nat /\ R.acts + 128 * bm <= R.alloc
                    /\ R.acts >= R.stages + 2 * R.slot \/ R.acts + 128 * bm <= R.stages
      BY <1>14, <1>15, <1>23, <2>1
    <2>6. R.alloc \in Nat /\ R.stages \in Nat /\ R.slot \in {2304, 2816}
      BY <2>1
    <2>7. GapFits(t, R, staged, bm, depth)
      BY <1>1, <2>1, <2>2, <2>3, <2>4, <2>5, <2>6 DEF GapFits
    <2> QED
      BY <2>2, <2>7, GapRegion
  <1>24. CASE r = "r8" /\ bm = 64
    <2> DEFINE R == REGIONS["r8"]
    <2>1. R.alloc = 8192 + 8192 /\ R.stages = 0 /\ R.slot = 2304 /\ R.tab = 1792 /\ R.tabx = 1600 /\ R.acts = 8192
      BY RegionsAre
    <2>2. InRegion(g, t, R, staged, bm, depth) /\ staged \in BOOLEAN
      BY <1>2, <1>24
    <2> HIDE DEF R
    <2>3. (depth = 3 => Halves[t] = 1 /\ ~staged) /\ 64 * StageRow(t) <= R.slot
      BY <1>3, <1>4, <1>6, <1>7, <1>12, <1>24, <2>1
    <2>4. R.stages + 3 * R.slot <= R.alloc \/ (depth = 2 /\ R.stages + 2 * R.slot <= R.alloc)
      BY <1>1, <1>6, <1>8, <1>24, <2>1
    <2>5. staged => /\ R.acts \in Nat /\ R.acts + 128 * bm <= R.alloc
                    /\ R.acts >= R.stages + 2 * R.slot \/ R.acts + 128 * bm <= R.stages
      BY <1>14, <1>15, <1>24, <2>1
    <2>6. R.alloc \in Nat /\ R.stages \in Nat /\ R.slot \in {2304, 2816}
      BY <2>1
    <2>7. GapFits(t, R, staged, bm, depth)
      BY <1>1, <2>1, <2>2, <2>3, <2>4, <2>5, <2>6 DEF GapFits
    <2> QED
      BY <2>2, <2>7, GapRegion
  <1>25. CASE r = "r9" /\ bm = 128
    <2> DEFINE R == REGIONS["r9"]
    <2>1. R.alloc = 16384 + 8192 /\ R.stages = 16384 /\ R.slot = 2304 /\ R.tab = 1792 /\ R.tabx = 1600 /\ R.acts = 0
      BY RegionsAre
    <2>2. InRegion(g, t, R, staged, bm, depth) /\ staged \in BOOLEAN
      BY <1>2, <1>25
    <2> HIDE DEF R
    <2>3. (depth = 3 => Halves[t] = 1 /\ ~staged) /\ 64 * StageRow(t) <= R.slot
      BY <1>3, <1>4, <1>6, <1>7, <1>12, <1>25, <2>1
    <2>4. R.stages + 3 * R.slot <= R.alloc \/ (depth = 2 /\ R.stages + 2 * R.slot <= R.alloc)
      BY <1>1, <1>6, <1>8, <1>25, <2>1
    <2>5. staged => /\ R.acts \in Nat /\ R.acts + 128 * bm <= R.alloc
                    /\ R.acts >= R.stages + 2 * R.slot \/ R.acts + 128 * bm <= R.stages
      BY <1>14, <1>15, <1>25, <2>1
    <2>6. R.alloc \in Nat /\ R.stages \in Nat /\ R.slot \in {2304, 2816}
      BY <2>1
    <2>7. GapFits(t, R, staged, bm, depth)
      BY <1>1, <2>1, <2>2, <2>3, <2>4, <2>5, <2>6 DEF GapFits
    <2> QED
      BY <2>2, <2>7, GapRegion
  <1> QED
    BY <1>10, <1>16, <1>17, <1>18, <1>19, <1>20, <1>21, <1>22, <1>23, <1>24, <1>25


-----------------------------------------------------------------------------
(* Sums and concatenations: the folds of the plan.                          *)

\* The greatest number of an interval, and of a set that holds it.
LEMMA MaxTop ==
    ASSUME NEW m \in Nat, NEW S \in SUBSET (1 .. m), m \in S
    PROVE  Max(S) = m
  <1>1. \A x \in S : (\A y \in S : x >= y) => x = m
    OBVIOUS
  <1>2. \A y \in S : m >= y
    OBVIOUS
  <1> QED
    BY <1>1, <1>2 DEF Max

\* The fold of Total over the subsets of 1 .. m.
SumsTo(a, m, f) ==
    /\ f = [s \in SUBSET (1 .. m) |-> IF s = {} THEN 0 ELSE f[s \ {Max(s)}] + a[Max(s)]]
    /\ f[1 .. m] \in Nat

\* It exists: the sums over the subsets of 1 .. m extend those of 1 .. m - 1.
LEMMA SumsExist ==
    ASSUME NEW n \in Nat, NEW a, \A j \in 1 .. n : a[j] \in Nat
    PROVE  \A m \in 0 .. n : \E f : SumsTo(a, m, f)
  <1> DEFINE Missing == {m \in 0 .. n : ~ \E f : SumsTo(a, m, f)}
  <1>1. SUFFICES ASSUME Missing # {} PROVE FALSE
    OBVIOUS
  <1>2. PICK m \in Missing : \A y \in Missing : m <= y
    <2>1. Missing \subseteq Nat
      OBVIOUS
    <2> HIDE DEF Missing
    <2> QED
      BY <1>1, <2>1, LeastNat
  <1>3. m \in 0 .. n /\ ~ \E f : SumsTo(a, m, f)
    BY <1>2
  <1>4. CASE m = 0
    <2> DEFINE f == [s \in SUBSET (1 .. 0) |-> 0]
    <2>1. SUBSET (1 .. 0) = {{}} /\ 1 .. 0 = {}
      OBVIOUS
    <2>2. f = [s \in SUBSET (1 .. 0) |-> IF s = {} THEN 0 ELSE f[s \ {Max(s)}] + a[Max(s)]]
      BY <2>1
    <2>3. f[1 .. 0] = 0
      OBVIOUS
    <2> HIDE DEF f
    <2>4. SumsTo(a, 0, f)
      BY <2>2, <2>3 DEF SumsTo
    <2> QED
      BY <1>3, <1>4, <2>4
  <1>5. CASE m # 0
    <2>1. m - 1 \in 0 .. n /\ m \in 1 .. n /\ ~(m <= m - 1) /\ m \in Nat /\ a[m] \in Nat
      BY <1>3, <1>5
    <2>2. PICK f : SumsTo(a, m - 1, f)
      <3>1. m - 1 \notin Missing
        BY <1>2, <2>1
      <3> QED
        BY <2>1, <3>1
    <2> DEFINE Low == SUBSET (1 .. m - 1)
               All == SUBSET (1 .. m)
               g == [s \in All |-> IF m \in s THEN f[s \ {m}] + a[m] ELSE f[s]]
               h == [s \in All |-> IF s = {} THEN 0 ELSE g[s \ {Max(s)}] + a[Max(s)]]
    <2>3. \A s \in Low : f[s] = IF s = {} THEN 0 ELSE f[s \ {Max(s)}] + a[Max(s)]
      BY <2>2 DEF SumsTo
    <2>4. ASSUME NEW s \in All PROVE g[s] = h[s]
      <3>1. CASE m \in s
        <4>1. Max(s) = m /\ s # {}
          BY <2>1, <3>1, MaxTop
        <4>2. s \ {m} \in All /\ m \notin s \ {m}
          OBVIOUS
        <4>3. g[s \ {m}] = f[s \ {m}]
          BY <4>2
        <4> QED
          BY <3>1, <4>1, <4>3
      <3>2. CASE m \notin s
        <4>1. s \in Low
          BY <2>1, <3>2
        <4>2. g[s] = f[s]
          BY <3>2
        <4>3. s # {} => s \ {Max(s)} \in All /\ m \notin s \ {Max(s)}
          BY <3>2
        <4>4. s # {} => g[s \ {Max(s)}] = f[s \ {Max(s)}]
          BY <4>3
        <4> QED
          BY <2>3, <4>1, <4>2, <4>4
      <3> QED
        BY <3>1, <3>2
    <2>5. g = [s \in All |-> g[s]] /\ h = [s \in All |-> h[s]]
      OBVIOUS
    <2>6. g[1 .. m] \in Nat
      <3>1. (1 .. m) \ {m} = 1 .. m - 1 /\ m \in 1 .. m
        BY <2>1
      <3>2. g[1 .. m] = f[1 .. m - 1] + a[m]
        BY <3>1
      <3>3. f[1 .. m - 1] \in Nat
        BY <2>2 DEF SumsTo
      <3> HIDE DEF g
      <3> QED
        BY <2>1, <3>2, <3>3
    <2>7. h = [s \in All |-> IF s = {} THEN 0 ELSE g[s \ {Max(s)}] + a[Max(s)]]
      OBVIOUS
    <2> HIDE DEF g, h
    <2>8. g = h
      BY <2>4, <2>5
    <2>9. SumsTo(a, m, g)
      BY <2>6, <2>7, <2>8 DEF SumsTo
    <2> QED
      BY <1>3, <2>9
  <1> QED
    BY <1>4, <1>5

\* Sums over an initial segment do not depend on how far the fold reaches.
LEMMA SumsAgree ==
    ASSUME NEW m \in Nat, NEW a, NEW f, SumsTo(a, m, f),
           NEW n \in Nat, NEW b, NEW g, SumsTo(b, n, g), \A j \in 1 .. m : j <= n => a[j] = b[j]
    PROVE  \A k \in 0 .. m : k <= n => f[1 .. k] = g[1 .. k]
  <1> DEFINE Bad == {k \in 0 .. m : k <= n /\ f[1 .. k] # g[1 .. k]}
  <1>1. SUFFICES ASSUME Bad # {} PROVE FALSE
    OBVIOUS
  <1>2. PICK k \in Bad : \A y \in Bad : k <= y
    <2>1. Bad \subseteq Nat
      OBVIOUS
    <2> HIDE DEF Bad
    <2> QED
      BY <1>1, <2>1, LeastNat
  <1>3. \A s \in SUBSET (1 .. m) : f[s] = IF s = {} THEN 0 ELSE f[s \ {Max(s)}] + a[Max(s)]
    BY DEF SumsTo
  <1>4. \A s \in SUBSET (1 .. n) : g[s] = IF s = {} THEN 0 ELSE g[s \ {Max(s)}] + b[Max(s)]
    BY DEF SumsTo
  <1>5. k \in Nat /\ k <= m /\ k <= n /\ 1 .. k \in SUBSET (1 .. m) /\ 1 .. k \in SUBSET (1 .. n)
    BY <1>2
  <1>6. CASE k = 0
    <2>1. 1 .. k = {}
      BY <1>6
    <2> QED
      BY <1>2, <1>3, <1>4, <1>5, <2>1
  <1>7. CASE k # 0
    <2>1. Max(1 .. k) = k /\ 1 .. k # {} /\ (1 .. k) \ {k} = 1 .. k - 1
      <3>1. k \in 1 .. k /\ (1 .. k) \ {k} = 1 .. k - 1
        BY <1>5, <1>7
      <3> QED
        BY <1>5, <3>1, MaxTop
    <2>2. f[1 .. k] = f[1 .. k - 1] + a[k] /\ g[1 .. k] = g[1 .. k - 1] + b[k]
      BY <1>3, <1>4, <1>5, <2>1
    <2>3. k - 1 \in 0 .. m /\ k - 1 <= n /\ ~(k <= k - 1) /\ k \in 1 .. m
      BY <1>5, <1>7
    <2>4. f[1 .. k - 1] = g[1 .. k - 1]
      BY <1>2, <2>3
    <2> QED
      BY <1>2, <1>5, <2>2, <2>3, <2>4
  <1> QED
    BY <1>6, <1>7

\* Total is the fold's value over the whole sequence.
LEMMA TotalFold ==
    ASSUME NEW i \in Nat, NEW a, DOMAIN a = 1 .. i, \A j \in 1 .. i : a[j] \in Nat
    PROVE  \E f : SumsTo(a, i, f) /\ Total(a) = f[1 .. i]
  <1> DEFINE F(f) == f = [t \in SUBSET (1 .. i) |-> IF t = {} THEN 0 ELSE f[t \ {Max(t)}] + a[Max(t)]]
             f == CHOOSE f : F(f)
  <1>1. Total(a) = f[1 .. i]
    BY DEF Total, FoldLeft, MapThenFoldSet
  <1>2. PICK g : SumsTo(a, i, g)
    BY SumsExist
  <1>3. F(g)
    BY <1>2 DEF SumsTo
  <1>4. F(f)
    BY <1>3
  <1> HIDE DEF f
  <1>5. f[1 .. i] = g[1 .. i]
    <2> DEFINE Bad == {k \in 0 .. i : f[1 .. k] # g[1 .. k]}
    <2>1. SUFFICES ASSUME Bad # {} PROVE FALSE
      OBVIOUS
    <2>2. PICK k \in Bad : \A y \in Bad : k <= y
      <3>1. Bad \subseteq Nat
        OBVIOUS
      <3> HIDE DEF Bad
      <3> QED
        BY <2>1, <3>1, LeastNat
    <2>3. k \in Nat /\ 1 .. k \in SUBSET (1 .. i) /\ (k # 0 => k - 1 \in 0 .. i /\ ~(k <= k - 1))
      BY <2>2
    <2>4. /\ f[1 .. k] = IF 1 .. k = {} THEN 0 ELSE f[(1 .. k) \ {Max(1 .. k)}] + a[Max(1 .. k)]
          /\ g[1 .. k] = IF 1 .. k = {} THEN 0 ELSE g[(1 .. k) \ {Max(1 .. k)}] + a[Max(1 .. k)]
      BY <1>3, <1>4, <2>3
    <2>5. CASE k = 0
      <3>1. 1 .. k = {}
        BY <2>5
      <3> QED
        BY <2>2, <2>4, <3>1
    <2>6. CASE k # 0
      <3>1. k \in 1 .. k /\ (1 .. k) \ {k} = 1 .. k - 1
        BY <2>3, <2>6
      <3>2. Max(1 .. k) = k /\ 1 .. k # {}
        BY <2>3, <3>1, MaxTop
      <3>3. k - 1 \notin Bad /\ k - 1 \in 0 .. i
        BY <2>2, <2>3, <2>6
      <3> QED
        BY <2>2, <2>4, <3>1, <3>2, <3>3
    <2> QED
      BY <2>5, <2>6
  <1>6. SumsTo(a, i, f)
    BY <1>2, <1>4, <1>5 DEF SumsTo
  <1> QED
    BY <1>1, <1>6

\* The sums of the initial segments: from 0, each one term further.
LEMMA TotalLaw ==
    ASSUME NEW n \in Nat, NEW a, \A j \in 1 .. n : a[j] \in Nat
    PROVE  /\ \A i \in 0 .. n : Total([j \in 1 .. i |-> a[j]]) \in Nat
           /\ Total([j \in 1 .. 0 |-> a[j]]) = 0
           /\ \A i \in 1 .. n : Total([j \in 1 .. i |-> a[j]]) = Total([j \in 1 .. i - 1 |-> a[j]]) + a[i]
  <1> DEFINE A(i) == [j \in 1 .. i |-> a[j]]
  <1>1. \A i \in 0 .. n : /\ i \in Nat /\ DOMAIN A(i) = 1 .. i
                          /\ \A j \in 1 .. i : A(i)[j] = a[j] /\ A(i)[j] \in Nat
    OBVIOUS
  <1>2. \A i \in 0 .. n : \E f : SumsTo(A(i), i, f) /\ Total(A(i)) = f[1 .. i]
    <2> HIDE DEF A
    <2> QED
      BY <1>1, TotalFold
  <1>3. \A i \in 0 .. n : Total(A(i)) \in Nat
    BY <1>2 DEF SumsTo
  <1>4. Total(A(0)) = 0
    <2>1. PICK f : SumsTo(A(0), 0, f) /\ Total(A(0)) = f[1 .. 0]
      <3>1. 0 \in 0 .. n
        OBVIOUS
      <3> HIDE DEF A
      <3> QED
        BY <1>2, <3>1
    <2>2. 1 .. 0 = {} /\ {} \in SUBSET (1 .. 0)
      OBVIOUS
    <2>3. f[{}] = 0
      BY <2>1, <2>2 DEF SumsTo
    <2> QED
      BY <2>1, <2>2, <2>3
  <1>5. ASSUME NEW i \in 1 .. n
        PROVE  Total(A(i)) = Total(A(i - 1)) + a[i]
    <2>1. i - 1 \in 0 .. n /\ i \in 0 .. n /\ i \in Nat /\ i - 1 \in Nat /\ i - 1 <= i /\ i - 1 \in 0 .. i - 1
      OBVIOUS
    <2>2. PICK f : SumsTo(A(i), i, f) /\ Total(A(i)) = f[1 .. i]
      BY <1>2, <2>1
    <2>3. PICK g : SumsTo(A(i - 1), i - 1, g) /\ Total(A(i - 1)) = g[1 .. i - 1]
      BY <1>2, <2>1
    <2>4. \A j \in 1 .. i - 1 : A(i - 1)[j] = A(i)[j]
      OBVIOUS
    <2>5. g[1 .. i - 1] = f[1 .. i - 1]
      <3> HIDE DEF A
      <3> QED
        BY <2>1, <2>2, <2>3, <2>4, SumsAgree
    <2>6. Max(1 .. i) = i /\ 1 .. i # {} /\ (1 .. i) \ {i} = 1 .. i - 1
      <3>1. i \in 1 .. i /\ (1 .. i) \ {i} = 1 .. i - 1
        OBVIOUS
      <3> QED
        BY <2>1, <3>1, MaxTop
    <2>7. f[1 .. i] = f[1 .. i - 1] + A(i)[i]
      <3> HIDE DEF A
      <3> QED
        BY <2>2, <2>6 DEF SumsTo
    <2>8. A(i)[i] = a[i]
      OBVIOUS
    <2> QED
      BY <2>2, <2>3, <2>5, <2>7, <2>8
  <1> QED
    BY <1>3, <1>4, <1>5

\* The concatenations of FlattenSeq, of the first i sequences each.
Joining(ss, m, f) == f = [i \in 1 .. m |-> IF i = 1 THEN ss[i] ELSE f[i - 1] \o ss[i]]

\* A sequence of parts joins left to right.
LEMMA JoinsExist ==
    ASSUME NEW n \in Nat, NEW ss
    PROVE  \A m \in 0 .. n : \E f : Joining(ss, m, f)
  <1> DEFINE Missing == {m \in 0 .. n : ~ \E f : Joining(ss, m, f)}
  <1>1. SUFFICES ASSUME Missing # {} PROVE FALSE
    OBVIOUS
  <1>2. PICK m \in Missing : \A y \in Missing : m <= y
    <2>1. Missing \subseteq Nat
      OBVIOUS
    <2> HIDE DEF Missing
    <2> QED
      BY <1>1, <2>1, LeastNat
  <1>3. m \in 0 .. n /\ ~ \E f : Joining(ss, m, f)
    BY <1>2
  <1>4. CASE m = 0
    <2> DEFINE f == [i \in 1 .. 0 |-> <<>>]
    <2>1. f = [i \in 1 .. 0 |-> IF i = 1 THEN ss[i] ELSE f[i - 1] \o ss[i]]
      OBVIOUS
    <2> HIDE DEF f
    <2>2. Joining(ss, 0, f)
      BY <2>1 DEF Joining
    <2> QED
      BY <1>3, <1>4, <2>2
  <1>5. CASE m # 0
    <2>1. m - 1 \in 0 .. n /\ m \in 1 .. n /\ ~(m <= m - 1) /\ m \in Nat
      BY <1>3, <1>5
    <2>2. PICK f : Joining(ss, m - 1, f)
      <3>1. m - 1 \notin Missing
        BY <1>2, <2>1
      <3> QED
        BY <2>1, <3>1
    <2> DEFINE g == [i \in 1 .. m |-> IF i = m THEN IF m = 1 THEN ss[m] ELSE f[m - 1] \o ss[m] ELSE f[i]]
               h == [i \in 1 .. m |-> IF i = 1 THEN ss[i] ELSE g[i - 1] \o ss[i]]
    <2>3. \A i \in 1 .. m - 1 : f[i] = IF i = 1 THEN ss[i] ELSE f[i - 1] \o ss[i]
      BY <2>2 DEF Joining
    <2>4. ASSUME NEW i \in 1 .. m PROVE g[i] = h[i]
      <3>1. CASE i = m /\ m = 1
        BY <3>1
      <3>2. CASE i = m /\ m # 1
        <4>1. m - 1 \in 1 .. m /\ m - 1 # m
          BY <2>1, <3>2
        <4>2. g[m - 1] = f[m - 1]
          BY <4>1
        <4> QED
          BY <3>2, <4>2
      <3>3. CASE i # m
        <4>1. i \in 1 .. m - 1 /\ (i # 1 => i - 1 \in 1 .. m /\ i - 1 # m)
          BY <2>1, <3>3
        <4>2. i # 1 => g[i - 1] = f[i - 1]
          BY <4>1
        <4> QED
          BY <2>3, <3>3, <4>1, <4>2
      <3> QED
        BY <3>1, <3>2, <3>3
    <2>5. g = [i \in 1 .. m |-> g[i]] /\ h = [i \in 1 .. m |-> h[i]]
      OBVIOUS
    <2>6. h = [i \in 1 .. m |-> IF i = 1 THEN ss[i] ELSE g[i - 1] \o ss[i]]
      OBVIOUS
    <2> HIDE DEF g, h
    <2>7. g = h
      BY <2>4, <2>5
    <2>8. Joining(ss, m, g)
      BY <2>6, <2>7 DEF Joining
    <2> QED
      BY <1>3, <2>8
  <1> QED
    BY <1>4, <1>5

\* Where the parts of a concatenation lie: at offsets that begin at zero and
\* grow by the parts' lengths.
Laid(ss, n, off, flat) ==
    /\ off \in [0 .. n -> Nat] /\ off[0] = 0 /\ \A i \in 1 .. n : off[i] = off[i - 1] + Len(ss[i])
    /\ Len(flat) = off[n]
    /\ \A i \in 1 .. n : \A k \in 1 .. Len(ss[i]) : flat[off[i - 1] + k] = ss[i][k]

\* The elements of a concatenation.
LEMMA ConcatParts ==
    ASSUME NEW T, NEW s \in Seq(T), NEW t \in Seq(T)
    PROVE  /\ s \o t \in Seq(T) /\ Len(s \o t) = Len(s) + Len(t) /\ Len(s) \in Nat /\ Len(t) \in Nat
           /\ \A i \in 1 .. Len(s) : (s \o t)[i] = s[i]
           /\ \A i \in 1 .. Len(t) : (s \o t)[Len(s) + i] = t[i]
  OBVIOUS

\* A flattened sequence is its parts, one laid behind the other.
LEMMA FlattenLaw ==
    ASSUME NEW n \in Nat \ {0}, NEW T, NEW ss, Len(ss) = n, \A i \in 1 .. n : ss[i] \in Seq(T)
    PROVE  /\ FlattenSeq(ss) \in Seq(T)
           /\ \E off : Laid(ss, n, off, FlattenSeq(ss))
  <1> DEFINE f == CHOOSE f : Joining(ss, n, f)
  <1>1. FlattenSeq(ss) = f[n]
    BY DEF FlattenSeq, Joining
  <1>2. Joining(ss, n, f)
    <2>1. n \in 0 .. n
      OBVIOUS
    <2> QED
      BY <2>1, JoinsExist
  <1> HIDE DEF f
  <1>3. \A i \in 1 .. n : f[i] = IF i = 1 THEN ss[i] ELSE f[i - 1] \o ss[i]
    BY <1>2 DEF Joining
  <1> DEFINE Loose == {m \in 1 .. n : f[m] \notin Seq(T)}
  <1>4. Loose = {}
    <2>1. SUFFICES ASSUME Loose # {} PROVE FALSE
      OBVIOUS
    <2>2. PICK m \in Loose : \A y \in Loose : m <= y
      <3>1. Loose \subseteq Nat
        OBVIOUS
      <3> HIDE DEF Loose
      <3> QED
        BY <2>1, <3>1, LeastNat
    <2>3. m # 1
      BY <1>3, <2>2
    <2>4. m - 1 \in 1 .. n /\ ~(m <= m - 1) /\ m \in 1 .. n
      BY <2>2, <2>3
    <2>5. f[m - 1] \in Seq(T) /\ ss[m] \in Seq(T) /\ f[m] = f[m - 1] \o ss[m]
      BY <1>3, <2>2, <2>3, <2>4
    <2>6. f[m] \in Seq(T)
      BY <2>5, ConcatParts
    <2> QED
      BY <2>2, <2>6
  <1> DEFINE off == [i \in 0 .. n |-> IF i = 0 THEN 0 ELSE Len(f[i])]
  <1>5. /\ off[0] = 0 /\ off = [i \in 0 .. n |-> off[i]]
        /\ \A i \in 1 .. n : off[i] = Len(f[i]) /\ f[i] \in Seq(T) /\ off[i] \in Nat /\ Len(ss[i]) \in Nat
    <2>1. \A i \in 1 .. n : f[i] \in Seq(T)
      BY <1>4
    <2> QED
      BY <2>1
  <1> HIDE DEF off, Loose
  <1>6. \A i \in 1 .. n : i # 1 =>
            /\ i - 1 \in 1 .. n /\ Len(f[i]) = Len(f[i - 1]) + Len(ss[i])
            /\ \A k \in 1 .. Len(f[i - 1]) : f[i][k] = f[i - 1][k]
            /\ \A k \in 1 .. Len(ss[i]) : f[i][Len(f[i - 1]) + k] = ss[i][k]
    <2> SUFFICES ASSUME NEW i \in 1 .. n, i # 1
                 PROVE  /\ i - 1 \in 1 .. n /\ Len(f[i]) = Len(f[i - 1]) + Len(ss[i])
                        /\ \A k \in 1 .. Len(f[i - 1]) : f[i][k] = f[i - 1][k]
                        /\ \A k \in 1 .. Len(ss[i]) : f[i][Len(f[i - 1]) + k] = ss[i][k]
      OBVIOUS
    <2>1. i - 1 \in 1 .. n
      OBVIOUS
    <2>2. f[i] = f[i - 1] \o ss[i] /\ f[i - 1] \in Seq(T) /\ ss[i] \in Seq(T)
      BY <1>3, <1>5, <2>1
    <2> QED
      BY <2>1, <2>2, ConcatParts
  <1>7. \A i \in 1 .. n : off[i] = off[i - 1] + Len(ss[i])
    <2> SUFFICES ASSUME NEW i \in 1 .. n PROVE off[i] = off[i - 1] + Len(ss[i])
      OBVIOUS
    <2>1. CASE i = 1
      <3>0. 1 \in 1 .. n /\ 1 - 1 = 0
        OBVIOUS
      <3>1. off[1] = Len(f[1]) /\ f[1] = ss[1] /\ Len(ss[1]) \in Nat /\ 1 - 1 = 0
        BY <1>3, <1>5, <3>0
      <3> QED
        BY <1>5, <2>1, <3>1
    <2>2. CASE i # 1
      BY <1>5, <1>6, <2>2
    <2> QED
      BY <2>1, <2>2
  <1> DEFINE In(m) == \A i \in 1 .. m : /\ off[i] <= off[m]
                                        /\ \A k \in 1 .. Len(ss[i]) : f[m][off[i - 1] + k] = ss[i][k]
             Bad == {m \in 1 .. n : ~In(m)}
  <1>8. Bad = {}
    <2>1. SUFFICES ASSUME Bad # {} PROVE FALSE
      OBVIOUS
    <2>2. PICK m \in Bad : \A y \in Bad : m <= y
      <3>1. Bad \subseteq Nat
        OBVIOUS
      <3> HIDE DEF Bad
      <3> QED
        BY <2>1, <3>1, LeastNat
    <2>3. m \in 1 .. n /\ ~In(m)
      BY <2>2
    <2>4. CASE m = 1
      <3>1. \A i \in 1 .. m : i = 1 /\ i - 1 = 0
        BY <2>4
      <3>0. 1 \in 1 .. n
        OBVIOUS
      <3>2. f[1] = ss[1] /\ Len(ss[1]) \in Nat /\ off[1] \in Nat
        BY <1>3, <1>5, <3>0
      <3>3. \A k \in 1 .. Len(ss[1]) : off[0] + k = k
        BY <1>5, <3>2
      <3>4. In(m)
        BY <2>4, <3>1, <3>2, <3>3
      <3> QED
        BY <2>3, <3>4
    <2>5. CASE m # 1
      <3>1. m - 1 \in 1 .. n /\ ~(m <= m - 1)
        BY <2>3, <2>5
      <3>2. In(m - 1)
        BY <2>2, <3>1
      <3>3. /\ off[m] = off[m - 1] + Len(ss[m]) /\ off[m] \in Nat /\ off[m - 1] \in Nat /\ Len(ss[m]) \in Nat
            /\ off[m - 1] = Len(f[m - 1])
        BY <1>5, <1>7, <2>3, <3>1
      <3>4. ASSUME NEW i \in 1 .. m, NEW k \in 1 .. Len(ss[i])
            PROVE  f[m][off[i - 1] + k] = ss[i][k]
        <4>1. CASE i = m
          <5>1. \A j \in 1 .. Len(ss[m]) : f[m][Len(f[m - 1]) + j] = ss[m][j]
            BY <1>6, <2>3, <2>5
          <5> QED
            BY <3>3, <4>1, <5>1
        <4>2. CASE i # m
          <5>1. i \in 1 .. m - 1 /\ i \in 1 .. n
            BY <2>3, <4>2
          <5>2. f[m - 1][off[i - 1] + k] = ss[i][k] /\ off[i] <= off[m - 1]
            BY <3>2, <5>1
          <5>3. off[i] = off[i - 1] + Len(ss[i]) /\ off[i] \in Nat /\ Len(ss[i]) \in Nat
            BY <1>5, <1>7, <5>1
          <5>4. off[i - 1] \in Nat
            <6>1. i - 1 = 0 \/ i - 1 \in 1 .. n
              BY <5>1
            <6>2. off[0] \in Nat
              BY <1>5
            <6> QED
              BY <1>5, <6>1, <6>2
          <5> DEFINE a == off[i - 1]
                     b == off[i]
                     d == off[m - 1]
                     l == Len(ss[i])
          <5>6. a \in Nat /\ b = a + l /\ b <= d /\ d \in Nat /\ l \in Nat /\ k \in 1 .. l
            BY <3>3, <5>2, <5>3, <5>4
          <5>5. off[i - 1] + k \in 1 .. Len(f[m - 1])
            <6>1. a + k \in 1 .. d
              <7> HIDE DEF a, b, d, l
              <7> QED
                BY <5>6
            <6> QED
              BY <3>3, <6>1
          <5> QED
            BY <1>6, <2>3, <2>5, <5>2, <5>5
        <4> QED
          BY <4>1, <4>2
      <3>5. ASSUME NEW i \in 1 .. m PROVE off[i] <= off[m]
        <4>1. i = m \/ i \in 1 .. m - 1
          BY <2>3
        <4>2. i \in 1 .. m - 1 => off[i] <= off[m - 1] /\ off[i] \in Nat
          <5>1. i \in 1 .. m - 1 => i \in 1 .. n
            BY <2>3
          <5> QED
            BY <1>5, <3>2, <5>1
        <4> QED
          BY <3>3, <4>1, <4>2
      <3>6. In(m)
        BY <3>4, <3>5
      <3> QED
        BY <2>3, <3>6
    <2> QED
      BY <2>4, <2>5
  <1>9. \A i \in 0 .. n : off[i] \in Nat
    <2>1. \A i \in 0 .. n : i = 0 \/ i \in 1 .. n
      OBVIOUS
    <2> QED
      BY <1>5, <2>1
  <1>10. off \in [0 .. n -> Nat]
    BY <1>5, <1>9
  <1>11. n \in 1 .. n /\ In(n)
    BY <1>8
  <1>12. Laid(ss, n, off, f[n])
    BY <1>5, <1>7, <1>10, <1>11 DEF Laid
  <1> QED
    BY <1>1, <1>5, <1>11, <1>12

\* Every element of a part is in the concatenation, and nothing else.
PartsOf(ss, n, T) == n \in Nat \ {0} /\ Len(ss) = n /\ \A i \in 1 .. n : ss[i] \in Seq(T)
\* The concatenation has every element of a part, and no other.
Joined(flat, ss, n, T) ==
    /\ flat \in Seq(T)
    /\ \A i \in 1 .. n : \A k \in 1 .. Len(ss[i]) : \E j \in DOMAIN flat : flat[j] = ss[i][k]
    /\ \A j \in DOMAIN flat : \E i \in 1 .. n : \E k \in 1 .. Len(ss[i]) : flat[j] = ss[i][k]
\* What FlattenSeq returns.
LEMMA FlattenParts ==
    ASSUME NEW ss, NEW n, NEW T, PartsOf(ss, n, T), NEW flat, flat = FlattenSeq(ss)
    PROVE  Joined(flat, ss, n, T)
  <1>0. n \in Nat \ {0} /\ Len(ss) = n /\ \A i \in 1 .. n : ss[i] \in Seq(T)
    BY DEF PartsOf
  <1> USE <1>0
  <1>1. flat \in Seq(T) /\ \E off : Laid(ss, n, off, flat)
    BY <1>0, FlattenLaw
  <1>2. PICK off : Laid(ss, n, off, flat)
    BY <1>1
  <1>3. DOMAIN flat = 1 .. Len(flat) /\ Len(flat) = off[n] /\ off \in [0 .. n -> Nat] /\ off[0] = 0
    BY <1>1, <1>2 DEF Laid
  <1>4. \A i \in 1 .. n : off[i] = off[i - 1] + Len(ss[i]) /\ Len(ss[i]) \in Nat /\ i - 1 \in 0 .. n
    BY <1>2 DEF Laid
  <1>5. \A i \in 1 .. n : \A k \in 1 .. Len(ss[i]) : flat[off[i - 1] + k] = ss[i][k]
    BY <1>2 DEF Laid
  <1>6. \A i \in 0 .. n : off[i] \in Nat /\ off[i] <= off[n]
    <2> DEFINE Bad == {d \in 0 .. n : ~(off[n - d] <= off[n])}
    <2>1. Bad = {}
      <3>1. SUFFICES ASSUME Bad # {} PROVE FALSE
        OBVIOUS
      <3>2. PICK d \in Bad : \A y \in Bad : d <= y
        <4>1. Bad \subseteq Nat
          OBVIOUS
        <4> HIDE DEF Bad
        <4> QED
          BY <3>1, <4>1, LeastNat
      <3>3. d # 0
        BY <1>3, <3>2
      <3>4. d - 1 \in 0 .. n /\ ~(d <= d - 1) /\ n - (d - 1) \in 1 .. n /\ n - (d - 1) - 1 = n - d
            /\ n - d \in 0 .. n /\ n - (d - 1) \in 0 .. n
        BY <3>2, <3>3
      <3>5. off[n - (d - 1)] <= off[n]
        BY <3>2, <3>4
      <3>6. off[n - (d - 1)] = off[n - d] + Len(ss[n - (d - 1)]) /\ Len(ss[n - (d - 1)]) \in Nat
        BY <1>4, <3>4
      <3>7. off[n - (d - 1)] \in Nat /\ off[n - d] \in Nat /\ off[n] \in Nat
        BY <1>3, <3>4
      <3>8. ~(off[n - d] <= off[n])
        BY <3>2
      <3> QED
        BY <3>5, <3>6, <3>7, <3>8
    <2>2. \A i \in 0 .. n : n - i \in 0 .. n /\ n - (n - i) = i
      OBVIOUS
    <2>3. \A d \in 0 .. n : off[n - d] <= off[n]
      BY <2>1
    <2> HIDE DEF Bad
    <2>4. ASSUME NEW i \in 0 .. n PROVE off[i] <= off[n]
      <3>1. off[n - (n - i)] <= off[n]
        BY <2>2, <2>3
      <3> QED
        BY <2>2, <3>1
    <2> QED
      BY <1>3, <2>4
  <1>7. ASSUME NEW i \in 1 .. n, NEW k \in 1 .. Len(ss[i])
        PROVE  \E j \in DOMAIN flat : flat[j] = ss[i][k]
    <2>1. i \in 0 .. n /\ i - 1 \in 0 .. n
      OBVIOUS
    <2>2. off[i - 1] + k \in 1 .. Len(flat)
      <3>1. off[i - 1] \in Nat /\ off[i] <= off[n] /\ off[n] \in Nat
        BY <1>6, <2>1
      <3>2. off[i] = off[i - 1] + Len(ss[i]) /\ Len(ss[i]) \in Nat
        BY <1>4
      <3> DEFINE p == off[i - 1]
                 q == off[i]
                 l == Len(ss[i])
                 e == Len(flat)
      <3>3. p \in Nat /\ l \in Nat /\ k \in 1 .. l /\ q = p + l /\ q <= e /\ e \in Nat
        BY <1>3, <3>1, <3>2
      <3> HIDE DEF p, q, l, e
      <3>4. p + k \in 1 .. e
        BY <3>3
      <3> QED
        BY <3>4 DEF p, e
    <2> QED
      BY <1>3, <1>5, <2>2
  <1>8. ASSUME NEW j \in DOMAIN flat
        PROVE  \E i \in 1 .. n : \E k \in 1 .. Len(ss[i]) : flat[j] = ss[i][k]
    <2> DEFINE Past == {i \in 0 .. n : j <= off[i]}
    <2>1. n \in Past /\ Past \subseteq Nat
      BY <1>3
    <2>2. PICK i \in Past : \A y \in Past : i <= y
      <3> HIDE DEF Past
      <3> QED
        BY <2>1, LeastNat
    <2>3. i \in 0 .. n /\ j <= off[i] /\ j >= 1 /\ j \in Nat /\ i # 0
      BY <1>1, <1>3, <2>2
    <2>4. i \in 1 .. n /\ i - 1 \in 0 .. n /\ ~(i <= i - 1)
      BY <2>3
    <2>5. ~(j <= off[i - 1])
      BY <2>2, <2>4
    <2>6. off[i] = off[i - 1] + Len(ss[i]) /\ off[i] \in Nat /\ off[i - 1] \in Nat /\ Len(ss[i]) \in Nat
      BY <1>4, <1>6, <2>3, <2>4
    <2>7. j - off[i - 1] \in 1 .. Len(ss[i]) /\ off[i - 1] + (j - off[i - 1]) = j
      BY <2>3, <2>5, <2>6
    <2>8. flat[off[i - 1] + (j - off[i - 1])] = ss[i][j - off[i - 1]]
      BY <1>5, <2>4, <2>7
    <2> QED
      BY <2>4, <2>7, <2>8
  <1> QED
    BY <1>1, <1>7, <1>8 DEF Joined

\* The sums before each number: where things laid end to end begin.
LEMMA SumsBefore ==
    ASSUME NEW n \in Nat, NEW a, \A j \in 1 .. n : a[j] \in Nat
    PROVE  /\ \A i \in 1 .. n : Total([j \in 1 .. i - 1 |-> a[j]]) \in Nat
           /\ Total([j \in 1 .. n |-> a[j]]) \in Nat
           /\ \A i \in 1 .. n, k \in 1 .. n : i < k =>
                 Total([j \in 1 .. i - 1 |-> a[j]]) + a[i] <= Total([j \in 1 .. k - 1 |-> a[j]])
           /\ \A i \in 1 .. n : a[i] <= Total([j \in 1 .. n |-> a[j]])
  <1> DEFINE T == [i \in 0 .. n |-> Total([j \in 1 .. i |-> a[j]])]
  <1>1. /\ \A i \in 0 .. n : T[i] = Total([j \in 1 .. i |-> a[j]]) /\ T[i] \in Nat
        /\ \A i \in 1 .. n : T[i] = T[i - 1] + a[i]
    <2>1. /\ \A i \in 0 .. n : Total([j \in 1 .. i |-> a[j]]) \in Nat
          /\ \A i \in 1 .. n : Total([j \in 1 .. i |-> a[j]]) = Total([j \in 1 .. i - 1 |-> a[j]]) + a[i]
      BY TotalLaw
    <2>2. \A i \in 0 .. n : T[i] = Total([j \in 1 .. i |-> a[j]])
      OBVIOUS
    <2>3. \A i \in 1 .. n : i \in 0 .. n /\ i - 1 \in 0 .. n
      OBVIOUS
    <2> HIDE DEF T
    <2> QED
      BY <2>1, <2>2, <2>3
  <1> HIDE DEF T
  <1>a. \A i \in 0 .. n : T[i] <= T[i] /\ i + 0 = i
    <2>1. \A i \in 0 .. n : T[i] \in Nat
      BY <1>1
    <2>2. \A k \in Nat : k <= k
      OBVIOUS
    <2>3. \A i \in 0 .. n : i + 0 = i
      OBVIOUS
    <2> QED
      BY <2>1, <2>2, <2>3, Zenon
  <1>2. ASSUME NEW i \in 0 .. n, NEW d \in 0 .. n - i
        PROVE  T[i] <= T[i + d]
    <2> DEFINE Bad == {e \in 0 .. n - i : ~(T[i] <= T[i + e])}
    <2>1. SUFFICES ASSUME Bad # {} PROVE FALSE
      OBVIOUS
    <2>2. PICK e \in Bad : \A y \in Bad : e <= y
      <3>1. Bad \subseteq Nat
        OBVIOUS
      <3> HIDE DEF Bad
      <3> QED
        BY <2>1, <3>1, LeastNat
    <2>3. e # 0
      BY <1>a, <2>2
    <2>4. e - 1 \in 0 .. n - i /\ ~(e <= e - 1) /\ i + e \in 1 .. n /\ (i + e) - 1 = i + (e - 1) /\ i + (e - 1) \in 0 .. n
          /\ i + e \in 0 .. n
      BY <2>2, <2>3
    <2>5. T[i] <= T[i + (e - 1)]
      BY <2>2, <2>4
    <2>6. T[i + e] = T[i + (e - 1)] + a[i + e] /\ a[i + e] \in Nat /\ T[i] \in Nat /\ T[i + e] \in Nat /\ T[i + (e - 1)] \in Nat
      BY <1>1, <2>4
    <2> QED
      BY <2>2, <2>5, <2>6
  <1>3. \A i \in 1 .. n : i \in 0 .. n /\ i - 1 \in 0 .. n
    OBVIOUS
  <1>4. ASSUME NEW i \in 1 .. n, NEW k \in 1 .. n, i < k
        PROVE  T[i - 1] + a[i] <= T[k - 1]
    <2>1. i \in 0 .. n /\ k - 1 - i \in 0 .. n - i /\ i + (k - 1 - i) = k - 1
      BY <1>4
    <2>2. T[i] <= T[k - 1]
      BY <1>2, <2>1
    <2> QED
      BY <1>1, <2>2
  <1>5. ASSUME NEW i \in 1 .. n
        PROVE  a[i] <= T[n]
    <2>1. i \in 0 .. n /\ n - i \in 0 .. n - i /\ i + (n - i) = n /\ n \in 0 .. n /\ i - 1 \in 0 .. n
      OBVIOUS
    <2>2. T[i] <= T[n]
      BY <1>2, <2>1
    <2>3. T[i] = T[i - 1] + a[i] /\ T[i - 1] \in Nat /\ T[n] \in Nat /\ a[i] \in Nat
      BY <1>1, <2>1
    <2> QED
      BY <2>2, <2>3
  <1>6. n \in 0 .. n
    OBVIOUS
  <1>7. \A i \in 1 .. n : Total([j \in 1 .. i - 1 |-> a[j]]) = T[i - 1] /\ T[i - 1] \in Nat
    BY <1>1, <1>3
  <1>8. Total([j \in 1 .. n |-> a[j]]) = T[n] /\ T[n] \in Nat
    BY <1>1, <1>6
  <1> QED
    BY <1>4, <1>5, <1>7, <1>8

-----------------------------------------------------------------------------
(* The call's plan.                                                        *)

\* The types of a call's shards.
TypesOf(c) == {c.shards[i].type : i \in DOMAIN c.shards}

\* A packed call: what was asked for, the shards beside and behind each other.
PackedCall(c) ==
    /\ c.op \in {"raw", "tiles", "grouped"}
    /\ c.m \in Nat \ {0} /\ c.nb \in Nat \ {0} /\ c.splits \in Nat \cup {None}
    /\ Len(c.shards) \in Nat \ {0} /\ DOMAIN c.shards = 1 .. Len(c.shards)
    /\ \A i \in DOMAIN c.shards :
          /\ c.shards[i].type \in Types /\ c.shards[i].n \in Nat \ {0}
          /\ c.shards[i].col0 \in Nat /\ c.shards[i].base \in Nat /\ "base" \in DOMAIN c.shards[i]
          /\ c.shards[i].base = Placed(c.shards, c.nb, i)
    /\ \A i \in DOMAIN c.shards, k \in DOMAIN c.shards : i < k =>
          /\ c.shards[i].col0 + c.shards[i].n <= c.shards[k].col0
          /\ c.shards[i].base + Tiles(c.shards[i]) * c.nb * TileWords(c.shards[i].type) <= c.shards[k].base
    /\ c.op = "raw" =>
          /\ c.bf16 \in BOOLEAN /\ c.m <= GLUON_MAX_ROWS /\ Len(c.shards) = 1
          /\ TypesOf(c) \subseteq DOMAIN _KERNELS /\ c.shards[1].base = 0
    /\ c.op # "raw" => TypesOf(c) \subseteq DOMAIN RowBytes
    /\ c.op = "tiles" =>
          /\ c.reduce \in BOOLEAN /\ c.m <= 2 * GLUON_MAX_ROWS
          /\ c.reduce => \A i \in DOMAIN c.shards : Tiles(c.shards[i]) <= Counters
          /\ "kernel" \in DOMAIN c => c.kernel = "iq3s_int8t" /\ TypesOf(c) = {"IQ3_S"}
    /\ c.op = "grouped" =>
          /\ c.compact \in BOOLEAN
          /\ c.depth \in {2, 3} /\ (TypesOf(c) \cap GLUON_DEQUANT_TYPES # {} => c.m <= GLUON_ARRIVAL_ROWS)
          /\ c.depth = 3 => c.m <= GLUON_MAX_ROWS_GROUPED /\ TypesOf(c) \cap DOMAIN tile_map = {}
          /\ c.compact => c.depth = 2 /\ LargestRow(TypesOf(c)) <= 28 /\ c.m \in 2 .. GLUON_MAX_ROWS_GROUPED

\* A shard has as many tiles as its columns need.
LEMMA TilesWhole ==
    ASSUME NEW shard, shard.n \in Nat \ {0}
    PROVE  /\ Tiles(shard) \in Nat \ {0}
           /\ \A n \in Nat : n < Tiles(shard) <=> 64 * n < shard.n
           /\ Tiles(shard) <= shard.n
  BY DEF Tiles, CeilDiv

\* The call as it was asked for, but for where its shards lie.
LEMMA PackedKeeps ==
    ASSUME NEW x \in Calls
    PROVE  LET c == Packed(x)
           IN  /\ c.op = x.op /\ c.m = x.m /\ c.nb = x.nb /\ c.splits = x.splits
               /\ c.shards = pack_tiles(x.shards, x.nb)
               /\ x.op = "raw" => c.bf16 = x.bf16
               /\ x.op = "tiles" => c.reduce = x.reduce /\ ("kernel" \in DOMAIN c => "kernel" \in DOMAIN x /\ c.kernel = x.kernel)
               /\ x.op = "grouped" => c.depth = x.depth /\ c.compact = x.compact
               /\ DOMAIN c.shards = DOMAIN x.shards
               /\ \A i \in DOMAIN x.shards : c.shards[i].type = x.shards[i].type /\ c.shards[i].n = x.shards[i].n
               /\ TypesOf(c) = TypesOf(x)
  <1> DEFINE c == Packed(x)
  <1>0. /\ {"op", "m", "nb", "shards", "splits"} \subseteq DOMAIN x
        /\ x.op = "raw" => "bf16" \in DOMAIN x
        /\ x.op = "tiles" => "reduce" \in DOMAIN x
        /\ x.op = "grouped" => {"depth", "compact"} \subseteq DOMAIN x
    BY CallsAssumption
  <1>1. /\ c.op = x.op /\ c.m = x.m /\ c.nb = x.nb /\ c.splits = x.splits /\ c.shards = pack_tiles(x.shards, x.nb)
        /\ x.op = "raw" => c.bf16 = x.bf16
        /\ x.op = "tiles" => c.reduce = x.reduce
        /\ x.op = "grouped" => c.depth = x.depth /\ c.compact = x.compact
    BY <1>0 DEF Packed
  <1>2. "kernel" \in DOMAIN c => "kernel" \in DOMAIN x /\ c.kernel = x.kernel
    BY DEF Packed
  <1>3. DOMAIN pack_tiles(x.shards, x.nb) = DOMAIN x.shards
    BY DEF pack_tiles
  <1>4. \A i \in DOMAIN x.shards :
            /\ pack_tiles(x.shards, x.nb)[i].type = x.shards[i].type
            /\ pack_tiles(x.shards, x.nb)[i].n = x.shards[i].n
    BY DEF pack_tiles
  <1> HIDE DEF c
  <1>5. TypesOf(c) = TypesOf(x)
    BY <1>1, <1>3, <1>4 DEF TypesOf
  <1> QED
    BY <1>1, <1>2, <1>3, <1>4, <1>5 DEF c

\* A shard as it was asked for.
LEMMA AskedShards ==
    ASSUME NEW x \in Calls
    PROVE  /\ Len(x.shards) \in Nat \ {0} /\ DOMAIN x.shards = 1 .. Len(x.shards)
           /\ \A i \in DOMAIN x.shards : x.shards[i].type \in Types /\ x.shards[i].n \in Nat \ {0}
           /\ x.nb \in Nat \ {0} /\ x.m \in Nat \ {0}
  <1> DEFINE T == [type : Types, n : Nat \ {0}]
             s == x.shards
  <1>1. s # <<>> /\ s \in Seq(T) /\ x.nb \in Nat \ {0} /\ x.m \in Nat \ {0}
    BY CallsAssumption
  <1>2. \A t \in T : t.type \in Types /\ t.n \in Nat \ {0}
    OBVIOUS
  <1> HIDE DEF T, s
  <1>3. Len(s) \in Nat \ {0} /\ DOMAIN s = 1 .. Len(s) /\ \A i \in DOMAIN s : s[i] \in T
    BY <1>1
  <1> QED
    BY <1>1, <1>2, <1>3 DEF s

\* The bytes of a repacked row make whole words.
LEMMA RowWords ==
    /\ \A t \in DOMAIN RowBytes : RowBytes[t] \in Nat \ {0} /\ Words(t) \in Nat \ {0} /\ TileWords(t) \in Nat \ {0}
                                  /\ t \in Types
    /\ \A t \in Types : Size[t] \in Nat \ {0}
  <1>1. \A t \in DOMAIN RowBytes : RowBytes[t] \in Nat \ {0} /\ RowBytes[t] \div 4 \in Nat \ {0} /\ t \in Types
    BY DEF RowBytes, Types
  <1>2. \A t \in Types : Size[t] \in Nat \ {0}
    BY DEF Types, Size
  <1>3. \A t \in DOMAIN RowBytes : Words(t) \in Nat \ {0}
    BY <1>1 DEF Words
  <1>4. \A t \in DOMAIN RowBytes : 64 * Words(t) \in Nat \ {0}
    BY <1>3
  <1> QED
    BY <1>1, <1>2, <1>3, <1>4 DEF TileWords

\* The shards of a packed call lie apart, in the output's columns and in the buffer.
LEMMA PackedShards ==
    ASSUME NEW x \in Calls
    PROVE  LET s == Packed(x).shards
           IN  /\ \A i \in DOMAIN s : s[i].col0 \in Nat /\ s[i].base \in Nat /\ s[i].base = Placed(s, x.nb, i)
               /\ \A i \in DOMAIN s, k \in DOMAIN s : i < k =>
                     /\ s[i].col0 + s[i].n <= s[k].col0
                     /\ s[i].base + Tiles(s[i]) * x.nb * TileWords(s[i].type) <= s[k].base
               /\ x.op = "raw" => s[1].base = 0
  <1> DEFINE s == x.shards
             P == pack_tiles(s, x.nb)
             N == Len(s)
             width == [j \in 1 .. N |-> s[j].n]
             words == [j \in 1 .. N |-> Tiles(s[j]) * x.nb * TileWords(s[j].type)]
  <1>1. /\ N \in Nat \ {0} /\ DOMAIN s = 1 .. N /\ DOMAIN P = DOMAIN s
        /\ \A i \in DOMAIN s : s[i].type \in Types /\ s[i].n \in Nat \ {0}
        /\ x.nb \in Nat \ {0} /\ Packed(x).shards = P
    BY AskedShards, PackedKeeps
  <1>2. \A i \in 1 .. N : P[i].type = s[i].type /\ P[i].n = s[i].n /\ Tiles(P[i]) = Tiles(s[i])
    BY <1>1 DEF pack_tiles, Tiles
  <1>3. \A i \in 1 .. N :
            /\ P[i].col0 = Total([j \in 1 .. i - 1 |-> s[j].n])
            /\ P[i].base = Total([j \in 1 .. i - 1 |-> Tiles(s[j]) * x.nb * TileWords(s[j].type)])
    BY <1>1 DEF pack_tiles
  <1>4. \A i \in 1 .. N : P[i].col0 = Total([j \in 1 .. i - 1 |-> width[j]])
    <2> SUFFICES ASSUME NEW i \in 1 .. N
                 PROVE  P[i].col0 = Total([j \in 1 .. i - 1 |-> width[j]])
      OBVIOUS
    <2>1. \A j \in 1 .. i - 1 : j \in 1 .. N
      BY <1>1
    <2>2. [j \in 1 .. i - 1 |-> width[j]] = [j \in 1 .. i - 1 |-> s[j].n]
      BY <2>1
    <2> HIDE DEF P, width
    <2> QED
      BY <1>3, <2>2
  <1>5. \A i \in 1 .. N : P[i].base = Total([j \in 1 .. i - 1 |-> words[j]])
    <2> SUFFICES ASSUME NEW i \in 1 .. N
                 PROVE  P[i].base = Total([j \in 1 .. i - 1 |-> words[j]])
      OBVIOUS
    <2>1. \A j \in 1 .. i - 1 : j \in 1 .. N
      BY <1>1
    <2>2. [j \in 1 .. i - 1 |-> words[j]] = [j \in 1 .. i - 1 |-> Tiles(s[j]) * x.nb * TileWords(s[j].type)]
      BY <2>1
    <2> HIDE DEF P, words
    <2> QED
      BY <1>3, <2>2
  <1>6. \A i \in 1 .. N : width[i] \in Nat /\ width[i] = P[i].n
    BY <1>1, <1>2
  <1>7. /\ \A i \in 1 .. N : P[i].col0 \in Nat
        /\ \A i \in 1 .. N, k \in 1 .. N : i < k => P[i].col0 + P[i].n <= P[k].col0
    <2> HIDE DEF P, width, N
    <2>1. /\ \A i \in 1 .. N : Total([j \in 1 .. i - 1 |-> width[j]]) \in Nat
          /\ \A i \in 1 .. N, k \in 1 .. N : i < k =>
                 Total([j \in 1 .. i - 1 |-> width[j]]) + width[i] <= Total([j \in 1 .. k - 1 |-> width[j]])
      BY <1>1, <1>6, SumsBefore
    <2> QED
      BY <1>4, <1>6, <2>1
  <1>8. CASE x.op = "raw"
    <2>1. N = 1
      BY <1>8, CallsAssumption
    <2>2. Total([j \in 1 .. 0 |-> words[j]]) = 0
      <3> HIDE DEF words
      <3> QED
        BY TotalLaw
    <2>3. P[1].base = Total([j \in 1 .. 1 - 1 |-> words[j]])
      <3> HIDE DEF P, words
      <3> QED
        BY <1>5, <2>1
    <2>4. Placed(P, x.nb, 1) = Total([j \in 1 .. 0 |-> words[j]])
      <3>1. [j \in 1 .. 1 - 1 |-> Tiles(P[j]) * x.nb * TileWords(P[j].type)] = [j \in 1 .. 0 |-> words[j]]
        OBVIOUS
      <3> HIDE DEF P, words
      <3> QED
        BY <3>1 DEF Placed
    <2>5. P[1].base = 0 /\ Placed(P, x.nb, 1) = 0
      <3> HIDE DEF P, words
      <3> QED
        BY <2>2, <2>3, <2>4
    <2> HIDE DEF P, words, width, N
    <2>6. \A i \in DOMAIN P : i = 1
      BY <1>1, <2>1
    <2> QED
      BY <1>1, <1>7, <2>1, <2>5, <2>6 DEF s
  <1>9. CASE x.op # "raw"
    <2>1. \A i \in 1 .. N : s[i].type \in DOMAIN RowBytes
      <3>1. \A i \in DOMAIN s : s[i].type \in {x.shards[j].type : j \in DOMAIN x.shards}
        OBVIOUS
      <3>2. {x.shards[j].type : j \in DOMAIN x.shards} \subseteq DOMAIN RowBytes
        BY <1>9, CallsAssumption, Zenon
      <3> QED
        BY <1>1, <3>1, <3>2
    <2>2. \A i \in 1 .. N : words[i] \in Nat
      <3> SUFFICES ASSUME NEW i \in 1 .. N
                   PROVE  words[i] \in Nat
        OBVIOUS
      <3>1. Tiles(s[i]) \in Nat
        BY <1>1, TilesWhole
      <3>2. TileWords(s[i].type) \in Nat
        BY <2>1, RowWords
      <3>3. \A a \in Nat, b \in Nat, d \in Nat : a * b * d \in Nat
        OBVIOUS
      <3>4. Tiles(s[i]) * x.nb * TileWords(s[i].type) \in Nat
        BY <1>1, <3>1, <3>2, <3>3
      <3> QED
        BY <3>4
    <2>3. \A i \in 1 .. N : words[i] = Tiles(P[i]) * x.nb * TileWords(P[i].type)
      <3>1. \A i \in 1 .. N : words[i] = Tiles(s[i]) * x.nb * TileWords(s[i].type)
        OBVIOUS
      <3> HIDE DEF words, P
      <3> QED
        BY <1>2, <3>1
    <2>4. \A i \in 1 .. N : Placed(P, x.nb, i) = P[i].base
      <3> SUFFICES ASSUME NEW i \in 1 .. N
                   PROVE  Placed(P, x.nb, i) = P[i].base
        OBVIOUS
      <3>1. \A j \in 1 .. i - 1 : j \in 1 .. N
        BY <1>1
      <3> HIDE DEF P, words, N
      <3>2. [j \in 1 .. i - 1 |-> words[j]] = [j \in 1 .. i - 1 |-> Tiles(P[j]) * x.nb * TileWords(P[j].type)]
        BY <2>3, <3>1
      <3> QED
        BY <1>5, <3>2 DEF Placed
    <2> HIDE DEF P, width, words, N
    <2>5. /\ \A i \in 1 .. N : Total([j \in 1 .. i - 1 |-> words[j]]) \in Nat
          /\ \A i \in 1 .. N, k \in 1 .. N : i < k =>
                 Total([j \in 1 .. i - 1 |-> words[j]]) + words[i] <= Total([j \in 1 .. k - 1 |-> words[j]])
      BY <1>1, <2>2, SumsBefore
    <2>6. /\ \A i \in 1 .. N : P[i].base \in Nat
          /\ \A i \in 1 .. N, k \in 1 .. N : i < k => P[i].base + words[i] <= P[k].base
      BY <1>5, <2>5
    <2>7. \A i \in 1 .. N, k \in 1 .. N : i < k => P[i].base + Tiles(P[i]) * x.nb * TileWords(P[i].type) <= P[k].base
      BY <2>3, <2>6
    <2>8. DOMAIN P = 1 .. N /\ Packed(x).shards = P
      BY <1>1
    <2> QED
      BY <1>7, <1>9, <2>4, <2>6, <2>7, <2>8, Zenon
  <1> QED
    BY <1>8, <1>9

\* Packing makes a valid call of one asked for.
LEMMA PackedValid ==
    ASSUME NEW x \in Calls
    PROVE  PackedCall(Packed(x))
  <1> DEFINE c == Packed(x)
  <1>1. /\ c.op = x.op /\ c.m = x.m /\ c.nb = x.nb /\ c.splits = x.splits
        /\ x.op = "raw" => c.bf16 = x.bf16
        /\ x.op = "tiles" => c.reduce = x.reduce /\ ("kernel" \in DOMAIN c => "kernel" \in DOMAIN x /\ c.kernel = x.kernel)
        /\ x.op = "grouped" => c.depth = x.depth /\ c.compact = x.compact
        /\ DOMAIN c.shards = DOMAIN x.shards
        /\ \A i \in DOMAIN x.shards : c.shards[i].type = x.shards[i].type /\ c.shards[i].n = x.shards[i].n
        /\ TypesOf(c) = TypesOf(x) /\ c.shards = pack_tiles(x.shards, x.nb)
    BY PackedKeeps
  <1>2. /\ Len(x.shards) \in Nat \ {0} /\ DOMAIN x.shards = 1 .. Len(x.shards)
        /\ \A i \in DOMAIN x.shards : x.shards[i].type \in Types /\ x.shards[i].n \in Nat \ {0}
    BY AskedShards
  <1>3. /\ x.op \in {"raw", "tiles", "grouped"}
        /\ x.m \in Nat \ {0} /\ x.nb \in Nat \ {0} /\ x.splits \in Nat \cup {None}
        /\ x.op = "raw" =>
              /\ x.bf16 \in BOOLEAN /\ x.m <= GLUON_MAX_ROWS /\ Len(x.shards) = 1
              /\ TypesOf(x) \subseteq DOMAIN _KERNELS
        /\ x.op # "raw" => TypesOf(x) \subseteq DOMAIN RowBytes
        /\ x.op = "tiles" =>
              /\ x.reduce \in BOOLEAN /\ x.m <= 2 * GLUON_MAX_ROWS
              /\ x.reduce => \A i \in DOMAIN x.shards : Tiles(x.shards[i]) <= Counters
              /\ "kernel" \in DOMAIN x => x.kernel = "iq3s_int8t" /\ TypesOf(x) = {"IQ3_S"}
        /\ x.op = "grouped" =>
              /\ x.compact \in BOOLEAN
              /\ x.depth \in {2, 3} /\ (TypesOf(x) \cap GLUON_DEQUANT_TYPES # {} => x.m <= GLUON_ARRIVAL_ROWS)
              /\ x.depth = 3 => x.m <= GLUON_MAX_ROWS_GROUPED /\ TypesOf(x) \cap DOMAIN tile_map = {}
              /\ x.compact => x.depth = 2 /\ LargestRow(TypesOf(x)) <= 28 /\ x.m \in 2 .. GLUON_MAX_ROWS_GROUPED
    BY CallsAssumption, Zenon DEF TypesOf
  <1>4. /\ \A i \in DOMAIN c.shards : c.shards[i].col0 \in Nat /\ c.shards[i].base \in Nat /\ c.shards[i].base = Placed(c.shards, x.nb, i)
        /\ \A i \in DOMAIN c.shards, k \in DOMAIN c.shards : i < k =>
              /\ c.shards[i].col0 + c.shards[i].n <= c.shards[k].col0
              /\ c.shards[i].base + Tiles(c.shards[i]) * x.nb * TileWords(c.shards[i].type) <= c.shards[k].base
        /\ x.op = "raw" => c.shards[1].base = 0
    BY PackedShards
  <1>5. Len(c.shards) = Len(x.shards)
    <2>1. c.shards = [i \in 1 .. Len(x.shards) |-> c.shards[i]]
      BY <1>1, <1>2 DEF pack_tiles
    <2> DEFINE n == Len(x.shards)
               p == c.shards
    <2>2. n \in Nat /\ DOMAIN p = 1 .. n
      BY <1>1, <1>2
    <2> HIDE DEF n, p
    <2>3. Len(p) = n
      BY <2>2
    <2> QED
      BY <2>3 DEF n, p
  <1>6. x.op = "tiles" /\ x.reduce => \A i \in DOMAIN c.shards : Tiles(c.shards[i]) <= Counters
    <2>1. \A i \in DOMAIN x.shards : Tiles(c.shards[i]) = Tiles(x.shards[i])
      BY <1>1 DEF Tiles
    <2> QED
      BY <1>1, <1>3, <2>1
  <1>8. \A i \in DOMAIN c.shards : "base" \in DOMAIN c.shards[i]
    <2> HIDE DEF c
    <2> QED
      BY <1>1 DEF pack_tiles
  <1> HIDE DEF c
  <1>7. \A i \in DOMAIN c.shards : c.shards[i].type \in Types /\ c.shards[i].n \in Nat \ {0}
    BY <1>1, <1>2
  <1> QED
    BY <1>1, <1>2, <1>3, <1>4, <1>5, <1>6, <1>7, <1>8 DEF PackedCall, c

\* The greater and the lesser of a few numbers.
LEMMA GreaterOfTwo ==
    ASSUME NEW a \in Int, NEW b \in Int
    PROVE  Max({a, b}) = IF a >= b THEN a ELSE b
  BY DEF Max

LEMMA LesserOfTwo ==
    ASSUME NEW a \in Int, NEW b \in Int
    PROVE  Min({a, b}) = IF a <= b THEN a ELSE b
  BY DEF Min

LEMMA LeastOfThree ==
    ASSUME NEW a \in Int, NEW b \in Int, NEW c \in Int
    PROVE  Min({a, b, c}) \in Int
  <1> DEFINE S == {a, b, c}
  <1>1. \E x \in S : \A y \in S : x <= y
    <2>1. CASE a <= b /\ a <= c
      BY <2>1
    <2>2. CASE b <= a /\ b <= c
      BY <2>2
    <2>3. CASE c <= a /\ c <= b
      BY <2>3
    <2> QED
      BY <2>1, <2>2, <2>3
  <1>2. S \subseteq Int
    OBVIOUS
  <1> HIDE DEF S
  <1>3. Min(S) \in S
    BY <1>1 DEF Min
  <1>4. Min(S) \in Int
    BY <1>2, <1>3
  <1> QED
    BY <1>4 DEF S

\* A clamped number of splits is one to the bound.
LEMMA ClampWithin ==
    ASSUME NEW s \in Int, NEW nb \in Nat \ {0}
    PROVE  Clamp(s, nb) \in 1 .. nb
  <1>1. Min({s, nb}) = IF s <= nb THEN s ELSE nb
    BY LesserOfTwo
  <1> DEFINE m == Min({s, nb})
  <1>2. m \in Int /\ m <= nb
    BY <1>1
  <1> HIDE DEF m
  <1>3. Max({1, m}) = IF 1 >= m THEN 1 ELSE m
    BY <1>2, GreaterOfTwo
  <1>4. Max({1, m}) \in 1 .. nb
    BY <1>2, <1>3
  <1> QED
    BY <1>4 DEF Clamp, m

\* A rounded quotient is a whole number.
LEMMA RoundDivWhole ==
    ASSUME NEW a \in Nat, NEW b \in Nat \ {0}
    PROVE  RoundDiv(a, b) \in Nat
  <1>1. a \div b \in Nat
    BY DivBounds
  <1> QED
    BY <1>1 DEF RoundDiv

\* The greater of one and a number.
LEMMA AtLeastOne ==
    ASSUME NEW a \in Int
    PROVE  Max({1, a}) \in Nat \ {0}
  <1>1. Max({1, a}) = IF 1 >= a THEN 1 ELSE a
    BY GreaterOfTwo
  <1> QED
    BY <1>1

\* The cap on the splits is a whole number.
LEMMA CapWhole ==
    ASSUME NEW nb \in Nat \ {0}, NEW b \in Nat \cup {None}, NEW m \in Nat \ {0}
    PROVE  Cap(nb, b, m) \in Nat
  <1>1. CASE b = None
    BY <1>1 DEF Cap
  <1>2. CASE b # None
    <2>1. b \in Nat /\ 3 * nb * b \in Nat /\ 160 * m \in Nat \ {0}
      BY <1>2
    <2>2. (3 * nb * b) \div (160 * m) \in Nat
      BY <2>1, DivBounds
    <2>3. Max({1, (3 * nb * b) \div (160 * m)}) \in Nat \ {0}
      BY <2>2, AtLeastOne
    <2> QED
      BY <1>2, <2>3 DEF Cap
  <1> QED
    BY <1>1, <1>2

\* The measured tables hold numbers of splits.
LEMMA MeasuredSplits ==
    ASSUME NEW tiles, NEW nb
    PROVE  /\ Measured(_TABLE, tiles, nb) # {} => Entry(_TABLE, tiles, nb) \in Nat
           /\ Measured(GROUPED_SPLITS, tiles, nb) # {} => Entry(GROUPED_SPLITS, tiles, nb) \in Nat
           /\ Measured(GROUPED_SPLITS_M32, tiles, nb) # {} => Entry(GROUPED_SPLITS_M32, tiles, nb) \in Nat
  <1>1. /\ \A e \in _TABLE : e[3] \in Nat
        /\ \A e \in GROUPED_SPLITS : e[3] \in Nat
        /\ \A e \in GROUPED_SPLITS_M32 : e[3] \in Nat
    BY DEF _TABLE, GROUPED_SPLITS, GROUPED_SPLITS_M32
  <1>2. ASSUME NEW table, \A e \in table : e[3] \in Nat, Measured(table, tiles, nb) # {}
        PROVE  Entry(table, tiles, nb) \in Nat
    <2>1. Measured(table, tiles, nb) \subseteq table
      BY DEF Measured
    <2>2. (CHOOSE e \in Measured(table, tiles, nb) : TRUE) \in Measured(table, tiles, nb)
      BY <1>2
    <2> QED
      BY <1>2, <2>1, <2>2 DEF Entry
  <1> QED
    BY <1>1, <1>2

\* The launcher's choice of splits of a standalone launch is within the k-blocks.
LEMMA StandaloneSplits ==
    ASSUME NEW nb \in Nat \ {0}, NEW n \in Nat \ {0}, NEW b \in Nat \cup {None}, NEW m \in Nat \ {0}
    PROVE  split_k_for(nb, n, m, b) \in 1 .. nb
  <1> DEFINE tiles == CeilDiv(n, 64)
             s == IF Measured(_TABLE, tiles, nb) # {} THEN Entry(_TABLE, tiles, nb)
                  ELSE IF tiles >= 960 THEN 1
                  ELSE Max({1, Min({8, nb \div 4, RoundDiv(1080, tiles)})})
             least == Min({8, nb \div 4, RoundDiv(1080, tiles)})
  <1>1. tiles \in Nat \ {0}
    BY DEF CeilDiv
  <1> HIDE DEF tiles
  <1>2. least \in Int
    <2>1. RoundDiv(1080, tiles) \in Int
      BY <1>1, RoundDivWhole
    <2>2. nb \div 4 \in Int
      OBVIOUS
    <2> QED
      BY <2>1, <2>2, LeastOfThree
  <1>3. Max({1, least}) \in Nat
    <2> HIDE DEF least
    <2> QED
      BY <1>2, AtLeastOne
  <1>4. s \in Int
    BY <1>3, MeasuredSplits
  <1>5. Cap(nb, b, m) \in Int
    BY CapWhole
  <1> HIDE DEF s
  <1>6. Min({s, Cap(nb, b, m)}) \in Int
    BY <1>4, <1>5, LesserOfTwo
  <1>7. Clamp(Min({s, Cap(nb, b, m)}), nb) \in 1 .. nb
    BY <1>6, ClampWithin
  <1>8. split_k_for(nb, n, m, b) = Clamp(Min({s, Cap(nb, b, m)}), nb)
    BY DEF split_k_for, s, tiles
  <1> QED
    BY <1>7, <1>8

\* So is that of a grouped launch.
LEMMA GroupedSplits ==
    ASSUME NEW nb \in Nat \ {0}, NEW tiles \in Nat \ {0}, NEW b \in Nat \cup {None}, NEW m \in Nat \ {0}
    PROVE  grouped_split_for(tiles, nb, m, b) \in 1 .. nb
  <1> DEFINE s == IF Measured(GROUPED_SPLITS, tiles, nb) # {} THEN Entry(GROUPED_SPLITS, tiles, nb)
                  ELSE Max({1, Min({8, nb \div 2, RoundDiv(1440, tiles)})})
             least == Min({8, nb \div 2, RoundDiv(1440, tiles)})
             rows == Min({m, 16})
  <1>1. least \in Int
    <2>1. RoundDiv(1440, tiles) \in Int
      BY RoundDivWhole
    <2>2. nb \div 2 \in Int
      OBVIOUS
    <2> QED
      BY <2>1, <2>2, LeastOfThree
  <1>2. Max({1, least}) \in Nat
    <2> HIDE DEF least
    <2> QED
      BY <1>1, AtLeastOne
  <1>3. s \in Int
    BY <1>2, MeasuredSplits
  <1>4. rows \in Nat \ {0}
    <2>1. Min({m, 16}) = IF m <= 16 THEN m ELSE 16
      BY LesserOfTwo
    <2> QED
      BY <2>1
  <1> HIDE DEF rows
  <1>5. Cap(nb, b, rows) \in Int
    BY <1>4, CapWhole
  <1> HIDE DEF s
  <1>6. Min({s, Cap(nb, b, rows)}) \in Int
    BY <1>3, <1>5, LesserOfTwo
  <1>7. Clamp(Min({s, Cap(nb, b, rows)}), nb) \in 1 .. nb
    BY <1>6, ClampWithin
  <1>8. Measured(GROUPED_SPLITS_M32, tiles, nb) # {} => Clamp(Entry(GROUPED_SPLITS_M32, tiles, nb), nb) \in 1 .. nb
    <2> SUFFICES ASSUME Measured(GROUPED_SPLITS_M32, tiles, nb) # {}
                 PROVE  Clamp(Entry(GROUPED_SPLITS_M32, tiles, nb), nb) \in 1 .. nb
      OBVIOUS
    <2>1. Entry(GROUPED_SPLITS_M32, tiles, nb) \in Int
      BY MeasuredSplits
    <2> QED
      BY <2>1, ClampWithin
  <1>9. grouped_split_for(tiles, nb, m, b) =
            IF m > 16 /\ Measured(GROUPED_SPLITS_M32, tiles, nb) # {}
            THEN Clamp(Entry(GROUPED_SPLITS_M32, tiles, nb), nb)
            ELSE Clamp(Min({s, Cap(nb, b, rows)}), nb)
    BY DEF grouped_split_for, s, rows
  <1> QED
    BY <1>7, <1>8, <1>9

\* And so are the splits a caller asks for.
LEMMA SplitsGiven ==
    ASSUME NEW c, PackedCall(c), NEW choice \in 1 .. c.nb
    PROVE  Splitk(c, choice) \in 1 .. c.nb
  <1>1. c.splits = None \/ c.splits \in Int
    BY DEF PackedCall
  <1>2. c.nb \in Nat \ {0}
    BY DEF PackedCall
  <1>3. c.splits # None => Clamp(c.splits, c.nb) \in 1 .. c.nb
    <2> SUFFICES ASSUME c.splits \in Int
                 PROVE  Clamp(c.splits, c.nb) \in 1 .. c.nb
      BY <1>1
    <2> QED
      BY <1>2, ClampWithin
  <1> QED
    BY <1>3 DEF Splitk

-----------------------------------------------------------------------------
(* The splits of a launch cut its k-blocks into runs.                      *)

\* Where the runs begin, from the first k-block to past the last.
Cuts(cut, splits, nb) ==
    /\ cut \in [0 .. splits -> 0 .. nb] /\ cut[0] = 0 /\ cut[splits] = nb
    /\ \A s \in 0 .. splits - 1 : cut[s] <= cut[s + 1]

\* A split's k-blocks are its run; of an empty run only that it is empty is known.
RunOfSplit(kb0, kb1, cut, s, nb) ==
    /\ kb0 \in Nat /\ kb1 \in 0 .. nb
    /\ IF kb0 < kb1 THEN kb0 = cut[s] /\ kb1 = cut[s + 1] ELSE cut[s] = cut[s + 1]

\* The runs of CeilPart cut the k-blocks into one piece for each split.
LEMMA CeilCuts ==
    ASSUME NEW nb \in Nat \ {0}, NEW splits \in Nat \ {0}
    PROVE  \E cut : /\ Cuts(cut, splits, nb)
                    /\ \A s \in 0 .. splits - 1 :
                          LET part == CeilPart(s, splits, nb) IN RunOfSplit(part[1], part[2], cut, s, nb)
  <1> DEFINE per == (nb + splits - 1) \div splits
             cut == [s \in 0 .. splits |-> IF s * per < nb THEN s * per ELSE nb]
  <1>1. per \in Nat /\ splits * per <= nb + splits - 1 /\ nb + splits - 1 < splits * per + splits
    <2>1. nb + splits - 1 \in Nat
      OBVIOUS
    <2> QED
      BY <2>1, DivBounds
  <1>2. \A s \in 0 .. splits - 1 : CeilPart(s, splits, nb) = <<s * per, IF (s + 1) * per < nb THEN (s + 1) * per ELSE nb>>
    BY DEF CeilPart
  <1> HIDE DEF per
  <1>3. \A s \in 0 .. splits : s * per \in Nat
    BY <1>1
  <1>4. \A s \in 0 .. splits - 1 : (s + 1) * per = s * per + per
    BY <1>1
  <1>5. splits * per >= nb
    BY <1>1
  <1>6. \A s \in 0 .. splits : cut[s] = IF s * per < nb THEN s * per ELSE nb
    OBVIOUS
  <1>7. cut \in [0 .. splits -> 0 .. nb]
    BY <1>3
  <1> HIDE DEF cut
  <1>8. 0 \in 0 .. splits /\ splits \in 0 .. splits /\ \A s \in 0 .. splits - 1 : s \in 0 .. splits /\ s + 1 \in 0 .. splits
    OBVIOUS
  <1>9. cut[0] = 0 /\ cut[splits] = nb
    <2>1. 0 * per = 0
      BY <1>1
    <2> QED
      BY <1>3, <1>5, <1>6, <1>8, <2>1
  <1>10. ASSUME NEW s \in 0 .. splits - 1
         PROVE  /\ cut[s] <= cut[s + 1]
                /\ LET part == CeilPart(s, splits, nb) IN RunOfSplit(part[1], part[2], cut, s, nb)
    <2> DEFINE a == s * per
               b == (s + 1) * per
    <2>1. a \in Nat /\ b \in Nat /\ a <= b
      BY <1>1, <1>3, <1>4, <1>8
    <2>2. cut[s] = (IF a < nb THEN a ELSE nb) /\ cut[s + 1] = (IF b < nb THEN b ELSE nb)
      BY <1>6, <1>8
    <2>3. CeilPart(s, splits, nb) = <<a, IF b < nb THEN b ELSE nb>>
      BY <1>2
    <2> HIDE DEF a, b
    <2> QED
      BY <2>1, <2>2, <2>3 DEF RunOfSplit
  <1> QED
    BY <1>7, <1>9, <1>10 DEF Cuts

\* And so do those of BalancedPart.
LEMMA BalancedCuts ==
    ASSUME NEW nb \in Nat \ {0}, NEW splits \in Nat \ {0}
    PROVE  \E cut : /\ Cuts(cut, splits, nb)
                    /\ \A s \in 0 .. splits - 1 :
                          LET part == BalancedPart(s, splits, nb) IN RunOfSplit(part[1], part[2], cut, s, nb)
  <1> DEFINE cut == [s \in 0 .. splits |-> (s * nb) \div splits]
  <1>1. ASSUME NEW s \in 0 .. splits
        PROVE  (s * nb) \div splits \in 0 .. nb
    <2>1. s * nb \in Nat /\ (s * nb) \div splits \in Nat
      <3>1. s * nb \in Nat
        OBVIOUS
      <3> QED
        BY <3>1, DivBounds
    <2>2. s * nb <= splits * nb
      BY TimesLeq
    <2>3. s * nb < splits * (nb + 1)
      <3>1. splits * (nb + 1) = splits * nb + splits /\ splits * nb \in Nat
        OBVIOUS
      <3> QED
        BY <2>1, <2>2, <3>1
    <2>4. (s * nb) \div splits <= nb
      BY <2>1, <2>3, DivAtMost
    <2> QED
      BY <2>1, <2>4
  <1>2. cut \in [0 .. splits -> 0 .. nb]
    BY <1>1
  <1>3. \A s \in 0 .. splits : cut[s] = (s * nb) \div splits
    OBVIOUS
  <1> HIDE DEF cut
  <1>4. 0 \in 0 .. splits /\ splits \in 0 .. splits /\ \A s \in 0 .. splits - 1 : s \in 0 .. splits /\ s + 1 \in 0 .. splits
    OBVIOUS
  <1>5. cut[0] = 0
    <2>1. 0 * nb = 0 /\ 0 \div splits = 0
      OBVIOUS
    <2> QED
      BY <1>3, <1>4, <2>1
  <1>6. cut[splits] = nb
    <2>1. nb <= (splits * nb) \div splits
      <3>1. splits * nb \in Nat
        OBVIOUS
      <3> QED
        BY <3>1, DivAtLeast
    <2>2. (splits * nb) \div splits \in 0 .. nb
      BY <1>1, <1>4
    <2> QED
      BY <1>3, <1>4, <2>1, <2>2
  <1>7. ASSUME NEW s \in 0 .. splits - 1
        PROVE  cut[s] <= cut[s + 1]
    <2>1. s * nb \in Nat /\ (s + 1) * nb \in Nat /\ (s + 1) * nb = s * nb + nb
      OBVIOUS
    <2> DEFINE a == s * nb
               b == (s + 1) * nb
    <2>2. a \in Nat /\ b \in Nat /\ a <= b
      BY <2>1
    <2> HIDE DEF a, b
    <2>3. a \div splits \in Nat /\ splits * (a \div splits) <= a
      BY <2>2, DivBounds
    <2>4. splits * (a \div splits) <= b
      <3>1. splits * (a \div splits) \in Nat
        BY <2>3
      <3> QED
        BY <2>2, <2>3, <3>1
    <2>5. a \div splits <= b \div splits
      BY <2>2, <2>3, <2>4, DivAtLeast
    <2> QED
      BY <1>3, <1>4, <2>5 DEF a, b
  <1>8. ASSUME NEW s \in 0 .. splits - 1
        PROVE  LET part == BalancedPart(s, splits, nb) IN RunOfSplit(part[1], part[2], cut, s, nb)
    <2>1. BalancedPart(s, splits, nb) = <<cut[s], cut[s + 1]>>
      BY <1>3, <1>4 DEF BalancedPart
    <2>2. cut[s] \in 0 .. nb /\ cut[s + 1] \in 0 .. nb
      BY <1>2, <1>4
    <2> QED
      BY <1>7, <2>1, <2>2 DEF RunOfSplit
  <1> QED
    BY <1>2, <1>5, <1>6, <1>7, <1>8 DEF Cuts

\* The fields of the kernels that say what a stage is.
Form(k, t, raw) ==
    /\ DOMAIN k = Fields \cup {"cell"} /\ k.type = t /\ k.raw = raw
    /\ IF raw THEN k.nst = 1 ELSE k.nst = Halves[t] /\ k.words \in Nat /\ 64 * k.words * k.nst = TileWords(t)

\* Every raw kernel has stages of one chunk.
LEMMA RawForms ==
    ASSUME NEW t \in DOMAIN _KERNELS
    PROVE  /\ Form(_KERNELS[t], t, TRUE)
           /\ t \in DOMAIN _INT8_KERNELS => Form(_INT8_KERNELS[t], t, TRUE)
  <1>1. /\ DOMAIN iq3s = Fields \cup {"cell"} /\ iq3s.type = "IQ3_S" /\ iq3s.raw = TRUE /\ iq3s.nst = 1
    BY DEF iq3s, RawKernel, Fields
  <1>2. /\ DOMAIN iq3s_int8b = Fields \cup {"cell"} /\ iq3s_int8b.type = "IQ3_S" /\ iq3s_int8b.raw = TRUE /\ iq3s_int8b.nst = 1
    <2> HIDE DEF iq3s
    <2> QED
      BY <1>1 DEF iq3s_int8b
  <1>3. /\ DOMAIN iq3s_int8c = Fields \cup {"cell"} /\ iq3s_int8c.type = "IQ3_S" /\ iq3s_int8c.raw = TRUE /\ iq3s_int8c.nst = 1
    <2> HIDE DEF iq3s_int8b
    <2> QED
      BY <1>2 DEF iq3s_int8c, Fields
  <1>4. /\ DOMAIN iq3xxs = Fields \cup {"cell"} /\ iq3xxs.type = "IQ3_XXS" /\ iq3xxs.raw = TRUE /\ iq3xxs.nst = 1
    BY DEF iq3xxs, RawKernel, Fields
  <1>5. \A u : DOMAIN iq2(u) = Fields \cup {"cell"} /\ iq2(u).type = u /\ iq2(u).raw = TRUE /\ iq2(u).nst = 1
    BY DEF iq2, RawKernel, Fields
  <1>6. /\ DOMAIN iq4xs = Fields \cup {"cell"} /\ iq4xs.type = "IQ4_XS" /\ iq4xs.raw = TRUE /\ iq4xs.nst = 1
    BY DEF iq4xs, TwoArrays, RawKernel, Fields
  <1>7. /\ DOMAIN q4k = Fields \cup {"cell"} /\ q4k.type = "Q4_K" /\ q4k.raw = TRUE /\ q4k.nst = 1
    BY DEF q4k, TwoArrays, RawKernel, Fields
  <1>8. /\ DOMAIN q2k = Fields \cup {"cell"} /\ q2k.type = "Q2_K" /\ q2k.raw = TRUE /\ q2k.nst = 1
    BY DEF q2k, RawKernel, Fields
  <1>9. t \in {"IQ3_S", "IQ4_XS", "IQ3_XXS", "Q4_K", "IQ2_S", "IQ2_XS", "IQ2_XXS", "Q2_K"}
    BY DEF _KERNELS
  <1>10. _KERNELS[t] = CASE t = "IQ3_S" -> iq3s [] t = "IQ4_XS" -> iq4xs [] t = "IQ3_XXS" -> iq3xxs [] t = "Q4_K" -> q4k
                         [] t = "Q2_K" -> q2k [] OTHER -> iq2(t)
    BY <1>9, Zenon DEF _KERNELS
  <1>11. t \in DOMAIN _INT8_KERNELS =>
           _INT8_KERNELS[t] = CASE t = "IQ3_S" -> iq3s_int8c [] t = "IQ4_XS" -> iq4xs [] t = "IQ3_XXS" -> iq3xxs
                                [] t = "Q4_K" -> q4k [] OTHER -> iq2(t)
    BY Zenon DEF _INT8_KERNELS, iq4xs_int8, iq3xxs_int8, q4k_int8, iq2_int8
  <1>12. t \in DOMAIN _INT8_KERNELS => t # "Q2_K"
    BY DEF _INT8_KERNELS
  <1> HIDE DEF _KERNELS, _INT8_KERNELS
  <1>13. Form(_KERNELS[t], t, TRUE)
    BY <1>1, <1>4, <1>5, <1>6, <1>7, <1>8, <1>9, <1>10 DEF Form
  <1>14. t \in DOMAIN _INT8_KERNELS => Form(_INT8_KERNELS[t], t, TRUE)
    BY <1>3, <1>4, <1>5, <1>6, <1>7, <1>9, <1>11, <1>12 DEF Form
  <1> QED
    BY <1>13, <1>14

\* The stages of a tile hold all its words.
LEMMA StagesOfTile ==
    ASSUME NEW t \in DOMAIN RowBytes
    PROVE  64 * StageRow(t) * Halves[t] = TileWords(t)
  <1>1. t \in {"IQ3_S", "IQ4_XS", "Q4_K", "IQ3_XXS", "IQ2_XXS", "IQ2_XS", "IQ2_S", "Q8_0", "Q3_K", "Q5_K", "Q6_K"}
    BY DEF RowBytes
  <1>2. Halves[t] = (IF t \in {"Q8_0", "Q6_K"} THEN 2 ELSE 1)
    BY DEF Halves
  <1>3. CASE t \in {"Q8_0", "Q6_K"}
    <2>1. RowBytes[t] = 272 \/ RowBytes[t] = 216
      BY <1>3 DEF RowBytes
    <2> QED
      BY <1>2, <1>3, <2>1 DEF Words, StageRow, TileWords
  <1>4. CASE t \notin {"Q8_0", "Q6_K"}
    <2>1. Words(t) \in Nat
      BY RowWords
    <2>2. Words(t) \div 1 = Words(t)
      <3> HIDE DEF Words
      <3> QED
        BY <2>1
    <2>3. Halves[t] = 1
      BY <1>2, <1>4
    <2> HIDE DEF Words
    <2> QED
      BY <2>1, <2>2, <2>3 DEF StageRow, TileWords
  <1> QED
    BY <1>3, <1>4

\* The stages of the grouped kernels hold half or all of a tile.
LEMMA GroupedForm ==
    ASSUME NEW types, NEW t \in DOMAIN RowBytes, NEW rows, NEW bm, NEW depth, NEW compact
    PROVE  /\ Form(tiles_grouped_kernel(t, types, rows, bm, depth, compact), t, FALSE)
           /\ tiles_grouped_kernel(t, types, rows, bm, depth, compact).bm = bm
  <1> DEFINE k == tiles_grouped_kernel(t, types, rows, bm, depth, compact)
  <1>1. /\ DOMAIN k = Fields \cup {"cell"} /\ k.type = t /\ k.raw = FALSE /\ k.nst = Halves[t] /\ k.words = StageRow(t)
        /\ k.bm = bm
    BY DEF tiles_grouped_kernel, Fields
  <1> HIDE DEF k
  <1>2. StageRow(t) \in Nat
    BY RowsOfTypes
  <1> QED
    BY <1>1, <1>2, StagesOfTile DEF Form, k

\* The stages of the tile kernels hold half or all of a tile.
LEMMA TileForms ==
    ASSUME NEW t \in DOMAIN RowBytes, NEW m
    PROVE  /\ Form(_GEMM(t, m), t, FALSE) /\ Form(iq3s_int8t, "IQ3_S", FALSE)
           /\ t \in DOMAIN tile_map => _GEMM(t, m) = tiles_grouped_kernel(t, {t}, m, 16, 2, FALSE)
  <1> DEFINE Laid1(k, u) ==
               DOMAIN k = Fields \cup {"cell"} /\ k.type = u /\ k.raw = FALSE /\ k.nst = 1 /\ k.words = Words(u)
  <1>1. ASSUME NEW u \in DOMAIN RowBytes, u \notin DOMAIN tile_map, NEW k, Laid1(k, u)
        PROVE  Form(k, u, FALSE)
    <2>2. Words(u) \in Nat /\ Halves[u] = 1
      BY <1>1, RowWords, RowsOfTypes
    <2>3. 64 * Words(u) * 1 = 64 * Words(u)
      <3> HIDE DEF Words
      <3> QED
        BY <2>2
    <2> QED
      BY <1>1, <2>2, <2>3 DEF Form, TileWords
  <1>2. {"IQ3_S", "IQ4_XS", "Q4_K", "IQ3_XXS", "IQ2_XXS", "IQ2_XS", "IQ2_S"} \subseteq DOMAIN RowBytes \ DOMAIN tile_map
    BY DEF RowBytes, tile_map
  <1>3. Laid1(iq3s_int8t, "IQ3_S")
    <2> DEFINE cell == [s \in {0}, c \in Cells |->
                   LET row == RowOf("IQ3_S")
                       h == IF c[2] < 4 THEN HalfIq3s(row, 2 * c[1], c[1], c[2], 8 - c[2], 4 * c[2])
                            ELSE HalfIq3s(row, 2 * c[1] + 1, c[1], c[2] - 4, 4 - (c[2] - 4), 16 + 4 * (c[2] - 4))
                   IN  GridCell(h.idx, 0, h.sign, Bits(row, 26, 4 * c[1], 4), Bits(row, 27, 0, 16))]
               r == TileKernel("IQ3_S", 64 * 32, cell)
    <2>1. iq3s_int8t = [r EXCEPT !.acts = 4096, !.tab = 6144, !.tabWords = 512, !.size = 6656]
      BY DEF iq3s_int8t
    <2> HIDE DEF cell
    <2>2. Laid1(r, "IQ3_S")
      BY DEF TileKernel, Fields
    <2> HIDE DEF r
    <2> QED
      BY <2>1, <2>2 DEF Fields
  <1>4. Laid1(iq4xs_int8t, "IQ4_XS")
    BY DEF iq4xs_int8t, TileKernel, Fields
  <1>5. Laid1(q4k_int8t, "Q4_K")
    BY DEF q4k_int8t, TileKernel, Fields
  <1>6. Laid1(iq3xxs_int8t, "IQ3_XXS")
    BY DEF iq3xxs_int8t, TileKernel, Fields
  <1>7. \A u : Laid1(iq2_int8t(u), u)
    BY DEF iq2_int8t, TileKernel, Fields
  <1>8. t \in DOMAIN tile_map => _GEMM(t, m) = tiles_grouped_kernel(t, {t}, m, 16, 2, FALSE)
    BY DEF _GEMM, tile_map
  <1>9. /\ t = "IQ3_S" => _GEMM(t, m) = iq3s_int8t
        /\ t = "IQ4_XS" => _GEMM(t, m) = iq4xs_int8t
        /\ t = "Q4_K" => _GEMM(t, m) = q4k_int8t
        /\ t = "IQ3_XXS" => _GEMM(t, m) = iq3xxs_int8t
        /\ t \in {"IQ2_XXS", "IQ2_XS", "IQ2_S"} => _GEMM(t, m) = iq2_int8t(t)
    BY DEF _GEMM, iq3s_int8te
  <1>10. t \in DOMAIN tile_map \/ t \in {"IQ3_S", "IQ4_XS", "Q4_K", "IQ3_XXS", "IQ2_XXS", "IQ2_XS", "IQ2_S"}
    BY DEF RowBytes, tile_map
  <1>11. t \in {"IQ3_S", "IQ4_XS", "Q4_K", "IQ3_XXS", "IQ2_XXS", "IQ2_XS", "IQ2_S"} => Laid1(_GEMM(t, m), t)
    <2> HIDE DEF Laid1
    <2> QED
      BY <1>3, <1>4, <1>5, <1>6, <1>7, <1>9, Zenon
  <1> HIDE DEF Laid1
  <1>12. Form(iq3s_int8t, "IQ3_S", FALSE)
    BY <1>1, <1>2, <1>3
  <1>13. CASE t \in DOMAIN tile_map
    <2>1. Form(tiles_grouped_kernel(t, {t}, m, 16, 2, FALSE), t, FALSE)
      BY GroupedForm
    <2> QED
      BY <1>8, <1>12, <1>13, <2>1, Zenon
  <1>14. CASE t \in {"IQ3_S", "IQ4_XS", "Q4_K", "IQ3_XXS", "IQ2_XXS", "IQ2_XS", "IQ2_S"}
    <2>1. t \notin DOMAIN tile_map
      BY <1>2, <1>14
    <2>2. Form(_GEMM(t, m), t, FALSE)
      BY <1>1, <1>11, <1>14, <2>1
    <2> QED
      BY <1>8, <1>12, <2>2
  <1> QED
    BY <1>10, <1>13, <1>14

\* The kernels a call may run on a shard of type t.
RunsKernel(c, t, k) ==
    \/ /\ c.op = "raw" /\ t \in DOMAIN _KERNELS
       /\ k = Geometry(_KERNELS[t]) \/ (t \in DOMAIN _INT8_KERNELS /\ k = Geometry(_INT8_KERNELS[t]))
    \/ /\ c.op = "tiles" /\ t \in DOMAIN RowBytes
       /\ (t = "IQ3_S" /\ k = Geometry(iq3s_int8t)) \/ \E m \in 1 .. GLUON_MAX_ROWS : k = Geometry(_GEMM(t, m))
    \/ /\ c.op = "grouped" /\ TypesOf(c) \subseteq DOMAIN RowBytes
       /\ \E rows \in 1 .. c.m, bm \in {16, 32, 64, 128} :
             /\ bm = 16 <=> rows <= GLUON_MAX_ROWS
             /\ bm > 32 => rows > GLUON_MAX_ROWS_GROUPED /\ TypesOf(c) \cap GLUON_DEQUANT_TYPES = {}
             /\ k = Geometry(tiles_grouped_kernel(t, TypesOf(c), rows, bm, c.depth, c.compact))

\* Whatever kernel a call runs, its shared memory is laid out without overlap, and
\* its stages make up the tile of a k-block.
LEMMA KernelLayout ==
    ASSUME NEW c, PackedCall(c), NEW i \in DOMAIN c.shards, NEW k,
           RunsKernel(c, c.shards[i].type, k)
    PROVE  LET t == c.shards[i].type
           IN  /\ Layout(k) /\ k.type = t /\ k.raw = (c.op = "raw")
               /\ IF k.raw THEN k.nst = 1 ELSE k.nst = Halves[t] /\ k.words \in Nat /\ 64 * k.words * k.nst = TileWords(t)
  <1> DEFINE t == c.shards[i].type
             Good(g, raw) == /\ Layout(g) /\ g.type = t /\ g.raw = raw
                             /\ IF raw THEN g.nst = 1 ELSE g.nst = Halves[t] /\ g.words \in Nat /\ 64 * g.words * g.nst = TileWords(t)
  <1>1. ASSUME NEW f, NEW raw \in BOOLEAN, Form(f, t, raw), IF raw THEN LaidRaw(Geometry(f), t) ELSE LaidTile(Geometry(f), t)
        PROVE  Good(Geometry(f), raw)
    <2>1. LET g == Geometry(f) IN g.raw = f.raw /\ g.words = f.words /\ g.nst = f.nst /\ g.type = f.type
      BY <1>1, FieldsKept DEF Form
    <2> DEFINE g == Geometry(f)
    <2>2. g.raw = f.raw /\ g.words = f.words /\ g.nst = f.nst /\ g.type = f.type
      BY <2>1
    <2>3. Layout(g)
      BY <1>1 DEF LaidRaw, LaidTile
    <2> HIDE DEF g, t
    <2>4. /\ Layout(g) /\ g.type = t /\ g.raw = raw
          /\ IF raw THEN g.nst = 1 ELSE g.nst = Halves[t] /\ g.words \in Nat /\ 64 * g.words * g.nst = TileWords(t)
      BY <1>1, <2>2, <2>3 DEF Form
    <2> QED
      BY <2>4 DEF g, t
  <1>2. c.m \in Nat \ {0} /\ t \in TypesOf(c)
    BY DEF PackedCall, TypesOf
  <1>3. CASE c.op = "raw"
    <2>1. /\ t \in DOMAIN _KERNELS
          /\ k = Geometry(_KERNELS[t]) \/ (t \in DOMAIN _INT8_KERNELS /\ k = Geometry(_INT8_KERNELS[t]))
      BY <1>3 DEF RunsKernel
    <2>2. /\ Form(_KERNELS[t], t, TRUE) /\ LaidRaw(Geometry(_KERNELS[t]), t)
          /\ t \in DOMAIN _INT8_KERNELS => Form(_INT8_KERNELS[t], t, TRUE) /\ LaidRaw(Geometry(_INT8_KERNELS[t]), t)
      BY <2>1, RawForms, RawKernels
    <2>3. Good(k, TRUE)
      <3> HIDE DEF Good, t
      <3> QED
        BY <1>1, <2>1, <2>2
    <2> QED
      BY <1>3, <2>3
  <1>4. CASE c.op = "tiles"
    <2>1. /\ t \in DOMAIN RowBytes
          /\ \/ t = "IQ3_S" /\ k = Geometry(iq3s_int8t)
             \/ \E m \in 1 .. GLUON_MAX_ROWS : k = Geometry(_GEMM(t, m))
      BY <1>4 DEF RunsKernel
    <2>2. ASSUME t = "IQ3_S", k = Geometry(iq3s_int8t)
          PROVE  Good(k, FALSE)
      <3>1. Form(iq3s_int8t, t, FALSE) /\ LaidTile(Geometry(iq3s_int8t), t)
        BY <2>1, <2>2, TileForms, StagedKernels
      <3> HIDE DEF Good, t
      <3> QED
        BY <1>1, <2>2, <3>1
    <2>3. ASSUME NEW m \in 1 .. GLUON_MAX_ROWS, k = Geometry(_GEMM(t, m))
          PROVE  Good(k, FALSE)
      <3>1. Form(_GEMM(t, m), t, FALSE)
        BY <2>1, TileForms
      <3>2. LaidTile(Geometry(_GEMM(t, m)), t)
        <4>1. CASE t \notin DOMAIN tile_map
          BY <2>1, <4>1, TileKernels
        <4>2. CASE t \in DOMAIN tile_map
          <5>1. _GEMM(t, m) = tiles_grouped_kernel(t, {t}, m, 16, 2, FALSE)
            BY <2>1, <4>2, TileForms
          <5>2. GroupedCall({t}, m, 16, 2, FALSE)
            BY <2>1, <2>3 DEF GroupedCall, GLUON_MAX_ROWS
          <5> QED
            BY <5>1, <5>2, GroupedKernels
        <4> QED
          BY <4>1, <4>2
      <3> HIDE DEF Good, t
      <3> QED
        BY <1>1, <2>3, <3>1, <3>2
    <2>4. Good(k, FALSE)
      BY <2>1, <2>2, <2>3
    <2> QED
      BY <1>4, <2>4
  <1>5. CASE c.op = "grouped"
    <2>1. TypesOf(c) \subseteq DOMAIN RowBytes
      BY <1>5 DEF RunsKernel
    <2>2. PICK rows \in 1 .. c.m, bm \in {16, 32, 64, 128} :
                    /\ bm = 16 <=> rows <= GLUON_MAX_ROWS
                    /\ bm > 32 => rows > GLUON_MAX_ROWS_GROUPED /\ TypesOf(c) \cap GLUON_DEQUANT_TYPES = {}
                    /\ k = Geometry(tiles_grouped_kernel(t, TypesOf(c), rows, bm, c.depth, c.compact))
      BY <1>5 DEF RunsKernel
    <2>3. /\ c.depth \in {2, 3}
          /\ c.depth = 3 => c.m <= GLUON_MAX_ROWS_GROUPED /\ TypesOf(c) \cap DOMAIN tile_map = {}
          /\ c.compact => c.depth = 2 /\ LargestRow(TypesOf(c)) <= 28
      BY <1>5 DEF PackedCall
    <2> HIDE DEF t
    <2>4. GroupedCall(TypesOf(c), rows, bm, c.depth, c.compact)
      BY <1>2, <2>1, <2>2, <2>3 DEF GroupedCall, GLUON_MAX_ROWS_GROUPED
    <2>5. LaidTile(k, t)
      BY <1>2, <2>2, <2>4, GroupedKernels
    <2>6. Form(tiles_grouped_kernel(t, TypesOf(c), rows, bm, c.depth, c.compact), t, FALSE)
      <3>1. t \in DOMAIN RowBytes
        BY <1>2, <2>1
      <3>2. ASSUME NEW u \in DOMAIN RowBytes, NEW types, NEW d, NEW z
            PROVE  Form(tiles_grouped_kernel(u, types, rows, bm, d, z), u, FALSE)
        BY GroupedForm
      <3>3. \A types, d, z : Form(tiles_grouped_kernel(t, types, rows, bm, d, z), t, FALSE)
        BY <3>1, <3>2
      <3>4. \A d, z : Form(tiles_grouped_kernel(t, TypesOf(c), rows, bm, d, z), t, FALSE)
        BY <3>3
      <3>5. \A z : Form(tiles_grouped_kernel(t, TypesOf(c), rows, bm, c.depth, z), t, FALSE)
        BY <3>4
      <3> QED
        BY <3>5
    <2>7. Good(k, FALSE)
      <3> HIDE DEF Good
      <3> QED
        BY <1>1, <2>2, <2>5, <2>6
    <2> QED
      BY <1>5, <2>7 DEF t
  <1> QED
    BY <1>3, <1>4, <1>5 DEF PackedCall

\* CTA x works on tile n of the call's shard i: its weights, and its columns.
OnTile(c, x, i, n) ==
    LET sh == c.shards[i] IN
    /\ i \in DOMAIN c.shards /\ n \in 0 .. Tiles(sh) - 1
    /\ RunsKernel(c, sh.type, x.kernel)
    /\ IF c.op = "raw" THEN x.per = Size[sh.type] /\ x.off = n * (64 * c.nb * x.per)
       ELSE x.per = TileWords(sh.type) /\ x.off = sh.base + n * (c.nb * x.per)
    /\ x.col0 = sh.col0 + 64 * n /\ x.limit \in Int /\ x.limit <= sh.col0 + sh.n
    /\ \A w \in Warp : 64 * n + 32 * w < sh.n <=> x.col0 + 32 * w < x.limit

\* ... on the run of its split, and on rows of the launch that begin a unit.
OnSplit(c, x, cut, splits) == x.split \in 0 .. splits - 1 /\ RunOfSplit(x.kb0, x.kb1, cut, x.split, c.nb)
OnRows(x, first, past) ==
    x.rows[1] \in first .. past - 1 /\ x.rows[2] \in x.rows[1] + 1 .. past /\ x.rows[1] % 16 = 0

\* A launch whose last CTAs add up its splits: tile by tile, a tile's splits
\* beside each other, a counter to each tile.
GridOf(c, L, i, first, past) ==
    LET sh == c.shards[i] IN
    /\ Tiles(sh) <= Counters
    /\ DOMAIN L.ctas = 1 .. Tiles(sh) * L.splits
    /\ \A j \in DOMAIN L.ctas :
          LET x == L.ctas[j] IN
          /\ x.counter = (j - 1) \div L.splits /\ x.split = (j - 1) % L.splits
          /\ x.col0 = sh.col0 + 64 * x.counter /\ x.limit = sh.col0 + sh.n /\ x.rows[1] = first /\ x.rows[2] = past

\* A launch over shards S of the call and the rows first .. past - 1: every CTA on
\* a tile, a split and rows of its own, and a CTA for every tile, split and unit.
Spans(c, L, S, first, past) ==
    /\ S \in SUBSET (DOMAIN c.shards)
    /\ first \in Nat /\ first % 16 = 0 /\ past \in first + 1 .. c.m
    /\ L.splits \in 1 .. c.nb /\ L.reduce \in BOOLEAN
    /\ Len(L.ctas) \in Nat \ {0} /\ DOMAIN L.ctas = 1 .. Len(L.ctas)
    /\ \E cut : Cuts(cut, L.splits, c.nb) /\ \A j \in DOMAIN L.ctas : OnSplit(c, L.ctas[j], cut, L.splits)
    /\ \A j \in DOMAIN L.ctas : OnRows(L.ctas[j], first, past) /\ \E i \in S : \E n \in Nat : OnTile(c, L.ctas[j], i, n)
    /\ \A i \in S : \A n \in 0 .. Tiles(c.shards[i]) - 1, s \in 0 .. L.splits - 1, u \in Nat :
          first <= 16 * u /\ 16 * u < past =>
             \E j \in DOMAIN L.ctas : /\ OnTile(c, L.ctas[j], i, n) /\ L.ctas[j].split = s
                                      /\ L.ctas[j].rows[1] <= 16 * u /\ 16 * u < L.ctas[j].rows[2]
    /\ L.reduce => L.splits # 1 /\ \E i \in S : GridOf(c, L, i, first, past)

\* What dropping the decodes leaves of a launch.
LEMMA PlainKeeps ==
    ASSUME NEW L, {"ctas", "splits", "reduce"} \subseteq DOMAIN L,
           \A j \in DOMAIN L.ctas : "kernel" \in DOMAIN L.ctas[j]
    PROVE  /\ Plain(L).splits = L.splits /\ Plain(L).reduce = L.reduce
           /\ DOMAIN Plain(L).ctas = DOMAIN L.ctas
           /\ Plain(L).ctas = [j \in DOMAIN L.ctas |-> Plain(L).ctas[j]]
           /\ \A j \in DOMAIN L.ctas :
                 /\ DOMAIN Plain(L).ctas[j] = DOMAIN L.ctas[j]
                 /\ Plain(L).ctas[j].kernel = Geometry(L.ctas[j].kernel)
                 /\ \A f \in DOMAIN L.ctas[j] \ {"kernel"} : Plain(L).ctas[j][f] = L.ctas[j][f]
  <1> DEFINE T == [j \in DOMAIN L.ctas |-> [L.ctas[j] EXCEPT !.kernel = Geometry(L.ctas[j].kernel)]]
  <1>1. Plain(L) = [L EXCEPT !.ctas = T]
    BY DEF Plain
  <1>2. DOMAIN T = DOMAIN L.ctas /\ T = [j \in DOMAIN L.ctas |-> T[j]]
    OBVIOUS
  <1>3. ASSUME NEW j \in DOMAIN L.ctas
        PROVE  /\ DOMAIN T[j] = DOMAIN L.ctas[j] /\ T[j].kernel = Geometry(L.ctas[j].kernel)
               /\ \A f \in DOMAIN L.ctas[j] \ {"kernel"} : T[j][f] = L.ctas[j][f]
    OBVIOUS
  <1> HIDE DEF T
  <1>4. Plain(L).ctas = T /\ Plain(L).splits = L.splits /\ Plain(L).reduce = L.reduce
    BY <1>1
  <1> QED
    BY <1>2, <1>3, <1>4

\* Where a column half lies in a tile, by its limit: the shard's end, or the tile's.
LEMMA HalvesInside ==
    ASSUME NEW sh, sh.n \in Nat, sh.col0 \in Nat, NEW n \in 0 .. Tiles(sh) - 1, NEW w \in Warp
    PROVE  /\ 64 * n + 32 * w < sh.n <=> sh.col0 + 64 * n + 32 * w < sh.col0 + sh.n
           /\ 64 * n + 32 * w < sh.n <=> sh.col0 + 64 * n + 32 * w < sh.col0 + 64 * n + Min({64, sh.n - 64 * n})
  <1> DEFINE a == sh.col0
             b == sh.n
  <1>1. n \in Nat /\ a \in Nat /\ b \in Nat /\ w \in {0, 1}
    <2>1. Tiles(sh) \in Int
      BY DEF Tiles, CeilDiv
    <2> QED
      BY <2>1 DEF Warp
  <1>2. b - 64 * n \in Int
    BY <1>1
  <1>3. Min({64, b - 64 * n}) = IF 64 <= b - 64 * n THEN 64 ELSE b - 64 * n
    BY <1>2, LesserOfTwo
  <1> HIDE DEF a, b
  <1>4. /\ 64 * n + 32 * w < b <=> a + 64 * n + 32 * w < a + b
        /\ 64 * n + 32 * w < b <=> a + 64 * n + 32 * w < a + 64 * n + Min({64, b - 64 * n})
    BY <1>1, <1>3
  <1> QED
    BY <1>4 DEF a, b

\* A standalone launch.
LEMMA StandaloneSpan ==
    ASSUME NEW c, PackedCall(c), NEW i \in DOMAIN c.shards, NEW sh,
           sh.type = c.shards[i].type, sh.n = c.shards[i].n, sh.col0 = c.shards[i].col0, sh.base = c.shards[i].base,
           NEW k, k.type = sh.type, k.raw = (c.op = "raw"), RunsKernel(c, sh.type, Geometry(k)),
           NEW splits \in 1 .. c.nb, NEW first \in Nat, first % 16 = 0, NEW past \in first + 1 .. c.m,
           NEW reduce \in BOOLEAN, reduce => splits # 1 /\ Tiles(sh) <= Counters
    PROVE  Spans(c, Plain([ctas |-> StandaloneCtas(k, sh, c.nb, splits, <<first, past>>),
                           splits |-> splits, reduce |-> reduce]), {i}, first, past)
  <1> DEFINE ctas == StandaloneCtas(k, sh, c.nb, splits, <<first, past>>)
             L == [ctas |-> ctas, splits |-> splits, reduce |-> reduce]
             P == Plain(L)
             tiles == Tiles(sh)
             per == IF k.raw THEN Size[k.type] ELSE TileWords(k.type)
  <1>1. /\ c.m \in Nat /\ c.nb \in Nat \ {0} /\ sh.n \in Nat \ {0} /\ sh.col0 \in Nat /\ sh.base \in Nat
        /\ c.op = "raw" => sh.base = 0 /\ i = 1
    <2>1. c.op = "raw" => i = 1
      BY DEF PackedCall
    <2> QED
      BY <2>1 DEF PackedCall
  <1>2. tiles \in Nat \ {0} /\ splits \in Nat \ {0} /\ Tiles(c.shards[i]) = tiles
    <2>1. Tiles(c.shards[i]) = tiles
      BY DEF Tiles
    <2> QED
      BY <1>1, <2>1, TilesWhole
  <1>3. /\ DOMAIN ctas = 1 .. tiles * splits
        /\ \A j \in DOMAIN ctas :
              LET x == ctas[j]
                  n == (j - 1) \div splits
                  s == (j - 1) % splits
              IN  /\ DOMAIN x = {"kernel", "off", "per", "kb0", "kb1", "col0", "limit", "split", "counter", "rows"}
                  /\ x.kernel = k /\ x.per = per /\ x.off = sh.base + n * (IF k.raw THEN 64 * c.nb * per ELSE c.nb * per)
                  /\ x.kb0 = CeilPart(s, splits, c.nb)[1] /\ x.kb1 = CeilPart(s, splits, c.nb)[2]
                  /\ x.col0 = sh.col0 + 64 * n /\ x.limit = sh.col0 + sh.n /\ x.split = s /\ x.counter = n
                  /\ x.rows[1] = first /\ x.rows[2] = past
    BY DEF StandaloneCtas
  <1> HIDE DEF ctas
  <1>4. /\ P.splits = splits /\ P.reduce = reduce /\ DOMAIN P.ctas = 1 .. tiles * splits
        /\ \A j \in 1 .. tiles * splits :
              LET x == P.ctas[j]
                  n == (j - 1) \div splits
                  s == (j - 1) % splits
              IN  /\ x.kernel = Geometry(k) /\ x.per = per
                  /\ x.off = sh.base + n * (IF k.raw THEN 64 * c.nb * per ELSE c.nb * per)
                  /\ x.kb0 = CeilPart(s, splits, c.nb)[1] /\ x.kb1 = CeilPart(s, splits, c.nb)[2]
                  /\ x.col0 = sh.col0 + 64 * n /\ x.limit = sh.col0 + sh.n /\ x.split = s /\ x.counter = n
                  /\ x.rows[1] = first /\ x.rows[2] = past
    <2>1. /\ {"ctas", "splits", "reduce"} \subseteq DOMAIN L /\ \A j \in DOMAIN L.ctas : "kernel" \in DOMAIN L.ctas[j]
          /\ L.ctas = ctas /\ L.splits = splits /\ L.reduce = reduce
      BY <1>3
    <2> HIDE DEF L
    <2>2. /\ P.splits = L.splits /\ P.reduce = L.reduce /\ DOMAIN P.ctas = DOMAIN L.ctas
          /\ \A j \in DOMAIN L.ctas :
                 /\ P.ctas[j].kernel = Geometry(L.ctas[j].kernel)
                 /\ \A f \in DOMAIN L.ctas[j] \ {"kernel"} : P.ctas[j][f] = L.ctas[j][f]
      BY <2>1, PlainKeeps
    <2> HIDE DEF P, per, tiles
    <2>3. P.splits = splits /\ P.reduce = reduce /\ DOMAIN P.ctas = 1 .. tiles * splits
      BY <1>3, <2>1, <2>2
    <2>4. ASSUME NEW j \in 1 .. tiles * splits
          PROVE  LET x == P.ctas[j]
                     y == ctas[j]
                 IN  /\ x.kernel = Geometry(k) /\ x.per = y.per /\ x.off = y.off /\ x.kb0 = y.kb0 /\ x.kb1 = y.kb1
                     /\ x.col0 = y.col0 /\ x.limit = y.limit /\ x.split = y.split /\ x.counter = y.counter
                     /\ x.rows = y.rows
      <3>1. j \in DOMAIN L.ctas
        BY <1>3, <2>1
      <3> DEFINE x == P.ctas[j]
                 y == ctas[j]
      <3>2. x.kernel = Geometry(y.kernel) /\ \A f \in DOMAIN y \ {"kernel"} : x[f] = y[f]
        BY <2>1, <2>2, <3>1
      <3>3. y.kernel = k /\ DOMAIN y = {"kernel", "off", "per", "kb0", "kb1", "col0", "limit", "split", "counter", "rows"}
        BY <1>3
      <3> HIDE DEF x, y
      <3>4. /\ x.kernel = Geometry(k) /\ x.per = y.per /\ x.off = y.off /\ x.kb0 = y.kb0 /\ x.kb1 = y.kb1
            /\ x.col0 = y.col0 /\ x.limit = y.limit /\ x.split = y.split /\ x.counter = y.counter
            /\ x.rows = y.rows
        BY <3>2, <3>3
      <3> QED
        BY <3>4 DEF x, y
    <2>5. ASSUME NEW j \in 1 .. tiles * splits
          PROVE  LET x == P.ctas[j]
                     n == (j - 1) \div splits
                     s == (j - 1) % splits
                 IN  /\ x.kernel = Geometry(k) /\ x.per = per
                     /\ x.off = sh.base + n * (IF k.raw THEN 64 * c.nb * per ELSE c.nb * per)
                     /\ x.kb0 = CeilPart(s, splits, c.nb)[1] /\ x.kb1 = CeilPart(s, splits, c.nb)[2]
                     /\ x.col0 = sh.col0 + 64 * n /\ x.limit = sh.col0 + sh.n /\ x.split = s /\ x.counter = n
                     /\ x.rows[1] = first /\ x.rows[2] = past
      <3> DEFINE x == P.ctas[j]
                 y == ctas[j]
                 n == (j - 1) \div splits
                 s == (j - 1) % splits
      <3>1. /\ x.kernel = Geometry(k) /\ x.per = y.per /\ x.off = y.off /\ x.kb0 = y.kb0 /\ x.kb1 = y.kb1
            /\ x.col0 = y.col0 /\ x.limit = y.limit /\ x.split = y.split /\ x.counter = y.counter
            /\ x.rows = y.rows
        BY <2>4
      <3>2. /\ y.per = per /\ y.off = sh.base + n * (IF k.raw THEN 64 * c.nb * per ELSE c.nb * per)
            /\ y.kb0 = CeilPart(s, splits, c.nb)[1] /\ y.kb1 = CeilPart(s, splits, c.nb)[2]
            /\ y.col0 = sh.col0 + 64 * n /\ y.limit = sh.col0 + sh.n /\ y.split = s /\ y.counter = n
            /\ y.rows[1] = first /\ y.rows[2] = past
        BY <1>3
      <3> HIDE DEF x, y, n, s
      <3>3. /\ x.kernel = Geometry(k) /\ x.per = per
            /\ x.off = sh.base + n * (IF k.raw THEN 64 * c.nb * per ELSE c.nb * per)
            /\ x.kb0 = CeilPart(s, splits, c.nb)[1] /\ x.kb1 = CeilPart(s, splits, c.nb)[2]
            /\ x.col0 = sh.col0 + 64 * n /\ x.limit = sh.col0 + sh.n /\ x.split = s /\ x.counter = n
            /\ x.rows[1] = first /\ x.rows[2] = past
        BY <3>1, <3>2
      <3> QED
        BY <3>3 DEF x, n, s
    <2> QED
      BY <2>3, <2>5
  <1> HIDE DEF P, L
  <1>5. ASSUME NEW j \in 1 .. tiles * splits
        PROVE  /\ (j - 1) \div splits \in 0 .. tiles - 1 /\ (j - 1) % splits \in 0 .. splits - 1
    <2> HIDE DEF tiles
    <2>1. tiles * splits \in Nat /\ j - 1 \in Nat
      BY <1>2
    <2>2. j - 1 < splits * ((tiles - 1) + 1)
      <3>1. splits * ((tiles - 1) + 1) = tiles * splits
        BY <1>2
      <3> DEFINE z == tiles * splits
      <3>2. z \in Nat /\ j \in 1 .. z
        BY <2>1
      <3> HIDE DEF z
      <3>3. j - 1 < z
        BY <3>2
      <3> QED
        BY <3>1, <3>3 DEF z
    <2>3. (j - 1) \div splits <= tiles - 1
      <3> DEFINE e == j - 1
                 t == tiles - 1
      <3>1. e \in Nat /\ t \in Nat /\ splits \in Nat \ {0} /\ e < splits * (t + 1)
        BY <1>2, <2>1, <2>2
      <3> HIDE DEF e, t
      <3>2. e \div splits <= t
        BY <3>1, DivAtMost
      <3> QED
        BY <3>2 DEF e, t
    <2>4. (j - 1) \div splits \in Nat
      BY <1>2, <2>1, DivBounds
    <2> QED
      BY <1>2, <2>1, <2>3, <2>4
  <1>6. ASSUME NEW j \in 1 .. tiles * splits
        PROVE  OnTile(c, P.ctas[j], i, (j - 1) \div splits)
    <2> DEFINE n == (j - 1) \div splits
               x == P.ctas[j]
    <2>1. n \in 0 .. tiles - 1 /\ n \in Nat
      BY <1>2, <1>5
    <2>2. /\ x.kernel = Geometry(k) /\ x.per = per
          /\ x.off = sh.base + n * (IF k.raw THEN 64 * c.nb * per ELSE c.nb * per)
          /\ x.col0 = sh.col0 + 64 * n /\ x.limit = sh.col0 + sh.n
      BY <1>4
    <2> HIDE DEF n, x
    <2>3. \A w \in Warp : 64 * n + 32 * w < sh.n <=> x.col0 + 32 * w < x.limit
      BY <1>1, <2>1, <2>2, HalvesInside
    <2>4. per = IF k.raw THEN Size[sh.type] ELSE TileWords(sh.type)
      OBVIOUS
    <2> HIDE DEF per
    <2>5. per \in Nat /\ n * (64 * c.nb * per) \in Nat
      <3>1. Size[sh.type] \in Nat
        <4>1. sh.type \in Types
          BY DEF PackedCall
        <4> QED
          BY <4>1 DEF Types, Size
      <3>2. ~k.raw => TileWords(sh.type) \in Nat
        <4>1. ~k.raw => sh.type \in DOMAIN RowBytes
          BY DEF PackedCall, TypesOf
        <4> QED
          BY <4>1, RowWords DEF TileWords
      <3> QED
        BY <1>1, <2>1, <2>4, <3>1, <3>2
    <2>6. IF c.op = "raw" THEN x.per = Size[sh.type] /\ x.off = n * (64 * c.nb * x.per)
          ELSE x.per = TileWords(sh.type) /\ x.off = sh.base + n * (c.nb * x.per)
      <3>1. CASE c.op = "raw"
        <4>1. k.raw = TRUE /\ sh.base = 0
          BY <1>1, <3>1
        <4>2. per = Size[sh.type] /\ x.off = 0 + n * (64 * c.nb * per)
          BY <2>2, <2>4, <4>1
        <4>3. x.off = n * (64 * c.nb * per)
          BY <2>5, <4>2
        <4> QED
          BY <2>2, <3>1, <4>2, <4>3
      <3>2. CASE c.op # "raw"
        <4>1. k.raw = FALSE
          BY <3>2
        <4>2. per = TileWords(sh.type) /\ x.off = sh.base + n * (c.nb * per)
          BY <2>2, <2>4, <4>1
        <4> QED
          BY <2>2, <3>2, <4>2
      <3> QED
        BY <3>1, <3>2
    <2>7. x.limit \in Int
      BY <1>1, <2>2
    <2>8. x.limit <= sh.col0 + sh.n
      BY <2>2, <2>7
    <2>9. /\ x.col0 = c.shards[i].col0 + 64 * n /\ x.limit <= c.shards[i].col0 + c.shards[i].n
          /\ \A w \in Warp : 64 * n + 32 * w < c.shards[i].n <=> x.col0 + 32 * w < x.limit
      BY <2>2, <2>3, <2>8, Zenon
    <2>10. n \in 0 .. Tiles(c.shards[i]) - 1 /\ RunsKernel(c, c.shards[i].type, x.kernel)
      <3>1. RunsKernel(c, c.shards[i].type, Geometry(k))
        BY Zenon
      <3> QED
        BY <1>2, <2>1, <2>2, <3>1
    <2>11. IF c.op = "raw" THEN x.per = Size[c.shards[i].type] /\ x.off = n * (64 * c.nb * x.per)
           ELSE x.per = TileWords(c.shards[i].type) /\ x.off = c.shards[i].base + n * (c.nb * x.per)
      BY <2>6, Zenon
    <2>12. OnTile(c, x, i, n)
      BY <2>7, <2>9, <2>10, <2>11, Zenon DEF OnTile
    <2> QED
      BY <2>12 DEF n, x
  <1>7. \E cut : Cuts(cut, splits, c.nb) /\ \A j \in DOMAIN P.ctas : OnSplit(c, P.ctas[j], cut, splits)
    <2>1. PICK cut : /\ Cuts(cut, splits, c.nb)
                     /\ \A s \in 0 .. splits - 1 :
                          LET part == CeilPart(s, splits, c.nb) IN RunOfSplit(part[1], part[2], cut, s, c.nb)
      BY <1>1, <1>2, CeilCuts
    <2>2. ASSUME NEW j \in DOMAIN P.ctas PROVE OnSplit(c, P.ctas[j], cut, splits)
      <3> DEFINE s == (j - 1) % splits
      <3>1. j \in 1 .. tiles * splits
        BY <1>4
      <3>2. s \in 0 .. splits - 1
        BY <1>5, <3>1
      <3>3. P.ctas[j].kb0 = CeilPart(s, splits, c.nb)[1] /\ P.ctas[j].kb1 = CeilPart(s, splits, c.nb)[2] /\ P.ctas[j].split = s
        BY <1>4, <3>1
      <3> HIDE DEF s
      <3> QED
        BY <2>1, <3>2, <3>3 DEF OnSplit
    <2> QED
      BY <2>1, <2>2
  <1>8. ASSUME NEW n \in 0 .. tiles - 1, NEW s \in 0 .. splits - 1
        PROVE  LET j == n * splits + s + 1
               IN  j \in 1 .. tiles * splits /\ (j - 1) \div splits = n /\ (j - 1) % splits = s
    <2> HIDE DEF tiles
    <2>1. n \in Nat /\ s \in Nat /\ n * splits \in Nat /\ splits * n = n * splits
      BY <1>2
    <2>2. n * splits + splits <= tiles * splits
      <3>1. splits * (n + 1) <= splits * tiles
        BY <1>2, <2>1, TimesLeq
      <3>2. splits * (n + 1) = n * splits + splits /\ splits * tiles = tiles * splits
        BY <1>2, <2>1
      <3> QED
        BY <3>1, <3>2
    <2> DEFINE a == n * splits + s
    <2>3. a \in Nat /\ splits * n <= a /\ a < splits * (n + 1)
      <3>1. splits * (n + 1) = n * splits + splits
        BY <1>2, <2>1
      <3> QED
        BY <1>2, <2>1, <3>1
    <2>4. a \div splits = n
      <3> HIDE DEF a
      <3>1. a \div splits <= n /\ n <= a \div splits
        BY <1>2, <2>1, <2>3, DivAtMost, DivAtLeast
      <3> QED
        BY <1>2, <2>1, <2>3, <3>1, DivBounds
    <2>5. a % splits = s
      <3> DEFINE q == a \div splits
      <3>1. a = splits * q + (a % splits) /\ a % splits \in 0 .. splits - 1
        <4> HIDE DEF a
        <4> QED
          BY <1>2, <2>3
      <3>2. q = n
        BY <2>4
      <3> HIDE DEF q
      <3>3. a = splits * n + (a % splits)
        BY <3>1, <3>2
      <3>4. a = splits * n + s
        BY <2>1
      <3> DEFINE z == splits * n
                 r == a % splits
      <3>5. a = z + r /\ a = z + s /\ z \in Nat /\ r \in 0 .. splits - 1
        BY <2>1, <3>1, <3>3, <3>4
      <3> HIDE DEF z, r, a
      <3>6. r = s
        BY <1>2, <2>1, <3>5
      <3> QED
        BY <3>6 DEF r
    <2>6. (n * splits + s + 1) - 1 = a /\ n * splits + s + 1 \in 1 .. tiles * splits
      <3> DEFINE z == n * splits
                 y == tiles * splits
      <3>1. z \in Nat /\ y \in Nat /\ z + splits <= y
        BY <1>2, <2>1, <2>2
      <3> HIDE DEF z, y
      <3>2. (z + s + 1) - 1 = z + s /\ z + s + 1 \in 1 .. y
        BY <1>2, <2>1, <3>1
      <3> QED
        BY <3>2 DEF z, y
    <2> HIDE DEF a
    <2> QED
      BY <2>4, <2>5, <2>6
  <1>9. ASSUME NEW n \in 0 .. tiles - 1, NEW s \in 0 .. splits - 1, NEW u \in Nat, first <= 16 * u, 16 * u < past
        PROVE  \E j \in DOMAIN P.ctas : /\ OnTile(c, P.ctas[j], i, n) /\ P.ctas[j].split = s
                                        /\ P.ctas[j].rows[1] <= 16 * u /\ 16 * u < P.ctas[j].rows[2]
    <2> DEFINE j == n * splits + s + 1
    <2>1. j \in 1 .. tiles * splits /\ (j - 1) \div splits = n /\ (j - 1) % splits = s
      BY <1>8
    <2> HIDE DEF j
    <2>2. OnTile(c, P.ctas[j], i, n)
      BY <1>6, <2>1
    <2> QED
      BY <1>4, <1>9, <2>1, <2>2
  <1>10. ASSUME NEW j \in DOMAIN P.ctas
         PROVE  OnRows(P.ctas[j], first, past) /\ \E n \in Nat : OnTile(c, P.ctas[j], i, n)
    <2>1. OnTile(c, P.ctas[j], i, (j - 1) \div splits) /\ (j - 1) \div splits \in Nat
      BY <1>2, <1>4, <1>5, <1>6
    <2>2. OnRows(P.ctas[j], first, past)
      <3>1. P.ctas[j].rows[1] = first /\ P.ctas[j].rows[2] = past
        BY <1>4
      <3>2. first \in first .. past - 1 /\ past \in first + 1 .. past
        BY <1>1
      <3> QED
        BY <3>1, <3>2 DEF OnRows
    <2> QED
      BY <2>1, <2>2
  <1>11. Len(P.ctas) \in Nat \ {0} /\ DOMAIN P.ctas = 1 .. Len(P.ctas)
    <2>1. tiles * splits \in Nat \ {0}
      BY <1>2
    <2>2. P.ctas \in Seq({P.ctas[j] : j \in DOMAIN P.ctas}) /\ Len(P.ctas) = tiles * splits
      <3>1. P.ctas = [j \in 1 .. tiles * splits |-> P.ctas[j]]
        <4>1. /\ {"ctas", "splits", "reduce"} \subseteq DOMAIN L /\ \A j \in DOMAIN L.ctas : "kernel" \in DOMAIN L.ctas[j]
              /\ DOMAIN L.ctas = 1 .. tiles * splits
          BY <1>3 DEF L
        <4>2. P.ctas = [j \in DOMAIN L.ctas |-> P.ctas[j]]
          BY <4>1, PlainKeeps DEF P
        <4> QED
          BY <4>1, <4>2
      <3> DEFINE q == P.ctas
                 m == tiles * splits
      <3>2. q = [j \in 1 .. m |-> q[j]] /\ m \in Nat
        BY <2>1, <3>1
      <3> HIDE DEF q, m
      <3>3. q \in Seq({q[j] : j \in DOMAIN q}) /\ Len(q) = m
        BY <3>2
      <3> QED
        BY <3>3 DEF q, m
    <2> QED
      BY <1>4, <2>1, <2>2
  <1>12. reduce => splits # 1 /\ GridOf(c, P, i, first, past)
    <2>1. ASSUME NEW j \in DOMAIN P.ctas, NEW x, x = P.ctas[j]
          PROVE  /\ x.counter = (j - 1) \div splits /\ x.split = (j - 1) % splits
                 /\ x.col0 = c.shards[i].col0 + 64 * x.counter /\ x.limit = c.shards[i].col0 + c.shards[i].n
                 /\ x.rows[1] = first /\ x.rows[2] = past
      <3> DEFINE n == (j - 1) \div splits
                 s == (j - 1) % splits
      <3>1. /\ x.col0 = sh.col0 + 64 * n /\ x.limit = sh.col0 + sh.n /\ x.split = s /\ x.counter = n
            /\ x.rows[1] = first /\ x.rows[2] = past
        BY <1>4, <2>1
      <3> HIDE DEF n, s
      <3>2. x.col0 = c.shards[i].col0 + 64 * x.counter /\ x.limit = c.shards[i].col0 + c.shards[i].n
        BY <3>1
      <3> QED
        BY <3>1, <3>2 DEF n, s
    <2>2. /\ Tiles(c.shards[i]) = tiles /\ P.splits = splits /\ DOMAIN P.ctas = 1 .. Tiles(c.shards[i]) * P.splits
          /\ reduce => Tiles(c.shards[i]) <= Counters
      BY <1>2, <1>4
    <2> HIDE DEF tiles
    <2>3. \A j \in DOMAIN P.ctas :
             LET x == P.ctas[j] IN
             /\ x.counter = (j - 1) \div P.splits /\ x.split = (j - 1) % P.splits
             /\ x.col0 = c.shards[i].col0 + 64 * x.counter /\ x.limit = c.shards[i].col0 + c.shards[i].n
             /\ x.rows[1] = first /\ x.rows[2] = past
      BY <2>1, <2>2
    <2> QED
      BY <2>2, <2>3, Zenon DEF GridOf
  <1>13. /\ {i} \in SUBSET (DOMAIN c.shards) /\ P.splits \in 1 .. c.nb /\ P.reduce \in BOOLEAN /\ P.splits = splits
         /\ P.reduce = reduce
    BY <1>4
  <1> HIDE DEF tiles
  <1>14. Spans(c, P, {i}, first, past)
    <2>1. \A m \in {i} : \A n \in 0 .. Tiles(c.shards[m]) - 1, s \in 0 .. P.splits - 1, u \in Nat :
          first <= 16 * u /\ 16 * u < past =>
             \E j \in DOMAIN P.ctas : /\ OnTile(c, P.ctas[j], m, n) /\ P.ctas[j].split = s
                                      /\ P.ctas[j].rows[1] <= 16 * u /\ 16 * u < P.ctas[j].rows[2]
      BY <1>2, <1>9, <1>13
    <2>2. P.reduce => P.splits # 1 /\ \E m \in {i} : GridOf(c, P, m, first, past)
      BY <1>12, <1>13
    <2>3. \A j \in DOMAIN P.ctas : OnRows(P.ctas[j], first, past) /\ \E m \in {i} : \E n \in Nat : OnTile(c, P.ctas[j], m, n)
      BY <1>10
    <2>4. \E cut : Cuts(cut, P.splits, c.nb) /\ \A j \in DOMAIN P.ctas : OnSplit(c, P.ctas[j], cut, P.splits)
      BY <1>7, <1>13
    <2> QED
      BY <1>11, <1>13, <2>1, <2>2, <2>3, <2>4 DEF Spans
  <1> QED
    BY <1>14 DEF P, L, ctas

\* The quotient and the remainder of a number written to a base.
LEMMA QuotientOf ==
    ASSUME NEW b \in Nat \ {0}, NEW q \in Nat, NEW r \in 0 .. b - 1
    PROVE  (b * q + r) \div b = q /\ (b * q + r) % b = r /\ b * q + r \in Nat
  <1> DEFINE a == b * q + r
             z == b * q
  <1>1. z \in Nat /\ b * (q + 1) = z + b
    OBVIOUS
  <1>2. a \in Nat /\ z <= a /\ a < z + b /\ a = z + r
    <2> HIDE DEF z
    <2>1. z + r \in Nat /\ z <= z + r /\ z + r < z + b
      BY <1>1
    <2> QED
      BY <2>1 DEF z
  <1> HIDE DEF a
  <1>3. a \div b <= q
    BY <1>1, <1>2, DivAtMost
  <1>4. q <= a \div b
    BY <1>2, DivAtLeast DEF z
  <1>5. a \div b = q
    BY <1>2, <1>3, <1>4, DivBounds
  <1>6. a = b * (a \div b) + (a % b) /\ a % b \in 0 .. b - 1
    BY <1>2
  <1>7. a = z + (a % b)
    BY <1>5, <1>6 DEF z
  <1>8. a % b = r
    <2> DEFINE t == a % b
    <2>1. a = z + t /\ t \in 0 .. b - 1
      BY <1>6, <1>7
    <2> HIDE DEF t, z
    <2>2. t = r
      BY <1>1, <1>2, <2>1
    <2> QED
      BY <2>2 DEF t
  <1> QED
    BY <1>2, <1>5, <1>8 DEF a

\* A number below a product: its quotient is below the other factor.
LEMMA QuotientBelow ==
    ASSUME NEW b \in Nat \ {0}, NEW m \in Nat, NEW a \in Nat, a < m * b
    PROVE  a \div b \in 0 .. m - 1 /\ a % b \in 0 .. b - 1
  <1>1. m # 0
    OBVIOUS
  <1>2. m - 1 \in Nat /\ b * ((m - 1) + 1) = m * b
    BY <1>1
  <1>3. a \div b <= m - 1
    BY <1>2, DivAtMost
  <1> QED
    BY <1>2, <1>3, DivBounds

\* A number written to a base lies below the product.
LEMMA WrittenBelow ==
    ASSUME NEW b \in Nat \ {0}, NEW m \in Nat, NEW q \in 0 .. m - 1, NEW r \in 0 .. b - 1
    PROVE  b * q + r < m * b
  <1>1. b * (q + 1) <= b * m
    BY TimesLeq
  <1>2. b * (q + 1) = b * q + b /\ b * m = m * b /\ b * q \in Nat
    OBVIOUS
  <1> DEFINE z == b * q
             y == m * b
  <1>3. z + b <= y /\ z \in Nat /\ y \in Nat
    BY <1>1, <1>2
  <1> HIDE DEF z, y
  <1>4. z + r < y
    BY <1>3
  <1> QED
    BY <1>4 DEF z, y

\* A CTA whose row of the descriptors names tile n of shard i.
LEMMA DescribedTile ==
    ASSUME NEW c, PackedCall(c), c.op # "raw", NEW i \in DOMAIN c.shards, NEW n \in 0 .. Tiles(c.shards[i]) - 1,
           NEW x, RunsKernel(c, c.shards[i].type, x.kernel), x.per = TileWords(c.shards[i].type),
           x.off = c.shards[i].base + n * c.nb * TileWords(c.shards[i].type),
           x.col0 = c.shards[i].col0 + 64 * n,
           x.limit = c.shards[i].col0 + 64 * n + Min({64, c.shards[i].n - 64 * n})
    PROVE  OnTile(c, x, i, n)
  <1> DEFINE sh == c.shards[i]
  <1>1. sh.n \in Nat \ {0} /\ sh.col0 \in Nat /\ sh.base \in Nat /\ c.nb \in Nat /\ sh.type \in DOMAIN RowBytes
    BY DEF PackedCall, TypesOf
  <1>2. Tiles(sh) \in Nat \ {0}
    BY <1>1, TilesWhole
  <1>3. n \in Nat /\ TileWords(sh.type) \in Nat
    BY <1>1, <1>2, RowWords DEF TileWords
  <1>4. n * c.nb * TileWords(sh.type) = n * (c.nb * TileWords(sh.type))
    <2> DEFINE t == TileWords(sh.type)
               b == c.nb
    <2>1. t \in Nat /\ b \in Nat
      BY <1>1, <1>3
    <2> HIDE DEF t, b
    <2>2. n * b * t = n * (b * t)
      BY <1>3, <2>1
    <2> QED
      BY <2>2 DEF t, b
  <1>5. \A w \in Warp : 64 * n + 32 * w < sh.n <=> x.col0 + 32 * w < x.limit
    BY <1>1, HalvesInside
  <1>6. x.limit \in Int /\ x.limit <= sh.col0 + sh.n
    <2> DEFINE a == sh.col0
               b == sh.n
    <2>1. a \in Nat /\ b \in Nat /\ b - 64 * n \in Int /\ x.limit = a + 64 * n + Min({64, b - 64 * n})
      BY <1>1, <1>3
    <2>2. Min({64, b - 64 * n}) = IF 64 <= b - 64 * n THEN 64 ELSE b - 64 * n
      BY <2>1, LesserOfTwo
    <2> HIDE DEF a, b
    <2>3. x.limit \in Int /\ x.limit <= a + b
      BY <1>3, <2>1, <2>2
    <2> QED
      BY <2>3 DEF a, b
  <1>7. x.off = sh.base + n * (c.nb * x.per)
    BY <1>4
  <1> QED
    BY <1>5, <1>6, <1>7, Zenon DEF OnTile

\* The row blocks of a launch: block b of bm rows, and the block a unit lies in.
BlockSizes == {16, 32, 64, 128}
RowSpan(first, past) == first \in Nat /\ first % 16 = 0 /\ past \in Nat /\ first < past
Blocks(bm, first, past) == CeilDiv(past - first, bm)
BlockAt(bm, first, past, b) == <<first + bm * b, Min({first + bm * b + bm, past})>>
RowsWithin(rows, first, past) ==
    rows[1] \in first .. past - 1 /\ rows[2] \in rows[1] + 1 .. past /\ rows[1] % 16 = 0
HoldsUnit(rows, u) == rows[1] <= 16 * u /\ 16 * u < rows[2]

\* A launch has at least one row block.
LEMMA BlockCount ==
    ASSUME NEW bm \in {16, 32, 64, 128}, NEW d \in Nat \ {0}
    PROVE  CeilDiv(d, bm) \in Nat \ {0}
  BY DEF CeilDiv

\* A row block is one of the launch exactly when it begins inside its rows.
LEMMA BlockBelow ==
    ASSUME NEW bm \in {16, 32, 64, 128}, NEW d \in Nat \ {0}, NEW b \in Nat
    PROVE  b < CeilDiv(d, bm) <=> bm * b < d
  BY DEF CeilDiv

\* Row blocks lie in the rows of the launch and begin a unit.
LEMMA BlockWithin ==
    ASSUME NEW bm \in BlockSizes, NEW first, NEW past, RowSpan(first, past), NEW b \in 0 .. Blocks(bm, first, past) - 1
    PROVE  RowsWithin(BlockAt(bm, first, past, b), first, past)
  <1> USE DEF BlockSizes, RowSpan, Blocks
  <1> DEFINE start == first + bm * b
  <1>0. past - first \in Nat \ {0}
    OBVIOUS
  <1>1. b \in Nat /\ bm * b < past - first /\ bm * b \in Nat
    <2> DEFINE d == past - first
               n == CeilDiv(d, bm)
    <2>1. n \in Nat \ {0}
      BY <1>0, BlockCount
    <2>2. b \in Nat /\ b < n
      <3> HIDE DEF n
      <3>1. b \in 0 .. n - 1
        BY DEF n
      <3> QED
        BY <2>1, <3>1
    <2>3. bm * b < d
      BY <1>0, <2>2, BlockBelow
    <2> QED
      BY <2>2, <2>3
  <1>2. start % 16 = 0
    BY <1>1
  <1>3. start \in first .. past - 1 /\ start + bm \in Int
    BY <1>1
  <1> HIDE DEF start
  <1>4. Min({start + bm, past}) = IF start + bm <= past THEN start + bm ELSE past
    BY <1>3, LesserOfTwo
  <1>5. Min({start + bm, past}) \in start + 1 .. past
    BY <1>3, <1>4
  <1> QED
    BY <1>2, <1>3, <1>5 DEF start, BlockAt, RowsWithin

\* Every unit of the rows lies in a row block.
LEMMA BlockOfUnit ==
    ASSUME NEW bm \in BlockSizes, NEW first, NEW past, RowSpan(first, past), NEW u \in Nat, HoldsUnit(<<first, past>>, u)
    PROVE  \E b \in 0 .. Blocks(bm, first, past) - 1 : HoldsUnit(BlockAt(bm, first, past, b), u)
  <1> USE DEF BlockSizes, RowSpan, Blocks, HoldsUnit
  <1> DEFINE b == (16 * u - first) \div bm
             start == first + bm * b
  <1>0. past - first \in Nat \ {0}
    OBVIOUS
  <1>1. b \in Nat /\ bm * b <= 16 * u - first /\ 16 * u - first < bm * b + bm
    OBVIOUS
  <1> HIDE DEF b
  <1>2. b \in 0 .. CeilDiv(past - first, bm) - 1
    <2>1. bm * b < past - first
      BY <1>1
    <2> DEFINE n == CeilDiv(past - first, bm)
    <2>2. n \in Nat /\ b < n
      <3>1. n \in Nat
        BY <1>0, BlockCount
      <3>2. b < n
        BY <1>0, <1>1, <2>1, BlockBelow
      <3> QED
        BY <3>1, <3>2
    <2> HIDE DEF n
    <2>3. b \in 0 .. n - 1
      BY <1>1, <2>2
    <2> QED
      BY <2>3 DEF n
  <1>3. start <= 16 * u /\ 16 * u < start + bm /\ start + bm \in Int
    BY <1>1
  <1> HIDE DEF start
  <1>4. Min({start + bm, past}) = IF start + bm <= past THEN start + bm ELSE past
    BY <1>3, LesserOfTwo
  <1>5. start <= 16 * u /\ 16 * u < Min({start + bm, past})
    BY <1>3, <1>4
  <1> QED
    BY <1>2, <1>5 DEF start, BlockAt

\* The descriptors' rows of one shard.
Described(shards, nb, splits, rows, kernelOf, a) ==
    LET sh == shards[a]
        kernel == kernelOf[sh.type]
        blocks == CeilDiv(rows[2] - rows[1], kernel.bm)
    IN  [c \in 1 .. Tiles(sh) * splits * blocks |->
            LET n == (c - 1) \div (splits * blocks)
                s == ((c - 1) \div blocks) % splits
                r0 == rows[1] + kernel.bm * ((c - 1) % blocks)
                part == BalancedPart(s, splits, nb)
            IN  [kernel |-> kernel, off |-> sh.base + n * nb * TileWords(sh.type), per |-> TileWords(sh.type),
                 kb0 |-> part[1], kb1 |-> part[2], col0 |-> sh.col0 + 64 * n,
                 limit |-> sh.col0 + 64 * n + Min({64, sh.n - 64 * n}), split |-> s, counter |-> None,
                 rows |-> <<r0, Min({r0 + kernel.bm, rows[2]})>>]]

\* A launch of descriptors over shards `at' of the call.
Describes(c, shards, at, kernelOf, splits, first, past) ==
    /\ c.op # "raw"
    /\ Len(shards) \in Nat \ {0} /\ DOMAIN shards = 1 .. Len(shards)
    /\ at \in [1 .. Len(shards) -> DOMAIN c.shards]
    /\ \A a \in 1 .. Len(shards) :
          /\ shards[a].type = c.shards[at[a]].type /\ shards[a].n = c.shards[at[a]].n
          /\ shards[a].col0 = c.shards[at[a]].col0 /\ shards[a].base = c.shards[at[a]].base
          /\ kernelOf[shards[a].type].bm \in BlockSizes
          /\ RunsKernel(c, shards[a].type, Geometry(kernelOf[shards[a].type]))
    /\ splits \in 1 .. c.nb /\ first \in Nat /\ first % 16 = 0 /\ past \in first + 1 .. c.m

\* CTA x takes tile n of shard at[a], split s and row block b.
Takes(c, shards, at, kernelOf, splits, first, past, x, a, n, s, b) ==
    LET sh == c.shards[at[a]]
        kernel == kernelOf[sh.type]
        rows == BlockAt(kernel.bm, first, past, b)
    IN  /\ x.kernel = kernel /\ x.per = TileWords(sh.type) /\ x.off = sh.base + n * c.nb * TileWords(sh.type)
        /\ x.kb0 = BalancedPart(s, splits, c.nb)[1] /\ x.kb1 = BalancedPart(s, splits, c.nb)[2]
        /\ x.col0 = sh.col0 + 64 * n /\ x.limit = sh.col0 + 64 * n + Min({64, sh.n - 64 * n})
        /\ x.split = s /\ x.rows[1] = rows[1] /\ x.rows[2] = rows[2]

CtaFields == {"kernel", "off", "per", "kb0", "kb1", "col0", "limit", "split", "counter", "rows"}

\* The CTAs described for a shard: tile by tile, split by split, row block by row block.
LEMMA DescribedCtas ==
    ASSUME NEW c, PackedCall(c), NEW shards, NEW at, NEW kernelOf, NEW splits, NEW first, NEW past,
           Describes(c, shards, at, kernelOf, splits, first, past), NEW a \in 1 .. Len(shards)
    PROVE  LET ss == Described(shards, c.nb, splits, <<first, past>>, kernelOf, a)
               tiles == Tiles(c.shards[at[a]])
               blocks == Blocks(kernelOf[shards[a].type].bm, first, past)
           IN  /\ ss \in Seq({ss[q] : q \in DOMAIN ss}) /\ Len(ss) \in Nat \ {0} /\ DOMAIN ss = 1 .. Len(ss)
               /\ \A q \in 1 .. Len(ss) :
                     /\ DOMAIN ss[q] = CtaFields
                     /\ \E n \in 0 .. tiles - 1, s \in 0 .. splits - 1, b \in 0 .. blocks - 1 :
                           Takes(c, shards, at, kernelOf, splits, first, past, ss[q], a, n, s, b)
               /\ \A n \in 0 .. tiles - 1, s \in 0 .. splits - 1, b \in 0 .. blocks - 1 :
                     \E q \in 1 .. Len(ss) : Takes(c, shards, at, kernelOf, splits, first, past, ss[q], a, n, s, b)
  <1> DEFINE ss == Described(shards, c.nb, splits, <<first, past>>, kernelOf, a)
             sh == shards[a]
             kernel == kernelOf[sh.type]
             tiles == Tiles(sh)
             blocks == Blocks(kernel.bm, first, past)
             own == c.shards[at[a]]
             T(x, n, s, b) == Takes(c, shards, at, kernelOf, splits, first, past, x, a, n, s, b)
  <1>1. /\ sh.type = own.type /\ sh.n = own.n /\ sh.col0 = own.col0 /\ sh.base = own.base /\ kernel.bm \in BlockSizes
        /\ at[a] \in DOMAIN c.shards
    BY DEF Describes
  <1>2. c.nb \in Nat \ {0} /\ c.m \in Nat /\ own.n \in Nat \ {0}
    BY <1>1 DEF PackedCall
  <1>3. splits \in Nat \ {0} /\ first \in Nat /\ first % 16 = 0 /\ past \in Nat /\ first < past
    BY <1>2 DEF Describes
  <1>4. tiles \in Nat \ {0} /\ Tiles(own) = tiles
    <2>1. Tiles(own) = tiles
      BY <1>1 DEF Tiles
    <2> QED
      BY <1>2, <2>1, TilesWhole
  <1>5. blocks \in Nat \ {0}
    <2>1. past - first \in Nat \ {0}
      BY <1>3
    <2> QED
      BY <1>1, <2>1, BlockCount DEF BlockSizes, Blocks
  <1>6. /\ DOMAIN ss = 1 .. tiles * splits * blocks
        /\ \A q \in DOMAIN ss :
              LET n == (q - 1) \div (splits * blocks)
                  s == ((q - 1) \div blocks) % splits
                  b == (q - 1) % blocks
                  x == ss[q]
              IN  /\ DOMAIN x = CtaFields
                  /\ x.kernel = kernel /\ x.per = TileWords(sh.type) /\ x.off = sh.base + n * c.nb * TileWords(sh.type)
                  /\ x.kb0 = BalancedPart(s, splits, c.nb)[1] /\ x.kb1 = BalancedPart(s, splits, c.nb)[2]
                  /\ x.col0 = sh.col0 + 64 * n /\ x.limit = sh.col0 + 64 * n + Min({64, sh.n - 64 * n})
                  /\ x.split = s /\ x.rows[1] = BlockAt(kernel.bm, first, past, b)[1] /\ x.rows[2] = BlockAt(kernel.bm, first, past, b)[2]
    BY DEF Described, CtaFields, Blocks, BlockAt
  <1>7. ss = [q \in 1 .. tiles * splits * blocks |-> ss[q]]
    BY DEF Described, Blocks
  <1> HIDE DEF ss, T
  <1>8. \A q \in DOMAIN ss : T(ss[q], (q - 1) \div (splits * blocks), ((q - 1) \div blocks) % splits, (q - 1) % blocks)
    <2> SUFFICES ASSUME NEW q \in DOMAIN ss
                 PROVE  T(ss[q], (q - 1) \div (splits * blocks), ((q - 1) \div blocks) % splits, (q - 1) % blocks)
      OBVIOUS
    <2> DEFINE n == (q - 1) \div (splits * blocks)
               s == ((q - 1) \div blocks) % splits
               b == (q - 1) % blocks
               x == ss[q]
    <2>1. /\ x.kernel = kernel /\ x.per = TileWords(sh.type) /\ x.off = sh.base + n * c.nb * TileWords(sh.type)
          /\ x.kb0 = BalancedPart(s, splits, c.nb)[1] /\ x.kb1 = BalancedPart(s, splits, c.nb)[2]
          /\ x.col0 = sh.col0 + 64 * n /\ x.limit = sh.col0 + 64 * n + Min({64, sh.n - 64 * n})
          /\ x.split = s /\ x.rows[1] = BlockAt(kernel.bm, first, past, b)[1] /\ x.rows[2] = BlockAt(kernel.bm, first, past, b)[2]
      BY <1>6
    <2> HIDE DEF n, s, b, x, blocks
    <2>2. /\ x.kernel = kernelOf[own.type] /\ x.per = TileWords(own.type) /\ x.off = own.base + n * c.nb * TileWords(own.type)
          /\ x.kb0 = BalancedPart(s, splits, c.nb)[1] /\ x.kb1 = BalancedPart(s, splits, c.nb)[2]
          /\ x.col0 = own.col0 + 64 * n /\ x.limit = own.col0 + 64 * n + Min({64, own.n - 64 * n})
          /\ x.split = s /\ x.rows[1] = BlockAt(kernelOf[own.type].bm, first, past, b)[1]
          /\ x.rows[2] = BlockAt(kernelOf[own.type].bm, first, past, b)[2]
      BY <1>1, <2>1, Zenon
    <2>3. T(x, n, s, b)
      BY <2>2, Zenon DEF T, Takes
    <2> QED
      BY <2>3 DEF x, n, s, b
  <1> HIDE DEF tiles, blocks, kernel, sh
  <1> DEFINE m == splits * blocks
             all == tiles * splits * blocks
  <1>9. m \in Nat \ {0} /\ all = tiles * m /\ all \in Nat \ {0} /\ m = blocks * splits
    <2>1. splits * blocks \in Nat \ {0} /\ tiles * splits * blocks = tiles * (splits * blocks) /\ splits * blocks = blocks * splits
      BY <1>3, <1>4, <1>5
    <2>2. tiles * m \in Nat \ {0}
      <3> HIDE DEF m
      <3>1. m \in Nat \ {0}
        BY <2>1 DEF m
      <3> QED
        BY <1>4, <3>1
    <2> QED
      BY <2>1, <2>2
  <1>10. Len(ss) = all /\ ss \in Seq({ss[q] : q \in DOMAIN ss}) /\ DOMAIN ss = 1 .. all
    <2>1. ss = [q \in 1 .. all |-> ss[q]] /\ all \in Nat
      BY <1>7, <1>9
    <2> HIDE DEF all
    <2> QED
      BY <2>1
  <1> HIDE DEF m, all
  <1>11. ASSUME NEW q \in 1 .. all
         PROVE  /\ (q - 1) \div m \in 0 .. tiles - 1 /\ ((q - 1) \div blocks) % splits \in 0 .. splits - 1
                /\ (q - 1) % blocks \in 0 .. blocks - 1
    <2>1. q - 1 \in Nat /\ q - 1 < tiles * m
      BY <1>9
    <2>2. (q - 1) \div m \in 0 .. tiles - 1
      BY <1>4, <1>9, <2>1, QuotientBelow
    <2>3. (q - 1) \div blocks \in Nat
      BY <1>5, <2>1, DivBounds
    <2>4. ((q - 1) \div blocks) % splits \in 0 .. splits - 1
      BY <1>3, <2>3
    <2>5. (q - 1) % blocks \in 0 .. blocks - 1
      BY <1>5, <2>1
    <2> QED
      BY <2>2, <2>4, <2>5
  <1>12. ASSUME NEW q \in 1 .. Len(ss)
         PROVE  /\ DOMAIN ss[q] = CtaFields
                /\ \E n \in 0 .. tiles - 1, s \in 0 .. splits - 1, b \in 0 .. blocks - 1 : T(ss[q], n, s, b)
    <2>1. DOMAIN ss[q] = CtaFields
      BY <1>6, <1>10
    <2>2. T(ss[q], (q - 1) \div m, ((q - 1) \div blocks) % splits, (q - 1) % blocks)
      BY <1>8, <1>10 DEF m
    <2> QED
      BY <1>10, <1>11, <2>1, <2>2
  <1>13. ASSUME NEW n \in 0 .. tiles - 1, NEW s \in 0 .. splits - 1, NEW b \in 0 .. blocks - 1
         PROVE  \E q \in 1 .. Len(ss) : T(ss[q], n, s, b)
    <2> DEFINE e == blocks * s + b
               d == m * n + e
               q == d + 1
    <2>1. n \in Nat /\ s \in Nat /\ b \in Nat
      BY <1>3, <1>4, <1>5
    <2>2. e \div blocks = s /\ e % blocks = b /\ e \in Nat
      BY <1>5, <2>1, QuotientOf
    <2>3. e < m
      <3>1. blocks * s + b < splits * blocks
        BY <1>3, <1>5, WrittenBelow
      <3> QED
        BY <3>1 DEF m
    <2> HIDE DEF e
    <2>4. e \in 0 .. m - 1
      BY <1>9, <2>2, <2>3
    <2>5. d \div m = n /\ d \in Nat /\ d < all
      <3>1. m * n + e < tiles * m
        BY <1>4, <1>9, <2>4, WrittenBelow
      <3> QED
        BY <1>9, <2>1, <2>4, <3>1, QuotientOf
    <2>6. d \div blocks = splits * n + s /\ d % blocks = b
      <3>1. d = blocks * (splits * n + s) + b
        <4>1. (blocks * splits) * n + (blocks * s + b) = blocks * (splits * n + s) + b
          BY <1>3, <1>5, <2>1
        <4> QED
          BY <1>9, <4>1 DEF e
      <3>2. splits * n + s \in Nat
        BY <1>3, <2>1
      <3> HIDE DEF d
      <3> QED
        BY <1>5, <3>1, <3>2, QuotientOf
    <2>7. (d \div blocks) % splits = s
      BY <1>3, <2>1, <2>6, QuotientOf
    <2> HIDE DEF d
    <2>8. q \in 1 .. all /\ q - 1 = d
      BY <1>9, <2>5
    <2> HIDE DEF q
    <2>9. T(ss[q], (q - 1) \div m, ((q - 1) \div blocks) % splits, (q - 1) % blocks)
      BY <1>8, <1>10, <2>8 DEF m
    <2> QED
      BY <1>10, <2>5, <2>6, <2>7, <2>8, <2>9
  <1>14. Len(ss) \in Nat \ {0} /\ DOMAIN ss = 1 .. Len(ss)
    BY <1>9, <1>10
  <1> QED
    BY <1>4, <1>10, <1>12, <1>13, <1>14 DEF ss, T, blocks, kernel, sh

\* The descriptors of a layer are those of its shards, one shard behind the other.
LEMMA DescriptorsAre ==
    ASSUME NEW shards, NEW nb, NEW splits, NEW rows, NEW kernelOf
    PROVE  descriptors(shards, nb, splits, rows, kernelOf)
             = FlattenSeq([a \in DOMAIN shards |-> Described(shards, nb, splits, rows, kernelOf, a)])
  BY DEF descriptors, Described

\* A launch of descriptors.
LEMMA DescriptorsSpan ==
    ASSUME NEW c, PackedCall(c), NEW shards, NEW at, NEW kernelOf, NEW splits, NEW first, NEW past,
           Describes(c, shards, at, kernelOf, splits, first, past)
    PROVE  Spans(c, Plain([ctas |-> descriptors(shards, c.nb, splits, <<first, past>>, kernelOf),
                           splits |-> splits, reduce |-> FALSE]),
                 {at[a] : a \in 1 .. Len(shards)}, first, past)
  <1> DEFINE ss == [a \in DOMAIN shards |-> Described(shards, c.nb, splits, <<first, past>>, kernelOf, a)]
             flat == descriptors(shards, c.nb, splits, <<first, past>>, kernelOf)
             L == [ctas |-> flat, splits |-> splits, reduce |-> FALSE]
             P == Plain(L)
             len == Len(shards)
             S == {at[a] : a \in 1 .. len}
             tiles(a) == Tiles(c.shards[at[a]])
             blocks(a) == Blocks(kernelOf[shards[a].type].bm, first, past)
             T(x, a, n, s, b) == Takes(c, shards, at, kernelOf, splits, first, past, x, a, n, s, b)
             U == UNION {{ss[a][q] : q \in DOMAIN ss[a]} : a \in 1 .. len}
  <1>1. /\ len \in Nat \ {0} /\ DOMAIN shards = 1 .. len /\ at \in [1 .. len -> DOMAIN c.shards] /\ c.op # "raw"
        /\ splits \in 1 .. c.nb /\ first \in Nat /\ first % 16 = 0 /\ past \in first + 1 .. c.m
    BY DEF Describes
  <1>2. c.nb \in Nat \ {0} /\ c.m \in Nat \ {0}
    BY DEF PackedCall
  <1>3. splits \in Nat \ {0} /\ past \in Nat /\ first < past
    BY <1>1, <1>2
  <1>4. ASSUME NEW a \in 1 .. len
        PROVE  /\ ss[a] \in Seq({ss[a][q] : q \in DOMAIN ss[a]}) /\ Len(ss[a]) \in Nat \ {0} /\ DOMAIN ss[a] = 1 .. Len(ss[a])
               /\ \A q \in 1 .. Len(ss[a]) :
                     /\ DOMAIN ss[a][q] = CtaFields
                     /\ \E n \in 0 .. tiles(a) - 1, s \in 0 .. splits - 1, b \in 0 .. blocks(a) - 1 : T(ss[a][q], a, n, s, b)
               /\ \A n \in 0 .. tiles(a) - 1, s \in 0 .. splits - 1, b \in 0 .. blocks(a) - 1 :
                     \E q \in 1 .. Len(ss[a]) : T(ss[a][q], a, n, s, b)
    <2>1. ss[a] = Described(shards, c.nb, splits, <<first, past>>, kernelOf, a)
      BY <1>1
    <2> DEFINE d == Described(shards, c.nb, splits, <<first, past>>, kernelOf, a)
    <2>2. /\ d \in Seq({d[q] : q \in DOMAIN d}) /\ Len(d) \in Nat \ {0} /\ DOMAIN d = 1 .. Len(d)
          /\ \A q \in 1 .. Len(d) :
                /\ DOMAIN d[q] = CtaFields
                /\ \E n \in 0 .. tiles(a) - 1, s \in 0 .. splits - 1, b \in 0 .. blocks(a) - 1 : T(d[q], a, n, s, b)
          /\ \A n \in 0 .. tiles(a) - 1, s \in 0 .. splits - 1, b \in 0 .. blocks(a) - 1 :
                \E q \in 1 .. Len(d) : T(d[q], a, n, s, b)
      BY DescribedCtas
    <2>3. ss[a] = d
      BY <2>1
    <2> HIDE DEF ss, T, d, tiles, blocks
    <2> QED
      BY <2>2, <2>3, Zenon
  <1>5. Len(ss) = len /\ \A a \in 1 .. len : ss[a] \in Seq(U)
    <2>1. Len(ss) = len
      <3> DEFINE m == len
      <3>1. ss = [a \in 1 .. m |-> ss[a]] /\ m \in Nat
        BY <1>1
      <3> HIDE DEF m, ss
      <3>2. Len(ss) = m
        BY <3>1
      <3> QED
        BY <3>2 DEF m
    <2>2. ASSUME NEW a \in 1 .. len PROVE ss[a] \in Seq(U)
      <3> DEFINE q == ss[a]
                 R == {q[j] : j \in DOMAIN q}
      <3>1. q \in Seq(R)
        BY <1>4
      <3>2. R \subseteq U
        OBVIOUS
      <3> HIDE DEF q, R, U
      <3>3. q \in Seq(U)
        BY <3>1, <3>2
      <3> QED
        BY <3>3 DEF q
    <2> QED
      BY <2>1, <2>2
  <1>6. flat = FlattenSeq(ss)
    BY DescriptorsAre
  <1> HIDE DEF ss, flat
  <1>7. /\ flat \in Seq(U)
        /\ \A a \in 1 .. len : \A q \in 1 .. Len(ss[a]) : \E j \in DOMAIN flat : flat[j] = ss[a][q]
        /\ \A j \in DOMAIN flat : \E a \in 1 .. len : \E q \in 1 .. Len(ss[a]) : flat[j] = ss[a][q]
    <2> HIDE DEF U, len
    <2> QED
      <3>1. PartsOf(ss, len, U)
        BY <1>1, <1>5 DEF PartsOf
      <3>2. Joined(flat, ss, len, U)
        BY <1>6, <3>1, FlattenParts
      <3> QED
        BY <3>2 DEF Joined
  <1> HIDE DEF U, len, T
  <1>8. Len(flat) \in Nat /\ DOMAIN flat = 1 .. Len(flat) /\ flat = [j \in 1 .. Len(flat) |-> flat[j]]
    BY <1>7
  <1>9. Len(flat) # 0
    <2>1. 1 \in 1 .. len
      BY <1>1
    <2>2. Len(ss[1]) \in Nat \ {0}
      BY <1>4, <2>1
    <2>3. 1 \in 1 .. Len(ss[1])
      BY <2>2
    <2>4. \E j \in DOMAIN flat : flat[j] = ss[1][1]
      BY <1>7, <2>1, <2>3
    <2> QED
      BY <1>8, <2>4
  <1>10. ASSUME NEW j \in DOMAIN flat PROVE DOMAIN flat[j] = CtaFields
    <2>1. PICK a \in 1 .. len : \E q \in 1 .. Len(ss[a]) : flat[j] = ss[a][q]
      BY <1>7
    <2>2. PICK q \in 1 .. Len(ss[a]) : flat[j] = ss[a][q]
      BY <2>1
    <2>3. DOMAIN ss[a][q] = CtaFields
      BY <1>4
    <2> QED
      BY <2>2, <2>3
  <1>11. /\ P.splits = splits /\ P.reduce = FALSE /\ DOMAIN P.ctas = DOMAIN flat
         /\ P.ctas = [j \in DOMAIN flat |-> P.ctas[j]]
         /\ \A j \in DOMAIN flat : /\ P.ctas[j].kernel = Geometry(flat[j].kernel)
                                   /\ \A f \in CtaFields \ {"kernel"} : P.ctas[j][f] = flat[j][f]
    <2>1. /\ {"ctas", "splits", "reduce"} \subseteq DOMAIN L /\ \A j \in DOMAIN L.ctas : "kernel" \in DOMAIN L.ctas[j]
          /\ L.ctas = flat /\ L.splits = splits /\ L.reduce = FALSE
      BY <1>10 DEF CtaFields
    <2> HIDE DEF L
    <2>2. /\ P.splits = L.splits /\ P.reduce = L.reduce /\ DOMAIN P.ctas = DOMAIN L.ctas
          /\ P.ctas = [j \in DOMAIN L.ctas |-> P.ctas[j]]
          /\ \A j \in DOMAIN L.ctas :
                 /\ P.ctas[j].kernel = Geometry(L.ctas[j].kernel)
                 /\ \A f \in DOMAIN L.ctas[j] \ {"kernel"} : P.ctas[j][f] = L.ctas[j][f]
      BY <2>1, PlainKeeps
    <2> HIDE DEF P
    <2> QED
      BY <1>10, <2>1, <2>2
  <1> HIDE DEF P, L
  <1>12. Len(P.ctas) = Len(flat)
    <2> DEFINE q == P.ctas
               m == Len(flat)
    <2>1. q = [j \in 1 .. m |-> q[j]] /\ m \in Nat
      BY <1>8, <1>11
    <2> HIDE DEF q, m
    <2>2. Len(q) = m
      BY <2>1
    <2> QED
      BY <2>2 DEF q, m
  <1>13. PICK cut : /\ Cuts(cut, splits, c.nb)
                    /\ \A s \in 0 .. splits - 1 :
                          LET part == BalancedPart(s, splits, c.nb) IN RunOfSplit(part[1], part[2], cut, s, c.nb)
    BY <1>2, <1>3, BalancedCuts
  <1>14. \A a \in 1 .. len : /\ at[a] \in DOMAIN c.shards /\ kernelOf[shards[a].type].bm \in BlockSizes
                             /\ shards[a].type = c.shards[at[a]].type
                             /\ RunsKernel(c, c.shards[at[a]].type, Geometry(kernelOf[c.shards[at[a]].type]))
    <2> SUFFICES ASSUME NEW a \in 1 .. len
                 PROVE  /\ at[a] \in DOMAIN c.shards /\ kernelOf[shards[a].type].bm \in BlockSizes
                        /\ shards[a].type = c.shards[at[a]].type
                        /\ RunsKernel(c, c.shards[at[a]].type, Geometry(kernelOf[c.shards[at[a]].type]))
      OBVIOUS
    <2>1. /\ kernelOf[shards[a].type].bm \in BlockSizes /\ shards[a].type = c.shards[at[a]].type
          /\ RunsKernel(c, shards[a].type, Geometry(kernelOf[shards[a].type]))
      BY DEF Describes, len
    <2>2. RunsKernel(c, c.shards[at[a]].type, Geometry(kernelOf[c.shards[at[a]].type]))
      BY <2>1, Zenon
    <2> QED
      BY <1>1, <2>1, <2>2
  <1>15. ASSUME NEW a \in 1 .. len, NEW n \in 0 .. tiles(a) - 1, NEW s \in 0 .. splits - 1, NEW b \in 0 .. blocks(a) - 1,
                NEW j \in DOMAIN flat, T(flat[j], a, n, s, b)
         PROVE  /\ OnTile(c, P.ctas[j], at[a], n) /\ P.ctas[j].split = s /\ OnSplit(c, P.ctas[j], cut, splits)
                /\ OnRows(P.ctas[j], first, past)
                /\ P.ctas[j].rows[1] = BlockAt(kernelOf[shards[a].type].bm, first, past, b)[1]
                /\ P.ctas[j].rows[2] = BlockAt(kernelOf[shards[a].type].bm, first, past, b)[2]
    <2> DEFINE x == P.ctas[j]
               own == c.shards[at[a]]
               bm == kernelOf[shards[a].type].bm
    <2>1. own.type = shards[a].type /\ at[a] \in DOMAIN c.shards /\ bm \in BlockSizes
          /\ RunsKernel(c, own.type, Geometry(kernelOf[own.type]))
      BY <1>14
    <2>2. /\ x.kernel = Geometry(kernelOf[own.type]) /\ x.per = TileWords(own.type) /\ x.off = own.base + n * c.nb * TileWords(own.type)
          /\ x.kb0 = BalancedPart(s, splits, c.nb)[1] /\ x.kb1 = BalancedPart(s, splits, c.nb)[2]
          /\ x.col0 = own.col0 + 64 * n /\ x.limit = own.col0 + 64 * n + Min({64, own.n - 64 * n})
          /\ x.split = s /\ x.rows[1] = BlockAt(kernelOf[own.type].bm, first, past, b)[1]
          /\ x.rows[2] = BlockAt(kernelOf[own.type].bm, first, past, b)[2]
      <3>1. /\ flat[j].kernel = kernelOf[own.type] /\ flat[j].per = TileWords(own.type)
            /\ flat[j].off = own.base + n * c.nb * TileWords(own.type)
            /\ flat[j].kb0 = BalancedPart(s, splits, c.nb)[1] /\ flat[j].kb1 = BalancedPart(s, splits, c.nb)[2]
            /\ flat[j].col0 = own.col0 + 64 * n /\ flat[j].limit = own.col0 + 64 * n + Min({64, own.n - 64 * n})
            /\ flat[j].split = s /\ flat[j].rows[1] = BlockAt(kernelOf[own.type].bm, first, past, b)[1]
            /\ flat[j].rows[2] = BlockAt(kernelOf[own.type].bm, first, past, b)[2]
        BY <1>15, Zenon DEF T, Takes
      <3>2. /\ x.kernel = Geometry(flat[j].kernel) /\ x.per = flat[j].per /\ x.off = flat[j].off /\ x.kb0 = flat[j].kb0
            /\ x.kb1 = flat[j].kb1 /\ x.col0 = flat[j].col0 /\ x.limit = flat[j].limit /\ x.split = flat[j].split
            /\ x.rows = flat[j].rows
        BY <1>11 DEF CtaFields
      <3> HIDE DEF x, own
      <3> QED
        BY <3>1, <3>2, Zenon
    <2>3. kernelOf[own.type].bm = bm
      BY <2>1
    <2> HIDE DEF x, bm
    <2>4. x.rows[1] = BlockAt(bm, first, past, b)[1] /\ x.rows[2] = BlockAt(bm, first, past, b)[2]
      BY <2>2, <2>3, Zenon
    <2>5. RunsKernel(c, own.type, x.kernel)
      BY <2>1, <2>2, Zenon
    <2>6. OnTile(c, x, at[a], n)
      BY <1>1, <2>1, <2>2, <2>5, DescribedTile
    <2>7. OnSplit(c, x, cut, splits)
      BY <1>13, <2>2 DEF OnSplit
    <2>8. OnRows(x, first, past)
      <3>1. b \in 0 .. Blocks(bm, first, past) - 1
        BY DEF bm
      <3>2. RowSpan(first, past)
        BY <1>1, <1>3 DEF RowSpan
      <3>3. RowsWithin(BlockAt(bm, first, past, b), first, past)
        BY <2>1, <3>1, <3>2, BlockWithin
      <3> QED
        BY <2>4, <3>3, Zenon DEF OnRows, RowsWithin
    <2>9. x.split = s
      BY <2>2
    <2> QED
      BY <2>4, <2>6, <2>7, <2>8, <2>9 DEF x, bm
  <1>16. ASSUME NEW j \in DOMAIN flat
         PROVE  /\ OnSplit(c, P.ctas[j], cut, splits) /\ OnRows(P.ctas[j], first, past)
                /\ \E i \in S : \E n \in Nat : OnTile(c, P.ctas[j], i, n)
    <2>a. PICK a \in 1 .. len : \E q \in 1 .. Len(ss[a]) : flat[j] = ss[a][q]
      BY <1>7
    <2>1. PICK q \in 1 .. Len(ss[a]) : flat[j] = ss[a][q]
      BY <2>a
    <2>2. PICK n \in 0 .. tiles(a) - 1, s \in 0 .. splits - 1, b \in 0 .. blocks(a) - 1 : T(ss[a][q], a, n, s, b)
      BY <1>4
    <2>3. T(flat[j], a, n, s, b)
      BY <2>1, <2>2
    <2>4. OnTile(c, P.ctas[j], at[a], n) /\ OnSplit(c, P.ctas[j], cut, splits) /\ OnRows(P.ctas[j], first, past)
      BY <1>15, <2>3
    <2>5. n \in Nat
      <3>1. c.shards[at[a]].n \in Nat \ {0}
        BY <1>1 DEF PackedCall
      <3>2. tiles(a) \in Nat \ {0}
        BY <3>1, TilesWhole
      <3> HIDE DEF tiles
      <3> QED
        BY <3>2
    <2> QED
      BY <2>4, <2>5
  <1>17. ASSUME NEW i \in S, NEW n \in 0 .. Tiles(c.shards[i]) - 1, NEW s \in 0 .. splits - 1, NEW u \in Nat,
                first <= 16 * u, 16 * u < past
         PROVE  \E j \in DOMAIN P.ctas : /\ OnTile(c, P.ctas[j], i, n) /\ P.ctas[j].split = s
                                         /\ P.ctas[j].rows[1] <= 16 * u /\ 16 * u < P.ctas[j].rows[2]
    <2>1. PICK a \in 1 .. len : i = at[a]
      OBVIOUS
    <2> DEFINE bm == kernelOf[shards[a].type].bm
    <2>2. bm \in BlockSizes /\ n \in 0 .. tiles(a) - 1
      BY <1>14, <2>1
    <2>3. PICK b \in 0 .. blocks(a) - 1 : HoldsUnit(BlockAt(bm, first, past, b), u)
      <3>1. bm \in BlockSizes
        BY <2>2
      <3>2. RowSpan(first, past)
        BY <1>1, <1>3 DEF RowSpan
      <3>3. HoldsUnit(<<first, past>>, u)
        BY <1>17 DEF HoldsUnit
      <3> HIDE DEF bm
      <3>4. \E e \in 0 .. Blocks(bm, first, past) - 1 : HoldsUnit(BlockAt(bm, first, past, e), u)
        BY <3>1, <3>2, <3>3, BlockOfUnit
      <3> QED
        BY <3>4, Zenon DEF bm
    <2>4. PICK q \in 1 .. Len(ss[a]) : T(ss[a][q], a, n, s, b)
      <3> HIDE DEF blocks, tiles
      <3>1. \A v \in 0 .. tiles(a) - 1, r \in 0 .. splits - 1, e \in 0 .. blocks(a) - 1 :
                     \E q \in 1 .. Len(ss[a]) : T(ss[a][q], a, v, r, e)
        BY <1>4
      <3> QED
        BY <2>2, <3>1
    <2>5. PICK j \in DOMAIN flat : flat[j] = ss[a][q]
      BY <1>7
    <2>6. T(flat[j], a, n, s, b)
      BY <2>4, <2>5
    <2>7. /\ OnTile(c, P.ctas[j], at[a], n) /\ P.ctas[j].split = s
          /\ P.ctas[j].rows[1] = BlockAt(bm, first, past, b)[1] /\ P.ctas[j].rows[2] = BlockAt(bm, first, past, b)[2]
      <3> HIDE DEF blocks, tiles
      <3> QED
        BY <1>15, <2>2, <2>6
    <2>8. j \in DOMAIN P.ctas
      BY <1>11
    <2>9. P.ctas[j].rows[1] <= 16 * u /\ 16 * u < P.ctas[j].rows[2]
      BY <2>3, <2>7, Zenon DEF HoldsUnit
    <2> HIDE DEF bm
    <2> QED
      BY <2>1, <2>7, <2>8, <2>9, Zenon
  <1>18. S \in SUBSET (DOMAIN c.shards)
    BY <1>1
  <1> HIDE DEF S
  <1>19. Spans(c, P, S, first, past)
    <2>1. Len(P.ctas) \in Nat \ {0} /\ DOMAIN P.ctas = 1 .. Len(P.ctas)
      BY <1>8, <1>9, <1>11, <1>12
    <2>2. \E t : Cuts(t, P.splits, c.nb) /\ \A j \in DOMAIN P.ctas : OnSplit(c, P.ctas[j], t, P.splits)
      BY <1>11, <1>13, <1>16
    <2>3. \A j \in DOMAIN P.ctas : OnRows(P.ctas[j], first, past) /\ \E i \in S : \E n \in Nat : OnTile(c, P.ctas[j], i, n)
      BY <1>11, <1>16
    <2>4. \A i \in S : \A n \in 0 .. Tiles(c.shards[i]) - 1, s \in 0 .. P.splits - 1, u \in Nat :
             first <= 16 * u /\ 16 * u < past =>
             \E j \in DOMAIN P.ctas : /\ OnTile(c, P.ctas[j], i, n) /\ P.ctas[j].split = s
                                      /\ P.ctas[j].rows[1] <= 16 * u /\ 16 * u < P.ctas[j].rows[2]
      <3>1. P.splits = splits
        BY <1>11
      <3> SUFFICES ASSUME NEW i \in S, NEW n \in 0 .. Tiles(c.shards[i]) - 1, NEW s \in 0 .. splits - 1, NEW u \in Nat,
                          first <= 16 * u, 16 * u < past
                   PROVE  \E j \in DOMAIN P.ctas : /\ OnTile(c, P.ctas[j], i, n) /\ P.ctas[j].split = s
                                                   /\ P.ctas[j].rows[1] <= 16 * u /\ 16 * u < P.ctas[j].rows[2]
        BY <3>1
      <3> QED
        BY <1>17
    <2>5. P.splits \in 1 .. c.nb /\ P.reduce = FALSE
      BY <1>1, <1>11
    <2> QED
      BY <1>1, <1>18, <2>1, <2>2, <2>3, <2>4, <2>5 DEF Spans
  <1> QED
    BY <1>19 DEF P, L, flat, S, len

\* A launch of the call, and one that works on unit u of shard i.
Launched(c, L) == \E S, first, past : Spans(c, L, S, first, past)
Reaches(c, L, i, u) == \E S, first, past : Spans(c, L, S, first, past) /\ i \in S /\ HoldsUnit(<<first, past>>, u)

\* Launches that make up the call: each spans some of its shards and rows, and
\* together they reach every unit of every shard.
Streams(c, ls) ==
    /\ \E n \in Nat \ {0} : DOMAIN ls = 1 .. n
    /\ \A l \in DOMAIN ls : Launched(c, Plain(ls[l]))
    /\ \A i \in DOMAIN c.shards, u \in RowUnits(c) : \E l \in DOMAIN ls : Reaches(c, Plain(ls[l]), i, u)

\* A unit of the output lies in the rows of the batch.
LEMMA RowUnitsAre ==
    ASSUME NEW c, PackedCall(c), NEW u \in RowUnits(c)
    PROVE  u \in Nat /\ HoldsUnit(<<0, c.m>>, u)
  <1>1. c.m \in Nat \ {0}
    BY DEF PackedCall
  <1>2. u \in 0 .. CeilDiv(c.m, 16) - 1
    BY DEF RowUnits
  <1>3. u \in Nat /\ 16 * u < c.m
    BY <1>1, <1>2 DEF CeilDiv
  <1> QED
    BY <1>3 DEF HoldsUnit

\* Row blocks of a batch: they begin a unit, hold at most size rows, and hold every
\* unit of the batch.
BatchBlocks(blocks, m, size) ==
    /\ \E n \in Nat \ {0} : DOMAIN blocks = 1 .. n
    /\ \A b \in DOMAIN blocks :
          /\ blocks[b] = <<blocks[b][1], blocks[b][2]>>
          /\ blocks[b][1] \in Nat /\ blocks[b][1] % 16 = 0 /\ blocks[b][2] \in blocks[b][1] + 1 .. m
          /\ blocks[b][2] - blocks[b][1] \in 1 .. size
    /\ \A u \in Nat : HoldsUnit(<<0, m>>, u) => \E b \in DOMAIN blocks : HoldsUnit(blocks[b], u)

LEMMA RowBlocksCover ==
    ASSUME NEW m \in Nat \ {0}, NEW size \in {16, 32}
    PROVE  BatchBlocks(RowBlocks(m, size), m, size)
  <1> DEFINE blocks == RowBlocks(m, size)
             n == CeilDiv(m, size)
  <1>1. n \in Nat \ {0} /\ \A b \in Nat : b < n <=> size * b < m
    BY DEF CeilDiv
  <1> HIDE DEF n
  <1>2. DOMAIN blocks = 1 .. n /\ \A b \in 1 .. n : blocks[b] = <<(b - 1) * size, Min({b * size, m})>>
    BY DEF RowBlocks, n
  <1> HIDE DEF blocks
  <1>3. ASSUME NEW b \in 1 .. n
        PROVE  /\ blocks[b] = <<blocks[b][1], blocks[b][2]>> /\ blocks[b][1] = size * (b - 1)
               /\ blocks[b][2] = IF size * b <= m THEN size * b ELSE m
               /\ size * (b - 1) < m
    <2>1. b \in Nat /\ b - 1 \in Nat /\ b - 1 < n
      BY <1>1
    <2>2. size * (b - 1) < m /\ b * size \in Int /\ b * size = size * b /\ (b - 1) * size = size * (b - 1) /\ m \in Int
      BY <1>1, <2>1
    <2>3. Min({b * size, m}) = IF size * b <= m THEN size * b ELSE m
      BY <2>2, LesserOfTwo
    <2>4. blocks[b] = <<size * (b - 1), IF size * b <= m THEN size * b ELSE m>>
      BY <1>2, <2>2, <2>3
    <2> QED
      BY <2>2, <2>4
  <1>4. ASSUME NEW b \in 1 .. n
        PROVE  /\ blocks[b][1] \in Nat /\ blocks[b][1] % 16 = 0 /\ blocks[b][2] \in blocks[b][1] + 1 .. m
               /\ blocks[b][2] - blocks[b][1] \in 1 .. size
    BY <1>1, <1>3
  <1>5. ASSUME NEW u \in Nat, HoldsUnit(<<0, m>>, u)
        PROVE  \E b \in 1 .. n : HoldsUnit(blocks[b], u)
    <2> DEFINE q == (16 * u) \div size
    <2>1. 16 * u < m /\ q \in Nat /\ size * q <= 16 * u /\ 16 * u < size * (q + 1)
      BY <1>5 DEF HoldsUnit
    <2> HIDE DEF q
    <2>2. q < n
      BY <1>1, <2>1
    <2>3. q + 1 \in 1 .. n /\ (q + 1) - 1 = q
      BY <1>1, <2>1, <2>2
    <2>4. blocks[q + 1][1] = size * q /\ (blocks[q + 1][2] = size * (q + 1) \/ blocks[q + 1][2] = m)
      BY <1>3, <2>3
    <2> QED
      BY <2>1, <2>3, <2>4 DEF HoldsUnit
  <1> QED
    BY <1>1, <1>2, <1>3, <1>4, <1>5 DEF blocks, BatchBlocks

\* The launch on a shard's raw rows.
LEMMA RawStream ==
    ASSUME NEW c, PackedCall(c), c.op = "raw"
    PROVE  Streams(c, gluon_mul_mat(c))
  <1> DEFINE sh == [c.shards[1] EXCEPT !.base = 0]
             k == IF sh.type \in DOMAIN _INT8_KERNELS /\ ~c.bf16 THEN _INT8_KERNELS[sh.type] ELSE _KERNELS[sh.type]
             splits == Splitk(c, split_k_for(c.nb, sh.n, c.m, Size[sh.type]))
             L == [ctas |-> StandaloneCtas(k, sh, c.nb, splits, <<0, c.m>>), splits |-> splits, reduce |-> FALSE]
  <1>1. gluon_mul_mat(c) = <<L>>
    BY DEF gluon_mul_mat
  <1>2. /\ c.m \in Nat \ {0} /\ c.nb \in Nat \ {0} /\ 1 \in DOMAIN c.shards /\ DOMAIN c.shards = {1}
        /\ c.shards[1].base = 0 /\ c.shards[1].type \in DOMAIN _KERNELS /\ c.shards[1].n \in Nat \ {0}
        /\ c.shards[1].type \in Types
    <2>1. DOMAIN c.shards = 1 .. 1
      BY DEF PackedCall
    <2>2. 1 .. 1 = {1}
      OBVIOUS
    <2> QED
      BY <2>1, <2>2 DEF PackedCall, TypesOf
  <1>3. sh.type = c.shards[1].type /\ sh.n = c.shards[1].n /\ sh.col0 = c.shards[1].col0
    OBVIOUS
  <1>4. sh.base = c.shards[1].base
    <2>1. "base" \in DOMAIN c.shards[1]
      BY <1>2 DEF PackedCall
    <2> QED
      BY <1>2, <2>1
  <1> HIDE DEF sh
  <1>5. /\ Form(k, sh.type, TRUE) /\ (k = _KERNELS[sh.type] \/ (sh.type \in DOMAIN _INT8_KERNELS /\ k = _INT8_KERNELS[sh.type]))
    BY <1>2, <1>3, RawForms
  <1> HIDE DEF k
  <1>6. k.type = sh.type /\ k.raw = (c.op = "raw")
    BY <1>5 DEF Form
  <1>7. RunsKernel(c, sh.type, Geometry(k))
    BY <1>2, <1>3, <1>5 DEF RunsKernel
  <1>8. splits \in 1 .. c.nb
    <2>1. Size[sh.type] \in Nat \cup {None}
      BY <1>2, <1>3, RowWords
    <2>2. split_k_for(c.nb, sh.n, c.m, Size[sh.type]) \in 1 .. c.nb
      BY <1>2, <1>3, <2>1, StandaloneSplits
    <2> QED
      BY <2>2, SplitsGiven
  <1> HIDE DEF splits
  <1>9. Spans(c, Plain(L), {1}, 0, c.m)
    <2>1. 0 \in Nat /\ 0 % 16 = 0 /\ c.m \in 0 + 1 .. c.m /\ FALSE \in BOOLEAN
      BY <1>2
    <2> QED
      BY <1>2, <1>3, <1>4, <1>6, <1>7, <1>8, <2>1, StandaloneSpan
  <1> HIDE DEF L
  <1>10. DOMAIN <<L>> = 1 .. 1 /\ <<L>>[1] = L /\ 1 \in 1 .. 1 /\ 1 \in Nat \ {0} /\ \A l \in 1 .. 1 : l = 1
    OBVIOUS
  <1>11. Launched(c, Plain(L))
    BY <1>9 DEF Launched
  <1>12. ASSUME NEW i \in DOMAIN c.shards, NEW u \in RowUnits(c)
         PROVE  Reaches(c, Plain(L), i, u)
    BY <1>2, <1>9, RowUnitsAre DEF Reaches
  <1> QED
    BY <1>1, <1>10, <1>11, <1>12 DEF Streams

\* A grouped launch over rows first .. past - 1.
GroupedLaunch(c, rows, bm, splits) ==
    [ctas |-> descriptors(c.shards, c.nb, splits, rows, [t \in TypesOf(c) |->
         tiles_grouped_kernel(t, TypesOf(c), rows[2] - rows[1], bm, c.depth, c.compact)]),
     splits |-> splits, reduce |-> FALSE]

\* A grouped launch spans the shards of its layer.
LEMMA GroupedSpan ==
    ASSUME NEW c, PackedCall(c), c.op = "grouped", NEW first \in Nat, first % 16 = 0, NEW past \in first + 1 .. c.m,
           NEW bm \in BlockSizes, NEW splits \in 1 .. c.nb,
           bm = 16 <=> past - first <= GLUON_MAX_ROWS,
           bm > 32 => past - first > GLUON_MAX_ROWS_GROUPED /\ TypesOf(c) \cap GLUON_DEQUANT_TYPES = {}
    PROVE  Spans(c, Plain(GroupedLaunch(c, <<first, past>>, bm, splits)), DOMAIN c.shards, first, past)
  <1> DEFINE rows == past - first
             kernelOf == [t \in TypesOf(c) |-> tiles_grouped_kernel(t, TypesOf(c), rows, bm, c.depth, c.compact)]
             at == [a \in 1 .. Len(c.shards) |-> a]
  <1>1. /\ c.m \in Nat \ {0} /\ TypesOf(c) \subseteq DOMAIN RowBytes /\ Len(c.shards) \in Nat \ {0}
        /\ DOMAIN c.shards = 1 .. Len(c.shards)
    BY DEF PackedCall
  <1>2. rows \in 1 .. c.m
    BY <1>1
  <1>3. GroupedLaunch(c, <<first, past>>, bm, splits)
          = [ctas |-> descriptors(c.shards, c.nb, splits, <<first, past>>, kernelOf), splits |-> splits, reduce |-> FALSE]
    <2>1. <<first, past>>[2] - <<first, past>>[1] = rows
      OBVIOUS
    <2> HIDE DEF rows
    <2> QED
      BY <2>1, Zenon DEF GroupedLaunch
  <1>a. (bm = 16 <=> rows <= GLUON_MAX_ROWS)
        /\ (bm > 32 => rows > GLUON_MAX_ROWS_GROUPED /\ TypesOf(c) \cap GLUON_DEQUANT_TYPES = {})
    OBVIOUS
  <1> HIDE DEF rows
  <1>4. ASSUME NEW a \in DOMAIN c.shards
        PROVE  kernelOf[c.shards[a].type].bm \in BlockSizes /\ RunsKernel(c, c.shards[a].type, Geometry(kernelOf[c.shards[a].type]))
    <2> DEFINE t == c.shards[a].type
    <2>1. t \in TypesOf(c) /\ t \in DOMAIN RowBytes
      BY <1>1 DEF TypesOf
    <2>2. kernelOf[t] = tiles_grouped_kernel(t, TypesOf(c), rows, bm, c.depth, c.compact)
      BY <2>1
    <2> HIDE DEF t, kernelOf
    <2>3. kernelOf[t].bm = bm
      <3>1. tiles_grouped_kernel(t, TypesOf(c), rows, bm, c.depth, c.compact).bm = bm
        BY DEF tiles_grouped_kernel
      <3> QED
        BY <2>2, <3>1
    <2>4. RunsKernel(c, t, Geometry(kernelOf[t]))
      <3>1. bm \in {16, 32, 64, 128}
        BY DEF BlockSizes
      <3>2. \E r \in 1 .. c.m, b \in {16, 32, 64, 128} :
                /\ b = 16 <=> r <= GLUON_MAX_ROWS
                /\ b > 32 => r > GLUON_MAX_ROWS_GROUPED /\ TypesOf(c) \cap GLUON_DEQUANT_TYPES = {}
                /\ Geometry(kernelOf[t]) = Geometry(tiles_grouped_kernel(t, TypesOf(c), r, b, c.depth, c.compact))
        <4> HIDE DEF GLUON_MAX_ROWS, GLUON_MAX_ROWS_GROUPED
        <4> QED
          BY <1>2, <1>a, <2>2, <3>1, Zenon
      <3> QED
        BY <1>1, <3>2 DEF RunsKernel
    <2> QED
      BY <2>3, <2>4 DEF t
  <1> HIDE DEF kernelOf
  <1>5. at \in [1 .. Len(c.shards) -> DOMAIN c.shards] /\ \A a \in 1 .. Len(c.shards) : at[a] = a
    BY <1>1
  <1>6. {at[a] : a \in 1 .. Len(c.shards)} = DOMAIN c.shards
    BY <1>1, <1>5
  <1> HIDE DEF at
  <1>7. Describes(c, c.shards, at, kernelOf, splits, first, past)
    <2>1. \A a \in 1 .. Len(c.shards) :
             /\ c.shards[a].type = c.shards[at[a]].type /\ c.shards[a].n = c.shards[at[a]].n
             /\ c.shards[a].col0 = c.shards[at[a]].col0 /\ c.shards[a].base = c.shards[at[a]].base
             /\ kernelOf[c.shards[a].type].bm \in BlockSizes
             /\ RunsKernel(c, c.shards[a].type, Geometry(kernelOf[c.shards[a].type]))
      BY <1>1, <1>4, <1>5
    <2>2. c.op # "raw"
      OBVIOUS
    <2> QED
      BY <1>1, <1>5, <2>1, <2>2 DEF Describes
  <1>8. Spans(c, Plain([ctas |-> descriptors(c.shards, c.nb, splits, <<first, past>>, kernelOf),
                        splits |-> splits, reduce |-> FALSE]),
              {at[a] : a \in 1 .. Len(c.shards)}, first, past)
    BY <1>7, DescriptorsSpan
  <1> QED
    BY <1>3, <1>6, <1>8

\* A layer's tiles and its bytes per block are whole numbers.
LEMMA LayerSums ==
    ASSUME NEW c, PackedCall(c), c.op = "grouped"
    PROVE  LayerTiles(c.shards) \in Nat \ {0} /\ LayerBlockBytes(c.shards) \in Nat
  <1> DEFINE n == Len(c.shards)
             tiles == [i \in 1 .. n |-> Tiles(c.shards[i])]
             bytes == [i \in 1 .. n |-> Tiles(c.shards[i]) * 64 * RowBytes[c.shards[i].type]]
             cols == [i \in 1 .. n |-> c.shards[i].n]
  <1>1. n \in Nat \ {0} /\ DOMAIN c.shards = 1 .. n
    BY DEF PackedCall
  <1>2. ASSUME NEW i \in 1 .. n
        PROVE  tiles[i] \in Nat \ {0} /\ bytes[i] \in Nat /\ cols[i] \in Nat \ {0}
    <2>1. c.shards[i].n \in Nat \ {0} /\ c.shards[i].type \in DOMAIN RowBytes
      BY <1>1 DEF PackedCall, TypesOf
    <2>2. Tiles(c.shards[i]) \in Nat \ {0} /\ RowBytes[c.shards[i].type] \in Nat
      BY <2>1, TilesWhole, RowWords
    <2>3. Tiles(c.shards[i]) * 64 * RowBytes[c.shards[i].type] \in Nat
      BY <2>2
    <2> QED
      BY <2>1, <2>2, <2>3
  <1>3. /\ LayerTiles(c.shards) = Total(tiles)
        /\ LayerBlockBytes(c.shards) = RoundDiv(Total(bytes), Total(cols))
    BY <1>1 DEF LayerTiles, LayerBlockBytes
  <1> HIDE DEF n, tiles, bytes, cols
  <1>4. tiles = [i \in 1 .. n |-> tiles[i]] /\ bytes = [i \in 1 .. n |-> bytes[i]] /\ cols = [i \in 1 .. n |-> cols[i]]
    BY DEF tiles, bytes, cols
  <1>5. 1 \in 1 .. n
    BY <1>1
  <1>6. Total(tiles) \in Nat /\ tiles[1] <= Total(tiles)
    <2>1. \A j \in 1 .. n : tiles[j] \in Nat
      BY <1>2
    <2>2. Total([j \in 1 .. n |-> tiles[j]]) \in Nat /\ \A i \in 1 .. n : tiles[i] <= Total([j \in 1 .. n |-> tiles[j]])
      BY <1>1, <2>1, SumsBefore
    <2> QED
      BY <1>4, <1>5, <2>2
  <1>7. Total(cols) \in Nat /\ cols[1] <= Total(cols)
    <2>1. \A j \in 1 .. n : cols[j] \in Nat
      BY <1>2
    <2>2. Total([j \in 1 .. n |-> cols[j]]) \in Nat /\ \A i \in 1 .. n : cols[i] <= Total([j \in 1 .. n |-> cols[j]])
      BY <1>1, <2>1, SumsBefore
    <2> QED
      BY <1>4, <1>5, <2>2
  <1>8. Total(bytes) \in Nat
    <2>1. \A j \in 1 .. n : bytes[j] \in Nat
      BY <1>2
    <2>2. Total([j \in 1 .. n |-> bytes[j]]) \in Nat
      BY <1>1, <2>1, SumsBefore
    <2> QED
      BY <1>4, <2>2
  <1>9. Total(tiles) \in Nat \ {0} /\ Total(cols) \in Nat \ {0}
    BY <1>2, <1>5, <1>6, <1>7
  <1> QED
    BY <1>3, <1>8, <1>9, RoundDivWhole

\* The launches of a layer.
LEMMA GroupedStream ==
    ASSUME NEW c, PackedCall(c), c.op = "grouped"
    PROVE  Streams(c, gluon_mul_mat_tiles_grouped(c))
  <1> DEFINE types == TypesOf(c)
             wide == c.m > GLUON_MAX_ROWS_GROUPED /\ types \cap GLUON_DEQUANT_TYPES = {}
             blocks == RowBlocks(c.m, GLUON_MAX_ROWS_GROUPED)
             splitsOf(rows) == Splitk(c, grouped_split_for(LayerTiles(c.shards), c.nb, rows[2] - rows[1], LayerBlockBytes(c.shards)))
             small(rows) == GroupedLaunch(c, rows, IF rows[2] - rows[1] <= GLUON_MAX_ROWS THEN 16 ELSE 32, splitsOf(rows))
             whole == GroupedLaunch(c, <<0, c.m>>, IF c.m <= 64 THEN 64 ELSE 128, 1)
             ls == gluon_mul_mat_tiles_grouped(c)
  <1>1. c.m \in Nat \ {0} /\ c.nb \in Nat \ {0}
    BY DEF PackedCall
  <1>2. ls = IF wide THEN <<whole>> ELSE [b \in DOMAIN blocks |-> small(blocks[b])]
    BY DEF gluon_mul_mat_tiles_grouped, GroupedLaunch, TypesOf
  <1>3. CASE wide
    <2>1. Spans(c, Plain(whole), DOMAIN c.shards, 0, c.m)
      <3> DEFINE bm == IF c.m <= 64 THEN 64 ELSE 128
      <3>1. /\ bm \in BlockSizes /\ (bm = 16 <=> c.m - 0 <= GLUON_MAX_ROWS)
            /\ (bm > 32 => c.m - 0 > GLUON_MAX_ROWS_GROUPED /\ TypesOf(c) \cap GLUON_DEQUANT_TYPES = {})
        BY <1>1, <1>3 DEF BlockSizes, GLUON_MAX_ROWS, GLUON_MAX_ROWS_GROUPED
      <3>2. 0 \in Nat /\ 0 % 16 = 0 /\ c.m \in 0 + 1 .. c.m /\ 1 \in 1 .. c.nb
        BY <1>1
      <3> HIDE DEF bm
      <3>3. Spans(c, Plain(GroupedLaunch(c, <<0, c.m>>, bm, 1)), DOMAIN c.shards, 0, c.m)
        BY <3>1, <3>2, GroupedSpan
      <3> QED
        BY <3>3 DEF bm
    <2>2. ls = <<whole>>
      BY <1>2, <1>3
    <2> HIDE DEF whole, ls
    <2>3. DOMAIN ls = 1 .. 1 /\ ls[1] = whole /\ 1 \in 1 .. 1 /\ 1 \in Nat \ {0} /\ \A l \in 1 .. 1 : l = 1
      BY <2>2
    <2>4. Launched(c, Plain(whole))
      BY <2>1 DEF Launched
    <2>5. ASSUME NEW i \in DOMAIN c.shards, NEW u \in RowUnits(c)
          PROVE  Reaches(c, Plain(whole), i, u)
      BY <2>1, RowUnitsAre DEF Reaches
    <2>6. Streams(c, ls)
      BY <2>3, <2>4, <2>5 DEF Streams
    <2> QED
      BY <2>6 DEF ls
  <1>4. CASE ~wide
    <2>1. /\ \E n \in Nat \ {0} : DOMAIN blocks = 1 .. n
          /\ \A b \in DOMAIN blocks :
                /\ blocks[b] = <<blocks[b][1], blocks[b][2]>>
                /\ blocks[b][1] \in Nat /\ blocks[b][1] % 16 = 0 /\ blocks[b][2] \in blocks[b][1] + 1 .. c.m
                /\ blocks[b][2] - blocks[b][1] \in 1 .. 32
          /\ \A u \in Nat : HoldsUnit(<<0, c.m>>, u) => \E b \in DOMAIN blocks : HoldsUnit(blocks[b], u)
      <3>1. GLUON_MAX_ROWS_GROUPED = 32 /\ 32 \in {16, 32}
        BY DEF GLUON_MAX_ROWS_GROUPED
      <3>2. BatchBlocks(blocks, c.m, 32)
        BY <1>1, <3>1, RowBlocksCover
      <3> HIDE DEF blocks
      <3> QED
        BY <3>2 DEF BatchBlocks
    <2>2. ls = [b \in DOMAIN blocks |-> small(blocks[b])]
      BY <1>2, <1>4
    <2> HIDE DEF blocks
    <2>3. ASSUME NEW b \in DOMAIN blocks
          PROVE  Spans(c, Plain(small(blocks[b])), DOMAIN c.shards, blocks[b][1], blocks[b][2])
      <3> DEFINE rows == blocks[b]
                 first == rows[1]
                 past == rows[2]
                 bm == IF past - first <= GLUON_MAX_ROWS THEN 16 ELSE 32
                 splits == splitsOf(rows)
      <3>1. first \in Nat /\ first % 16 = 0 /\ past \in first + 1 .. c.m /\ rows = <<first, past>> /\ past - first \in 1 .. 32
        BY <2>1
      <3>2. splits \in 1 .. c.nb
        <4>1. LayerTiles(c.shards) \in Nat \ {0} /\ LayerBlockBytes(c.shards) \in Nat \cup {None} /\ past - first \in Nat \ {0}
          BY <3>1, LayerSums
        <4> HIDE DEF first, past
        <4>2. grouped_split_for(LayerTiles(c.shards), c.nb, past - first, LayerBlockBytes(c.shards)) \in 1 .. c.nb
          BY <1>1, <4>1, GroupedSplits
        <4>3. Splitk(c, grouped_split_for(LayerTiles(c.shards), c.nb, past - first, LayerBlockBytes(c.shards))) \in 1 .. c.nb
          BY <4>2, SplitsGiven
        <4> QED
          BY <4>3 DEF first, past
      <3>3. small(rows) = GroupedLaunch(c, <<first, past>>, bm, splits)
        <4>1. small(rows) = GroupedLaunch(c, rows, bm, splits)
          OBVIOUS
        <4> HIDE DEF splits, bm, rows, first, past
        <4> QED
          BY <3>1, <4>1
      <3> HIDE DEF splits, rows
      <3>4. /\ bm \in BlockSizes /\ (bm = 16 <=> past - first <= GLUON_MAX_ROWS)
            /\ (bm > 32 => past - first > GLUON_MAX_ROWS_GROUPED /\ TypesOf(c) \cap GLUON_DEQUANT_TYPES = {})
        <4> HIDE DEF first, past
        <4> QED
          BY <3>1 DEF BlockSizes, GLUON_MAX_ROWS
      <3> HIDE DEF first, past, bm
      <3>5. Spans(c, Plain(GroupedLaunch(c, <<first, past>>, bm, splits)), DOMAIN c.shards, first, past)
        BY <3>1, <3>2, <3>4, GroupedSpan
      <3> QED
        BY <3>3, <3>5 DEF rows, first, past
    <2>4. DOMAIN ls = DOMAIN blocks /\ \A b \in DOMAIN blocks : ls[b] = small(blocks[b])
      BY <2>2
    <2> HIDE DEF small, ls
    <2>5. \A b \in DOMAIN ls : Launched(c, Plain(ls[b]))
      BY <2>3, <2>4 DEF Launched
    <2>6. ASSUME NEW i \in DOMAIN c.shards, NEW u \in RowUnits(c)
          PROVE  \E b \in DOMAIN ls : Reaches(c, Plain(ls[b]), i, u)
      <3>1. u \in Nat /\ HoldsUnit(<<0, c.m>>, u)
        BY RowUnitsAre
      <3>2. PICK b \in DOMAIN blocks : HoldsUnit(blocks[b], u)
        BY <2>1, <3>1
      <3>3. HoldsUnit(<<blocks[b][1], blocks[b][2]>>, u)
        BY <3>2 DEF HoldsUnit
      <3>4. Reaches(c, Plain(small(blocks[b])), i, u)
        BY <2>3, <3>3 DEF Reaches
      <3> QED
        BY <2>4, <3>4
    <2>7. Streams(c, ls)
      BY <2>1, <2>4, <2>5, <2>6 DEF Streams
    <2> QED
      BY <2>7 DEF ls
  <1> QED
    BY <1>3, <1>4

\* The launch of shard i over the rows of a block.
TilesLaunch(c, sh, rows) ==
    LET m == rows[2] - rows[1]
        kernel == IF "kernel" \in DOMAIN c THEN Importable[c.kernel] ELSE _GEMM(sh.type, m)
        grouped == Splitk(c, grouped_split_for(Tiles(sh), c.nb, m, None))
        splits == Splitk(c, split_k_for(c.nb, sh.n, m, RowBytes[sh.type]))
    IN  IF sh.type \in DOMAIN tile_map
        THEN [ctas |-> descriptors(<<sh>>, c.nb, grouped, rows, [t \in {sh.type} |-> kernel]),
              splits |-> grouped, reduce |-> FALSE]
        ELSE [ctas |-> StandaloneCtas(kernel, sh, c.nb, splits, rows),
              splits |-> splits, reduce |-> c.reduce /\ splits > 1]

\* A launch over one shard's tiles spans that shard.
LEMMA TilesSpan ==
    ASSUME NEW c, PackedCall(c), c.op = "tiles", NEW i \in DOMAIN c.shards,
           NEW first \in Nat, first % 16 = 0, NEW past \in first + 1 .. c.m, past - first <= GLUON_MAX_ROWS
    PROVE  Spans(c, Plain(TilesLaunch(c, c.shards[i], <<first, past>>)), {i}, first, past)
  <1> DEFINE sh == c.shards[i]
             m == past - first
             k == IF "kernel" \in DOMAIN c THEN Importable[c.kernel] ELSE _GEMM(sh.type, m)
             grouped == Splitk(c, grouped_split_for(Tiles(sh), c.nb, m, None))
             splits == Splitk(c, split_k_for(c.nb, sh.n, m, RowBytes[sh.type]))
             kernelOf == [t \in {sh.type} |-> k]
             LG == [ctas |-> descriptors(<<sh>>, c.nb, grouped, <<first, past>>, kernelOf), splits |-> grouped, reduce |-> FALSE]
             LS == [ctas |-> StandaloneCtas(k, sh, c.nb, splits, <<first, past>>),
                    splits |-> splits, reduce |-> c.reduce /\ splits > 1]
  <1>1. /\ c.m \in Nat \ {0} /\ c.nb \in Nat \ {0} /\ sh.n \in Nat \ {0} /\ sh.type \in DOMAIN RowBytes
        /\ c.reduce \in BOOLEAN /\ (c.reduce => Tiles(sh) <= Counters)
        /\ sh.type \in TypesOf(c)
        /\ ("kernel" \in DOMAIN c => c.kernel = "iq3s_int8t" /\ TypesOf(c) = {"IQ3_S"})
    <2>1. sh.type \in TypesOf(c) /\ TypesOf(c) \subseteq DOMAIN RowBytes
      BY DEF TypesOf, PackedCall
    <2> QED
      BY <2>1 DEF PackedCall
  <1>2. m \in 1 .. GLUON_MAX_ROWS /\ m \in Nat \ {0}
    BY <1>1 DEF GLUON_MAX_ROWS
  <1>3. TilesLaunch(c, sh, <<first, past>>) = IF sh.type \in DOMAIN tile_map THEN LG ELSE LS
    <2>1. <<first, past>>[2] - <<first, past>>[1] = m
      OBVIOUS
    <2> HIDE DEF m, sh
    <2> QED
      BY <2>1, Zenon DEF TilesLaunch
  <1> HIDE DEF m
  <1>4. /\ Form(k, sh.type, FALSE) /\ RunsKernel(c, sh.type, Geometry(k))
        /\ sh.type \in DOMAIN tile_map => k.bm \in BlockSizes
    <2>1. CASE "kernel" \in DOMAIN c
      <3>1. c.kernel = "iq3s_int8t" /\ sh.type = "IQ3_S"
        BY <1>1, <2>1
      <3>2. k = iq3s_int8t
        <4>1. Importable["iq3s_int8t"] = iq3s_int8t
          BY DEF Importable
        <4> QED
          BY <2>1, <3>1, <4>1
      <3>3. "IQ3_S" \in DOMAIN RowBytes /\ "IQ3_S" \notin DOMAIN tile_map
        BY DEF RowBytes, tile_map
      <3> HIDE DEF k, sh
      <3>4. Form(k, "IQ3_S", FALSE)
        BY <3>2, <3>3, TileForms
      <3> QED
        BY <1>1, <3>1, <3>2, <3>3, <3>4 DEF RunsKernel
    <2>2. CASE "kernel" \notin DOMAIN c
      <3>1. k = _GEMM(sh.type, m)
        BY <2>2
      <3> HIDE DEF k, sh
      <3>2. /\ Form(_GEMM(sh.type, m), sh.type, FALSE)
            /\ sh.type \in DOMAIN tile_map => _GEMM(sh.type, m) = tiles_grouped_kernel(sh.type, {sh.type}, m, 16, 2, FALSE)
        BY <1>1, TileForms
      <3>3. RunsKernel(c, sh.type, Geometry(k))
        <4>1. \E r \in 1 .. GLUON_MAX_ROWS : Geometry(k) = Geometry(_GEMM(sh.type, r))
          BY <1>2, <3>1, Zenon
        <4> QED
          BY <1>1, <4>1 DEF RunsKernel
      <3>4. sh.type \in DOMAIN tile_map => k.bm \in BlockSizes
        <4>1. tiles_grouped_kernel(sh.type, {sh.type}, m, 16, 2, FALSE).bm = 16
          BY DEF tiles_grouped_kernel
        <4> QED
          BY <3>1, <3>2, <4>1 DEF BlockSizes
      <3> QED
        BY <3>1, <3>2, <3>3, <3>4
    <2> QED
      BY <2>1, <2>2
  <1> HIDE DEF k
  <1>5. k.type = sh.type /\ k.raw = FALSE
    BY <1>4 DEF Form
  <1>6. splits \in 1 .. c.nb
    <2>1. RowBytes[sh.type] \in Nat \cup {None}
      BY <1>1, RowWords
    <2>2. split_k_for(c.nb, sh.n, m, RowBytes[sh.type]) \in 1 .. c.nb
      <3> HIDE DEF sh
      <3> QED
        BY <1>1, <1>2, <2>1, StandaloneSplits
    <2> QED
      BY <2>2, SplitsGiven
  <1>7. grouped \in 1 .. c.nb
    <2>1. Tiles(sh) \in Nat \ {0} /\ None \in Nat \cup {None}
      BY <1>1, TilesWhole
    <2>2. grouped_split_for(Tiles(sh), c.nb, m, None) \in 1 .. c.nb
      <3> HIDE DEF sh
      <3> QED
        BY <1>1, <1>2, <2>1, GroupedSplits
    <2> QED
      BY <2>2, SplitsGiven
  <1> HIDE DEF splits, grouped
  <1>8. CASE sh.type \in DOMAIN tile_map
    <2> DEFINE shards == <<sh>>
               at == [a \in 1 .. Len(shards) |-> i]
    <2>1. Len(shards) \in Nat \ {0} /\ DOMAIN shards = 1 .. Len(shards) /\ \A a \in 1 .. Len(shards) : shards[a] = sh
      OBVIOUS
    <2>2. 1 \in 1 .. Len(shards)
      BY <2>1
    <2> HIDE DEF shards
    <2>3. at \in [1 .. Len(shards) -> DOMAIN c.shards] /\ \A a \in 1 .. Len(shards) : at[a] = i
      OBVIOUS
    <2> HIDE DEF at
    <2>4. {at[a] : a \in 1 .. Len(shards)} = {i}
      BY <2>2, <2>3
    <2>5. kernelOf[sh.type] = k
      OBVIOUS
    <2> HIDE DEF kernelOf
    <2>6. Describes(c, shards, at, kernelOf, grouped, first, past)
      <3>1. \A a \in 1 .. Len(shards) :
               /\ shards[a].type = c.shards[at[a]].type /\ shards[a].n = c.shards[at[a]].n
               /\ shards[a].col0 = c.shards[at[a]].col0 /\ shards[a].base = c.shards[at[a]].base
               /\ kernelOf[shards[a].type].bm \in BlockSizes
               /\ RunsKernel(c, shards[a].type, Geometry(kernelOf[shards[a].type]))
        BY <1>4, <1>8, <2>1, <2>3, <2>5
      <3>2. c.op # "raw"
        OBVIOUS
      <3> QED
        BY <1>7, <2>1, <2>3, <3>1, <3>2 DEF Describes
    <2>7. Spans(c, Plain([ctas |-> descriptors(shards, c.nb, grouped, <<first, past>>, kernelOf),
                          splits |-> grouped, reduce |-> FALSE]),
                {at[a] : a \in 1 .. Len(shards)}, first, past)
      BY <2>6, DescriptorsSpan
    <2>8. Spans(c, Plain(LG), {i}, first, past)
      BY <2>4, <2>7 DEF shards
    <2> QED
      BY <1>3, <1>8, <2>8
  <1>9. CASE sh.type \notin DOMAIN tile_map
    <2> DEFINE reduce == c.reduce /\ splits > 1
    <2>1. reduce \in BOOLEAN /\ (reduce => splits # 1 /\ Tiles(sh) <= Counters)
      BY <1>1, <1>6
    <2> HIDE DEF reduce
    <2>2. k.raw = (c.op = "raw")
      BY <1>5
    <2>3. sh.type = c.shards[i].type /\ sh.n = c.shards[i].n /\ sh.col0 = c.shards[i].col0 /\ sh.base = c.shards[i].base
      OBVIOUS
    <2> HIDE DEF sh
    <2>4. Spans(c, Plain([ctas |-> StandaloneCtas(k, sh, c.nb, splits, <<first, past>>),
                          splits |-> splits, reduce |-> reduce]), {i}, first, past)
      BY <1>4, <1>5, <1>6, <2>1, <2>2, <2>3, StandaloneSpan
    <2>5. LS = [ctas |-> StandaloneCtas(k, sh, c.nb, splits, <<first, past>>), splits |-> splits, reduce |-> reduce]
      BY DEF reduce
    <2> HIDE DEF LS, LG
    <2>6. TilesLaunch(c, sh, <<first, past>>) = LS
      BY <1>3, <1>9
    <2>7. Spans(c, Plain(TilesLaunch(c, sh, <<first, past>>)), {i}, first, past)
      BY <2>4, <2>5, <2>6
    <2> QED
      BY <2>7 DEF sh
  <1> QED
    BY <1>8, <1>9

\* The launches on the tiles of a merged layer.
LEMMA TilesStream ==
    ASSUME NEW c, PackedCall(c), c.op = "tiles"
    PROVE  Streams(c, gluon_mul_mat_tiles_multi(c))
  <1> DEFINE blocks == RowBlocks(c.m, GLUON_MAX_ROWS)
             ss == [i \in DOMAIN c.shards |-> [b \in DOMAIN blocks |-> TilesLaunch(c, c.shards[i], blocks[b])]]
             n == Len(c.shards)
             T == {ss[i][b] : i \in DOMAIN c.shards, b \in DOMAIN blocks}
             ls == gluon_mul_mat_tiles_multi(c)
  <1>1. c.m \in Nat \ {0} /\ n \in Nat \ {0} /\ DOMAIN c.shards = 1 .. n
    BY DEF PackedCall
  <1>2. ls = FlattenSeq(ss)
    BY DEF gluon_mul_mat_tiles_multi, TilesLaunch
  <1>3. /\ \A b \in DOMAIN blocks :
              /\ blocks[b] = <<blocks[b][1], blocks[b][2]>>
              /\ blocks[b][1] \in Nat /\ blocks[b][1] % 16 = 0 /\ blocks[b][2] \in blocks[b][1] + 1 .. c.m
              /\ blocks[b][2] - blocks[b][1] \in 1 .. 16
        /\ \A u \in Nat : HoldsUnit(<<0, c.m>>, u) => \E b \in DOMAIN blocks : HoldsUnit(blocks[b], u)
        /\ \E q \in Nat \ {0} : DOMAIN blocks = 1 .. q
    <2>1. GLUON_MAX_ROWS = 16 /\ 16 \in {16, 32}
      BY DEF GLUON_MAX_ROWS
    <2>2. BatchBlocks(blocks, c.m, 16)
      BY <1>1, <2>1, RowBlocksCover
    <2> HIDE DEF blocks
    <2> QED
      BY <2>2 DEF BatchBlocks
  <1> HIDE DEF ls, n
  <1>4. PICK q \in Nat \ {0} : DOMAIN blocks = 1 .. q
    BY <1>3
  <1> HIDE DEF blocks
  <1>5. ASSUME NEW i \in 1 .. n
        PROVE  /\ ss[i] \in Seq(T) /\ Len(ss[i]) = q
               /\ \A b \in 1 .. q : ss[i][b] = TilesLaunch(c, c.shards[i], blocks[b])
    <2>1. ss[i] = [b \in 1 .. q |-> TilesLaunch(c, c.shards[i], blocks[b])]
      BY <1>1, <1>4
    <2>2. \A b \in 1 .. q : TilesLaunch(c, c.shards[i], blocks[b]) \in T
      BY <1>1, <1>4
    <2> DEFINE f == [b \in 1 .. q |-> TilesLaunch(c, c.shards[i], blocks[b])]
    <2> HIDE DEF T, ss
    <2>3. f \in Seq(T) /\ Len(f) = q /\ \A b \in 1 .. q : f[b] = TilesLaunch(c, c.shards[i], blocks[b])
      BY <1>4, <2>2
    <2> QED
      BY <2>1, <2>3
  <1>6. DOMAIN ss = 1 .. n /\ Len(ss) = n
    BY <1>1
  <1> HIDE DEF ss, T
  <1>7. Joined(ls, ss, n, T)
    <2>1. PartsOf(ss, n, T)
      BY <1>1, <1>5, <1>6 DEF PartsOf
    <2> QED
      BY <1>2, <2>1, FlattenParts
  <1>8. ASSUME NEW i \in 1 .. n, NEW b \in 1 .. q
        PROVE  Spans(c, Plain(ss[i][b]), {i}, blocks[b][1], blocks[b][2])
    <2>1. ss[i][b] = TilesLaunch(c, c.shards[i], <<blocks[b][1], blocks[b][2]>>)
      BY <1>3, <1>4, <1>5
    <2> DEFINE first == blocks[b][1]
               past == blocks[b][2]
    <2>2. first \in Nat /\ first % 16 = 0 /\ past \in first + 1 .. c.m /\ past - first \in 1 .. 16
      BY <1>3, <1>4
    <2> HIDE DEF first, past
    <2>3. past - first <= GLUON_MAX_ROWS
      BY <2>2 DEF GLUON_MAX_ROWS
    <2>4. Spans(c, Plain(TilesLaunch(c, c.shards[i], <<first, past>>)), {i}, first, past)
      BY <1>1, <2>2, <2>3, TilesSpan
    <2> QED
      BY <2>1, <2>4 DEF first, past
  <1>9. ASSUME NEW l \in DOMAIN ls
        PROVE  Launched(c, Plain(ls[l]))
    <2>1. \E i \in 1 .. n : \E b \in 1 .. Len(ss[i]) : ls[l] = ss[i][b]
      BY <1>7 DEF Joined
    <2>2. PICK i \in 1 .. n : \E b \in 1 .. Len(ss[i]) : ls[l] = ss[i][b]
      BY <2>1
    <2>3. PICK b \in 1 .. q : ls[l] = ss[i][b]
      BY <1>5, <2>2
    <2> QED
      BY <1>8, <2>3 DEF Launched
  <1>10. ASSUME NEW i \in DOMAIN c.shards, NEW u \in RowUnits(c)
         PROVE  \E l \in DOMAIN ls : Reaches(c, Plain(ls[l]), i, u)
    <2>1. u \in Nat /\ HoldsUnit(<<0, c.m>>, u)
      BY RowUnitsAre
    <2>2. PICK b \in DOMAIN blocks : HoldsUnit(blocks[b], u)
      BY <1>3, <2>1
    <2>3. HoldsUnit(<<blocks[b][1], blocks[b][2]>>, u)
      BY <2>2 DEF HoldsUnit
    <2>4. i \in 1 .. n /\ b \in 1 .. q /\ b \in 1 .. Len(ss[i])
      BY <1>1, <1>4, <1>5
    <2>5. Reaches(c, Plain(ss[i][b]), i, u)
      BY <1>8, <2>3, <2>4 DEF Reaches
    <2>6. PICK l \in DOMAIN ls : ls[l] = ss[i][b]
      BY <1>7, <2>4 DEF Joined
    <2> QED
      BY <2>5, <2>6
  <1>11. \E k \in Nat \ {0} : DOMAIN ls = 1 .. k
    <2>1. ls \in Seq(T)
      BY <1>7 DEF Joined
    <2>2. DOMAIN ls = 1 .. Len(ls) /\ Len(ls) \in Nat
      BY <2>1
    <2>3. DOMAIN ls # {}
      <3>1. 1 \in 1 .. n /\ 1 \in 1 .. q
        BY <1>1, <1>4
      <3>2. 1 \in 1 .. Len(ss[1])
        BY <1>5, <3>1
      <3>3. \E l \in DOMAIN ls : ls[l] = ss[1][1]
        BY <1>7, <3>1, <3>2 DEF Joined
      <3> QED
        BY <3>3
    <2>4. Len(ls) # 0
      BY <2>2, <2>3
    <2> QED
      BY <2>2, <2>4
  <1>12. Streams(c, ls)
    BY <1>9, <1>10, <1>11 DEF Streams
  <1> QED
    BY <1>12 DEF ls

\* The launches of a call, built from its shards by the ops' own loops: each spans
\* some of its shards and rows, with a CTA on every tile, split and 16 rows of them
\* and every CTA on the weights, columns and k-blocks of its tile and split, and
\* together they reach every unit of every shard (gluon_mul_mat, _tiles_multi,
\* _tiles_grouped, descriptors).
THEOREM LaunchesReach ==
    ASSUME NEW c, PackedCall(c)
    PROVE  /\ Len(Stream(c)) \in Nat \ {0} /\ Stream(c) \in Seq({Stream(c)[l] : l \in DOMAIN Stream(c)})
           /\ \A l \in DOMAIN Stream(c) : Launched(c, Stream(c)[l])
           /\ \A i \in DOMAIN c.shards, u \in RowUnits(c) : \E l \in DOMAIN Stream(c) : Reaches(c, Stream(c)[l], i, u)
  <1> DEFINE ls == Launches(c)
             st == Stream(c)
  <1>1. Streams(c, ls)
    <2>1. c.op \in {"raw", "tiles", "grouped"}
      BY DEF PackedCall
    <2>2. /\ c.op = "raw" => ls = gluon_mul_mat(c)
          /\ c.op = "tiles" => ls = gluon_mul_mat_tiles_multi(c)
          /\ c.op = "grouped" => ls = gluon_mul_mat_tiles_grouped(c)
      BY <2>1 DEF Launches
    <2> HIDE DEF ls
    <2> QED
      BY <2>1, <2>2, RawStream, TilesStream, GroupedStream
  <1>2. st = [l \in DOMAIN ls |-> Plain(ls[l])]
    BY DEF Stream
  <1> HIDE DEF ls, st
  <1>3. PICK n \in Nat \ {0} : DOMAIN ls = 1 .. n
    BY <1>1 DEF Streams
  <1>4. DOMAIN st = DOMAIN ls /\ \A l \in DOMAIN ls : st[l] = Plain(ls[l])
    BY <1>2
  <1>5. st = [l \in 1 .. n |-> st[l]]
    BY <1>2, <1>3
  <1>6. Len(st) \in Nat \ {0} /\ st \in Seq({st[l] : l \in DOMAIN st})
    BY <1>3, <1>5
  <1>7. \A l \in DOMAIN st : Launched(c, st[l])
    BY <1>1, <1>4 DEF Streams
  <1>8. \A i \in DOMAIN c.shards, u \in RowUnits(c) : \E l \in DOMAIN st : Reaches(c, st[l], i, u)
    BY <1>1, <1>4 DEF Streams
  <1> QED
    BY <1>6, <1>7, <1>8 DEF st

-----------------------------------------------------------------------------
(* The repack and its inverse.                                             *)

\* A row of n bytes, and one row laid behind another.
Bytes(s, n) == s \in [1 .. n -> Int]
Chained(s, u, m, n) ==
    /\ Bytes(s \o u, m + n)
    /\ \A i \in 1 .. m : (s \o u)[i] = s[i]
    /\ \A i \in 1 .. n : (s \o u)[m + i] = u[i]

\* The bytes of a concatenation: the first sequence's, then the second's.
LEMMA CatBytes ==
    ASSUME NEW s, NEW u, NEW m \in Nat, NEW n \in Nat, Bytes(s, m), Bytes(u, n)
    PROVE  Chained(s, u, m, n)
  <1>1. s \in Seq(Int) /\ u \in Seq(Int) /\ Len(s) = m /\ Len(u) = n
    BY DEF Bytes
  <1> DEFINE f == s \o u
  <1>2. /\ f \in Seq(Int) /\ Len(f) = Len(s) + Len(u)
        /\ \A i \in 1 .. Len(s) : f[i] = s[i]
        /\ \A i \in 1 .. Len(u) : f[Len(s) + i] = u[i]
    <2>1. s \in Seq(Int)
      BY <1>1
    <2>2. u \in Seq(Int)
      BY <1>1
    <2>3. /\ s \o u \in Seq(Int) /\ Len(s \o u) = Len(s) + Len(u) /\ Len(s) \in Nat /\ Len(u) \in Nat
          /\ \A i \in 1 .. Len(s) : (s \o u)[i] = s[i]
          /\ \A i \in 1 .. Len(u) : (s \o u)[Len(s) + i] = u[i]
      BY <2>1, <2>2, ConcatParts
    <2> QED
      BY <2>3
  <1> HIDE DEF f
  <1>3. /\ f \in Seq(Int) /\ Len(f) = m + n
        /\ \A i \in 1 .. m : f[i] = s[i]
        /\ \A i \in 1 .. n : f[m + i] = u[i]
    BY <1>1, <1>2
  <1>4. f \in [1 .. m + n -> Int]
    BY <1>3
  <1> QED
    BY <1>3, <1>4 DEF Bytes, Chained, f

\* A stride is consecutive bytes, a padding as many bytes that none of the block has.
LEMMA Strides ==
    ASSUME NEW from \in Int, NEW n \in Nat
    PROVE  /\ Bytes(Stride(from, n), n) /\ \A i \in 1 .. n : Stride(from, n)[i] = from + i - 1
           /\ Bytes(Padding(n), n)
  BY DEF Stride, Padding, Pad, Bytes

\* d last: block byte p is behind the fields if it is d's, else two bytes before itself.
LEMMA DLastBytes ==
    ASSUME NEW size \in Nat, NEW bytes \in Nat, 2 <= size, size <= bytes, NEW p \in 0 .. size - 1
    PROVE  /\ Bytes(DLastTile(size, bytes), bytes)
           /\ DLastTile(size, bytes)[(IF p < 2 THEN size - 2 + p ELSE p - 2) + 1] = p
  <1> DEFINE a == Stride(2, size - 2)
             b == Stride(0, 2)
             e == Padding(bytes - size)
  <1>1. /\ Bytes(a, size - 2) /\ \A i \in 1 .. size - 2 : a[i] = 2 + i - 1
        /\ Bytes(b, 2) /\ \A i \in 1 .. 2 : b[i] = 0 + i - 1
        /\ Bytes(e, bytes - size)
    BY Strides
  <1>2. DLastTile(size, bytes) = a \o b \o e
    BY DEF DLastTile
  <1> HIDE DEF a, b, e
  <1>0. size - 2 \in Nat /\ 2 \in Nat /\ bytes - size \in Nat /\ size - 2 + 2 = size
    OBVIOUS
  <1>a. /\ Bytes(a \o b, size - 2 + 2) /\ \A i \in 1 .. size - 2 : (a \o b)[i] = a[i]
        /\ \A i \in 1 .. 2 : (a \o b)[size - 2 + i] = b[i]
    <2>1. Bytes(a, size - 2) /\ Bytes(b, 2)
      BY <1>1
    <2>2. Chained(a, b, size - 2, 2)
      BY <1>0, <2>1, CatBytes
    <2> QED
      BY <2>2 DEF Chained
  <1> DEFINE ab == a \o b
  <1>3. /\ \A i \in 1 .. size - 2 : ab[i] = a[i]
        /\ \A i \in 1 .. 2 : ab[size - 2 + i] = b[i]
    BY <1>a
  <1>4. Bytes(ab, size)
    BY <1>0, <1>a
  <1> HIDE DEF ab
  <1>5. Bytes(ab \o e, size + (bytes - size)) /\ \A i \in 1 .. size : (ab \o e)[i] = ab[i]
    <2>1. Bytes(ab, size) /\ Bytes(e, bytes - size)
      BY <1>1, <1>4
    <2>2. Chained(ab, e, size, bytes - size)
      BY <1>0, <2>1, CatBytes
    <2> QED
      BY <2>2 DEF Chained
  <1>6. Bytes(ab \o e, bytes)
    <2>1. size + (bytes - size) = bytes
      OBVIOUS
    <2> QED
      BY <1>5, <2>1
  <1>7. CASE p < 2
    <2>1. p + 1 \in 1 .. 2 /\ size - 2 + (p + 1) \in 1 .. size /\ (size - 2 + p) + 1 = size - 2 + (p + 1)
      BY <1>7
    <2>2. (ab \o e)[size - 2 + (p + 1)] = p
      <3>1. b[p + 1] = 0 + (p + 1) - 1 /\ 0 + (p + 1) - 1 = p
        BY <1>1, <2>1
      <3>2. ab[size - 2 + (p + 1)] = b[p + 1]
        BY <1>3, <2>1
      <3>3. (ab \o e)[size - 2 + (p + 1)] = ab[size - 2 + (p + 1)]
        BY <1>5, <2>1
      <3> QED
        BY <3>1, <3>2, <3>3
    <2> QED
      BY <1>2, <1>6, <1>7, <2>1, <2>2 DEF ab
  <1>8. CASE ~(p < 2)
    <2>1. (p - 2) + 1 \in 1 .. size - 2 /\ (p - 2) + 1 \in 1 .. size /\ 2 + ((p - 2) + 1) - 1 = p
      BY <1>8
    <2>2. (ab \o e)[(p - 2) + 1] = p
      BY <1>1, <1>3, <1>5, <2>1
    <2> QED
      BY <1>2, <1>6, <1>8, <2>1, <2>2 DEF ab
  <1> QED
    BY <1>7, <1>8

\* As it is: block byte p at p.
LEMMA AsIsBytes ==
    ASSUME NEW size \in Nat, NEW bytes \in Nat, size <= bytes, NEW p \in 0 .. size - 1
    PROVE  /\ Bytes(AsIsTile(size, bytes), bytes)
           /\ AsIsTile(size, bytes)[p + 1] = p
  <1>1. /\ Bytes(Stride(0, size), size) /\ \A i \in 1 .. size : Stride(0, size)[i] = 0 + i - 1
        /\ Bytes(Padding(bytes - size), bytes - size)
    BY Strides
  <1>2. p + 1 \in 1 .. size /\ 0 + (p + 1) - 1 = p /\ size + (bytes - size) = bytes
    OBVIOUS
  <1>3. /\ Bytes(Stride(0, size) \o Padding(bytes - size), size + (bytes - size))
        /\ \A i \in 1 .. size : (Stride(0, size) \o Padding(bytes - size))[i] = Stride(0, size)[i]
    <2>1. size \in Nat /\ bytes - size \in Nat
      OBVIOUS
    <2>2. Bytes(Stride(0, size), size) /\ Bytes(Padding(bytes - size), bytes - size)
      BY <1>1
    <2>3. Chained(Stride(0, size), Padding(bytes - size), size, bytes - size)
      BY <2>1, <2>2, CatBytes
    <2> QED
      BY <2>3 DEF Chained
  <1> QED
    BY <1>1, <1>2, <1>3 DEF AsIsTile

\* Consecutive bytes behind the bytes before them are consecutive.
LEMMA StridesJoin ==
    ASSUME NEW from \in Int, NEW m \in Nat, NEW n \in Nat
    PROVE  Stride(from, m) \o Stride(from + m, n) = Stride(from, m + n)
  <1> DEFINE a == Stride(from, m)
             b == Stride(from + m, n)
             d == Stride(from, m + n)
  <1>1. /\ Bytes(a, m) /\ \A i \in 1 .. m : a[i] = from + i - 1
        /\ Bytes(b, n) /\ \A i \in 1 .. n : b[i] = from + m + i - 1
        /\ Bytes(d, m + n) /\ \A i \in 1 .. m + n : d[i] = from + i - 1
    <2>1. from + m \in Int /\ m + n \in Nat
      OBVIOUS
    <2> QED
      BY <2>1, Strides
  <1> HIDE DEF a, b, d
  <1>2. Chained(a, b, m, n)
    <2>1. Bytes(a, m) /\ Bytes(b, n)
      BY <1>1
    <2> QED
      BY <2>1, CatBytes
  <1> DEFINE f == a \o b
  <1>3. /\ f \in [1 .. m + n -> Int] /\ \A i \in 1 .. m : f[i] = from + i - 1
        /\ \A i \in 1 .. n : f[m + i] = from + m + i - 1
    BY <1>1, <1>2 DEF Chained, Bytes
  <1>4. d \in [1 .. m + n -> Int] /\ \A i \in 1 .. m + n : d[i] = from + i - 1
    BY <1>1 DEF Bytes
  <1> HIDE DEF f
  <1>5. \A i \in 1 .. m + n : f[i] = d[i]
    <2> SUFFICES ASSUME NEW i \in 1 .. m + n
                 PROVE  f[i] = d[i]
      OBVIOUS
    <2>1. CASE i <= m
      BY <1>3, <1>4, <2>1
    <2>2. CASE ~(i <= m)
      <3>1. i - m \in 1 .. n /\ m + (i - m) = i
        BY <2>2
      <3>2. f[m + (i - m)] = from + m + (i - m) - 1
        BY <1>3, <3>1
      <3> QED
        BY <1>4, <3>1, <3>2
    <2> QED
      BY <2>1, <2>2
  <1>6. f = d
    BY <1>3, <1>4, <1>5
  <1> QED
    BY <1>6 DEF f, a, b, d

\* Where block byte p is in a repacked row, counted from 0.
HasByte(row, bytes, j, p) == Bytes(row, bytes) /\ j \in 0 .. bytes - 1 /\ row[j + 1] = p

\* The rows of IQ3_S are its fields with d last, too.
LEMMA Iq3sBytes == IQ3S_TILE = DLastTile(110, 112)
  <1> DEFINE a == Stride(2, 64)
             b == Stride(66, 8)
             d == Stride(74, 32)
             e == Stride(106, 4)
             rest == Stride(0, 2)
             pad == Padding(2)
  <1>1. IQ3S_TILE = a \o b \o d \o e \o rest \o pad
    BY DEF IQ3S_TILE
  <1>2. DLastTile(110, 112) = Stride(2, 108) \o rest \o pad
    BY DEF DLastTile
  <1>3. a \o b = Stride(2, 72)
    <2>0. 2 \in Int /\ 64 \in Nat /\ 8 \in Nat
      OBVIOUS
    <2>1. Stride(2, 64) \o Stride(2 + 64, 8) = Stride(2, 64 + 8)
      BY <2>0, StridesJoin, Zenon
    <2> QED
      BY <2>1
  <1>4. Stride(2, 72) \o d = Stride(2, 104)
    <2>0. 2 \in Int /\ 72 \in Nat /\ 32 \in Nat
      OBVIOUS
    <2>1. Stride(2, 72) \o Stride(2 + 72, 32) = Stride(2, 72 + 32)
      BY <2>0, StridesJoin, Zenon
    <2> QED
      BY <2>1
  <1>5. Stride(2, 104) \o e = Stride(2, 108)
    <2>0. 2 \in Int /\ 104 \in Nat /\ 4 \in Nat
      OBVIOUS
    <2>1. Stride(2, 104) \o Stride(2 + 104, 4) = Stride(2, 104 + 4)
      BY <2>0, StridesJoin, Zenon
    <2> QED
      BY <2>1
  <1> HIDE DEF a, b, d, e, rest, pad
  <1> QED
    BY <1>1, <1>2, <1>3, <1>4, <1>5

\* The formats repacked as tiles: the byte unrepack_tiles reads is the block's.
LEMMA TilesHold ==
    ASSUME NEW t \in DOMAIN RowBytes \ DOMAIN tile_map, NEW p \in 0 .. Size[t] - 1
    PROVE  HasByte(Repack(t), RowBytes[t],
                 IF t \in {"IQ4_XS", "Q4_K"} THEN p ELSE IF p < 2 THEN Size[t] - 2 + p ELSE p - 2, p)
  <1>1. /\ t \in {"IQ3_S", "IQ4_XS", "Q4_K", "IQ3_XXS", "IQ2_XXS", "IQ2_XS", "IQ2_S"}
        /\ Size[t] \in Nat /\ RowBytes[t] \in Nat /\ 2 <= Size[t] /\ Size[t] <= RowBytes[t]
        /\ t = "IQ3_S" => Size[t] = 110 /\ RowBytes[t] = 112
    BY DEF RowBytes, tile_map, Size
  <1> DEFINE size == Size[t]
             bytes == RowBytes[t]
  <1>2. CASE t \in {"IQ4_XS", "Q4_K"}
    <2>1. Repack(t) = AsIsTile(size, bytes)
      BY <1>2 DEF Repack
    <2>2. size \in Nat /\ bytes \in Nat /\ size <= bytes /\ p \in 0 .. size - 1 /\ p \in 0 .. bytes - 1
      BY <1>1
    <2> HIDE DEF size, bytes
    <2>3. Bytes(AsIsTile(size, bytes), bytes) /\ AsIsTile(size, bytes)[p + 1] = p
      BY <2>2, AsIsBytes
    <2>4. HasByte(Repack(t), bytes, p, p)
      BY <2>1, <2>2, <2>3 DEF HasByte
    <2> QED
      BY <1>2, <2>4 DEF bytes
  <1>3. CASE ~(t \in {"IQ4_XS", "Q4_K"})
    <2>1. Repack(t) = DLastTile(size, bytes)
      <3>1. t = "IQ3_S" => Repack(t) = IQ3S_TILE
        BY DEF Repack
      <3>2. t # "IQ3_S" => Repack(t) = DLastTile(size, bytes)
        BY <1>1, <1>3 DEF Repack
      <3> QED
        BY <1>1, <3>1, <3>2, Iq3sBytes
    <2> DEFINE j == IF p < 2 THEN size - 2 + p ELSE p - 2
    <2>2. size \in Nat /\ bytes \in Nat /\ 2 <= size /\ size <= bytes /\ p \in 0 .. size - 1
      BY <1>1
    <2> HIDE DEF size, bytes
    <2>3. Bytes(DLastTile(size, bytes), bytes) /\ DLastTile(size, bytes)[j + 1] = p
      BY <2>2, DLastBytes
    <2>4. j \in 0 .. bytes - 1
      BY <2>2
    <2>5. HasByte(Repack(t), bytes, j, p)
      BY <2>1, <2>3, <2>4 DEF HasByte
    <2> QED
      BY <1>3, <2>5 DEF bytes, size
  <1> QED
    BY <1>2, <1>3

\* A byte of the first or of the second of two sequences is one of both.
LEMMA HeldBehind ==
    ASSUME NEW s, NEW u, NEW m \in Nat, NEW n \in Nat, Bytes(s, m), Bytes(u, n), NEW p
    PROVE  /\ Bytes(s \o u, m + n)
           /\ \A j : HasByte(s, m, j, p) => HasByte(s \o u, m + n, j, p)
           /\ \A j : HasByte(u, n, j, p) => HasByte(s \o u, m + n, m + j, p)
  <1>1. Chained(s, u, m, n)
    BY CatBytes
  <1>2. /\ Bytes(s \o u, m + n) /\ \A i \in 1 .. m : (s \o u)[i] = s[i]
        /\ \A i \in 1 .. n : (s \o u)[m + i] = u[i]
    BY <1>1 DEF Chained
  <1>3. ASSUME NEW j, HasByte(s, m, j, p)
        PROVE  HasByte(s \o u, m + n, j, p)
    <2>1. j \in 0 .. m - 1 /\ s[j + 1] = p
      BY <1>3 DEF HasByte
    <2>2. j + 1 \in 1 .. m /\ j \in 0 .. m + n - 1
      BY <2>1
    <2>3. (s \o u)[j + 1] = p
      BY <1>2, <2>1, <2>2
    <2> QED
      BY <1>2, <2>2, <2>3 DEF HasByte
  <1>4. ASSUME NEW j, HasByte(u, n, j, p)
        PROVE  HasByte(s \o u, m + n, m + j, p)
    <2>1. j \in 0 .. n - 1 /\ u[j + 1] = p
      BY <1>4 DEF HasByte
    <2>2. j + 1 \in 1 .. n /\ m + j \in 0 .. m + n - 1 /\ m + (j + 1) = m + j + 1
      BY <2>1
    <2>3. (s \o u)[m + j + 1] = p
      <3>1. (s \o u)[m + (j + 1)] = u[j + 1]
        BY <1>2, <2>2
      <3> QED
        BY <2>1, <2>2, <3>1
    <2> QED
      BY <1>2, <2>2, <2>3 DEF HasByte
  <1> QED
    BY <1>2, <1>3, <1>4

\* A stride holds each of its bytes.
LEMMA StrideHolds ==
    ASSUME NEW from \in Int, NEW n \in Nat
    PROVE  Bytes(Stride(from, n), n) /\ \A p \in from .. from + n - 1 : HasByte(Stride(from, n), n, p - from, p)
  <1>1. Bytes(Stride(from, n), n) /\ \A i \in 1 .. n : Stride(from, n)[i] = from + i - 1
    BY Strides
  <1>2. ASSUME NEW p \in from .. from + n - 1
        PROVE  HasByte(Stride(from, n), n, p - from, p)
    <2>1. p - from \in 0 .. n - 1 /\ (p - from) + 1 \in 1 .. n /\ from + ((p - from) + 1) - 1 = p
      OBVIOUS
    <2> QED
      BY <1>1, <2>1 DEF HasByte
  <1> QED
    BY <1>1, <1>2

\* A half of Q8_0: four blocks of 34 bytes, of each the quants, then of each the scale.
LEMMA Q80HalfHolds ==
    ASSUME NEW h \in {0, 1}
    PROVE  /\ Bytes(Q80Half(h), 136)
           /\ \A p \in 136 * h .. 136 * h + 135 : \E j : HasByte(Q80Half(h), 136, j, p)
  <1> DEFINE f == Q80Half(h)
  <1>1. /\ DOMAIN f = 1 .. 136
        /\ \A j \in 1 .. 136 : f[j] = IF j <= 128 THEN (4 * h + (j - 1) \div 32) * 34 + 2 + ((j - 1) % 32)
                                      ELSE (4 * h + (j - 129) \div 2) * 34 + ((j - 129) % 2)
    BY DEF Q80Half
  <1>2. f = [j \in 1 .. 136 |-> f[j]]
    BY DEF Q80Half
  <1>3. \A j \in 1 .. 136 : f[j] \in Int
    <2> SUFFICES ASSUME NEW j \in 1 .. 136
                 PROVE  f[j] \in Int
      OBVIOUS
    <2>1. (j - 1) \div 32 \in Int /\ (j - 1) % 32 \in Int /\ (j - 129) \div 2 \in Int /\ (j - 129) % 2 \in Int
      OBVIOUS
    <2> DEFINE a == (j - 1) \div 32
               b == (j - 1) % 32
               d == (j - 129) \div 2
               e == (j - 129) % 2
    <2>2. f[j] = IF j <= 128 THEN (4 * h + a) * 34 + 2 + b ELSE (4 * h + d) * 34 + e
      BY <1>1
    <2> HIDE DEF a, b, d, e, f
    <2>3. a \in Int /\ b \in Int /\ d \in Int /\ e \in Int
      BY <2>1 DEF a, b, d, e
    <2> QED
      BY <2>2, <2>3
  <1> HIDE DEF f
  <1>4. Bytes(f, 136)
    BY <1>2, <1>3 DEF Bytes
  <1>5. ASSUME NEW p \in 136 * h .. 136 * h + 135
        PROVE  \E j : HasByte(f, 136, j, p)
    <2> DEFINE x == p - 136 * h
               blk == x \div 34
               o == x % 34
    <2>1. x \in 0 .. 135 /\ blk \in 0 .. 3 /\ o \in 0 .. 33 /\ x = 34 * blk + o
      OBVIOUS
    <2>2. p = (4 * h + blk) * 34 + o
      BY <2>1
    <2> HIDE DEF x, blk, o
    <2>3. CASE o < 2
      <3> DEFINE j == 128 + 2 * blk + o
      <3>1. j + 1 \in 1 .. 136 /\ ~(j + 1 <= 128) /\ j \in 0 .. 135 /\ (j + 1) - 129 = 2 * blk + o
        BY <2>1, <2>3
      <3>2. (2 * blk + o) \div 2 = blk /\ (2 * blk + o) % 2 = o
        BY <2>1, <2>3
      <3>3. f[j + 1] = (4 * h + ((j + 1) - 129) \div 2) * 34 + (((j + 1) - 129) % 2)
        BY <1>1, <3>1
      <3> HIDE DEF j
      <3>4. f[j + 1] = p
        BY <2>2, <3>1, <3>2, <3>3
      <3>5. j \in 0 .. 136 - 1
        BY <3>1
      <3>6. HasByte(f, 136, j, p)
        BY <1>4, <3>4, <3>5 DEF HasByte
      <3> QED
        BY <3>6
    <2>4. CASE ~(o < 2)
      <3> DEFINE j == 32 * blk + (o - 2)
      <3>1. j + 1 \in 1 .. 136 /\ j + 1 <= 128 /\ j \in 0 .. 135 /\ (j + 1) - 1 = 32 * blk + (o - 2)
        BY <2>1, <2>4
      <3>2. (32 * blk + (o - 2)) \div 32 = blk /\ (32 * blk + (o - 2)) % 32 = o - 2
        BY <2>1, <2>4
      <3>3. f[j + 1] = (4 * h + ((j + 1) - 1) \div 32) * 34 + 2 + (((j + 1) - 1) % 32)
        BY <1>1, <3>1
      <3> HIDE DEF j
      <3>4. f[j + 1] = (4 * h + blk) * 34 + 2 + (o - 2)
        BY <3>1, <3>2, <3>3
      <3>5. (4 * h + blk) * 34 + 2 + (o - 2) = p
        BY <2>1, <2>2
      <3> QED
        BY <1>4, <3>1, <3>4, <3>5 DEF HasByte
    <2> QED
      BY <2>3, <2>4
  <1> QED
    BY <1>4, <1>5 DEF f

\* A half of Q6_K: low nibbles, high bits and scales of its 128 weights, and d.
LEMMA Q6KHalfHolds ==
    ASSUME NEW h \in {0, 1}
    PROVE  /\ Bytes(Q6KHalf(h), 108)
           /\ \A p \in (64 * h .. 64 * h + 63) \cup (128 + 32 * h .. 128 + 32 * h + 31)
                       \cup (192 + 8 * h .. 192 + 8 * h + 7) \cup (208 .. 209) :
                 \E j : HasByte(Q6KHalf(h), 108, j, p)
  <1> DEFINE a == Stride(64 * h, 64)
             b == Stride(128 + 32 * h, 32)
             d == Stride(192 + 8 * h, 8)
             e == Stride(208, 2)
             pad == Padding(2)
  <1>1. /\ Bytes(a, 64) /\ \A p \in 64 * h .. 64 * h + 63 : HasByte(a, 64, p - 64 * h, p)
        /\ Bytes(b, 32) /\ \A p \in 128 + 32 * h .. 128 + 32 * h + 31 : HasByte(b, 32, p - (128 + 32 * h), p)
        /\ Bytes(d, 8) /\ \A p \in 192 + 8 * h .. 192 + 8 * h + 7 : HasByte(d, 8, p - (192 + 8 * h), p)
        /\ Bytes(e, 2) /\ \A p \in 208 .. 209 : HasByte(e, 2, p - 208, p)
    <2>1. Bytes(a, 64) /\ \A p \in 64 * h .. 64 * h + 64 - 1 : HasByte(a, 64, p - 64 * h, p)
      BY StrideHolds
    <2>2. Bytes(b, 32) /\ \A p \in 128 + 32 * h .. 128 + 32 * h + 32 - 1 : HasByte(b, 32, p - (128 + 32 * h), p)
      BY StrideHolds
    <2>3. Bytes(d, 8) /\ \A p \in 192 + 8 * h .. 192 + 8 * h + 8 - 1 : HasByte(d, 8, p - (192 + 8 * h), p)
      BY StrideHolds
    <2>4. Bytes(e, 2) /\ \A p \in 208 .. 208 + 2 - 1 : HasByte(e, 2, p - 208, p)
      <3>1. 208 \in Int /\ 2 \in Nat
        OBVIOUS
      <3> QED
        BY <3>1, StrideHolds, Zenon
    <2> HIDE DEF a, b, d, e
    <2> QED
      BY <2>1, <2>2, <2>3, <2>4
  <1>2. Bytes(pad, 2)
    BY Strides
  <1>3. Q6KHalf(h) = a \o b \o d \o e \o pad
    BY DEF Q6KHalf
  <1> HIDE DEF a, b, d, e, pad
  <1> DEFINE f == a \o b
             g == f \o d
             k == g \o e
             l == k \o pad
  <1>4. Bytes(f, 96) /\ \A p, j : (HasByte(a, 64, j, p) => HasByte(f, 96, j, p)) /\ (HasByte(b, 32, j, p) => HasByte(f, 96, 64 + j, p))
    <2>1. Bytes(a, 64) /\ Bytes(b, 32) /\ 64 \in Nat /\ 32 \in Nat
      BY <1>1
    <2>2. \A p : /\ Bytes(f, 64 + 32) /\ \A j : HasByte(a, 64, j, p) => HasByte(f, 64 + 32, j, p)
                 /\ \A j : HasByte(b, 32, j, p) => HasByte(f, 64 + 32, 64 + j, p)
      BY <2>1, HeldBehind, Zenon
    <2> QED
      BY <2>2
  <1> HIDE DEF f
  <1>5. Bytes(g, 104) /\ \A p, j : (HasByte(f, 96, j, p) => HasByte(g, 104, j, p)) /\ (HasByte(d, 8, j, p) => HasByte(g, 104, 96 + j, p))
    <2>1. Bytes(f, 96) /\ Bytes(d, 8) /\ 96 \in Nat /\ 8 \in Nat
      BY <1>1, <1>4
    <2>2. \A p : /\ Bytes(g, 96 + 8) /\ \A j : HasByte(f, 96, j, p) => HasByte(g, 96 + 8, j, p)
                 /\ \A j : HasByte(d, 8, j, p) => HasByte(g, 96 + 8, 96 + j, p)
      BY <2>1, HeldBehind, Zenon
    <2> QED
      BY <2>2
  <1> HIDE DEF g
  <1>6. Bytes(k, 106) /\ \A p, j : (HasByte(g, 104, j, p) => HasByte(k, 106, j, p)) /\ (HasByte(e, 2, j, p) => HasByte(k, 106, 104 + j, p))
    <2>1. Bytes(g, 104) /\ Bytes(e, 2) /\ 104 \in Nat /\ 2 \in Nat
      BY <1>1, <1>5
    <2>2. \A p : /\ Bytes(k, 104 + 2) /\ \A j : HasByte(g, 104, j, p) => HasByte(k, 104 + 2, j, p)
                 /\ \A j : HasByte(e, 2, j, p) => HasByte(k, 104 + 2, 104 + j, p)
      BY <2>1, HeldBehind, Zenon
    <2> QED
      BY <2>2
  <1> HIDE DEF k
  <1>7. Bytes(l, 108) /\ \A p, j : HasByte(k, 106, j, p) => HasByte(l, 108, j, p)
    <2>1. Bytes(k, 106) /\ Bytes(pad, 2) /\ 106 \in Nat /\ 2 \in Nat
      BY <1>2, <1>6
    <2>2. \A p : /\ Bytes(l, 106 + 2) /\ \A j : HasByte(k, 106, j, p) => HasByte(l, 106 + 2, j, p)
      BY <2>1, HeldBehind, Zenon
    <2> QED
      BY <2>2
  <1>8. Q6KHalf(h) = l
    BY <1>3 DEF f, g, k
  <1> HIDE DEF l
  <1>9. ASSUME NEW p \in (64 * h .. 64 * h + 63) \cup (128 + 32 * h .. 128 + 32 * h + 31)
                         \cup (192 + 8 * h .. 192 + 8 * h + 7) \cup (208 .. 209)
        PROVE  \E j : HasByte(l, 108, j, p)
    <2>1. CASE p \in 64 * h .. 64 * h + 63
      BY <1>1, <1>4, <1>5, <1>6, <1>7, <2>1
    <2>2. CASE p \in 128 + 32 * h .. 128 + 32 * h + 31
      BY <1>1, <1>4, <1>5, <1>6, <1>7, <2>2
    <2>3. CASE p \in 192 + 8 * h .. 192 + 8 * h + 7
      BY <1>1, <1>5, <1>6, <1>7, <2>3
    <2>4. CASE p \in 208 .. 209
      BY <1>1, <1>6, <1>7, <2>4
    <2> QED
      BY <2>1, <2>2, <2>3, <2>4
  <1> QED
    BY <1>7, <1>8, <1>9

\* Every byte of a block is in the tile map of its format.
LEMMA MapHolds ==
    ASSUME NEW t \in DOMAIN tile_map, NEW p \in 0 .. Size[t] - 1
    PROVE  Repack(t) = tile_map[t] /\ \E j : HasByte(tile_map[t], RowBytes[t], j, p)
  <1>1. /\ t \in {"Q8_0", "Q3_K", "Q5_K", "Q6_K"} /\ p \in Nat
        /\ t = "Q8_0" => Size[t] = 272 /\ RowBytes[t] = 272 /\ tile_map[t] = Q80Half(0) \o Q80Half(1)
        /\ t = "Q3_K" => Size[t] = 110 /\ RowBytes[t] = 112 /\ tile_map[t] = Stride(0, 110) \o Padding(2)
        /\ t = "Q5_K" => Size[t] = 176 /\ RowBytes[t] = 176 /\ tile_map[t] = Stride(0, 176)
        /\ t = "Q6_K" => Size[t] = 210 /\ RowBytes[t] = 216 /\ tile_map[t] = Q6KHalf(0) \o Q6KHalf(1)
    <2>1. t \in {"Q8_0", "Q3_K", "Q5_K", "Q6_K"}
      BY DEF tile_map
    <2>2. p \in Nat
      BY <2>1 DEF Size
    <2>3. t = "Q8_0" => Size[t] = 272 /\ RowBytes[t] = 272
      BY DEF Size, RowBytes
    <2>4. t = "Q3_K" => Size[t] = 110 /\ RowBytes[t] = 112
      BY DEF Size, RowBytes
    <2>5. t = "Q5_K" => Size[t] = 176 /\ RowBytes[t] = 176
      BY DEF Size, RowBytes
    <2>6. t = "Q6_K" => Size[t] = 210 /\ RowBytes[t] = 216
      BY DEF Size, RowBytes
    <2>7. t = "Q8_0" => tile_map[t] = Q80Half(0) \o Q80Half(1)
      BY DEF tile_map
    <2>8. t = "Q3_K" => tile_map[t] = Stride(0, 110) \o Padding(2)
      BY DEF tile_map
    <2>9. t = "Q5_K" => tile_map[t] = Stride(0, 176)
      BY DEF tile_map
    <2>10. t = "Q6_K" => tile_map[t] = Q6KHalf(0) \o Q6KHalf(1)
      BY DEF tile_map
    <2> QED
      BY <2>1, <2>2, <2>3, <2>4, <2>5, <2>6, <2>7, <2>8, <2>9, <2>10
  <1>2. Repack(t) = tile_map[t]
    <2>1. t # "IQ3_S" /\ t \notin {"IQ4_XS", "Q4_K"}
      BY <1>1
    <2> HIDE DEF tile_map
    <2> QED
      BY <2>1 DEF Repack
  <1> HIDE DEF tile_map
  <1>3. CASE t = "Q8_0"
    <2> DEFINE a == Q80Half(0)
               b == Q80Half(1)
    <2>1. /\ Bytes(a, 136) /\ \A q \in 136 * 0 .. 136 * 0 + 135 : \E j : HasByte(a, 136, j, q)
          /\ Bytes(b, 136) /\ \A q \in 136 * 1 .. 136 * 1 + 135 : \E j : HasByte(b, 136, j, q)
      <3>1. 0 \in {0, 1} /\ 1 \in {0, 1}
        OBVIOUS
      <3> QED
        BY <3>1, Q80HalfHolds
    <2> HIDE DEF a, b
    <2>2. Bytes(a, 136) /\ Bytes(b, 136) /\ 136 \in Nat
      BY <2>1
    <2>3. /\ \A j : HasByte(a, 136, j, p) => HasByte(a \o b, 136 + 136, j, p)
          /\ \A j : HasByte(b, 136, j, p) => HasByte(a \o b, 136 + 136, 136 + j, p)
      BY <2>2, HeldBehind, Zenon
    <2>4. (\E j : HasByte(a, 136, j, p)) \/ (\E j : HasByte(b, 136, j, p))
      <3>1. p \in 136 * 0 .. 136 * 0 + 135 \/ p \in 136 * 1 .. 136 * 1 + 135
        BY <1>1, <1>3
      <3> QED
        BY <2>1, <3>1
    <2>5. \E j : HasByte(a \o b, 136 + 136, j, p)
      BY <2>3, <2>4, Zenon
    <2>6. RowBytes[t] = 136 + 136 /\ tile_map[t] = a \o b
      BY <1>1, <1>3 DEF a, b
    <2> QED
      BY <1>2, <2>5, <2>6
  <1>4. CASE t = "Q3_K"
    <2> DEFINE a == Stride(0, 110)
               b == Padding(2)
    <2>1. Bytes(a, 110) /\ \A q \in 0 .. 0 + 110 - 1 : HasByte(a, 110, q - 0, q)
      <3>1. 0 \in Int /\ 110 \in Nat
        OBVIOUS
      <3> QED
        BY <3>1, StrideHolds, Zenon
    <2>2. Bytes(b, 2)
      BY Strides
    <2> HIDE DEF a, b
    <2>3. Bytes(a, 110) /\ Bytes(b, 2) /\ 110 \in Nat /\ 2 \in Nat
      BY <2>1, <2>2
    <2>4. \A j : HasByte(a, 110, j, p) => HasByte(a \o b, 110 + 2, j, p)
      BY <2>3, HeldBehind, Zenon
    <2>5. \E j : HasByte(a, 110, j, p)
      <3>1. p \in 0 .. 0 + 110 - 1
        BY <1>1, <1>4
      <3>2. HasByte(a, 110, p - 0, p)
        BY <2>1, <3>1
      <3> QED
        BY <3>2
    <2>6. RowBytes[t] = 110 + 2 /\ tile_map[t] = a \o b
      BY <1>1, <1>4 DEF a, b
    <2> QED
      BY <1>2, <2>4, <2>5, <2>6
  <1>5. CASE t = "Q5_K"
    <2>1. 0 \in Int /\ 176 \in Nat
      OBVIOUS
    <2>2. \A q \in 0 .. 0 + 176 - 1 : HasByte(Stride(0, 176), 176, q - 0, q)
      BY <2>1, StrideHolds, Zenon
    <2>3. p \in 0 .. 0 + 176 - 1
      BY <1>1, <1>5
    <2>4. HasByte(Stride(0, 176), 176, p - 0, p)
      BY <2>2, <2>3
    <2> QED
      BY <1>1, <1>2, <1>5, <2>4
  <1>6. CASE t = "Q6_K"
    <2> DEFINE a == Q6KHalf(0)
               b == Q6KHalf(1)
    <2>1. /\ Bytes(a, 108) /\ Bytes(b, 108) /\ 108 \in Nat
          /\ \A q \in (64 * 0 .. 64 * 0 + 63) \cup (128 + 32 * 0 .. 128 + 32 * 0 + 31)
                      \cup (192 + 8 * 0 .. 192 + 8 * 0 + 7) \cup (208 .. 209) : \E j : HasByte(a, 108, j, q)
          /\ \A q \in (64 * 1 .. 64 * 1 + 63) \cup (128 + 32 * 1 .. 128 + 32 * 1 + 31)
                      \cup (192 + 8 * 1 .. 192 + 8 * 1 + 7) \cup (208 .. 209) : \E j : HasByte(b, 108, j, q)
      <3>1. 0 \in {0, 1} /\ 1 \in {0, 1}
        OBVIOUS
      <3> QED
        BY <3>1, Q6KHalfHolds
    <2> HIDE DEF a, b
    <2>2. Bytes(a, 108) /\ Bytes(b, 108) /\ 108 \in Nat
      BY <2>1
    <2>3. /\ \A j : HasByte(a, 108, j, p) => HasByte(a \o b, 108 + 108, j, p)
          /\ \A j : HasByte(b, 108, j, p) => HasByte(a \o b, 108 + 108, 108 + j, p)
      BY <2>2, HeldBehind, Zenon
    <2>4. (\E j : HasByte(a, 108, j, p)) \/ (\E j : HasByte(b, 108, j, p))
      <3>1. \/ p \in (64 * 0 .. 64 * 0 + 63) \cup (128 + 32 * 0 .. 128 + 32 * 0 + 31)
                    \cup (192 + 8 * 0 .. 192 + 8 * 0 + 7) \cup (208 .. 209)
            \/ p \in (64 * 1 .. 64 * 1 + 63) \cup (128 + 32 * 1 .. 128 + 32 * 1 + 31)
                    \cup (192 + 8 * 1 .. 192 + 8 * 1 + 7) \cup (208 .. 209)
        BY <1>1, <1>6
      <3> QED
        BY <2>1, <3>1
    <2>5. \E j : HasByte(a \o b, 108 + 108, j, p)
      BY <2>3, <2>4, Zenon
    <2>6. RowBytes[t] = 108 + 108 /\ tile_map[t] = a \o b
      BY <1>1, <1>6 DEF a, b
    <2> QED
      BY <1>2, <2>5, <2>6
  <1> QED
    BY <1>1, <1>3, <1>4, <1>5, <1>6

\* block_map at one byte of the block.
LEMMA BlockMapAt ==
    ASSUME NEW t, NEW q \in 0 .. Size[t] - 1
    PROVE  block_map(t)[q] = Min({j \in DOMAIN tile_map[t] : tile_map[t][j] = q}) - 1
  BY Zenon DEF block_map

\* The byte block_map names holds the block's.
LEMMA BlockMapHolds ==
    ASSUME NEW t \in DOMAIN tile_map, NEW p \in 0 .. Size[t] - 1
    PROVE  HasByte(Repack(t), RowBytes[t], block_map(t)[p], p)
  <1> DEFINE row == tile_map[t]
             bytes == RowBytes[t]
             At == {j \in DOMAIN row : row[j] = p}
  <1>1. Repack(t) = row /\ \E j : HasByte(row, bytes, j, p)
    BY MapHolds
  <1>2. block_map(t)[p] = Min(At) - 1
    BY BlockMapAt
  <1>3. bytes \in Nat
    BY DEF tile_map, RowBytes
  <1> HIDE DEF row, bytes
  <1>4. PICK j : HasByte(row, bytes, j, p)
    BY <1>1
  <1>5. Bytes(row, bytes) /\ DOMAIN row = 1 .. bytes /\ j + 1 \in At
    BY <1>3, <1>4 DEF HasByte, Bytes
  <1>6. \A x \in At : x \in 1 .. bytes /\ row[x] = p
    BY <1>5
  <1>7. At \subseteq Nat /\ At # {}
    BY <1>3, <1>5, <1>6
  <1> HIDE DEF At
  <1>8. \E x \in At : \A y \in At : x <= y
    BY <1>7, LeastNat
  <1>9. Min(At) \in At
    BY <1>8 DEF Min
  <1>10. Min(At) - 1 \in 0 .. bytes - 1 /\ row[Min(At) - 1 + 1] = p
    <2> DEFINE k == Min(At)
    <2>1. k \in 1 .. bytes /\ row[k] = p
      BY <1>6, <1>9
    <2> HIDE DEF k
    <2>2. k - 1 \in 0 .. bytes - 1 /\ k - 1 + 1 = k
      BY <1>3, <2>1
    <2>3. k - 1 \in 0 .. bytes - 1 /\ row[k - 1 + 1] = p
      BY <2>1, <2>2
    <2> QED
      BY <2>3 DEF k
  <1>11. HasByte(row, bytes, Min(At) - 1, p)
    BY <1>5, <1>10 DEF HasByte
  <1> QED
    BY <1>1, <1>2, <1>11 DEF bytes

\* The stage, row and byte a tile byte belongs to.
Digits(a, hb, s, r, v) == a \div (64 * hb) = s /\ (a % (64 * hb)) \div hb = r /\ a % hb = v

\* The byte u of row r of a tile of stages of hb bytes: its stage, row and byte.
LEMMA TileDigits ==
    ASSUME NEW hb \in Nat \ {0}, NEW s \in Nat, NEW r \in 0 .. 63, NEW v \in 0 .. hb - 1
    PROVE  Digits(s * 64 * hb + r * hb + v, hb, s, r, v)
  <1> DEFINE a == s * 64 * hb + r * hb + v
             w == 64 * hb
             x == hb * r + v
  <1>1. /\ w \in Nat \ {0} /\ x \in 0 .. w - 1
    <2>1. hb * r <= hb * 63 /\ hb * r \in Nat
      <3>1. r <= 63 /\ r \in Int /\ 63 \in Int /\ hb \in Nat
        OBVIOUS
      <3>2. hb * r <= hb * 63
        BY <3>1, TimesLeq
      <3> QED
        BY <3>2
    <2> QED
      BY <2>1
  <1>2. a = w * s + x
    <2>1. s * 64 * hb = w * s /\ r * hb = hb * r
      OBVIOUS
    <2>2. w * s \in Nat /\ hb * r \in Nat
      OBVIOUS
    <2> QED
      BY <2>1, <2>2
  <1>3. (w * s + x) \div w = s /\ (w * s + x) % w = x
    <2> HIDE DEF w, x
    <2> QED
      BY <1>1, QuotientOf
  <1>4. (hb * r + v) \div hb = r
    <2>1. r \in Nat
      OBVIOUS
    <2> QED
      BY <2>1, QuotientOf
  <1>5. a = hb * (64 * s + r) + v
    <2>1. s * 64 * hb + r * hb = hb * (64 * s + r)
      OBVIOUS
    <2> QED
      BY <2>1
  <1>6. a % hb = v
    <2> DEFINE q == 64 * s + r
    <2>1. q \in Nat
      OBVIOUS
    <2> HIDE DEF q
    <2>2. (hb * q + v) % hb = v
      BY <2>1, QuotientOf
    <2> QED
      BY <1>5, <2>2 DEF q
  <1>7. a \div w = s /\ (a % w) \div hb = r
    <2>1. a \div w = s /\ a % w = x
      BY <1>2, <1>3
    <2> QED
      BY <1>4, <2>1
  <1> QED
    BY <1>6, <1>7 DEF Digits

\* What the repack puts at the tile byte of a padded row's byte u, in stages of hb bytes.
LEMMA TileByteHolds ==
    ASSUME NEW t \in DOMAIN RowBytes, NEW r \in 0 .. 63, NEW j, NEW p, HasByte(Repack(t), RowBytes[t], j, p)
    PROVE  Held(t, Halves[t], TileByte(t, Halves[t], r, j)) = <<r, p>>
  <1> DEFINE hb == RowBytes[t] \div Halves[t]
             s == j \div hb
             v == j % hb
             a == TileByte(t, Halves[t], r, j)
  <1>1. hb \in Nat \ {0}
    BY DEF Halves, RowBytes
  <1>2. j \in Nat /\ Repack(t)[j + 1] = p
    <2>1. RowBytes[t] \in Nat
      BY RowWords
    <2> QED
      BY <2>1 DEF HasByte
  <1>3. a = s * 64 * hb + r * hb + v
    BY DEF TileByte
  <1>4. Held(t, Halves[t], a) = <<(a % (64 * hb)) \div hb, Repack(t)[(a \div (64 * hb)) * hb + (a % hb) + 1]>>
    BY DEF Held
  <1> HIDE DEF hb, a
  <1>5. s \in Nat /\ v \in 0 .. hb - 1 /\ s * hb + v = j
    <2>1. j = hb * (j \div hb) + (j % hb) /\ j % hb \in 0 .. hb - 1 /\ j \div hb \in Nat
      BY <1>1, <1>2
    <2> QED
      BY <1>1, <2>1
  <1> HIDE DEF s, v
  <1>6. a \div (64 * hb) = s /\ (a % (64 * hb)) \div hb = r /\ a % hb = v
    <2>1. s \in Nat /\ v \in 0 .. hb - 1
      BY <1>5
    <2>2. Digits(s * 64 * hb + r * hb + v, hb, s, r, v)
      BY <1>1, <2>1, TileDigits
    <2>3. Digits(a, hb, s, r, v)
      BY <1>3, <2>2
    <2> QED
      BY <2>3 DEF Digits
  <1>7. Held(t, Halves[t], a) = <<r, Repack(t)[s * hb + v + 1]>>
    BY <1>4, <1>6
  <1>8. Held(t, Halves[t], a) = <<r, p>>
    BY <1>2, <1>5, <1>7
  <1> QED
    BY <1>8 DEF a

\* The prefill's reader finds each byte of each row of a tile, in every format,
\* where the loader's repack put it: an unrepacked row is the row that was packed
\* (unrepack_tiles, unrepack_kq against repack_tiles, repack_kq).
THEOREM RepackInverted ==
    ASSUME NEW t \in DOMAIN RowBytes, NEW r \in 0 .. 63
    PROVE  LET back == IF t \in DOMAIN tile_map THEN unrepack_kq(t, Halves[t], r) ELSE unrepack_tiles(t, r)
           IN  DOMAIN back = 0 .. Size[t] - 1 /\ \A p \in DOMAIN back : Held(t, Halves[t], back[p]) = <<r, p>>
  <1>1. CASE t \in DOMAIN tile_map
    <2>1. /\ DOMAIN unrepack_kq(t, Halves[t], r) = 0 .. Size[t] - 1
          /\ \A p \in 0 .. Size[t] - 1 : unrepack_kq(t, Halves[t], r)[p] = TileByte(t, Halves[t], r, block_map(t)[p])
      BY DEF unrepack_kq
    <2>2. ASSUME NEW p \in 0 .. Size[t] - 1
          PROVE  Held(t, Halves[t], unrepack_kq(t, Halves[t], r)[p]) = <<r, p>>
      <3>1. HasByte(Repack(t), RowBytes[t], block_map(t)[p], p)
        BY <1>1, BlockMapHolds
      <3>2. Held(t, Halves[t], TileByte(t, Halves[t], r, block_map(t)[p])) = <<r, p>>
        BY <3>1, TileByteHolds
      <3> QED
        BY <2>1, <3>2
    <2> QED
      BY <1>1, <2>1, <2>2
  <1>2. CASE t \notin DOMAIN tile_map
    <2> DEFINE at(p) == IF t \in {"IQ4_XS", "Q4_K"} THEN p ELSE IF p < 2 THEN Size[t] - 2 + p ELSE p - 2
    <2>1. /\ DOMAIN unrepack_tiles(t, r) = 0 .. Size[t] - 1
          /\ \A p \in 0 .. Size[t] - 1 : unrepack_tiles(t, r)[p] = r * RowBytes[t] + at(p)
      BY DEF unrepack_tiles
    <2>2. ASSUME NEW p \in 0 .. Size[t] - 1
          PROVE  Held(t, Halves[t], unrepack_tiles(t, r)[p]) = <<r, p>>
      <3> DEFINE j == at(p)
                 bytes == RowBytes[t]
      <3>1. HasByte(Repack(t), bytes, j, p)
        BY <1>2, TilesHold
      <3>2. Held(t, Halves[t], TileByte(t, Halves[t], r, j)) = <<r, p>>
        <4> HIDE DEF j
        <4> QED
          BY <3>1, TileByteHolds
      <3>3. bytes \in Nat \ {0} /\ bytes \div Halves[t] = bytes
        <4>1. Halves[t] = 1
          BY <1>2 DEF Halves, tile_map
        <4>2. bytes \in Nat \ {0}
          BY RowWords
        <4> HIDE DEF bytes
        <4> QED
          BY <4>1, <4>2
      <3>4. j \in 0 .. bytes - 1
        BY <3>1 DEF HasByte
      <3>5. unrepack_tiles(t, r)[p] = r * bytes + j
        BY <2>1
      <3>6. TileByte(t, Halves[t], r, j) = (j \div bytes) * 64 * bytes + r * bytes + (j % bytes)
        BY <3>3 DEF TileByte
      <3> HIDE DEF j, bytes
      <3>7. j \div bytes = 0 /\ j % bytes = j
        <4>1. 0 \in Nat /\ bytes * 0 + j = j
          BY <3>3, <3>4
        <4>2. (bytes * 0 + j) \div bytes = 0 /\ (bytes * 0 + j) % bytes = j
          BY <3>3, <3>4, <4>1, QuotientOf
        <4> QED
          BY <4>1, <4>2
      <3>8. TileByte(t, Halves[t], r, j) = r * bytes + j
        <4> DEFINE z == r * bytes
        <4>1. z \in Nat /\ 0 * 64 * bytes = 0
          BY <3>3
        <4> HIDE DEF z
        <4>2. 0 * 64 * bytes + z + j = z + j
          BY <3>3, <3>4, <4>1
        <4> QED
          BY <3>6, <3>7, <4>2 DEF z
      <3> QED
        BY <3>2, <3>5, <3>8
    <2> QED
      BY <1>2, <2>1, <2>2
  <1> QED
    BY <1>1, <1>2

\* In the specification: whichever formats the shards of a call have, the prefill's
\* reader inverts the repack of each.
THEOREM UnrepackAlways == GemmSpec => []UnrepackInverts
  <1>1. UnrepackInverts
    <2> SUFFICES ASSUME NEW t \in {call.shards[i].type : i \in DOMAIN call.shards} \cap DOMAIN RowBytes,
                        NEW r \in {0, Row, 63}
                 PROVE  LET back == IF t \in DOMAIN tile_map THEN unrepack_kq(t, Halves[t], r) ELSE unrepack_tiles(t, r)
                        IN  \A p \in DOMAIN back : Held(t, Halves[t], back[p]) = <<r, p>>
      BY DEF UnrepackInverts
    <2>1. t \in DOMAIN RowBytes /\ r \in 0 .. 63
      BY DEF Row
    <2> QED
      BY <2>1, RepackInverted
  <1> QED
    BY <1>1, PTL
=============================================================================
