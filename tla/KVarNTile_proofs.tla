--------------------------- MODULE KVarNTile_proofs --------------------------
(* The layout of KVarNTile's records, for every group, head dimension and  *)
(* width: the fields the two flush paths write are the ones the kernels    *)
(* address, they fill the record without overlapping, and a code's address *)
(* never leaves its field.                                                 *)
EXTENDS KVarNTile, FiniteSetTheorems, WellFoundedInduction, TLAPS

\* A multiple of four, and the quotients of it that the layout takes.
LEMMA MultipleOf4 ==
    ASSUME NEW n \in Nat \ {0}, n % 4 = 0
    PROVE  /\ n \div 4 \in Nat \ {0} /\ n = 4 * (n \div 4)
           /\ n \div 2 = 2 * (n \div 4)
  OBVIOUS

LEMMA ConfigFacts ==
    ASSUME NEW c \in Configs
    PROVE  /\ c.head_dim \in Nat \ {0} /\ c.head_dim % 4 = 0
           /\ c.value_bits \in {2, 4} /\ c.fast \in BOOLEAN
           /\ Group \in Nat \ {0} /\ Group % 4 = 0
  BY HeadDimAssumption, ValueBitsAssumption, CountAssumption DEF Configs

\* The packed fields hold whole bytes: no rounding up in k_packed_bytes and
\* v_packed_bytes.
LEMMA PackedExact ==
    ASSUME NEW c \in Configs
    PROVE  /\ k_packed_bytes(c) = FieldSize(c).q_K /\ k_packed_bytes(c) \in Nat
           /\ v_packed_bytes(c) = FieldSize(c).q_V /\ v_packed_bytes(c) \in Nat
  <1> DEFINE d == c.head_dim \div 4
             g == Group \div 4
  <1>1. /\ d \in Nat /\ c.head_dim = 4 * d /\ c.head_dim \div 2 = 2 * d
        /\ g \in Nat /\ Group = 4 * g /\ Group \div 2 = 2 * g
    BY ConfigFacts, MultipleOf4
  <1> HIDE DEF d, g
  <1>2. PICK p \in Nat : p = d * g
    BY <1>1
  <1>3. /\ c.head_dim * Group * 4 = 64 * p /\ c.head_dim * (Group \div 2) = 8 * p
        /\ Group * c.head_dim * 4 = 64 * p /\ Group * (c.head_dim \div 2) = 8 * p
        /\ Group * c.head_dim * 2 = 32 * p /\ Group * (c.head_dim \div 4) = 4 * p
    <2>1. c.head_dim \div 4 = d
      BY DEF d
    <2>2. /\ (4 * d) * (4 * g) * 4 = 64 * p /\ (4 * d) * (2 * g) = 8 * p
          /\ (4 * g) * (4 * d) * 4 = 64 * p /\ (4 * g) * (2 * d) = 8 * p
          /\ (4 * g) * (4 * d) * 2 = 32 * p /\ (4 * g) * d = 4 * p
      BY <1>1, <1>2
    <2> QED
      BY <1>1, <2>1, <2>2
  <1>4. (64 * p + 8 - 1) \div 8 = 8 * p /\ (32 * p + 8 - 1) \div 8 = 4 * p
    OBVIOUS
  <1>5. 8 \div 4 = 2 /\ 8 \div 2 = 4
    OBVIOUS
  <1>6. k_packed_bytes(c) = 8 * p /\ FieldSize(c).q_K = 8 * p
    BY <1>3, <1>4, <1>5 DEF k_packed_bytes, CeilDiv, KeyBits, FieldSize, PACK_K
  <1>7. v_packed_bytes(c) = FieldSize(c).q_V /\ v_packed_bytes(c) \in Nat
    <2>1. CASE c.value_bits = 4
      <3>1. v_packed_bytes(c) = 8 * p /\ FieldSize(c).q_V = 8 * p
        BY <1>3, <1>4, <1>5, <2>1 DEF v_packed_bytes, CeilDiv, FieldSize, PACK_V
      <3> QED
        BY <3>1
    <2>2. CASE c.value_bits = 2
      <3>1. v_packed_bytes(c) = 4 * p /\ FieldSize(c).q_V = 4 * p
        BY <1>3, <1>4, <1>5, <2>2 DEF v_packed_bytes, CeilDiv, FieldSize, PACK_V
      <3> QED
        BY <3>1
    <2> QED
      BY <2>1, <2>2, ConfigFacts
  <1> QED
    BY <1>6, <1>7

LEMMA FieldSizes ==
    ASSUME NEW c \in Configs
    PROVE  /\ \A f \in DOMAIN FieldSize(c) : FieldSize(c)[f] \in Nat
           /\ DOMAIN FieldSize(c) = {CatOrder[i] : i \in 1 .. 8}
  <1> DEFINE s == FieldSize(c)
  <1>1. c.head_dim \in Nat /\ Group \in Nat
    BY ConfigFacts
  <1>2. s.q_K \in Nat /\ s.q_V \in Nat
    BY PackedExact
  <1>3. /\ s.s_col_K = 2 * c.head_dim /\ s.zp_K = 2 * c.head_dim /\ s.s_row_K = 2 * Group
        /\ s.s_col_V = 2 * c.head_dim /\ s.s_row_V = 2 * Group /\ s.zp_V = 2 * Group
    BY DEF FieldSize
  <1>4. DOMAIN s = {"q_K", "s_col_K", "zp_K", "s_row_K", "q_V", "s_col_V", "s_row_V", "zp_V"}
    BY DEF FieldSize
  <1>5. {CatOrder[i] : i \in 1 .. 8} =
          {"q_K", "s_col_K", "zp_K", "s_row_K", "q_V", "s_col_V", "s_row_V", "zp_V"}
    BY DEF CatOrder
  <1> HIDE DEF s
  <1>6. \A f \in DOMAIN s : s[f] \in Nat
    BY <1>1, <1>2, <1>3, <1>4
  <1> QED
    BY <1>4, <1>5, <1>6 DEF s

\* Each field of _write_packed starts where the one before it ends.
LEMMA WriteStartsFollow ==
    ASSUME NEW c \in Configs
    PROVE  /\ WriteStart(c)[1] = 0
           /\ \A i \in 2 .. 8 :
                 WriteStart(c)[i] = WriteStart(c)[i - 1] + FieldSize(c)[CatOrder[i - 1]]
           /\ \A i \in 1 .. 8 : WriteStart(c)[i] \in Nat
           /\ WriteStart(c)[8] + FieldSize(c).zp_V = tile_bytes(c)
  <1> DEFINE s == FieldSize(c)
  <1>1. c.head_dim \in Nat /\ Group \in Nat
    BY ConfigFacts
  <1>2. /\ s.q_K = k_packed_bytes(c) /\ k_packed_bytes(c) \in Nat
        /\ s.q_V = v_packed_bytes(c) /\ v_packed_bytes(c) \in Nat
    BY PackedExact
  <1>3. /\ s.s_col_K = 2 * c.head_dim /\ s.zp_K = 2 * c.head_dim /\ s.s_row_K = 2 * Group
        /\ s.s_col_V = 2 * c.head_dim /\ s.s_row_V = 2 * Group /\ s.zp_V = 2 * Group
    BY DEF FieldSize
  <1> HIDE DEF s
  <1>4. /\ k_s_col_offset(c) = s.q_K
        /\ k_zp_offset(c) = k_s_col_offset(c) + s.s_col_K
        /\ k_s_row_offset(c) = k_zp_offset(c) + s.zp_K
        /\ v_packed_offset(c) = k_s_row_offset(c) + s.s_row_K
        /\ v_s_col_offset(c) = v_packed_offset(c) + s.q_V
        /\ v_s_row_offset(c) = v_s_col_offset(c) + s.s_col_V
        /\ v_zp_offset(c) = v_s_row_offset(c) + s.s_row_V
    BY <1>1, <1>2, <1>3 DEF k_s_col_offset, k_zp_offset, k_s_row_offset, v_packed_offset,
       v_s_col_offset, v_s_row_offset, v_zp_offset, k_packed_offset
  <1>5. /\ k_s_col_offset(c) \in Nat /\ k_zp_offset(c) \in Nat /\ k_s_row_offset(c) \in Nat
        /\ v_packed_offset(c) \in Nat /\ v_s_col_offset(c) \in Nat /\ v_s_row_offset(c) \in Nat
        /\ v_zp_offset(c) \in Nat
    BY <1>1, <1>2, <1>3, <1>4
  <1>6. v_zp_offset(c) + s.zp_V = tile_bytes(c)
    BY <1>1, <1>2, <1>3, <1>4 DEF tile_bytes, k_scale_bytes, v_scale_bytes
  <1>7. /\ WriteStart(c)[1] = 0 /\ WriteStart(c)[2] = k_s_col_offset(c)
        /\ WriteStart(c)[3] = k_zp_offset(c) /\ WriteStart(c)[4] = k_s_row_offset(c)
        /\ WriteStart(c)[5] = v_packed_offset(c) /\ WriteStart(c)[6] = v_s_col_offset(c)
        /\ WriteStart(c)[7] = v_s_row_offset(c) /\ WriteStart(c)[8] = v_zp_offset(c)
    BY DEF WriteStart, k_packed_offset
  <1>8. /\ CatOrder[1] = "q_K" /\ CatOrder[2] = "s_col_K" /\ CatOrder[3] = "zp_K"
        /\ CatOrder[4] = "s_row_K" /\ CatOrder[5] = "q_V" /\ CatOrder[6] = "s_col_V"
        /\ CatOrder[7] = "s_row_V" /\ CatOrder[8] = "zp_V"
    BY DEF CatOrder
  <1>9. \A i \in 2 .. 8 : WriteStart(c)[i] = WriteStart(c)[i - 1] + s[CatOrder[i - 1]]
    <2> SUFFICES ASSUME NEW i \in 2 .. 8
                 PROVE  WriteStart(c)[i] = WriteStart(c)[i - 1] + s[CatOrder[i - 1]]
      OBVIOUS
    <2>1. i = 2 \/ i = 3 \/ i = 4 \/ i = 5 \/ i = 6 \/ i = 7 \/ i = 8
      OBVIOUS
    <2>2. CASE i = 2
      BY <2>2, <1>1, <1>2, <1>4, <1>7, <1>8
    <2>3. CASE i = 3 \/ i = 4
      BY <2>3, <1>4, <1>7, <1>8
    <2>4. CASE i = 5 \/ i = 6
      BY <2>4, <1>4, <1>7, <1>8
    <2>5. CASE i = 7 \/ i = 8
      BY <2>5, <1>4, <1>7, <1>8
    <2> QED
      BY <2>1, <2>2, <2>3, <2>4, <2>5
  <1>10. \A i \in 1 .. 8 : WriteStart(c)[i] \in Nat
    <2> SUFFICES ASSUME NEW i \in 1 .. 8 PROVE WriteStart(c)[i] \in Nat
      OBVIOUS
    <2>1. i = 1 \/ i = 2 \/ i = 3 \/ i = 4 \/ i = 5 \/ i = 6 \/ i = 7 \/ i = 8
      OBVIOUS
    <2> QED
      BY <2>1, <1>5, <1>7
  <1> QED
    BY <1>6, <1>7, <1>9, <1>10 DEF s

\* The vectorised flush concatenates the fields, the legacy one writes each at
\* its offset, and every reader goes by the offsets: the two records are laid
\* out alike (_batched_flush: "same byte layout").
THEOREM FlushPathsAgree ==
    ASSUME NEW c \in Configs
    PROVE  CatStart(c) = WriteStart(c)
  <1> DEFINE w == WriteStart(c)
             Step(f, i) == IF i = 1 THEN 0 ELSE f[i - 1] + FieldSize(c)[CatOrder[i - 1]]
  <1>1. w = [i \in 1 .. 8 |-> Step(w, i)]
    <2>1. DOMAIN w = 1 .. 8 /\ w = [i \in 1 .. 8 |-> w[i]]
      BY DEF WriteStart
    <2>2. \A i \in 1 .. 8 : w[i] = Step(w, i)
      BY WriteStartsFollow
    <2> HIDE DEF w
    <2> QED
      BY <2>1, <2>2
  <1>2. CatStart(c) = CHOOSE f : f = [i \in 1 .. 8 |-> Step(f, i)]
    BY DEF CatStart
  <1> DEFINE f == CatStart(c)
  <1>3. f = [i \in 1 .. 8 |-> Step(f, i)]
    <2> HIDE DEF w
    <2> QED
      BY <1>1, <1>2
  <1> HIDE DEF w, f
  <1>4. DOMAIN f = 1 .. 8 /\ \A i \in 1 .. 8 : f[i] = Step(f, i)
    BY <1>3
  <1>5. DOMAIN w = 1 .. 8 /\ \A i \in 1 .. 8 : w[i] = Step(w, i)
    BY <1>1
  <1>6. f[1] = w[1]
    BY <1>4, <1>5
  <1>7. f[2] = w[2]
    BY <1>4, <1>5, <1>6
  <1>8. f[3] = w[3]
    BY <1>4, <1>5, <1>7
  <1>9. f[4] = w[4]
    BY <1>4, <1>5, <1>8
  <1>10. f[5] = w[5]
    BY <1>4, <1>5, <1>9
  <1>11. f[6] = w[6]
    BY <1>4, <1>5, <1>10
  <1>12. f[7] = w[7]
    BY <1>4, <1>5, <1>11
  <1>13. f[8] = w[8]
    BY <1>4, <1>5, <1>12
  <1>14. \A i \in 1 .. 8 : f[i] = w[i]
    <2>1. \A i \in 1 .. 8 : i = 1 \/ i = 2 \/ i = 3 \/ i = 4 \/ i = 5 \/ i = 6 \/ i = 7 \/ i = 8
      OBVIOUS
    <2> QED
      BY <2>1, <1>6, <1>7, <1>8, <1>9, <1>10, <1>11, <1>12, <1>13
  <1>15. f = [i \in 1 .. 8 |-> f[i]] /\ w = [i \in 1 .. 8 |-> w[i]]
    BY <1>1, <1>3, <1>4, <1>5
  <1> QED
    BY <1>14, <1>15 DEF f, w

-----------------------------------------------------------------------------

\* The quotient of a division and its bounds.
LEMMA DivBounds ==
    ASSUME NEW a \in Nat, NEW b \in Nat \ {0}
    PROVE  a \div b \in Nat /\ b * (a \div b) <= a /\ a < b * (a \div b) + b
  OBVIOUS

LEMMA TimesLess ==
    ASSUME NEW b \in Nat \ {0}, NEW x \in Int, NEW y \in Int, b * x < b * y
    PROVE  x < y
  OBVIOUS

LEMMA TimesLeq ==
    ASSUME NEW b \in Nat, NEW x \in Int, NEW y \in Int, x <= y
    PROVE  b * x <= b * y
  OBVIOUS

\* Quotient and remainder of an element of block b.
LEMMA QuotientOfBlock ==
    ASSUME NEW n \in Nat \ {0}, NEW b \in Nat, NEW t \in 0 .. n - 1
    PROVE  (b * n + t) \div n = b /\ (b * n + t) % n = t
  <1> DEFINE a == b * n + t
             q == a \div n
  <1>1. a \in Nat /\ a = n * b + t
    OBVIOUS
  <1>2. q \in Nat /\ n * q <= a /\ a < n * q + n
    BY <1>1, DivBounds
  <1> HIDE DEF q
  <1>3. n * q + n = n * (q + 1) /\ n * b + n = n * (b + 1)
    BY <1>2
  <1>4. n * q < n * (b + 1)
    <2>1. n * q \in Int /\ n * b \in Int
      BY <1>2
    <2> QED
      BY <1>1, <1>2, <1>3, <2>1
  <1>5. n * b < n * (q + 1)
    <2>1. n * q \in Int /\ n * b \in Int
      BY <1>2
    <2> QED
      BY <1>1, <1>2, <1>3, <2>1
  <1>6. q < b + 1 /\ b < q + 1
    BY <1>2, <1>4, <1>5, TimesLess
  <1>7. q = b
    BY <1>2, <1>6
  <1>8. (b * n + t) % n = t
    BY SMTT(30)
  <1> QED
    BY <1>7, <1>8 DEF q

\* Rounding up to a multiple of a unit.
LEMMA RoundUp ==
    ASSUME NEW a \in Nat, NEW u \in Nat \ {0}
    PROVE  CeilDiv(a, u) \in Nat /\ a <= CeilDiv(a, u) * u
  <1> DEFINE q == (a + u - 1) \div u
  <1>1. a + u - 1 \in Nat
    OBVIOUS
  <1>2. q \in Nat /\ a + u - 1 < u * q + u
    BY <1>1, DivBounds
  <1> HIDE DEF q
  <1>3. q * u = u * q /\ u * q \in Int
    BY <1>2
  <1>4. a <= q * u
    BY <1>2, <1>3
  <1> QED
    BY <1>2, <1>4 DEF q, CeilDiv

LEMMA MultipleOfGroup ==
    ASSUME NEW k \in Nat
    PROVE  (k * Group) % Group = 0
  <1>1. Group \in Nat \ {0} /\ 0 \in 0 .. Group - 1
    BY CountAssumption
  <1>2. (k * Group + 0) % Group = 0
    BY <1>1, QuotientOfBlock
  <1>3. k * Group + 0 = k * Group
    BY <1>1
  <1> QED
    BY <1>2, <1>3

-----------------------------------------------------------------------------
(* The power of two of KVARN_POW2_SLOT.                                    *)

LEMMA LeastNat ==
    ASSUME NEW T, T \subseteq Nat, T # {}
    PROVE  \E x \in T : \A y \in T : x <= y
  <1>1. \E R : IsWellFoundedOn(R, Nat) /\ \A x, y \in Nat : x < y => <<x, y>> \in R
    <2> DEFINE R == OpToRel(<, Nat)
    <2>1. IsWellFoundedOn(R, Nat)
      BY NatLessThanWellFounded
    <2>2. \A x, y \in Nat : x < y => <<x, y>> \in R
      BY DEF OpToRel
    <2> HIDE DEF R
    <2> QED
      BY <2>1, <2>2
  <1>2. PICK R : IsWellFoundedOn(R, Nat) /\ \A x, y \in Nat : x < y => <<x, y>> \in R
    BY <1>1
  <1>3. \E x \in T : \A y \in T : ~(<<y, x>> \in R)
    <2>1. IsWellFoundedOn(R, Nat)
      BY <1>2
    <2> QED
      BY <2>1, WFMin, Zenon
  <1>4. PICK x \in T : \A y \in T : ~(y < x)
    BY <1>2, <1>3
  <1> QED
    BY <1>4

\* The power of two as the number of subsets: the provers know no other fact
\* about it.
LEMMA PowerIsSubsets ==
    ASSUME NEW n \in Nat
    PROVE  /\ IsFiniteSet(SUBSET (1 .. n)) /\ Cardinality(SUBSET (1 .. n)) = 2 ^ n
           /\ 2 ^ n \in Nat
  <1>1. IsFiniteSet(1 .. n) /\ Cardinality(1 .. n) = n
    BY FS_Interval
  <1>2. IsFiniteSet(SUBSET (1 .. n)) /\ Cardinality(SUBSET (1 .. n)) = 2 ^ n
    BY <1>1, FS_SUBSET, Zenon
  <1> QED
    BY <1>2, FS_CardinalityType

LEMMA PowerDoubles ==
    ASSUME NEW n \in Nat
    PROVE  2 ^ (n + 1) = 2 * 2 ^ n
  <1> DEFINE without == SUBSET (1 .. n)
             with == {S \cup {n + 1} : S \in without}
             f == [S \in without |-> S \cup {n + 1}]
  <1>1. /\ IsFiniteSet(without) /\ Cardinality(without) = 2 ^ n
        /\ Cardinality(SUBSET (1 .. n + 1)) = 2 ^ (n + 1)
    <2>1. n + 1 \in Nat
      OBVIOUS
    <2> QED
      BY <2>1, PowerIsSubsets, Zenon
  <1>2. \A S \in without : n + 1 \notin S
    OBVIOUS
  <1>3. f \in Bijection(without, with)
    <2>1. f \in [without -> with]
      OBVIOUS
    <2>2. \A S, R \in without : f[S] = f[R] => S = R
      <3> SUFFICES ASSUME NEW S \in without, NEW R \in without, f[S] = f[R]
                   PROVE  S = R
        OBVIOUS
      <3>1. S \cup {n + 1} = R \cup {n + 1}
        OBVIOUS
      <3> QED
        BY <1>2, <3>1
    <2>3. \A W \in with : \E S \in without : f[S] = W
      OBVIOUS
    <2> HIDE DEF f
    <2>4. f \in Injection(without, with)
      BY <2>1, <2>2 DEF Injection, IsInjective
    <2>5. f \in Surjection(without, with)
      BY <2>1, <2>3 DEF Surjection
    <2> QED
      BY <2>4, <2>5 DEF Bijection
  <1>4. IsFiniteSet(with) /\ Cardinality(with) = 2 ^ n
    <2>1. ExistsBijection(without, with)
      BY <1>3 DEF ExistsBijection
    <2> QED
      BY <1>1, <2>1, FS_Bijection
  <1>5. SUBSET (1 .. n + 1) = without \cup with
    <2>1. 1 .. n + 1 = (1 .. n) \cup {n + 1}
      OBVIOUS
    <2>2. ASSUME NEW S \in SUBSET (1 .. n + 1)
          PROVE  S \in without \cup with
      <3>1. CASE n + 1 \notin S
        BY <2>1, <2>2, <3>1
      <3>2. CASE n + 1 \in S
        <4>1. S \ {n + 1} \in without /\ S = (S \ {n + 1}) \cup {n + 1}
          BY <2>1, <2>2, <3>2
        <4> QED
          BY <4>1
      <3> QED
        BY <3>1, <3>2
    <2>3. ASSUME NEW S \in without \cup with
          PROVE  S \in SUBSET (1 .. n + 1)
      BY <2>1, <2>3
    <2> QED
      BY <2>2, <2>3
  <1>6. without \cap with = {}
    BY <1>2
  <1>7. Cardinality(without \cap with) = 0
    BY <1>6, FS_EmptySet
  <1>8. 2 ^ n \in Nat
    BY PowerIsSubsets
  <1> HIDE DEF without, with
  <1>9. Cardinality(without \cup with) = 2 ^ n + 2 ^ n - 0
    BY <1>1, <1>4, <1>7, FS_Union
  <1>10. PICK x \in Nat : x = 2 ^ n
    BY <1>8
  <1>11. x + x - 0 = 2 * x
    OBVIOUS
  <1>12. 2 ^ (n + 1) = x + x - 0
    BY <1>1, <1>5, <1>9, <1>10, Zenon
  <1> QED
    BY <1>10, <1>11, <1>12, Zenon

LEMMA PowerExceeds ==
    ASSUME NEW n \in Nat
    PROVE  n < 2 ^ n
  <1> DEFINE bad == {k \in Nat : ~(k < 2 ^ k)}
  <1> SUFFICES ASSUME bad # {} PROVE FALSE
    OBVIOUS
  <1>1. PICK k \in bad : \A j \in bad : k <= j
    BY LeastNat
  <1>2. k # 0
    <2>1. 0 < 2 ^ 0
      OBVIOUS
    <2>2. ~(k < 2 ^ k)
      BY <1>1
    <2> QED
      BY <2>1, <2>2, Zenon
  <1>3. PICK j \in Nat : k = j + 1
    <2>1. k - 1 \in Nat /\ k = (k - 1) + 1
      BY <1>2
    <2> QED
      BY <2>1
  <1>4. j < 2 ^ j
    BY <1>1, <1>3
  <1>5. 2 ^ (j + 1) = 2 * 2 ^ j /\ 2 ^ j \in Nat
    BY PowerDoubles, PowerIsSubsets
  <1> QED
    BY <1>1, <1>3, <1>4, <1>5

\* Some power of two lies between n and 2n.
LEMMA PowerBetween ==
    ASSUME NEW n \in Nat \ {0}
    PROVE  LeastPowerOf2(n) \in Nat /\ n <= LeastPowerOf2(n)
  <1> DEFINE powers == {2 ^ i : i \in 0 .. n}
             reach == {i \in Nat : n <= 2 ^ i}
  <1>1. n \in reach
    <2>1. n < 2 ^ n /\ 2 ^ n \in Nat
      BY PowerExceeds, PowerIsSubsets
    <2> QED
      BY <2>1
  <1>2. PICK i \in reach : \A j \in reach : i <= j
    BY <1>1, LeastNat
  <1>3. i \in 0 .. n /\ n <= 2 ^ i
    BY <1>1, <1>2
  <1>4. 2 ^ i < 2 * n
    <2>1. CASE i = 0
      <3>1. 2 ^ 0 = 1
        OBVIOUS
      <3> QED
        BY <2>1, <3>1
    <2>2. CASE i # 0
      <3>1. PICK j \in Nat : i = j + 1
        <4>1. i - 1 \in Nat /\ i = (i - 1) + 1
          BY <1>3, <2>2
        <4> QED
          BY <4>1
      <3>2. ~(n <= 2 ^ j)
        BY <1>2, <3>1
      <3>3. 2 ^ (j + 1) = 2 * 2 ^ j /\ 2 ^ j \in Nat
        BY PowerDoubles, PowerIsSubsets
      <3> QED
        BY <3>1, <3>2, <3>3
    <2> QED
      BY <2>1, <2>2
  <1>5. \E p \in powers : n <= p /\ p < 2 * n
    BY <1>3, <1>4
  <1>6. LeastPowerOf2(n) \in powers /\ n <= LeastPowerOf2(n)
    BY <1>5 DEF LeastPowerOf2
  <1>7. \A j \in 0 .. n : 2 ^ j \in Nat
    <2>1. \A j \in 0 .. n : j \in Nat
      OBVIOUS
    <2> QED
      BY <2>1, PowerIsSubsets, Zenon
  <1> QED
    BY <1>6, <1>7

-----------------------------------------------------------------------------

LEMMA TileNotEmpty ==
    ASSUME NEW c \in Configs
    PROVE  tile_bytes(c) # 0
  <1>1. /\ k_packed_bytes(c) \in Nat /\ v_packed_bytes(c) \in Nat
        /\ c.head_dim \in Nat \ {0} /\ Group \in Nat \ {0}
    BY PackedExact, ConfigFacts
  <1> QED
    BY <1>1 DEF tile_bytes, k_scale_bytes, v_scale_bytes

\* The record, rounded either way, is a whole number of bytes in each of its
\* block's slots and holds every byte of the tile.
LEMMA AlignedSize ==
    ASSUME NEW c \in Configs, tile_bytes(c) \in Nat
    PROVE  /\ tile_bytes_aligned(c) \in Nat /\ tile_bytes(c) <= tile_bytes_aligned(c)
           /\ tile_bytes_aligned(c) % Group = 0
  <1> DEFINE T == tile_bytes_aligned(c)
  <1>1. Group \in Nat \ {0}
    BY CountAssumption
  <1>2. CASE Pow2Slot(c)
    <2>1. CeilDiv(tile_bytes(c), Group) \in Nat /\ tile_bytes(c) <= CeilDiv(tile_bytes(c), Group) * Group
      BY <1>1, RoundUp
    <2>2. PICK q \in Nat : q = CeilDiv(tile_bytes(c), Group)
      BY <2>1
    <2>3. T = LeastPowerOf2(q) * Group
      BY <1>2, <2>2 DEF tile_bytes_aligned, RoundedToSlot
    <2>4. q # 0
      <3>1. tile_bytes(c) # 0
        BY TileNotEmpty
      <3> QED
        BY <1>1, <2>1, <2>2, <3>1
    <2>5. PICK p \in Nat : p = LeastPowerOf2(q) /\ q <= p
      BY <2>2, <2>4, PowerBetween
    <2>6. Group * q <= Group * p
      BY <1>1, <2>5, TimesLeq
    <2>7. T \in Nat /\ tile_bytes(c) <= T
      BY <1>1, <2>1, <2>2, <2>3, <2>5, <2>6
    <2> QED
      BY <2>3, <2>5, <2>7, MultipleOfGroup
  <1>3. CASE ~Pow2Slot(c)
    <2>1. Unit \in Nat \ {0} /\ (Unit = Group \/ Unit = 2 * Group)
      BY CountAssumption DEF Unit
    <2>2. CeilDiv(tile_bytes(c), Unit) \in Nat /\ tile_bytes(c) <= CeilDiv(tile_bytes(c), Unit) * Unit
      BY <2>1, RoundUp
    <2>3. PICK q \in Nat : q = CeilDiv(tile_bytes(c), Unit)
      BY <2>2
    <2>4. T = q * Unit
      BY <1>3, <2>3 DEF tile_bytes_aligned, RoundedToUnit
    <2>5. T \in Nat /\ tile_bytes(c) <= T
      BY <2>1, <2>2, <2>3, <2>4
    <2>6. CASE Unit = Group
      BY <2>3, <2>4, <2>5, <2>6, MultipleOfGroup
    <2>7. CASE Unit = 2 * Group
      <3>1. T = (2 * q) * Group /\ 2 * q \in Nat
        BY <1>1, <2>3, <2>4, <2>7
      <3> QED
        BY <2>5, <3>1, MultipleOfGroup
    <2> QED
      BY <2>1, <2>6, <2>7
  <1> QED
    BY <1>2, <1>3

\* A configuration gives a record whose fields follow one another without a gap
\* or an overlap and lie inside, and whose size is the slots of its block, none
\* cut (tile_bytes_aligned: "so the per-token slot tile_bytes_aligned // group is
\* exact"), also when the slot is rounded to a power of two.
THEOREM RecordFillsItsSlots ==
    ASSUME NEW c \in Configs
    PROVE  /\ tile_bytes_aligned(c) \in Nat \ {0} /\ tile_bytes_aligned(c) % Group = 0
           /\ tile_bytes(c) <= tile_bytes_aligned(c)
           /\ \A i \in 1 .. 8 : FieldStart(c)[i] + FieldSize(c)[CatOrder[i]] <= tile_bytes_aligned(c)
           /\ \A i \in 1 .. 7 : FieldStart(c)[i] + FieldSize(c)[CatOrder[i]] = FieldStart(c)[i + 1]
  <1> DEFINE w == WriteStart(c)
             s == FieldSize(c)
             T == tile_bytes_aligned(c)
  <1>1. FieldStart(c) = w
    BY FlushPathsAgree DEF FieldStart
  <1>2. \A i \in 1 .. 8 : s[CatOrder[i]] \in Nat
    BY FieldSizes
  <1>3. /\ \A i \in 2 .. 8 : w[i] = w[i - 1] + s[CatOrder[i - 1]]
        /\ \A i \in 1 .. 8 : w[i] \in Nat
        /\ w[8] + s[CatOrder[8]] = tile_bytes(c)
    BY WriteStartsFollow DEF CatOrder
  <1>4. tile_bytes(c) \in Nat
    <2> HIDE DEF w, s
    <2> QED
      BY <1>2, <1>3
  <1>5. tile_bytes(c) # 0
    BY TileNotEmpty
  <1>6. T \in Nat /\ tile_bytes(c) <= T /\ T % Group = 0
    BY <1>4, AlignedSize
  <1> HIDE DEF w, s, T
  <1>7. \A i \in 1 .. 7 : w[i] + s[CatOrder[i]] = w[i + 1]
    <2> SUFFICES ASSUME NEW i \in 1 .. 7 PROVE w[i] + s[CatOrder[i]] = w[i + 1]
      OBVIOUS
    <2>1. i + 1 \in 2 .. 8 /\ (i + 1) - 1 = i
      OBVIOUS
    <2> QED
      BY <1>3, <2>1
  <1>8. \A i \in 1 .. 8 : w[i] + s[CatOrder[i]] <= T
    <2> DEFINE e(i) == w[i] + s[CatOrder[i]]
    <2>1. \A i \in 1 .. 8 : e(i) \in Nat
      BY <1>2, <1>3
    <2>2. \A i \in 1 .. 7 : e(i) <= e(i + 1)
      <3> SUFFICES ASSUME NEW i \in 1 .. 7 PROVE e(i) <= e(i + 1)
        OBVIOUS
      <3>1. i \in 1 .. 8 /\ i + 1 \in 1 .. 8
        OBVIOUS
      <3>2. e(i) = w[i + 1] /\ s[CatOrder[i + 1]] \in Nat /\ w[i + 1] \in Nat
        BY <1>2, <1>3, <1>7, <3>1
      <3> QED
        BY <3>2
    <2>3. e(8) <= T
      BY <1>3, <1>6
    <2> HIDE DEF e
    <2>4. /\ e(1) <= e(2) /\ e(2) <= e(3) /\ e(3) <= e(4) /\ e(4) <= e(5)
          /\ e(5) <= e(6) /\ e(6) <= e(7) /\ e(7) <= e(8)
      <3>1. /\ e(1) <= e(1 + 1) /\ e(2) <= e(2 + 1) /\ e(3) <= e(3 + 1) /\ e(4) <= e(4 + 1)
            /\ e(5) <= e(5 + 1) /\ e(6) <= e(6 + 1) /\ e(7) <= e(7 + 1)
        BY <2>2
      <3>2. /\ 1 + 1 = 2 /\ 2 + 1 = 3 /\ 3 + 1 = 4 /\ 4 + 1 = 5 /\ 5 + 1 = 6
            /\ 6 + 1 = 7 /\ 7 + 1 = 8
        OBVIOUS
      <3> QED
        BY <3>1, <3>2
    <2>5. /\ e(1) \in Nat /\ e(2) \in Nat /\ e(3) \in Nat /\ e(4) \in Nat
          /\ e(5) \in Nat /\ e(6) \in Nat /\ e(7) \in Nat /\ e(8) \in Nat
      BY <2>1
    <2>6. \A i \in 1 .. 8 : i = 1 \/ i = 2 \/ i = 3 \/ i = 4 \/ i = 5 \/ i = 6 \/ i = 7 \/ i = 8
      OBVIOUS
    <2>7. \A i \in 1 .. 8 : e(i) <= T
      BY <1>6, <2>3, <2>4, <2>5, <2>6
    <2> QED
      BY <2>7 DEF e
  <1> QED
    BY <1>1, <1>4, <1>5, <1>6, <1>7, <1>8 DEF w, s, T

-----------------------------------------------------------------------------

LEMMA ByPairs ==
    ASSUME NEW m \in Nat \ {0}, NEW x \in 0 .. 2 * m - 1
    PROVE  x \div 2 \in 0 .. m - 1 /\ x = 2 * (x \div 2) + (x % 2)
  OBVIOUS

LEMMA ByFours ==
    ASSUME NEW m \in Nat \ {0}, NEW x \in 0 .. 4 * m - 1
    PROVE  x \div 4 \in 0 .. m - 1 /\ x = 4 * (x \div 4) + (x % 4)
  OBVIOUS

\* Rows of n elements packed p to a byte: an element's byte lies in the field,
\* and the byte and the place in it tell the element.
LEMMA PackedPlace ==
    ASSUME NEW n \in Nat \ {0}, NEW p \in {2, 4}, n % 4 = 0, NEW x \in 0 .. n - 1
    PROVE  /\ n \div p \in Nat \ {0}
           /\ x \div p \in 0 .. (n \div p) - 1
           /\ x = p * (x \div p) + (x % p)
  <1>1. CASE p = 2
    <2>1. n \div 2 \in Nat \ {0} /\ n = 2 * (n \div 2)
      OBVIOUS
    <2>2. x \div 2 \in 0 .. (n \div 2) - 1 /\ x = 2 * (x \div 2) + (x % 2)
      BY <2>1, ByPairs
    <2> QED
      BY <1>1, <2>1, <2>2
  <1>2. CASE p = 4
    <2>1. n \div 4 \in Nat \ {0} /\ n = 4 * (n \div 4)
      OBVIOUS
    <2>2. x \div 4 \in 0 .. (n \div 4) - 1 /\ x = 4 * (x \div 4) + (x % 4)
      BY <2>1, ByFours
    <2> QED
      BY <1>2, <2>1, <2>2
  <1> QED
    BY <1>1, <1>2

LEMMA PackedInside ==
    ASSUME NEW rows \in Nat, NEW n \in Nat \ {0}, NEW p \in {2, 4}, n % 4 = 0,
           NEW r \in 0 .. rows - 1, NEW x \in 0 .. n - 1
    PROVE  r * (n \div p) + x \div p \in 0 .. rows * (n \div p) - 1
  <1>1. PICK m \in Nat \ {0} : m = n \div p
    BY PackedPlace
  <1>2. PICK y \in 0 .. m - 1 : y = x \div p
    BY <1>1, PackedPlace
  <1>3. m * (r + 1) <= m * rows
    <2>1. r + 1 \in Int /\ rows \in Int /\ r + 1 <= rows /\ m \in Nat
      OBVIOUS
    <2> QED
      BY <2>1, TimesLeq
  <1>4. m * (r + 1) = r * m + m /\ m * rows = rows * m
    OBVIOUS
  <1>5. r * m \in Nat /\ rows * m \in Nat /\ m \in Nat
    OBVIOUS
  <1>6. r * m + y \in 0 .. rows * m - 1
    BY <1>3, <1>4, <1>5
  <1> QED
    BY <1>1, <1>2, <1>6

\* Two elements in the same byte and at the same place of it are one element.
Apart(n, p, r, x, s, y) ==
    r * (n \div p) + x \div p = s * (n \div p) + y \div p /\ x % p = y % p => r = s /\ x = y

LEMMA PackedApart ==
    ASSUME NEW n \in Nat \ {0}, NEW p \in {2, 4}, n % 4 = 0,
           NEW r \in Nat, NEW x \in 0 .. n - 1, NEW s \in Nat, NEW y \in 0 .. n - 1
    PROVE  Apart(n, p, r, x, s, y)
  <1> SUFFICES ASSUME r * (n \div p) + x \div p = s * (n \div p) + y \div p, x % p = y % p
               PROVE  r = s /\ x = y
    BY DEF Apart
  <1>1. PICK m \in Nat \ {0} : m = n \div p
    BY PackedPlace
  <1>2. PICK a \in 0 .. m - 1 : a = x \div p
    BY <1>1, PackedPlace
  <1>3. PICK b \in 0 .. m - 1 : b = y \div p
    BY <1>1, PackedPlace
  <1>4. r * m + a = s * m + b
    BY <1>1, <1>2, <1>3
  <1>5. (r * m + a) \div m = r /\ (r * m + a) % m = a
    BY QuotientOfBlock
  <1>6. (s * m + b) \div m = s /\ (s * m + b) % m = b
    BY QuotientOfBlock
  <1>7. r = s /\ a = b
    BY <1>4, <1>5, <1>6
  <1>8. x = p * (x \div p) + (x % p) /\ y = p * (y \div p) + (y % p)
    BY PackedPlace
  <1> QED
    BY <1>2, <1>3, <1>7, <1>8

\* At every width a reader's address of a code lies in the packed field, and two
\* elements never share bits of it (triton_kvarn_decode.py:257-260: the fixed
\* 4-bit strides "read past the 2-bit-V packed region").
THEOREM CodesStayInTheirField ==
    ASSUME NEW c \in Configs
    PROVE  /\ \A d \in 0 .. c.head_dim - 1, t \in Tokens :
                 /\ KCodeOffset(d, t) \in 0 .. FieldSize(c).q_K - 1
                 /\ VCodeOffset(c, d, t) \in 0 .. FieldSize(c).q_V - 1
           /\ \A d, d2 \in 0 .. c.head_dim - 1, t, t2 \in Tokens :
                 /\ KCodeOffset(d, t) = KCodeOffset(d2, t2) /\ t % PACK_K = t2 % PACK_K
                        => d = d2 /\ t = t2
                 /\ VCodeOffset(c, d, t) = VCodeOffset(c, d2, t2) /\ d % PACK_V(c) = d2 % PACK_V(c)
                        => d = d2 /\ t = t2
  <1>1. /\ c.head_dim \in Nat \ {0} /\ c.head_dim % 4 = 0
        /\ Group \in Nat \ {0} /\ Group % 4 = 0
    BY ConfigFacts
  <1>2. PACK_K \in {2, 4} /\ PACK_V(c) \in {2, 4}
    BY ConfigFacts DEF PACK_K, PACK_V, KeyBits
  <1>3. /\ FieldSize(c).q_K = c.head_dim * (Group \div PACK_K)
        /\ FieldSize(c).q_V = Group * (c.head_dim \div PACK_V(c))
    BY DEF FieldSize
  <1>4. ASSUME NEW d \in 0 .. c.head_dim - 1, NEW t \in Tokens
        PROVE  /\ KCodeOffset(d, t) \in 0 .. FieldSize(c).q_K - 1
               /\ VCodeOffset(c, d, t) \in 0 .. FieldSize(c).q_V - 1
    <2>1. t \in 0 .. Group - 1
      BY DEF Tokens
    <2>2. d * (Group \div PACK_K) + t \div PACK_K \in 0 .. c.head_dim * (Group \div PACK_K) - 1
      BY <1>1, <1>2, <2>1, PackedInside
    <2>3. t * (c.head_dim \div PACK_V(c)) + d \div PACK_V(c)
              \in 0 .. Group * (c.head_dim \div PACK_V(c)) - 1
      BY <1>1, <1>2, <2>1, PackedInside
    <2> QED
      BY <1>3, <2>2, <2>3 DEF KCodeOffset, VCodeOffset
  <1>5. ASSUME NEW d \in 0 .. c.head_dim - 1, NEW d2 \in 0 .. c.head_dim - 1,
               NEW t \in Tokens, NEW t2 \in Tokens
        PROVE  /\ KCodeOffset(d, t) = KCodeOffset(d2, t2) /\ t % PACK_K = t2 % PACK_K
                      => d = d2 /\ t = t2
               /\ VCodeOffset(c, d, t) = VCodeOffset(c, d2, t2) /\ d % PACK_V(c) = d2 % PACK_V(c)
                      => d = d2 /\ t = t2
    <2>1. t \in 0 .. Group - 1 /\ t2 \in 0 .. Group - 1 /\ t \in Nat /\ t2 \in Nat
      BY <1>1 DEF Tokens
    <2>2. d \in Nat /\ d2 \in Nat
      BY <1>1
    <2>3. ASSUME KCodeOffset(d, t) = KCodeOffset(d2, t2), t % PACK_K = t2 % PACK_K
          PROVE  d = d2 /\ t = t2
      <3>1. PICK n \in Nat \ {0} : n = Group
        BY <1>1
      <3>2. PICK p \in {2, 4} : p = PACK_K
        BY <1>2
      <3>3. n % 4 = 0 /\ t \in 0 .. n - 1 /\ t2 \in 0 .. n - 1
        BY <1>1, <2>1, <3>1
      <3>4. Apart(n, p, d, t, d2, t2)
        BY <2>2, <3>3, PackedApart
      <3> QED
        BY <2>3, <3>1, <3>2, <3>4 DEF KCodeOffset, Apart
    <2>4. ASSUME VCodeOffset(c, d, t) = VCodeOffset(c, d2, t2), d % PACK_V(c) = d2 % PACK_V(c)
          PROVE  d = d2 /\ t = t2
      <3>1. PICK n \in Nat \ {0} : n = c.head_dim
        BY <1>1
      <3>2. PICK p \in {2, 4} : p = PACK_V(c)
        BY <1>2
      <3>3. n % 4 = 0 /\ d \in 0 .. n - 1 /\ d2 \in 0 .. n - 1
        BY <1>1, <3>1
      <3>4. Apart(n, p, t, d, t2, d2)
        BY <2>1, <3>3, PackedApart
      <3> QED
        BY <2>4, <3>1, <3>2, <3>4 DEF VCodeOffset, Apart
    <2> QED
      BY <2>3, <2>4
  <1> QED
    BY <1>4, <1>5

-----------------------------------------------------------------------------

LayoutOK ==
    /\ conf \in Configs
    /\ layout = Layout(conf)
    /\ layout.T % Group = 0
    /\ \A i \in 1 .. 8 : layout.start[i] + layout.size[CatOrder[i]] <= layout.T

SlotsOK ==
    /\ block_to_slot \in [Blocks -> Slots \cup {-1}]
    /\ fill \in [Blocks -> 0 .. Group]
    /\ use \in [Blocks -> Nat]
    /\ \A b, c \in Blocks : b # c /\ block_to_slot[b] # -1 => block_to_slot[b] # block_to_slot[c]

LEMMA Twice ==
    ASSUME NEW i \in Nat
    PROVE  (2 * i) \div 2 = i /\ (2 * i + 1) \div 2 = i /\ (2 * i) % 2 = 0
  OBVIOUS

\* Every field starts at an even byte: the kernels that load 16-bit words halve
\* the offset.
LEMMA StartsAreEven ==
    ASSUME LayoutOK
    PROVE  \A i \in 1 .. 8 : layout.start[i] = 2 * (layout.start[i] \div 2) /\ layout.start[i] % 2 = 0
  <1>1. /\ conf \in Configs /\ layout.size = FieldSize(conf) /\ layout.start = FieldStart(conf)
    BY DEF LayoutOK, Layout
  <1>2. FieldStart(conf) = WriteStart(conf)
    BY <1>1, FlushPathsAgree DEF FieldStart
  <1> DEFINE w == WriteStart(conf)
             s == FieldSize(conf)
  <1>3. conf.head_dim \in Nat /\ Group \in Nat
    BY <1>1, ConfigFacts
  <1>4. \A f \in DOMAIN s : \E m \in Nat : s[f] = 2 * m
    <2>1. \E m \in Nat : s.q_K = 2 * m
      <3>1. conf.head_dim % 4 = 0 /\ conf.head_dim \in Nat \ {0} /\ Group \div PACK_K \in Nat
        BY <1>1, ConfigFacts, DivBounds DEF PACK_K, KeyBits
      <3>2. PICK e \in Nat : conf.head_dim = 2 * e
        <4>1. conf.head_dim \div 4 \in Nat \ {0} /\ conf.head_dim = 4 * (conf.head_dim \div 4)
          BY <3>1, MultipleOf4
        <4>2. conf.head_dim = 2 * (2 * (conf.head_dim \div 4))
          BY <4>1
        <4> QED
          BY <4>1, <4>2
      <3>3. PICK g \in Nat : g = Group \div PACK_K
        BY <3>1
      <3>4. s.q_K = 2 * (e * g)
        <4>1. (2 * e) * g = 2 * (e * g)
          OBVIOUS
        <4> QED
          BY <3>2, <3>3, <4>1 DEF FieldSize
      <3> QED
        BY <3>4
    <2>2. \E m \in Nat : s.q_V = 2 * m
      <3>1. Group % 4 = 0 /\ Group \in Nat \ {0} /\ conf.head_dim \div PACK_V(conf) \in Nat
        <4>1. PACK_V(conf) \in {2, 4} /\ Group % 4 = 0 /\ Group \in Nat \ {0}
          BY <1>1, ConfigFacts DEF PACK_V
        <4> QED
          BY <1>3, <4>1, DivBounds
      <3>2. PICK e \in Nat : Group = 2 * e
        <4>1. Group \div 4 \in Nat \ {0} /\ Group = 4 * (Group \div 4)
          BY <3>1, MultipleOf4
        <4>2. Group = 2 * (2 * (Group \div 4))
          BY <4>1
        <4> QED
          BY <4>1, <4>2
      <3>3. PICK g \in Nat : g = conf.head_dim \div PACK_V(conf)
        BY <3>1
      <3>4. s.q_V = 2 * (e * g)
        <4>1. (2 * e) * g = 2 * (e * g)
          OBVIOUS
        <4> QED
          BY <3>2, <3>3, <4>1 DEF FieldSize
      <3> QED
        BY <3>4
    <2>3. /\ s.s_col_K = 2 * conf.head_dim /\ s.zp_K = 2 * conf.head_dim /\ s.s_row_K = 2 * Group
          /\ s.s_col_V = 2 * conf.head_dim /\ s.s_row_V = 2 * Group /\ s.zp_V = 2 * Group
          /\ DOMAIN s = {"q_K", "s_col_K", "zp_K", "s_row_K", "q_V", "s_col_V", "s_row_V", "zp_V"}
      BY DEF FieldSize
    <2> HIDE DEF s
    <2> QED
      BY <1>3, <2>1, <2>2, <2>3
  <1>5. \A i \in 1 .. 8 : CatOrder[i] \in DOMAIN s
    BY <1>1, FieldSizes
  <1>6. /\ w[1] = 0
        /\ \A i \in 2 .. 8 : w[i] = w[i - 1] + s[CatOrder[i - 1]]
    BY <1>1, WriteStartsFollow
  <1> HIDE DEF w, s
  <1>7. ASSUME NEW i \in 1 .. 8, \A k \in 1 .. i - 1 : \E m \in Nat : w[k] = 2 * m
        PROVE  \E m \in Nat : w[i] = 2 * m
    <2>1. CASE i = 1
      BY <1>6, <2>1
    <2>2. CASE i # 1
      <3>1. i \in 2 .. 8 /\ i - 1 \in 1 .. 8 /\ i - 1 \in 1 .. i - 1
        BY <2>2
      <3>2. PICK m \in Nat : w[i - 1] = 2 * m
        BY <1>7, <3>1
      <3>3. PICK e \in Nat : s[CatOrder[i - 1]] = 2 * e
        BY <1>4, <1>5, <3>1
      <3>4. w[i] = 2 * (m + e)
        BY <1>6, <3>1, <3>2, <3>3
      <3> QED
        BY <3>4
    <2> QED
      BY <2>1, <2>2
  <1>8. \A i \in 1 .. 8 : \E m \in Nat : w[i] = 2 * m
    <2> DEFINE odd == {k \in Nat : k \in 1 .. 8 /\ ~\E m \in Nat : w[k] = 2 * m}
    <2> SUFFICES ASSUME odd # {} PROVE FALSE
      OBVIOUS
    <2>1. PICK k \in odd : \A l \in odd : k <= l
      BY LeastNat
    <2>2. \A l \in 1 .. k - 1 : \E m \in Nat : w[l] = 2 * m
      BY <2>1
    <2> QED
      BY <1>7, <2>1, <2>2
  <1>9. ASSUME NEW i \in 1 .. 8 PROVE layout.start[i] = 2 * (layout.start[i] \div 2) /\ layout.start[i] % 2 = 0
    <2>1. PICK m \in Nat : w[i] = 2 * m
      BY <1>8
    <2>2. layout.start[i] = 2 * m
      BY <1>1, <1>2, <2>1 DEF w
    <2> QED
      BY <2>2, Twice
  <1> QED
    BY <1>9

LEMMA TypeParts == TileTypeOK <=> LayoutOK /\ SlotsOK
  BY StartsAreEven DEF TileTypeOK, LayoutOK, SlotsOK

LEMMA InitLayout ==
    ASSUME Init
    PROVE  LayoutOK
  <1>1. conf \in Configs /\ layout = Layout(conf)
    BY DEF Init
  <1>2. /\ layout.T = tile_bytes_aligned(conf) /\ layout.start = FieldStart(conf)
        /\ layout.size = FieldSize(conf)
    BY <1>1 DEF Layout
  <1> QED
    BY <1>1, <1>2, RecordFillsItsSlots DEF LayoutOK

\* A batch: the next n tokens of a block that has a slot, and a padded row.
BatchOf(mapping, c, n) ==
    /\ block_to_slot[c] # -1 /\ fill[c] + n <= Group
    /\ mapping = {-1} \cup {c * Group + t : t \in fill[c] .. fill[c] + n - 1}

LEMMA BatchIsOfABlock ==
    ASSUME SlotsOK, NEW mapping \in Batches
    PROVE  \E c \in Blocks, n \in Nat : BatchOf(mapping, c, n)
  <1> DEFINE own(c, n) == {c * Group + t : t \in fill[c] .. fill[c] + n - 1}
  <1>1. Group \in Nat \ {0} /\ StepTokens \in Nat /\ fill \in [Blocks -> 0 .. Group]
    BY CountAssumption DEF SlotsOK
  <1>2. PICK c \in Blocks : /\ block_to_slot[c] # -1 /\ fill[c] < Group
                            /\ mapping \in {{-1} \cup own(c, n) :
                                  n \in {m \in {StepTokens, Group - fill[c]} : fill[c] + m <= Group}}
    BY DEF Batches
  <1>3. PICK n \in {m \in {StepTokens, Group - fill[c]} : fill[c] + m <= Group} :
            mapping = {-1} \cup own(c, n)
    BY <1>2
  <1>4. n \in Nat /\ fill[c] + n <= Group
    BY <1>1, <1>2, <1>3
  <1>5. BatchOf(mapping, c, n)
    BY <1>2, <1>3, <1>4 DEF BatchOf
  <1> QED
    BY <1>4, <1>5

LEMMA EntryPlace ==
    ASSUME NEW c \in Blocks, NEW t \in Tokens
    PROVE  /\ c * Group + t \in Nat
           /\ (c * Group + t) \div Group = c /\ (c * Group + t) % Group = t
  <1>1. c \in Nat /\ Group \in Nat \ {0} /\ t \in 0 .. Group - 1
    BY CountAssumption, BlocksAssumption DEF Tokens
  <1>2. c * Group + t \in Nat
    BY <1>1
  <1> QED
    BY <1>1, <1>2, QuotientOfBlock

\* The entries of a batch: all but the padding are of its block, at the positions
\* after those that are stored.
LEMMA BatchEntries ==
    ASSUME SlotsOK, NEW mapping, NEW c \in Blocks, NEW n \in Nat, BatchOf(mapping, c, n)
    PROVE  /\ fill[c] .. fill[c] + n - 1 \subseteq Tokens
           /\ {m \in mapping : m >= 0} = {c * Group + t : t \in fill[c] .. fill[c] + n - 1}
  <1>1. fill[c] \in Nat /\ fill[c] + n <= Group /\ Group \in Nat \ {0}
    BY CountAssumption DEF BatchOf, SlotsOK
  <1>2. fill[c] .. fill[c] + n - 1 \subseteq Tokens
    BY <1>1 DEF Tokens
  <1>3. \A m \in {c * Group + t : t \in fill[c] .. fill[c] + n - 1} : m >= 0
    <2>1. \A t \in fill[c] .. fill[c] + n - 1 : c * Group + t \in Nat
      BY <1>2, EntryPlace
    <2> QED
      BY <2>1
  <1>4. ~(-1 >= 0)
    OBVIOUS
  <1> QED
    BY <1>2, <1>3, <1>4 DEF BatchOf

\* A store fills its block by the batch's tokens, and no other.
LEMMA StoredInBlock ==
    ASSUME SlotsOK, NEW mapping, NEW c \in Blocks, NEW n \in Nat, BatchOf(mapping, c, n),
           NEW b \in Blocks
    PROVE  LET stored == {sm % Group : sm \in {m \in mapping : m >= 0 /\ m \div Group = b}}
           IN  fill[b] + Cardinality(stored) = IF b = c THEN fill[c] + n ELSE fill[b]
  <1> DEFINE positions == fill[c] .. fill[c] + n - 1
             entries == {c * Group + t : t \in positions}
             stored == {sm % Group : sm \in {m \in mapping : m >= 0 /\ m \div Group = b}}
  <1>1. positions \subseteq Tokens /\ {m \in mapping : m >= 0} = entries
    BY BatchEntries
  <1>2. fill[c] \in Nat /\ fill[b] \in Nat
    BY CountAssumption DEF SlotsOK
  <1>3. {m \in mapping : m >= 0 /\ m \div Group = b} = {m \in entries : m \div Group = b}
    BY <1>1
  <1>4. \A t \in positions : (c * Group + t) \div Group = c /\ (c * Group + t) % Group = t
    BY <1>1, EntryPlace
  <1> HIDE DEF positions
  <1>5. CASE b = c
    <2>1. {m \in entries : m \div Group = b} = entries
      BY <1>4, <1>5
    <2>2. stored = {(c * Group + t) % Group : t \in positions}
      BY <1>3, <2>1
    <2>3. stored = positions
      BY <1>4, <2>2
    <2> HIDE DEF stored
    <2>4. Cardinality(positions) = n
      <3>1. PICK f \in Nat : f = fill[c]
        BY <1>2
      <3>2. f \in Int /\ f + n - 1 \in Int
        OBVIOUS
      <3>3. Cardinality(f .. f + n - 1) = IF f > f + n - 1 THEN 0 ELSE (f + n - 1) - f + 1
        BY <3>2, FS_Interval
      <3>4. (IF f > f + n - 1 THEN 0 ELSE (f + n - 1) - f + 1) = n
        OBVIOUS
      <3> QED
        BY <3>1, <3>3, <3>4 DEF positions
    <2>5. fill[b] + Cardinality(stored) = fill[c] + n
      BY <1>5, <2>3, <2>4
    <2> QED
      BY <1>5, <2>5 DEF stored
  <1>6. CASE b # c
    <2>1. {m \in entries : m \div Group = b} = {}
      BY <1>4, <1>6
    <2>2. stored = {}
      BY <1>3, <2>1
    <2>3. Cardinality(stored) = 0
      BY <2>2, FS_EmptySet
    <2> HIDE DEF stored
    <2>4. fill[b] + Cardinality(stored) = fill[b]
      BY <1>2, <2>3
    <2> QED
      BY <1>6, <2>4 DEF stored
  <1> QED
    BY <1>5, <1>6

LEMMA InitSlots ==
    ASSUME Init
    PROVE  SlotsOK
  BY CountAssumption DEF Init, SlotsOK

\* Every step keeps the layout and the types.
LEMMA StepKeepsTypes ==
    ASSUME LayoutOK, SlotsOK, [Next]_vars
    PROVE  LayoutOK' /\ SlotsOK'
  <1>1. conf' = conf /\ layout' = layout
    BY DEF Next, Allocate, Discard, Store, Flush, vars
  <1>2. LayoutOK'
    BY <1>1 DEF LayoutOK
  <1>3. ASSUME NEW b \in Blocks, Allocate(b) PROVE SlotsOK'
    <2>1. PICK slot \in Slots \ {block_to_slot[c] : c \in Blocks} :
              block_to_slot' = [block_to_slot EXCEPT ![b] = slot]
      BY <1>3 DEF Allocate
    <2>2. block_to_slot' \in [Blocks -> Slots \cup {-1}]
      BY <2>1 DEF SlotsOK
    <2>3. fill' \in [Blocks -> 0 .. Group]
      <3>1. fill' = [fill EXCEPT ![b] = 0]
        BY <1>3 DEF Allocate
      <3>2. 0 \in 0 .. Group
        BY CountAssumption
      <3> QED
        BY <3>1, <3>2 DEF SlotsOK
    <2>4. use' \in [Blocks -> Nat]
      <3>1. use' = [use EXCEPT ![b] = use[b] + 1]
        BY <1>3 DEF Allocate
      <3>2. use[b] + 1 \in Nat
        BY DEF SlotsOK
      <3> QED
        BY <3>1, <3>2 DEF SlotsOK
    <2>5. \A c, e \in Blocks : c # e /\ block_to_slot'[c] # -1 => block_to_slot'[c] # block_to_slot'[e]
      BY <2>1 DEF SlotsOK
    <2> QED
      BY <2>2, <2>3, <2>4, <2>5 DEF SlotsOK
  <1>4. ASSUME NEW b \in Blocks, Discard(b) PROVE SlotsOK'
    BY <1>4, CountAssumption DEF Discard, SlotsOK
  <1>5. ASSUME NEW mapping \in Batches, Store(mapping) PROVE SlotsOK'
    <2>1. fill' \in [Blocks -> 0 .. Group]
      <3>1. PICK c \in Blocks, n \in Nat : BatchOf(mapping, c, n)
        BY BatchIsOfABlock
      <3>2. fill' = [b \in Blocks |-> IF b = c THEN fill[c] + n ELSE fill[b]]
        <4>1. \A b \in Blocks :
                  LET stored == {sm % Group : sm \in {m \in mapping : m >= 0 /\ m \div Group = b}}
                  IN  fill[b] + Cardinality(stored) = IF b = c THEN fill[c] + n ELSE fill[b]
          BY <3>1, StoredInBlock
        <4> QED
          BY <1>5, <4>1, Zenon DEF Store
      <3>3. fill[c] + n \in 0 .. Group
        BY <3>1 DEF BatchOf, SlotsOK
      <3> QED
        BY <3>2, <3>3 DEF SlotsOK
    <2> QED
      BY <1>5, <2>1 DEF Store, SlotsOK
  <1>6. ASSUME NEW bids \in FlushOrders, Flush(bids) PROVE SlotsOK'
    BY <1>6 DEF Flush, SlotsOK
  <1>7. CASE UNCHANGED vars
    <2>1. block_to_slot' = block_to_slot /\ fill' = fill /\ use' = use
      BY <1>7 DEF vars
    <2> QED
      BY <1>2, <2>1 DEF SlotsOK
  <1> QED
    BY <1>2, <1>3, <1>4, <1>5, <1>6, <1>7 DEF Next

\* The type invariant of the tiles, at every size and for both alignments.
THEOREM TileTypes == TileSpec => []TileTypeOK
  <1>1. Init => LayoutOK /\ SlotsOK
    BY InitLayout, InitSlots
  <1>2. LayoutOK /\ SlotsOK /\ [Next]_vars => LayoutOK' /\ SlotsOK'
    BY StepKeepsTypes
  <1> QED
    BY <1>1, <1>2, TypeParts, PTL DEF TileSpec

-----------------------------------------------------------------------------
(* What the pools and the records hold.                                    *)

\* A slot holds the rows of its block that were stored, in every layer.
PoolHolds ==
    \A layer \in Layers, b \in Blocks : block_to_slot[b] # -1 =>
        \A side \in Sides, t \in 0 .. fill[b] - 1, h \in HeadIds :
            pool[layer][side][block_to_slot[b]][t][h] = Row(layer, side, b, t, h)

\* A full block without a slot has the record of its own tiles, in every layer.
TilesHold ==
    \A layer \in Layers, b \in Blocks, h \in HeadIds :
        block_to_slot[b] = -1 /\ fill[b] = Group =>
            kv_cache[layer][b][h] = [K |-> Stored(layer, "K", b, h), V |-> Stored(layer, "V", b, h)]

TileInv == LayoutOK /\ SlotsOK /\ PoolHolds /\ TilesHold

LEMMA InitHolds ==
    ASSUME Init
    PROVE  PoolHolds /\ TilesHold
  <1>1. \A b \in Blocks : block_to_slot[b] = -1 /\ fill[b] = 0 /\ Group # 0
    BY CountAssumption DEF Init
  <1> QED
    BY <1>1 DEF PoolHolds, TilesHold

\* A block's new owner finds nothing of the old one's: its fill starts again.
LEMMA AllocateHolds ==
    ASSUME TileInv, NEW b \in Blocks, Allocate(b)
    PROVE  PoolHolds' /\ TilesHold'
  <1>1. PICK slot \in Slots : block_to_slot' = [block_to_slot EXCEPT ![b] = slot]
    BY DEF Allocate
  <1>2. /\ fill' = [fill EXCEPT ![b] = 0] /\ use' = [use EXCEPT ![b] = use[b] + 1]
        /\ pool' = pool /\ kv_cache' = kv_cache
    BY DEF Allocate
  <1>3. fill'[b] = 0 /\ Group # 0 /\ 0 .. 0 - 1 = {}
    BY <1>2, CountAssumption DEF TileInv, SlotsOK
  <1>4. ASSUME NEW a \in Blocks, a # b
        PROVE  block_to_slot'[a] = block_to_slot[a] /\ fill'[a] = fill[a] /\ use'[a] = use[a]
    BY <1>1, <1>2, <1>4 DEF TileInv, SlotsOK
  <1>5. PoolHolds'
    <2> SUFFICES ASSUME NEW layer \in Layers, NEW a \in Blocks, block_to_slot'[a] # -1,
                        NEW side \in Sides, NEW t \in 0 .. fill'[a] - 1, NEW h \in HeadIds
                 PROVE  pool'[layer][side][block_to_slot'[a]][t][h] = Row(layer, side, a, t, h)'
      BY DEF PoolHolds
    <2>1. a # b
      BY <1>3
    <2>2. block_to_slot[a] # -1 /\ t \in 0 .. fill[a] - 1
      BY <1>4, <2>1
    <2>3. pool[layer][side][block_to_slot[a]][t][h] = Row(layer, side, a, t, h)
      BY <2>2 DEF TileInv, PoolHolds
    <2> QED
      BY <1>2, <1>4, <2>1, <2>3 DEF Row
  <1>6. TilesHold'
    <2> SUFFICES ASSUME NEW layer \in Layers, NEW a \in Blocks, NEW h \in HeadIds,
                        block_to_slot'[a] = -1, fill'[a] = Group
                 PROVE  kv_cache'[layer][a][h] =
                            [K |-> Stored(layer, "K", a, h), V |-> Stored(layer, "V", a, h)]'
      BY DEF TilesHold
    <2>1. a # b
      BY <1>3
    <2> QED
      BY <1>2, <1>4, <2>1 DEF TileInv, TilesHold, Stored, Row
  <1> QED
    BY <1>5, <1>6

LEMMA DiscardHolds ==
    ASSUME TileInv, NEW b \in Blocks, Discard(b)
    PROVE  PoolHolds' /\ TilesHold'
  <1>1. /\ block_to_slot' = [block_to_slot EXCEPT ![b] = -1] /\ fill' = [fill EXCEPT ![b] = 0]
        /\ use' = use /\ pool' = pool /\ kv_cache' = kv_cache
    BY DEF Discard
  <1>2. block_to_slot'[b] = -1 /\ fill'[b] = 0 /\ Group # 0
    BY <1>1, CountAssumption DEF TileInv, SlotsOK
  <1>3. ASSUME NEW a \in Blocks, a # b
        PROVE  block_to_slot'[a] = block_to_slot[a] /\ fill'[a] = fill[a]
    BY <1>1, <1>3 DEF TileInv, SlotsOK
  <1>4. PoolHolds'
    BY <1>1, <1>2, <1>3 DEF TileInv, PoolHolds, Row
  <1>5. TilesHold'
    BY <1>1, <1>2, <1>3 DEF TileInv, TilesHold, Stored, Row
  <1> QED
    BY <1>4, <1>5

\* The scatter writes each token of the batch to its own place in its block's
\* slot, and no other place.
LEMMA StoreHolds ==
    ASSUME TileInv, NEW mapping \in Batches, Store(mapping)
    PROVE  PoolHolds' /\ TilesHold'
  <1> DEFINE hits(slot, t) == {sm \in mapping : /\ sm >= 0 /\ sm \div Group \in Blocks
                                                /\ block_to_slot[sm \div Group] = slot
                                                /\ sm % Group = t}
  <1>1. PICK c \in Blocks, n \in Nat : BatchOf(mapping, c, n)
    BY BatchIsOfABlock DEF TileInv
  <1> DEFINE positions == fill[c] .. fill[c] + n - 1
  <1>2. /\ positions \subseteq Tokens
        /\ {m \in mapping : m >= 0} = {c * Group + t : t \in positions}
    BY <1>1, BatchEntries DEF TileInv
  <1>3. \A t \in positions : (c * Group + t) \div Group = c /\ (c * Group + t) % Group = t
    BY <1>2, EntryPlace
  <1>4. /\ block_to_slot' = block_to_slot /\ use' = use /\ kv_cache' = kv_cache
        /\ fill' = [b \in Blocks |-> IF b = c THEN fill[c] + n ELSE fill[b]]
    <2>1. \A b \in Blocks :
              LET stored == {sm % Group : sm \in {m \in mapping : m >= 0 /\ m \div Group = b}}
              IN  fill[b] + Cardinality(stored) = IF b = c THEN fill[c] + n ELSE fill[b]
      BY <1>1, StoredInBlock DEF TileInv
    <2>2. fill' = [b \in Blocks |-> IF b = c THEN fill[c] + n ELSE fill[b]]
      BY <2>1, Zenon DEF Store
    <2> QED
      BY <2>2 DEF Store
  <1>5. /\ \A b \in Blocks : block_to_slot[b] \in Slots \cup {-1} /\ fill[b] \in 0 .. Group
        /\ \A a, b \in Blocks : a # b /\ block_to_slot[a] # -1 => block_to_slot[a] # block_to_slot[b]
        /\ fill[c] + n <= Group /\ block_to_slot[c] # -1 /\ Group \in Nat
    BY <1>1, CountAssumption DEF TileInv, SlotsOK, BatchOf
  <1>6. ASSUME NEW layer \in Layers, NEW side \in Sides, NEW slot \in Slots, NEW t \in Tokens,
               NEW h \in HeadIds
        PROVE  pool'[layer][side][slot][t][h] =
                   IF slot = block_to_slot[c] /\ t \in positions THEN Row(layer, side, c, t, h)
                   ELSE pool[layer][side][slot][t][h]
    <2>1. pool'[layer][side][slot][t][h] =
              IF hits(slot, t) = {} THEN pool[layer][side][slot][t][h]
              ELSE Row(layer, side, (CHOOSE sm \in hits(slot, t) : TRUE) \div Group, t, h)
      BY Zenon DEF Store
    <2>2. \A sm \in hits(slot, t) : \E u \in positions : sm = c * Group + u
      BY <1>2
    <2>3. \A sm \in hits(slot, t) : sm \div Group = c /\ slot = block_to_slot[c] /\ t \in positions
      BY <1>3, <2>2
    <2>4. ASSUME slot = block_to_slot[c], t \in positions
          PROVE  c * Group + t \in hits(slot, t)
      BY <1>2, <1>3, <2>4
    <2> HIDE DEF hits, positions
    <2>5. CASE slot = block_to_slot[c] /\ t \in positions
      <3>1. (CHOOSE sm \in hits(slot, t) : TRUE) \in hits(slot, t) /\ hits(slot, t) # {}
        BY <2>4, <2>5
      <3> QED
        BY <2>1, <2>3, <2>5, <3>1
    <2>6. CASE ~(slot = block_to_slot[c] /\ t \in positions)
      <3>1. hits(slot, t) = {}
        BY <2>3, <2>6
      <3> QED
        BY <2>1, <2>6, <3>1
    <2> QED
      BY <2>5, <2>6
  <1>7. PoolHolds'
    <2> SUFFICES ASSUME NEW layer \in Layers, NEW b \in Blocks, block_to_slot[b] # -1,
                        NEW side \in Sides, NEW t \in 0 .. fill'[b] - 1, NEW h \in HeadIds
                 PROVE  pool'[layer][side][block_to_slot[b]][t][h] = Row(layer, side, b, t, h)
      BY <1>4 DEF PoolHolds, Row
    <2>1. block_to_slot[b] \in Slots
      BY <1>5
    <2>2. t \in Tokens /\ (b = c => t \in positions \/ t \in 0 .. fill[c] - 1)
          /\ (b # c => t \in 0 .. fill[b] - 1)
      BY <1>4, <1>5 DEF Tokens
    <2>3. CASE b = c /\ t \in positions
      BY <1>6, <2>1, <2>2, <2>3
    <2>4. CASE b = c /\ t \in 0 .. fill[c] - 1
      <3>1. t \notin positions
        BY <1>5, <2>4
      <3> QED
        BY <1>6, <2>1, <2>2, <2>4, <3>1 DEF TileInv, PoolHolds
    <2>5. CASE b # c
      <3>1. block_to_slot[b] # block_to_slot[c]
        BY <1>5, <2>5
      <3> QED
        BY <1>6, <2>1, <2>2, <2>5, <3>1 DEF TileInv, PoolHolds
    <2> QED
      BY <2>2, <2>3, <2>4, <2>5
  <1>8. TilesHold'
    <2>1. \A b \in Blocks : block_to_slot[b] = -1 => fill'[b] = fill[b]
      BY <1>4, <1>5
    <2> QED
      BY <1>4, <2>1 DEF TileInv, TilesHold, Stored, Row
  <1> QED
    BY <1>7, <1>8

\* The place of a job in its launch.
LEMMA LaunchHasJob ==
    ASSUME NEW m \in Nat, NEW jobs, DOMAIN jobs = 1 .. m, Len(jobs) = m,
           NEW size \in Nat \ {0}, NEW i \in 1 .. m
    PROVE  LET launch == Launch(jobs, size, i)
           IN  /\ Len(launch.jobs) \in Nat /\ launch.place \in 0 .. Len(launch.jobs) - 1
               /\ launch.jobs[launch.place + 1] = jobs[i]
  <1> DEFINE first == ((i - 1) \div size) * size + 1
             last == IF first + size - 1 <= m THEN first + size - 1 ELSE m
  <1>1. first \in 1 .. i /\ i < first + size
    <2>1. PICK q \in Nat : q = (i - 1) \div size
      BY DivBounds
    <2>2. size * q <= i - 1 /\ i - 1 < size * q + size
      BY <2>1, DivBounds
    <2>3. q * size = size * q /\ q * size \in Nat
      BY <2>1
    <2> QED
      BY <2>1, <2>2, <2>3
  <1>2. Launch(jobs, size, i) = [jobs |-> SubSeq(jobs, first, last), place |-> i - first]
    BY DEF Launch
  <1> HIDE DEF first
  <1>3. last \in first .. m /\ i <= last
    BY <1>1
  <1> HIDE DEF last
  <1>4. SubSeq(jobs, first, last) = [k \in 1 .. (last - first + 1) |-> jobs[first + k - 1]]
    BY <1>1, <1>3
  <1>5. Len(SubSeq(jobs, first, last)) = last - first + 1
    BY <1>1, <1>3, <1>4
  <1>6. SubSeq(jobs, first, last)[(i - first) + 1] = jobs[i]
    BY <1>1, <1>3, <1>4
  <1> QED
    BY <1>1, <1>2, <1>3, <1>5, <1>6

\* Tile by tile, a launch packs of each job and head its own K and V, also when
\* both sides are balanced as one stack.
LEMMA PackedOfJob ==
    ASSUME NEW jobs, Len(jobs) \in Nat, NEW place \in 0 .. Len(jobs) - 1, NEW h \in HeadIds
    PROVE  Packed(jobs)[place * Heads + h] =
               [K |-> Tile("K", jobs[place + 1], h), V |-> Tile("V", jobs[place + 1], h)]
  <1> DEFINE n == place * Heads + h
             count == Len(jobs) * Heads
  <1>1. /\ Heads \in Nat \ {0} /\ h \in 0 .. Heads - 1 /\ place \in Nat
    BY CountAssumption DEF HeadIds
  <1>2. n \div Heads = place /\ n % Heads = h
    BY <1>1, QuotientOfBlock
  <1>3. n \in 0 .. count - 1 /\ count \in Nat
    <2>1. Heads * (place + 1) <= Heads * Len(jobs)
      BY <1>1, TimesLeq
    <2>2. Heads * (place + 1) = place * Heads + Heads /\ Heads * Len(jobs) = count
      BY <1>1
    <2>3. place * Heads \in Nat /\ count \in Nat
      BY <1>1
    <2> QED
      BY <1>1, <2>1, <2>2, <2>3
  <1> HIDE DEF n, count
  <1>4. \A side \in Sides : Gathered(side, jobs)[n] = Tile(side, jobs[place + 1], h)
    BY <1>2, <1>3, Zenon DEF Gathered, count
  <1>5. ASSUME NEW K, NEW V
        PROVE  SinkhornPackKV(K, V, count)[n] = [K |-> K[n], V |-> V[n]]
    <2>1. CASE D = Group
      <3> DEFINE balanced == [k \in 0 .. 2 * count - 1 |-> IF k < count THEN K[k] ELSE V[k - count]]
      <3>1. SinkhornPackKV(K, V, count) =
                [k \in 0 .. count - 1 |-> [K |-> balanced[k], V |-> balanced[count + k]]]
        BY <2>1 DEF SinkhornPackKV
      <3>2. balanced[n] = K[n] /\ balanced[count + n] = V[n]
        <4>1. /\ n \in 0 .. 2 * count - 1 /\ count + n \in 0 .. 2 * count - 1
              /\ n < count /\ ~(count + n < count) /\ (count + n) - count = n
          BY <1>3
        <4> QED
          BY <4>1
      <3> HIDE DEF balanced
      <3> QED
        BY <1>3, <3>1, <3>2
    <2>2. CASE D # Group
      BY <1>3, <2>2 DEF SinkhornPackKV
    <2> QED
      BY <2>1, <2>2
  <1>6. Packed(jobs)[n] = [K |-> Gathered("K", jobs)[n], V |-> Gathered("V", jobs)[n]]
    BY <1>5 DEF Packed, count
  <1> QED
    BY <1>4, <1>6 DEF n, Sides

\* The flush of a sequence of blocks has a job for every block in every layer.
LEMMA JobOfBlock ==
    ASSUME NEW layer \in Layers, NEW m \in Nat \ {0}, NEW bids, DOMAIN bids = 1 .. m, Len(bids) = m,
           NEW k \in 1 .. m
    PROVE  LET jobs == JobsOf(layer, bids)
           IN  /\ Len(jobs) \in Nat /\ DOMAIN jobs = 1 .. Len(jobs)
               /\ \E j \in 1 .. Len(jobs) : jobs[j] = Job(layer, bids[k])
               /\ \A j \in 1 .. Len(jobs) : \E l, b : jobs[j] = Job(l, b)
  <1> DEFINE jobs == JobsOf(layer, bids)
  <1>1. CASE conf.fast
    <2>1. jobs = [i \in 1 .. m |-> Job(layer, bids[i])]
      BY <1>1 DEF JobsOf
    <2> HIDE DEF jobs
    <2>2. Len(jobs) = m /\ DOMAIN jobs = 1 .. m
      BY <2>1
    <2> QED
      BY <2>1, <2>2 DEF jobs
  <1>2. CASE ~conf.fast
    <2>1. jobs = [i \in 1 .. NumLayers * m |-> Job((i - 1) \div m, bids[((i - 1) % m) + 1])]
      BY <1>2 DEF JobsOf
    <2>2. NumLayers * m \in Nat /\ layer \in Nat /\ layer \in 0 .. NumLayers - 1
      BY CountAssumption DEF Layers
    <2> HIDE DEF jobs
    <2>3. Len(jobs) = NumLayers * m /\ DOMAIN jobs = 1 .. NumLayers * m
      BY <2>1, <2>2
    <2> DEFINE j == layer * m + (k - 1) + 1
    <2>4. (layer * m + (k - 1)) \div m = layer /\ (layer * m + (k - 1)) % m = k - 1
      BY <2>2, QuotientOfBlock
    <2>5. j \in 1 .. NumLayers * m /\ j - 1 = layer * m + (k - 1)
      <3>1. m * (layer + 1) <= m * NumLayers
        BY <2>2, CountAssumption, TimesLeq
      <3>2. m * (layer + 1) = layer * m + m /\ m * NumLayers = NumLayers * m /\ layer * m \in Nat
        BY <2>2, CountAssumption
      <3> QED
        BY <2>2, <3>1, <3>2
    <2>6. jobs[j] = Job(layer, bids[k])
      <3> HIDE DEF j
      <3>1. jobs[j] = Job((j - 1) \div m, bids[((j - 1) % m) + 1])
        BY <2>1, <2>5
      <3>2. (k - 1) + 1 = k
        OBVIOUS
      <3> QED
        BY <2>4, <2>5, <3>1, <3>2
    <2> HIDE DEF j
    <2>7. \A i \in 1 .. NumLayers * m : jobs[i] = Job((i - 1) \div m, bids[((i - 1) % m) + 1])
      BY <2>1
    <2> QED
      BY <2>2, <2>3, <2>5, <2>6, <2>7 DEF jobs
  <1> QED
    BY <1>1, <1>2

\* A flushed block's record is packed from its own slot, in whichever launch.
PackedFromSlot(layer, b, h, bids) ==
    Flushed(layer, b, h, bids) = [K |-> Tile("K", Job(layer, b), h), V |-> Tile("V", Job(layer, b), h)]

LEMMA FlushedIsOwn ==
    ASSUME NEW layer \in Layers, NEW m \in Nat \ {0}, NEW bids, DOMAIN bids = 1 .. m, Len(bids) = m,
           NEW k \in 1 .. m, NEW h \in HeadIds
    PROVE  PackedFromSlot(layer, bids[k], h, bids)
  <1> DEFINE b == bids[k]
             jobs == JobsOf(layer, bids)
             i == CHOOSE j \in 1 .. Len(jobs) : jobs[j].layer = layer /\ jobs[j].block = b
             launch == Launch(jobs, LaunchSize, i)
  <1>1. /\ Len(jobs) \in Nat /\ DOMAIN jobs = 1 .. Len(jobs)
        /\ \E j \in 1 .. Len(jobs) : jobs[j] = Job(layer, b)
        /\ \A j \in 1 .. Len(jobs) : \E l, a : jobs[j] = Job(l, a)
    BY JobOfBlock
  <1>2. LaunchSize \in Nat \ {0}
    <2>1. /\ TilesPerLaunch \in Nat /\ Heads \in Nat \ {0} /\ PairsPerLaunch \in Nat \ {0}
      BY CountAssumption
    <2>2. TilesPerLaunch \div Heads \in Nat
      BY <2>1, DivBounds
    <2> QED
      BY <2>1, <2>2 DEF LaunchSize
  <1>3. Flushed(layer, b, h, bids) = Packed(launch.jobs)[launch.place * Heads + h]
    BY DEF Flushed
  <1> HIDE DEF jobs
  <1>4. i \in 1 .. Len(jobs) /\ jobs[i].layer = layer /\ jobs[i].block = b
    <2>1. Job(layer, b).layer = layer /\ Job(layer, b).block = b
      BY DEF Job
    <2>2. \E j \in 1 .. Len(jobs) : jobs[j].layer = layer /\ jobs[j].block = b
      BY <1>1, <2>1
    <2> QED
      BY <2>2
  <1> HIDE DEF i
  <1>5. jobs[i] = Job(layer, b)
    <2>1. PICK l, a : jobs[i] = Job(l, a)
      BY <1>1, <1>4
    <2>2. l = layer /\ a = b
      BY <1>4, <2>1 DEF Job
    <2> QED
      BY <2>1, <2>2
  <1>6. /\ Len(launch.jobs) \in Nat /\ launch.place \in 0 .. Len(launch.jobs) - 1
        /\ launch.jobs[launch.place + 1] = jobs[i]
    <2>1. PICK n \in Nat : n = Len(jobs)
      BY <1>1
    <2> QED
      BY <1>1, <1>2, <1>4, <2>1, LaunchHasJob
  <1> HIDE DEF launch, b
  <1>7. Packed(launch.jobs)[launch.place * Heads + h] =
            [K |-> Tile("K", Job(layer, b), h), V |-> Tile("V", Job(layer, b), h)]
    <2>1. PICK lj : lj = launch.jobs
      OBVIOUS
    <2>2. PICK place : place = launch.place
      OBVIOUS
    <2>3. Len(lj) \in Nat /\ place \in 0 .. Len(lj) - 1 /\ lj[place + 1] = Job(layer, b)
      BY <1>5, <1>6, <2>1, <2>2
    <2>4. Packed(lj)[place * Heads + h] =
              [K |-> Tile("K", lj[place + 1], h), V |-> Tile("V", lj[place + 1], h)]
      BY <2>3, PackedOfJob
    <2> QED
      BY <2>1, <2>2, <2>3, <2>4, Zenon
  <1> QED
    BY <1>3, <1>7 DEF b, PackedFromSlot

\* Quantising a full block loses nothing of it: its record is that of the tokens
\* its slot held, in every layer and head.
LEMMA FlushHolds ==
    ASSUME TileInv, NEW bids \in FlushOrders, Flush(bids)
    PROVE  PoolHolds' /\ TilesHold'
  <1> DEFINE flushed == {bids[i] : i \in 1 .. Len(bids)}
  <1>1. PICK m \in Nat \ {0} : Len(bids) = m /\ DOMAIN bids = 1 .. m
    <2>1. CASE \E b \in Blocks : bids = <<b>>
      <3>1. Len(bids) = 1 /\ DOMAIN bids = 1 .. 1
        BY <2>1
      <3> QED
        BY <3>1
    <2>2. CASE bids \in Blocks \X Blocks
      <3>1. Len(bids) = 2 /\ DOMAIN bids = 1 .. 2
        BY <2>2
      <3> QED
        BY <3>1
    <2> QED
      BY <2>1, <2>2 DEF FlushOrders
  <1>2. /\ \A b \in flushed : block_to_slot[b] # -1 /\ fill[b] = Group
        /\ fill' = fill /\ use' = use /\ pool' = pool
    BY DEF Flush, Full
  <1>3. \A b \in Blocks : block_to_slot'[b] = IF b \in flushed THEN -1 ELSE block_to_slot[b]
    BY DEF Flush
  <1>4. \A layer \in Layers, b \in Blocks, h \in HeadIds :
            kv_cache'[layer][b][h] =
                IF b \in flushed THEN Flushed(layer, b, h, bids) ELSE kv_cache[layer][b][h]
    BY Zenon DEF Flush
  <1>5. PoolHolds'
    <2> SUFFICES ASSUME NEW layer \in Layers, NEW b \in Blocks, block_to_slot'[b] # -1,
                        NEW side \in Sides, NEW t \in 0 .. fill[b] - 1, NEW h \in HeadIds
                 PROVE  pool[layer][side][block_to_slot'[b]][t][h] = Row(layer, side, b, t, h)
      BY <1>2 DEF PoolHolds, Row
    <2>1. block_to_slot'[b] = block_to_slot[b]
      BY <1>3
    <2> QED
      BY <2>1 DEF TileInv, PoolHolds
  <1>6. ASSUME NEW layer \in Layers, NEW b \in Blocks, NEW h \in HeadIds, b \in flushed
        PROVE  Flushed(layer, b, h, bids) = [K |-> Stored(layer, "K", b, h), V |-> Stored(layer, "V", b, h)]
    <2>1. PICK k \in 1 .. m : b = bids[k]
      BY <1>1, <1>6
    <2>2. Flushed(layer, b, h, bids) = [K |-> Tile("K", Job(layer, b), h), V |-> Tile("V", Job(layer, b), h)]
      <3>1. PackedFromSlot(layer, bids[k], h, bids)
        BY <1>1, FlushedIsOwn
      <3> QED
        BY <2>1, <3>1 DEF PackedFromSlot
    <2>3. ASSUME NEW side \in Sides PROVE Tile(side, Job(layer, b), h) = Stored(layer, side, b, h)
      <3>1. \A t \in Tokens : pool[layer][side][block_to_slot[b]][t][h] = Row(layer, side, b, t, h)
        BY <1>2, <1>6 DEF TileInv, PoolHolds, Tokens
      <3> QED
        BY <3>1 DEF Tile, Job, Stored
    <2> QED
      BY <2>2, <2>3 DEF Sides
  <1> HIDE DEF flushed
  <1>7. TilesHold'
    <2> SUFFICES ASSUME NEW layer \in Layers, NEW b \in Blocks, NEW h \in HeadIds,
                        block_to_slot'[b] = -1, fill[b] = Group
                 PROVE  kv_cache'[layer][b][h] =
                            [K |-> Stored(layer, "K", b, h), V |-> Stored(layer, "V", b, h)]
      BY <1>2 DEF TilesHold, Stored, Row
    <2>1. CASE b \in flushed
      BY <1>4, <1>6, <2>1
    <2>2. CASE b \notin flushed
      BY <1>3, <1>4, <2>2 DEF TileInv, TilesHold
    <2> QED
      BY <2>1, <2>2
  <1> QED
    BY <1>5, <1>7

-----------------------------------------------------------------------------
(* What the readers decode.                                                *)

\* The fields of the record, one after the other.
LEMMA FieldsInOrder ==
    ASSUME LayoutOK
    PROVE  /\ layout.T \in Nat \ {0}
           /\ \A i \in 1 .. 8 : /\ layout.start[i] \in Nat /\ layout.size[CatOrder[i]] \in Nat
                                /\ layout.start[i] + layout.size[CatOrder[i]] <= layout.T
           /\ \A i, j \in 1 .. 8 : i < j =>
                 layout.start[i] + layout.size[CatOrder[i]] <= layout.start[j]
  <1> DEFINE w(i) == layout.start[i]
             s(i) == layout.size[CatOrder[i]]
  <1>1. /\ conf \in Configs /\ layout.T = tile_bytes_aligned(conf)
        /\ layout.size = FieldSize(conf) /\ layout.start = FieldStart(conf)
    BY DEF LayoutOK, Layout
  <1>2. FieldStart(conf) = WriteStart(conf)
    BY <1>1, FlushPathsAgree DEF FieldStart
  <1>3. \A i \in 1 .. 8 : w(i) \in Nat
    BY <1>1, <1>2, WriteStartsFollow
  <1>4. \A i \in 1 .. 8 : s(i) \in Nat
    BY <1>1, FieldSizes
  <1>5. layout.T \in Nat \ {0} /\ \A i \in 1 .. 8 : w(i) + s(i) <= layout.T
    BY <1>1, RecordFillsItsSlots
  <1>6. \A i \in 1 .. 7 : w(i) + s(i) = w(i + 1)
    BY <1>1, RecordFillsItsSlots
  <1> HIDE DEF w, s
  <1>7. ASSUME NEW i \in 1 .. 8, NEW j \in 1 .. 8, i < j
        PROVE  w(i) + s(i) <= w(j)
    <2> DEFINE after == {k \in Nat : k \in i + 1 .. 8 /\ ~(w(i) + s(i) <= w(k))}
    <2> SUFFICES ASSUME after # {} PROVE FALSE
      BY <1>7
    <2>1. PICK k \in after : \A l \in after : k <= l
      BY LeastNat
    <2>2. k # i + 1
      BY <1>3, <1>4, <1>6, <2>1
    <2>3. PICK l \in 1 .. 7 : k = l + 1 /\ l \in i + 1 .. 8 /\ l \in Nat /\ ~(k <= l)
      <3>1. k - 1 \in 1 .. 7 /\ k = (k - 1) + 1
        BY <2>1, <2>2
      <3> QED
        BY <2>1, <2>2, <3>1
    <2>4. w(i) + s(i) <= w(l)
      BY <2>1, <2>3
    <2>5. w(l) + s(l) = w(k) /\ w(l) \in Nat /\ s(l) \in Nat /\ w(k) \in Nat
      <3>1. l \in 1 .. 8 /\ k \in 1 .. 8
        BY <2>1, <2>3
      <3> QED
        BY <1>3, <1>4, <1>6, <2>3, <3>1
    <2>6. w(i) + s(i) \in Nat
      BY <1>3, <1>4
    <2>7. w(i) + s(i) <= w(k)
      BY <2>4, <2>5, <2>6
    <2> QED
      BY <2>1, <2>7
  <1> QED
    BY <1>3, <1>4, <1>5, <1>7 DEF w, s

\* A byte inside a field is that field's.
LEMMA FieldOfRecord ==
    ASSUME LayoutOK, NEW k \in 1 .. 8, NEW j \in 0 .. layout.size[CatOrder[k]] - 1,
           NEW rec, rec # None
    PROVE  RecordByte(rec, layout.start[k] + j) = FieldByte(rec, CatOrder[k], j)
  <1> DEFINE w(i) == layout.start[i]
             s(i) == layout.size[CatOrder[i]]
             offset == w(k) + j
             holds == {i \in 1 .. 8 : w(i) <= offset /\ offset < w(i) + s(i)}
  <1>1. /\ \A i \in 1 .. 8 : w(i) \in Nat /\ s(i) \in Nat
        /\ \A i, l \in 1 .. 8 : i < l => w(i) + s(i) <= w(l)
    BY FieldsInOrder
  <1>2. j \in 0 .. s(k) - 1
    OBVIOUS
  <1> HIDE DEF w, s
  <1>3. k \in holds
    BY <1>1, <1>2
  <1>4. ASSUME NEW i \in holds PROVE i = k
    <2>1. ~(i < k)
      <3> SUFFICES ASSUME i < k PROVE FALSE
        OBVIOUS
      <3>1. w(i) + s(i) <= w(k)
        BY <1>1
      <3> QED
        BY <1>1, <1>2, <3>1
    <2>2. ~(k < i)
      <3> SUFFICES ASSUME k < i PROVE FALSE
        OBVIOUS
      <3>1. w(k) + s(k) <= w(i)
        BY <1>1
      <3> QED
        BY <1>1, <1>2, <3>1
    <2> QED
      BY <2>1, <2>2
  <1>5. holds = {k}
    BY <1>3, <1>4
  <1>6. (CHOOSE i \in {k} : \A l \in {k} : l <= i) = k
    OBVIOUS
  <1>7. offset - w(k) = j
    BY <1>1
  <1>8. RecordByte(rec, offset) =
            IF rec = None \/ holds = {} THEN Pad
            ELSE LET last == CHOOSE i \in holds : \A l \in holds : l <= i
                 IN  FieldByte(rec, CatOrder[last], offset - w(last))
    BY Zenon DEF RecordByte, w, s
  <1> HIDE DEF holds, offset
  <1>9. RecordByte(rec, offset) = FieldByte(rec, CatOrder[k], j)
    BY <1>5, <1>6, <1>7, <1>8
  <1> QED
    BY <1>9 DEF offset, w

\* The address of a byte of a (block, head)'s record in the flat cache.
LEMMA ByteOfTile ==
    ASSUME LayoutOK, NEW layer \in Layers, NEW b \in Blocks, NEW h \in HeadIds,
           NEW offset \in 0 .. layout.T - 1
    PROVE  /\ TileBase(b, h) \in Nat
           /\ CacheByte(layer, TileBase(b, h) + offset) = RecordByte(kv_cache[layer][b][h], offset)
  <1>1. PICK T \in Nat \ {0} : T = layout.T
    BY FieldsInOrder
  <1>2. /\ b \in Nat /\ Heads \in Nat \ {0} /\ h \in 0 .. Heads - 1
    BY CountAssumption, BlocksAssumption DEF HeadIds
  <1>3. PICK row \in Nat : row = b * Heads + h
    BY <1>2
  <1>4. TileBase(b, h) = row * T
    <2>1. b * (Heads * T) + h * T = (b * Heads + h) * T
      BY <1>2
    <2> QED
      BY <1>1, <1>3, <2>1 DEF TileBase
  <1>5. row * T \in Nat
    OBVIOUS
  <1>6. (row * T + offset) \div T = row /\ (row * T + offset) % T = offset
    BY <1>1, QuotientOfBlock
  <1>7. row \div Heads = b /\ row % Heads = h
    BY <1>2, <1>3, QuotientOfBlock
  <1>8. CacheByte(layer, row * T + offset) = RecordByte(kv_cache[layer][b][h], offset)
    BY <1>1, <1>6, <1>7 DEF CacheByte
  <1> QED
    BY <1>4, <1>5, <1>8

LEMMA ByteOfField ==
    ASSUME LayoutOK, NEW layer \in Layers, NEW b \in Blocks, NEW h \in HeadIds,
           kv_cache[layer][b][h] # None,
           NEW k \in 1 .. 8, NEW j \in 0 .. layout.size[CatOrder[k]] - 1
    PROVE  CacheByte(layer, TileBase(b, h) + (layout.start[k] + j)) =
               FieldByte(kv_cache[layer][b][h], CatOrder[k], j)
  <1>1. layout.start[k] + j \in 0 .. layout.T - 1
    BY FieldsInOrder
  <1>2. CacheByte(layer, TileBase(b, h) + (layout.start[k] + j)) =
            RecordByte(kv_cache[layer][b][h], layout.start[k] + j)
    BY <1>1, ByteOfTile
  <1> QED
    BY <1>2, FieldOfRecord

\* A code is read back from the byte and the shift it was packed at.
CodeReads(layer, address, tile, bits, p, n, r, x) ==
    CacheByte(layer, address) = PackedByte(tile, bits, n, r * (n \div p) + x \div p) =>
        Code(layer, address, (x % p) * bits, bits) = <<tile, r, x>>

LEMMA CodeReadBack ==
    ASSUME NEW layer, NEW address, NEW tile, NEW bits \in {2, 4}, NEW p \in {2, 4}, p = 8 \div bits,
           NEW n \in Nat \ {0}, n % 4 = 0, NEW r \in Nat, NEW x \in 0 .. n - 1
    PROVE  CodeReads(layer, address, tile, bits, p, n, r, x)
  <1> SUFFICES ASSUME CacheByte(layer, address) = PackedByte(tile, bits, n, r * (n \div p) + x \div p)
               PROVE  Code(layer, address, (x % p) * bits, bits) = <<tile, r, x>>
    BY DEF CodeReads
  <1>1. PICK m \in Nat \ {0} : m = n \div p
    BY PackedPlace
  <1>2. PICK y \in 0 .. m - 1 : y = x \div p
    BY <1>1, PackedPlace
  <1>3. PICK z \in 0 .. p - 1 : z = x % p
    OBVIOUS
  <1>4. x = y * p + z
    <2>1. x = p * (x \div p) + (x % p)
      BY PackedPlace
    <2>2. x = p * y + z
      BY <1>2, <1>3, <2>1
    <2> QED
      BY <2>2
  <1>5. (r * m + y) \div m = r /\ (r * m + y) % m = y
    BY QuotientOfBlock
  <1>6. CacheByte(layer, address) = Codes(bits, [j \in 0 .. p - 1 |-> <<tile, r, y * p + j>>])
    <2>1. PackedByte(tile, bits, n, r * m + y) =
              Codes(bits, [j \in 0 .. p - 1 |-> <<tile, r, y * p + j>>])
      BY <1>1, <1>5 DEF PackedByte
    <2> QED
      BY <1>1, <1>2, <2>1
  <1>7. (z * bits) % bits = 0 /\ (z * bits) \div bits = z
    <2>1. bits = 2 \/ bits = 4
      OBVIOUS
    <2>2. (z * 2) % 2 = 0 /\ (z * 2) \div 2 = z /\ (z * 4) % 4 = 0 /\ (z * 4) \div 4 = z
      OBVIOUS
    <2> QED
      BY <2>1, <2>2
  <1>8. Code(layer, address, z * bits, bits) = <<tile, r, y * p + z>>
    <2> DEFINE f == [j \in 0 .. p - 1 |-> <<tile, r, y * p + j>>]
    <2>1. f[z] = <<tile, r, y * p + z>>
      OBVIOUS
    <2> HIDE DEF f
    <2>2. CacheByte(layer, address) = [kind |-> "codes", bits |-> bits, at |-> f]
      BY <1>6 DEF Codes, f
    <2>3. PICK shift : shift = z * bits
      OBVIOUS
    <2>4. shift % bits = 0 /\ shift \div bits = z
      BY <1>7, <2>3
    <2>5. Code(layer, address, shift, bits) = f[z]
      <3>1. PICK byte : byte = CacheByte(layer, address)
        OBVIOUS
      <3>2. byte.kind = "codes" /\ byte.bits = bits /\ byte.at = f
        BY <2>2, <3>1
      <3>3. Code(layer, address, shift, bits) =
                IF byte.kind = "codes" /\ byte.bits = bits /\ shift % bits = 0
                THEN byte.at[shift \div bits] ELSE Pad
        BY <3>1, Zenon DEF Code
      <3> QED
        BY <2>4, <3>2, <3>3
    <2> QED
      BY <2>1, <2>3, <2>5
  <1> QED
    BY <1>3, <1>4, <1>8

\* A scale is read back from its two bytes.
LEMMA ScaleReadBack ==
    ASSUME NEW layer, NEW address, NEW i \in Nat, NEW scale,
           CacheByte(layer, address) = Half(2 * i, scale),
           CacheByte(layer, address + 1) = Half(2 * i + 1, scale)
    PROVE  Fp16(layer, address) = scale
  <1>1. (2 * i) % 2 = 0 /\ (2 * i + 1) % 2 = 1
    OBVIOUS
  <1> QED
    BY <1>1 DEF Fp16, Half

\* Whichever way a reader loads scale i of a field, it gets the scale whose halves
\* are the field's bytes 2i and 2i + 1.
LEMMA ScaleOfField ==
    ASSUME LayoutOK, NEW layer \in Layers, NEW b \in Blocks, NEW h \in HeadIds,
           kv_cache[layer][b][h] # None,
           NEW reader \in Readers, NEW k \in 1 .. 8, NEW n \in Nat,
           layout.size[CatOrder[k]] = 2 * n, NEW i \in 0 .. n - 1, NEW scale,
           \A j \in {2 * i, 2 * i + 1} :
               FieldByte(kv_cache[layer][b][h], CatOrder[k], j) = Half(j, scale)
    PROVE  LoadScale(reader, layer, TileBase(b, h), layout.start[k], i) = scale
  <1>1. PICK base \in Nat : base = TileBase(b, h)
    <2>1. layout.T \in Nat \ {0} /\ 0 \in 0 .. layout.T - 1
      BY FieldsInOrder
    <2> QED
      BY <2>1, ByteOfTile
  <1>2. PICK start \in Nat : start = layout.start[k]
    BY FieldsInOrder
  <1>3. start = 2 * (start \div 2)
    BY <1>2, StartsAreEven
  <1>4. \A j \in {2 * i, 2 * i + 1} : CacheByte(layer, base + (start + j)) = Half(j, scale)
    <2>1. \A j \in {2 * i, 2 * i + 1} : j \in 0 .. layout.size[CatOrder[k]] - 1
      OBVIOUS
    <2>2. \A j \in 0 .. layout.size[CatOrder[k]] - 1 :
              CacheByte(layer, TileBase(b, h) + (layout.start[k] + j)) =
                  FieldByte(kv_cache[layer][b][h], CatOrder[k], j)
      BY ByteOfField
    <2> QED
      BY <1>1, <1>2, <2>1, <2>2
  <1>5. PICK address \in Nat : address = base + (start + 2 * i)
    OBVIOUS
  <1>6. address + 1 = base + (start + (2 * i + 1))
    BY <1>5
  <1>7. CacheByte(layer, address) = Half(2 * i, scale) /\ CacheByte(layer, address + 1) = Half(2 * i + 1, scale)
    BY <1>4, <1>5, <1>6
  <1>8. Fp16(layer, address) = scale
    BY <1>7, ScaleReadBack
  <1>9. base + 2 * ((start \div 2) + i) = address
    <2>1. PICK m \in Int : m = start \div 2
      OBVIOUS
    <2> QED
      BY <1>3, <1>5, <2>1
  <1>10. LoadScale(reader, layer, base, start, i) = Fp16(layer, address)
    BY <1>5, <1>9 DEF LoadScale
  <1> QED
    BY <1>1, <1>2, <1>8, <1>10

LEMMA Offsets ==
    ASSUME LayoutOK
    PROVE  /\ k_packed_offset = layout.start[1] /\ layout.k_s_col = layout.start[2]
           /\ layout.k_zp = layout.start[3] /\ layout.k_s_row = layout.start[4]
           /\ layout.v_packed = layout.start[5] /\ layout.v_s_col = layout.start[6]
           /\ layout.v_s_row = layout.start[7] /\ layout.v_zp = layout.start[8]
  <1>1. conf \in Configs /\ layout = Layout(conf)
    BY DEF LayoutOK
  <1>2. layout.start = FieldStart(conf)
    BY <1>1 DEF Layout
  <1>3. FieldStart(conf) = WriteStart(conf)
    BY <1>1, FlushPathsAgree DEF FieldStart
  <1> QED
    BY <1>1, <1>2, <1>3 DEF Layout, WriteStart

LEMMA Fields ==
    ASSUME LayoutOK
    PROVE  /\ CatOrder[1] = "q_K" /\ CatOrder[2] = "s_col_K" /\ CatOrder[3] = "zp_K"
           /\ CatOrder[4] = "s_row_K" /\ CatOrder[5] = "q_V" /\ CatOrder[6] = "s_col_V"
           /\ CatOrder[7] = "s_row_V" /\ CatOrder[8] = "zp_V"
           /\ layout.size = FieldSize(conf)
           /\ layout.size.s_col_K = 2 * D /\ layout.size.zp_K = 2 * D
           /\ layout.size.s_row_K = 2 * Group /\ layout.size.s_col_V = 2 * D
           /\ layout.size.s_row_V = 2 * Group /\ layout.size.zp_V = 2 * Group
           /\ conf \in Configs /\ D \in Nat \ {0} /\ D % 4 = 0 /\ Group \in Nat \ {0} /\ Group % 4 = 0
  <1>1. conf \in Configs /\ layout.size = FieldSize(conf)
    BY DEF LayoutOK, Layout
  <1>2. /\ CatOrder[1] = "q_K" /\ CatOrder[2] = "s_col_K" /\ CatOrder[3] = "zp_K"
        /\ CatOrder[4] = "s_row_K" /\ CatOrder[5] = "q_V" /\ CatOrder[6] = "s_col_V"
        /\ CatOrder[7] = "s_row_V" /\ CatOrder[8] = "zp_V"
    BY DEF CatOrder
  <1>3. D \in Nat \ {0} /\ D % 4 = 0 /\ Group \in Nat \ {0} /\ Group % 4 = 0
    BY <1>1, ConfigFacts DEF D
  <1> QED
    BY <1>1, <1>2, <1>3 DEF FieldSize, D

\* The scales of a record, as every reader loads them.
LEMMA ScalesReadBack ==
    ASSUME LayoutOK, NEW layer \in Layers, NEW b \in Blocks, NEW h \in HeadIds,
           kv_cache[layer][b][h] # None, NEW reader \in Readers
    PROVE  LET rec == kv_cache[layer][b][h]
               Load(offset, i) == LoadScale(reader, layer, TileBase(b, h), offset, i)
           IN  /\ \A d \in 0 .. D - 1 : /\ Load(layout.k_s_col, d) = Scale(rec.K, "row", d)
                                        /\ Load(layout.k_zp, d) = Scale(rec.K, "zero", d)
                                        /\ Load(layout.v_s_col, d) = Scale(rec.V, "column", d)
               /\ \A t \in Tokens : /\ Load(layout.k_s_row, t) = Scale(rec.K, "column", t)
                                    /\ Load(layout.v_s_row, t) = Scale(rec.V, "row", t)
                                    /\ Load(layout.v_zp, t) = Scale(rec.V, "zero", t)
  <1> DEFINE rec == kv_cache[layer][b][h]
             Load(offset, i) == LoadScale(reader, layer, TileBase(b, h), offset, i)
  <1>1. ASSUME NEW i \in Nat, NEW j \in {2 * i, 2 * i + 1}
        PROVE  /\ FieldByte(rec, "s_col_K", j) = Half(j, Scale(rec.K, "row", i))
               /\ FieldByte(rec, "zp_K", j) = Half(j, Scale(rec.K, "zero", i))
               /\ FieldByte(rec, "s_row_K", j) = Half(j, Scale(rec.K, "column", i))
               /\ FieldByte(rec, "s_col_V", j) = Half(j, Scale(rec.V, "column", i))
               /\ FieldByte(rec, "s_row_V", j) = Half(j, Scale(rec.V, "row", i))
               /\ FieldByte(rec, "zp_V", j) = Half(j, Scale(rec.V, "zero", i))
    <2>1. j \div 2 = i
      BY Twice
    <2> HIDE DEF rec
    <2> QED
      BY <2>1 DEF FieldByte
  <1>2. /\ CatOrder[2] = "s_col_K" /\ CatOrder[3] = "zp_K" /\ CatOrder[4] = "s_row_K"
        /\ CatOrder[6] = "s_col_V" /\ CatOrder[7] = "s_row_V" /\ CatOrder[8] = "zp_V"
        /\ D \in Nat /\ Group \in Nat
        /\ layout.size[CatOrder[2]] = 2 * D /\ layout.size[CatOrder[3]] = 2 * D
        /\ layout.size[CatOrder[4]] = 2 * Group /\ layout.size[CatOrder[6]] = 2 * D
        /\ layout.size[CatOrder[7]] = 2 * Group /\ layout.size[CatOrder[8]] = 2 * Group
    BY Fields
  <1>3. ASSUME NEW d \in 0 .. D - 1
        PROVE  /\ Load(layout.start[2], d) = Scale(rec.K, "row", d)
               /\ Load(layout.start[3], d) = Scale(rec.K, "zero", d)
               /\ Load(layout.start[6], d) = Scale(rec.V, "column", d)
    <2>1. d \in Nat
      BY <1>2
    <2>2. /\ \A j \in {2 * d, 2 * d + 1} :
                 /\ FieldByte(rec, CatOrder[2], j) = Half(j, Scale(rec.K, "row", d))
                 /\ FieldByte(rec, CatOrder[3], j) = Half(j, Scale(rec.K, "zero", d))
                 /\ FieldByte(rec, CatOrder[6], j) = Half(j, Scale(rec.V, "column", d))
      BY <1>1, <1>2, <2>1
    <2>3. Load(layout.start[2], d) = Scale(rec.K, "row", d)
      BY <1>2, <2>2, ScaleOfField
    <2>4. Load(layout.start[3], d) = Scale(rec.K, "zero", d)
      BY <1>2, <2>2, ScaleOfField
    <2>5. Load(layout.start[6], d) = Scale(rec.V, "column", d)
      BY <1>2, <2>2, ScaleOfField
    <2> QED
      BY <2>3, <2>4, <2>5
  <1>4. ASSUME NEW t \in Tokens
        PROVE  /\ Load(layout.start[4], t) = Scale(rec.K, "column", t)
               /\ Load(layout.start[7], t) = Scale(rec.V, "row", t)
               /\ Load(layout.start[8], t) = Scale(rec.V, "zero", t)
    <2>1. t \in Nat /\ t \in 0 .. Group - 1
      BY <1>2 DEF Tokens
    <2>2. /\ \A j \in {2 * t, 2 * t + 1} :
                 /\ FieldByte(rec, CatOrder[4], j) = Half(j, Scale(rec.K, "column", t))
                 /\ FieldByte(rec, CatOrder[7], j) = Half(j, Scale(rec.V, "row", t))
                 /\ FieldByte(rec, CatOrder[8], j) = Half(j, Scale(rec.V, "zero", t))
      BY <1>1, <1>2, <2>1
    <2>3. Load(layout.start[4], t) = Scale(rec.K, "column", t)
      BY <1>2, <2>1, <2>2, ScaleOfField
    <2>4. Load(layout.start[7], t) = Scale(rec.V, "row", t)
      BY <1>2, <2>1, <2>2, ScaleOfField
    <2>5. Load(layout.start[8], t) = Scale(rec.V, "zero", t)
      BY <1>2, <2>1, <2>2, ScaleOfField
    <2> QED
      BY <2>3, <2>4, <2>5
  <1> QED
    BY <1>3, <1>4, Offsets

\* The codes of a record.
LEMMA CodesReadBack ==
    ASSUME LayoutOK, NEW layer \in Layers, NEW b \in Blocks, NEW h \in HeadIds,
           kv_cache[layer][b][h] # None, NEW d \in 0 .. D - 1, NEW t \in Tokens
    PROVE  /\ Code(layer, TileBase(b, h) + k_packed_offset + KCodeOffset(d, t), (t % PACK_K) * KeyBits, KeyBits)
                  = <<kv_cache[layer][b][h].K, d, t>>
           /\ Code(layer, TileBase(b, h) + layout.v_packed + VCodeOffset(conf, d, t),
                   (d % PACK_V(conf)) * V_BITS, V_BITS)
                  = <<kv_cache[layer][b][h].V, t, d>>
  <1> DEFINE rec == kv_cache[layer][b][h]
  <1>1. PICK base \in Nat : base = TileBase(b, h)
    <2>1. layout.T \in Nat \ {0} /\ 0 \in 0 .. layout.T - 1
      BY FieldsInOrder
    <2> QED
      BY <2>1, ByteOfTile
  <1>2. /\ CatOrder[1] = "q_K" /\ CatOrder[5] = "q_V" /\ layout.size = FieldSize(conf)
        /\ conf \in Configs /\ D \in Nat \ {0} /\ D % 4 = 0 /\ Group \in Nat \ {0} /\ Group % 4 = 0
    BY Fields
  <1>3. t \in 0 .. Group - 1 /\ t \in Nat /\ d \in Nat /\ d \in 0 .. conf.head_dim - 1
    BY <1>2 DEF Tokens, D
  <1>4. /\ PACK_K \in {2, 4} /\ KeyBits \in {2, 4} /\ PACK_K = 8 \div KeyBits
        /\ PACK_V(conf) \in {2, 4} /\ V_BITS \in {2, 4} /\ PACK_V(conf) = 8 \div V_BITS
    BY <1>2, ConfigFacts DEF PACK_K, PACK_V, KeyBits, V_BITS
  <1>5. /\ KCodeOffset(d, t) \in 0 .. layout.size[CatOrder[1]] - 1
        /\ VCodeOffset(conf, d, t) \in 0 .. layout.size[CatOrder[5]] - 1
    BY <1>2, <1>3, CodesStayInTheirField
  <1>6. /\ k_packed_offset = layout.start[1] /\ layout.v_packed = layout.start[5]
        /\ layout.start[1] \in Nat /\ layout.start[5] \in Nat
    BY Offsets, FieldsInOrder
  <1>7. Code(layer, TileBase(b, h) + k_packed_offset + KCodeOffset(d, t), (t % PACK_K) * KeyBits, KeyBits)
            = <<rec.K, d, t>>
    <2>1. PICK address : address = base + (layout.start[1] + KCodeOffset(d, t))
      OBVIOUS
    <2>2. address = TileBase(b, h) + k_packed_offset + KCodeOffset(d, t)
      <3>1. PICK x \in Nat : x = layout.start[1]
        BY <1>6
      <3>2. PICK y \in Int : y = KCodeOffset(d, t)
        BY <1>5
      <3>3. base + x + y = base + (x + y)
        OBVIOUS
      <3> QED
        BY <1>1, <1>6, <2>1, <3>1, <3>2, <3>3
    <2>3. CacheByte(layer, address) = FieldByte(rec, CatOrder[1], KCodeOffset(d, t))
      <3>1. \A j \in 0 .. layout.size[CatOrder[1]] - 1 :
                CacheByte(layer, TileBase(b, h) + (layout.start[1] + j)) = FieldByte(rec, CatOrder[1], j)
        BY ByteOfField
      <3> QED
        BY <1>1, <1>5, <2>1, <3>1
    <2> HIDE DEF rec
    <2>4. FieldByte(rec, "q_K", KCodeOffset(d, t)) =
              PackedByte(rec.K, KeyBits, Group, d * (Group \div PACK_K) + t \div PACK_K)
      BY DEF FieldByte, KCodeOffset
    <2>5. CacheByte(layer, address) =
              PackedByte(rec.K, KeyBits, Group, d * (Group \div PACK_K) + t \div PACK_K)
      BY <1>2, <2>3, <2>4
    <2>6. Code(layer, address, (t % PACK_K) * KeyBits, KeyBits) = <<rec.K, d, t>>
      <3>1. PICK bits \in {2, 4} : bits = KeyBits
        BY <1>4
      <3>2. PICK p \in {2, 4} : p = PACK_K
        BY <1>4
      <3>3. PICK n \in Nat \ {0} : n = Group
        BY <1>2
      <3>4. PICK tile : tile = rec.K
        OBVIOUS
      <3>5. p = 8 \div bits /\ n % 4 = 0 /\ t \in 0 .. n - 1
        BY <1>2, <1>3, <1>4, <3>1, <3>2, <3>3 DEF D
      <3>6. CacheByte(layer, address) = PackedByte(tile, bits, n, d * (n \div p) + t \div p)
        BY <2>5, <3>1, <3>2, <3>3, <3>4
      <3>7. CodeReads(layer, address, tile, bits, p, n, d, t)
        BY <1>3, <3>5, CodeReadBack
      <3> QED
        BY <3>1, <3>2, <3>4, <3>6, <3>7 DEF CodeReads
    <2> QED
      BY <2>2, <2>6
  <1>8. Code(layer, TileBase(b, h) + layout.v_packed + VCodeOffset(conf, d, t),
             (d % PACK_V(conf)) * V_BITS, V_BITS) = <<rec.V, t, d>>
    <2>1. PICK address : address = base + (layout.start[5] + VCodeOffset(conf, d, t))
      OBVIOUS
    <2>2. address = TileBase(b, h) + layout.v_packed + VCodeOffset(conf, d, t)
      <3>1. PICK x \in Nat : x = layout.start[5]
        BY <1>6
      <3>2. PICK y \in Int : y = VCodeOffset(conf, d, t)
        BY <1>5
      <3>3. base + x + y = base + (x + y)
        OBVIOUS
      <3> QED
        BY <1>1, <1>6, <2>1, <3>1, <3>2, <3>3
    <2>3. CacheByte(layer, address) = FieldByte(rec, CatOrder[5], VCodeOffset(conf, d, t))
      <3>1. \A j \in 0 .. layout.size[CatOrder[5]] - 1 :
                CacheByte(layer, TileBase(b, h) + (layout.start[5] + j)) = FieldByte(rec, CatOrder[5], j)
        BY ByteOfField
      <3> QED
        BY <1>1, <1>5, <2>1, <3>1
    <2> HIDE DEF rec
    <2>4. FieldByte(rec, "q_V", VCodeOffset(conf, d, t)) =
              PackedByte(rec.V, V_BITS, D, t * (D \div PACK_V(conf)) + d \div PACK_V(conf))
      BY DEF FieldByte, VCodeOffset, D
    <2>5. CacheByte(layer, address) =
              PackedByte(rec.V, V_BITS, D, t * (D \div PACK_V(conf)) + d \div PACK_V(conf))
      BY <1>2, <2>3, <2>4
    <2>6. Code(layer, address, (d % PACK_V(conf)) * V_BITS, V_BITS) = <<rec.V, t, d>>
      <3>1. PICK bits \in {2, 4} : bits = V_BITS
        BY <1>4
      <3>2. PICK p \in {2, 4} : p = PACK_V(conf)
        BY <1>4
      <3>3. PICK n \in Nat \ {0} : n = D
        BY <1>2
      <3>4. PICK tile : tile = rec.V
        OBVIOUS
      <3>5. p = 8 \div bits /\ n % 4 = 0 /\ d \in 0 .. n - 1
        BY <1>2, <1>3, <1>4, <3>1, <3>2, <3>3 DEF D
      <3>6. CacheByte(layer, address) = PackedByte(tile, bits, n, t * (n \div p) + d \div p)
        BY <2>5, <3>1, <3>2, <3>3, <3>4
      <3>7. CodeReads(layer, address, tile, bits, p, n, t, d)
        BY <1>3, <3>5, CodeReadBack
      <3> QED
        BY <3>1, <3>2, <3>4, <3>6, <3>7 DEF CodeReads
    <2> QED
      BY <2>2, <2>6
  <1> QED
    BY <1>7, <1>8

\* Every reader decodes the record of a pair of tiles to those tiles.
LEMMA RecordReadBack ==
    ASSUME LayoutOK, NEW layer \in Layers, NEW b \in Blocks, NEW h \in HeadIds,
           NEW K, NEW V, kv_cache[layer][b][h] = [K |-> K, V |-> V], NEW reader \in Readers
    PROVE  /\ ReadK(reader, layer, b, h) = Decoded(K, 0 .. D - 1, Tokens)
           /\ ReadV(reader, layer, b, h) = Decoded(V, Tokens, 0 .. D - 1)
  <1>1. /\ kv_cache[layer][b][h] # None
        /\ kv_cache[layer][b][h].K = K /\ kv_cache[layer][b][h].V = V
    <2>1. DOMAIN [K |-> K, V |-> V] = {"K", "V"} /\ DOMAIN None = {"side"}
      BY DEF None
    <2> QED
      BY <2>1
  <1>2. \A d \in 0 .. D - 1, t \in Tokens :
            /\ Code(layer, TileBase(b, h) + k_packed_offset + KCodeOffset(d, t), (t % PACK_K) * KeyBits, KeyBits)
                   = <<K, d, t>>
            /\ Code(layer, TileBase(b, h) + layout.v_packed + VCodeOffset(conf, d, t),
                    (d % PACK_V(conf)) * V_BITS, V_BITS) = <<V, t, d>>
    BY <1>1, CodesReadBack
  <1>3. LET Load(offset, i) == LoadScale(reader, layer, TileBase(b, h), offset, i)
        IN  /\ \A d \in 0 .. D - 1 : /\ Load(layout.k_s_col, d) = Scale(K, "row", d)
                                     /\ Load(layout.k_zp, d) = Scale(K, "zero", d)
                                     /\ Load(layout.v_s_col, d) = Scale(V, "column", d)
            /\ \A t \in Tokens : /\ Load(layout.k_s_row, t) = Scale(K, "column", t)
                                 /\ Load(layout.v_s_row, t) = Scale(V, "row", t)
                                 /\ Load(layout.v_zp, t) = Scale(V, "zero", t)
    BY <1>1, ScalesReadBack
  <1>4. ReadK(reader, layer, b, h) = Decoded(K, 0 .. D - 1, Tokens)
    <2>1. [d \in 0 .. D - 1 |-> [t \in Tokens |->
              Code(layer, TileBase(b, h) + k_packed_offset + KCodeOffset(d, t), (t % PACK_K) * KeyBits, KeyBits)]]
              = [d \in 0 .. D - 1 |-> [t \in Tokens |-> <<K, d, t>>]]
      BY <1>2, Zenon
    <2>2. [d \in 0 .. D - 1 |-> LoadScale(reader, layer, TileBase(b, h), layout.k_s_col, d)]
              = [d \in 0 .. D - 1 |-> Scale(K, "row", d)]
      BY <1>3, Zenon
    <2>3. [d \in 0 .. D - 1 |-> LoadScale(reader, layer, TileBase(b, h), layout.k_zp, d)]
              = [d \in 0 .. D - 1 |-> Scale(K, "zero", d)]
      BY <1>3, Zenon
    <2>4. [t \in Tokens |-> LoadScale(reader, layer, TileBase(b, h), layout.k_s_row, t)]
              = [t \in Tokens |-> Scale(K, "column", t)]
      BY <1>3, Zenon
    <2> QED
      BY <2>1, <2>2, <2>3, <2>4 DEF ReadK, Decoded
  <1>5. ReadV(reader, layer, b, h) = Decoded(V, Tokens, 0 .. D - 1)
    <2>1. [t \in Tokens |-> [d \in 0 .. D - 1 |->
              Code(layer, TileBase(b, h) + layout.v_packed + VCodeOffset(conf, d, t),
                   (d % PACK_V(conf)) * V_BITS, V_BITS)]]
              = [t \in Tokens |-> [d \in 0 .. D - 1 |-> <<V, t, d>>]]
      BY <1>2, Zenon
    <2>2. [t \in Tokens |-> LoadScale(reader, layer, TileBase(b, h), layout.v_s_row, t)]
              = [t \in Tokens |-> Scale(V, "row", t)]
      BY <1>3, Zenon
    <2>3. [t \in Tokens |-> LoadScale(reader, layer, TileBase(b, h), layout.v_zp, t)]
              = [t \in Tokens |-> Scale(V, "zero", t)]
      BY <1>3, Zenon
    <2>4. [d \in 0 .. D - 1 |-> LoadScale(reader, layer, TileBase(b, h), layout.v_s_col, d)]
              = [d \in 0 .. D - 1 |-> Scale(V, "column", d)]
      BY <1>3, Zenon
    <2> QED
      BY <2>1, <2>2, <2>3, <2>4 DEF ReadV, Decoded
  <1> QED
    BY <1>4, <1>5

-----------------------------------------------------------------------------

\* What the pools and the records hold is inductive.
LEMMA StepKeepsTiles ==
    ASSUME TileInv, [Next]_vars
    PROVE  TileInv'
  <1>1. LayoutOK' /\ SlotsOK'
    BY StepKeepsTypes DEF TileInv
  <1>2. PoolHolds' /\ TilesHold'
    <2>1. CASE UNCHANGED vars
      BY <2>1 DEF vars, TileInv, PoolHolds, TilesHold, Stored, Row
    <2> QED
      BY <2>1, AllocateHolds, DiscardHolds, StoreHolds, FlushHolds DEF Next
  <1> QED
    BY <1>1, <1>2 DEF TileInv

\* In every layer and head, for every group, head dimension, width, alignment and
\* flush path and for launches of any size: a block's tokens are in its slot, and
\* once it is flushed each reader decodes each channel of each token from its own
\* code and scales (build, _batched_flush, _write_packed, and the kernels).
THEOREM ReadersAlways == TileSpec => []ReadersSeeTheBlock
  <1>1. Init => TileInv
    BY InitLayout, InitSlots, InitHolds DEF TileInv
  <1>2. TileInv /\ [Next]_vars => TileInv'
    BY StepKeepsTiles
  <1>3. TileInv => ReadersSeeTheBlock
    <2> SUFFICES ASSUME TileInv, NEW layer \in Layers, NEW b \in Blocks, NEW h \in HeadIds
                 PROVE  IF block_to_slot[b] # -1
                        THEN \A side \in Sides, t \in 0 .. fill[b] - 1 :
                                 pool[layer][side][block_to_slot[b]][t][h] = Row(layer, side, b, t, h)
                        ELSE fill[b] = Group =>
                                 \A reader \in Readers :
                                     /\ ReadK(reader, layer, b, h) =
                                            Decoded(Stored(layer, "K", b, h), 0 .. D - 1, Tokens)
                                     /\ ReadV(reader, layer, b, h) =
                                            Decoded(Stored(layer, "V", b, h), Tokens, 0 .. D - 1)
      BY DEF ReadersSeeTheBlock
    <2>1. CASE block_to_slot[b] # -1
      BY <2>1 DEF TileInv, PoolHolds
    <2>2. CASE block_to_slot[b] = -1
      <3> SUFFICES ASSUME fill[b] = Group, NEW reader \in Readers
                   PROVE  /\ ReadK(reader, layer, b, h) =
                                 Decoded(Stored(layer, "K", b, h), 0 .. D - 1, Tokens)
                          /\ ReadV(reader, layer, b, h) =
                                 Decoded(Stored(layer, "V", b, h), Tokens, 0 .. D - 1)
        BY <2>2
      <3>1. kv_cache[layer][b][h] = [K |-> Stored(layer, "K", b, h), V |-> Stored(layer, "V", b, h)]
        BY <2>2 DEF TileInv, TilesHold
      <3> QED
        BY <3>1, RecordReadBack DEF TileInv
    <2> QED
      BY <2>1, <2>2
  <1> QED
    BY <1>1, <1>2, <1>3, PTL DEF TileSpec

=============================================================================
