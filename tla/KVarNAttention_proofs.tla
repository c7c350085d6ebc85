----------------------- MODULE KVarNAttention_proofs -----------------------
(***************************************************************************)
(* KVarNAttention for all constants: the plan a launched kernel reads is   *)
(* the plan of its rows, however far the host is ahead (PlanIsOfTheStep);  *)
(* the host's state and the stream are well typed (AttentionTypes); a      *)
(* split-K kernel scores each key of a row in exactly one split            *)
(* (SplitDecodeExact); and what a step's launches leave in the output is   *)
(* what its rows want, each key once (ExactOutputs).                       *)
(*                                                                         *)
(* The last goes in five parts: the prefix sums that place rows and        *)
(* tokens; the plan of a batch; the cells of each kernel; the launches of  *)
(* a step, which follow each other over the rows; and the step itself.     *)
(***************************************************************************)
EXTENDS KVarNAttention, FiniteSetTheorems, WellFoundedInduction, TLAPS

-----------------------------------------------------------------------------
(* The split plan.                                                          *)

\* A rounded-up quotient covers its dividend.
LEMMA CeilDivBounds ==
    ASSUME NEW a \in Nat, NEW b \in Nat \ {0}
    PROVE  /\ CeilDiv(a, b) \in Nat
           /\ a <= CeilDiv(a, b) * b
           /\ a > 0 => CeilDiv(a, b) > 0
<1>1. (a + b - 1) \div b \in Nat /\ a + b - 1 < ((a + b - 1) \div b + 1) * b
  BY SMTT(30)
<1>2. ((a + b - 1) \div b + 1) * b = ((a + b - 1) \div b) * b + b
  BY <1>1, SMTT(30)
<1> QED  BY <1>1, <1>2, SMTT(30) DEF CeilDiv

(* Every block falls to exactly one split: the ceiling of blocks per split    *)
(* leaves no gap and no overlap, whatever the number of splits; later splits *)
(* may be empty.                                                             *)
LEMMA SplitsPartition ==
    ASSUME NEW n \in Nat, NEW splits \in Nat \ {0}, NEW k \in 0 .. n - 1
    PROVE  /\ \E s \in 0 .. splits - 1 :
                SplitLo(n, splits, s) <= k /\ k < SplitHi(n, splits, s)
           /\ \A s, t \in 0 .. splits - 1 :
                /\ SplitLo(n, splits, s) <= k /\ k < SplitHi(n, splits, s)
                /\ SplitLo(n, splits, t) <= k /\ k < SplitHi(n, splits, t)
                => s = t
<1> DEFINE c == CeilDiv(n, splits)
<1>1. c \in Nat \ {0} /\ n <= c * splits
  BY CeilDivBounds
<1> HIDE DEF c
<1>2. \A s \in 0 .. splits - 1 :
        SplitLo(n, splits, s) = s * c
        /\ (k < SplitHi(n, splits, s) <=> k < s * c + c)
  <2> TAKE s \in 0 .. splits - 1
  <2>1. s * c \in Nat
    BY <1>1
  <2> QED  BY <1>1, <2>1 DEF SplitLo, SplitHi, Smaller, c
<1>3. \A s, t \in Nat : s < t => s * c + c <= t * c
  <2> SUFFICES ASSUME NEW s \in Nat, NEW t \in Nat, s < t
               PROVE  s * c + c <= t * c
    OBVIOUS
  <2>1. PICK d \in Nat : t = s + 1 + d
    <3> WITNESS t - s - 1 \in Nat
    <3> QED  OBVIOUS
  <2>2. t * c = s * c + c + d * c
    BY <1>1, <2>1, SMTT(30)
  <2>3. d * c \in Nat /\ s * c \in Nat
    BY <1>1
  <2> QED  BY <1>1, <2>2, <2>3
<1>4. \E s \in 0 .. splits - 1 :
        SplitLo(n, splits, s) <= k /\ k < SplitHi(n, splits, s)
  <2> DEFINE s == k \div c
  <2>1. s \in Nat /\ s * c <= k /\ k < s * c + c
    BY <1>1, SMTT(30)
  <2> HIDE DEF s
  <2>2. s < splits
    <3> SUFFICES ASSUME splits <= s PROVE FALSE
      BY <2>1
    <3>1. CASE splits = s
      BY <1>1, <2>1, <3>1, SMTT(30)
    <3>2. CASE splits < s
      <4>1. splits * c + c <= s * c
        BY <1>3, <2>1, <3>2
      <4>2. splits * c = c * splits /\ splits * c \in Nat /\ s * c \in Nat
        BY <1>1, <2>1
      <4> QED  BY <1>1, <2>1, <4>1, <4>2
    <3> QED  BY <2>1, <3>1, <3>2
  <2>3. s \in 0 .. splits - 1
    BY <2>1, <2>2
  <2> QED  BY <1>2, <2>1, <2>3
<1>5. \A s, t \in 0 .. splits - 1 :
        /\ SplitLo(n, splits, s) <= k /\ k < SplitHi(n, splits, s)
        /\ SplitLo(n, splits, t) <= k /\ k < SplitHi(n, splits, t)
        => s = t
  <2> SUFFICES ASSUME NEW s \in 0 .. splits - 1, NEW t \in 0 .. splits - 1,
                      s * c <= k, k < s * c + c, t * c <= k, k < t * c + c
               PROVE  s = t
    BY <1>2
  <2>1. s * c \in Nat /\ t * c \in Nat
    BY <1>1
  <2>2. ~ (s < t) /\ ~ (t < s)
    BY <1>1, <1>3, <2>1
  <2> QED  BY <2>2
<1> QED  BY <1>4, <1>5

(* A split-K kernel scores every key its query token may attend, and scores   *)
(* it in one split only, so that stage 2 adds nothing twice.                  *)
THEOREM SplitDecodeExact ==
    ASSUME NEW row, NEW seq_len \in Nat, NEW limit \in 0 .. seq_len,
           NEW splits \in Nat \ {0}, NEW p \in Nat,
           dep \in Deployments
    PROVE  LET tags == {s \in Nat : <<s, row, p>> \in SplitDecode(row, seq_len, limit, splits)}
           IN  /\ (\E s \in Nat : s \in tags) <=> p \in WinStart(limit) .. limit - 1
               /\ \A s, t \in tags : s = t
<1> DEFINE n == CeilDiv(seq_len, Group)
           k == p \div Group
           In(s) == SplitLo(n, splits, s) <= k /\ k < SplitHi(n, splits, s)
           tags == {s \in Nat : <<s, row, p>> \in SplitDecode(row, seq_len, limit, splits)}
<1>1. n \in Nat /\ seq_len <= n * Group
  BY CeilDivBounds, AttentionAssumption
<1>2. k \in Nat /\ k * Group <= p /\ p < k * Group + Group
  BY AttentionAssumption, SMTT(30)
<1>3. WinStart(limit) \in Nat
  BY AttentionAssumption DEF WinStart, Larger
<1> HIDE DEF n, k
<1>4. \A a, b \in Nat : a < b => a * Group + Group <= b * Group
  <2> SUFFICES ASSUME NEW a \in Nat, NEW b \in Nat, a < b
               PROVE  a * Group + Group <= b * Group
    OBVIOUS
  <2>1. b = a + 1 + (b - a - 1) /\ b - a - 1 \in Nat
    OBVIOUS
  <2>2. b * Group = a * Group + Group + (b - a - 1) * Group
    BY AttentionAssumption, <2>1, SMTT(30)
  <2>3. (b - a - 1) * Group \in Nat
    BY AttentionAssumption, <2>1
  <2>4. a * Group \in Nat
    BY AttentionAssumption
  <2> QED  BY AttentionAssumption, <2>2, <2>3, <2>4
<1>5. \A lo, hi \in Nat : (lo <= k /\ k < hi) <=> (p \in lo * Group .. hi * Group - 1)
  <2> SUFFICES ASSUME NEW lo \in Nat, NEW hi \in Nat
               PROVE  (lo <= k /\ k < hi) <=> (p \in lo * Group .. hi * Group - 1)
    OBVIOUS
  <2>1. lo * Group \in Nat /\ hi * Group \in Nat /\ k * Group \in Nat
    BY AttentionAssumption, <1>2
  <2>2. lo <= k <=> lo * Group <= p
    <3>1. CASE lo = k
      BY <1>2, <3>1
    <3>2. CASE lo < k
      BY <1>2, <1>4, <2>1, <3>2, AttentionAssumption
    <3>3. CASE k < lo
      BY <1>2, <1>4, <2>1, <3>3, AttentionAssumption
    <3> QED  BY <1>2, <3>1, <3>2, <3>3
  <2>3. k < hi <=> p < hi * Group
    <3>1. CASE hi = k
      <4>1. hi * Group <= p
        BY <1>2, <3>1
      <4> QED  BY <1>2, <2>1, <3>1, <4>1
    <3>2. CASE hi < k
      BY <1>2, <1>4, <2>1, <3>2, AttentionAssumption
    <3>3. CASE k < hi
      BY <1>2, <1>4, <2>1, <3>3, AttentionAssumption
    <3> QED  BY <1>2, <3>1, <3>2, <3>3
  <2> QED  BY <2>1, <2>2, <2>3
<1>6. \A s \in 0 .. splits - 1 : SplitLo(n, splits, s) \in Nat /\ SplitHi(n, splits, s) \in Nat
  <2> TAKE s \in 0 .. splits - 1
  <2>1. CeilDiv(n, splits) \in Nat
    BY <1>1, CeilDivBounds
  <2>2. s * CeilDiv(n, splits) \in Nat
    BY <2>1
  <2> QED  BY <1>1, <2>1, <2>2 DEF SplitLo, SplitHi, Smaller
<1>7. \A s \in Nat : s \in tags <=> /\ s \in 0 .. splits - 1
                                  /\ In(s)
                                  /\ p \in WinStart(limit) .. limit - 1
  <2> TAKE s \in Nat
  <2>1. s \in tags <=> /\ s \in 0 .. splits - 1
                       /\ p \in SplitLo(n, splits, s) * Group .. SplitHi(n, splits, s) * Group - 1
                       /\ p < seq_len /\ p < limit /\ p >= WinStart(limit)
    BY DEF SplitDecode, BlockCells, n
  <2> QED  BY <1>3, <1>5, <1>6, <2>1
<1>8. p < limit => k \in 0 .. n - 1
  <2> SUFFICES ASSUME p < limit PROVE k < n
    BY <1>1, <1>2
  <2>1. p \in 0 * Group .. n * Group - 1
    BY <1>1, AttentionAssumption
  <2> QED  BY <1>1, <1>5, <2>1
<1>9. ASSUME p \in WinStart(limit) .. limit - 1
      PROVE  (\E s \in 0 .. splits - 1 : In(s))
             /\ (\A s, t \in 0 .. splits - 1 : In(s) /\ In(t) => s = t)
  <2>1. k \in 0 .. n - 1
    BY <1>3, <1>8, <1>9
  <2> QED  BY <1>1, <2>1, SplitsPartition
<1> HIDE DEF In, tags
<1>10. (\E s \in Nat : s \in tags) <=> p \in WinStart(limit) .. limit - 1
  BY <1>7, <1>9
<1>11. \A s, t \in tags : s = t
  BY <1>7, <1>9 DEF tags
<1> QED  BY <1>10, <1>11 DEF tags

-----------------------------------------------------------------------------
(* The host and the GPU.                                                    *)

(* What the property needs of the stream: a copy is always first in it, the  *)
(* runner's inputs always last and only while their plan is still to be      *)
(* built, and no launch is behind a plan that is not its own.                *)
IsSeq(s) == \E S : s \in Seq(S)

StreamInv ==
    /\ IsSeq(stream)
    /\ \A i \in 1 .. Len(stream) :
        /\ stream[i].op \in {"inputs", "copy", "launch"}
        /\ stream[i].op = "inputs" => /\ i = Len(stream)
                                      /\ phase = "build"
                                      /\ stream[i].rows = batch
        /\ stream[i].op = "copy" => i = 1
        /\ stream[i].op = "launch" => phase # "forward"
    /\ phase = "build" /\ stream # <<>> => stream[Len(stream)].op = "inputs"

\* The plan in the staging buffer, and the one on the device, are those of
\* the rows on the device whenever a copy or a launch is next.
PlanInv ==
    /\ stream # <<>> /\ Head(stream).op = "copy" => staging = PlanOf(inputs)
    /\ stream # <<>> /\ Head(stream).op = "launch" => plan = PlanOf(inputs)
    /\ stream = <<>> /\ phase = "forward" => plan = PlanOf(inputs)
    /\ stream = <<>> /\ phase = "build" => inputs = batch

\* Both parts.
SyncInv == StreamInv /\ PlanInv

\* What follows the end of a queue.
LEMMA EnqueueSeq ==
    ASSUME NEW s, IsSeq(s), NEW t, IsSeq(t)
    PROVE  /\ IsSeq(s \o t) /\ Len(s) \in Nat /\ Len(t) \in Nat
           /\ Len(s \o t) = Len(s) + Len(t)
           /\ \A i \in 1 .. Len(s) : (s \o t)[i] = s[i]
           /\ \A i \in 1 .. Len(t) : (s \o t)[Len(s) + i] = t[i]
           /\ s = <<>> <=> Len(s) = 0
<1>1. PICK S : s \in Seq(S)
  BY DEF IsSeq
<1>2. PICK T : t \in Seq(T)
  BY DEF IsSeq
<1>3. s \in Seq(S \cup T) /\ t \in Seq(S \cup T)
  BY <1>1, <1>2
<1>4. s \o t \in Seq(S \cup T)
  BY <1>3
<1>5. Len(s) \in Nat /\ Len(t) \in Nat /\ (s = <<>> <=> Len(s) = 0)
  BY <1>3
<1>6. Len(s \o t) = Len(s) + Len(t)
  BY <1>3
<1>7. \A i \in 1 .. Len(s) : (s \o t)[i] = s[i]
  BY <1>3, <1>5
<1>8. \A i \in 1 .. Len(t) : (s \o t)[Len(s) + i] = t[i]
  BY <1>3, <1>5
<1> QED  BY <1>4, <1>5, <1>6, <1>7, <1>8 DEF IsSeq

\* What is left of a queue behind its head.
LEMMA DequeueSeq ==
    ASSUME NEW s, IsSeq(s), s # <<>>
    PROVE  /\ IsSeq(Tail(s)) /\ Len(s) \in Nat \ {0} /\ Len(Tail(s)) = Len(s) - 1
           /\ Head(s) = s[1]
           /\ \A i \in 1 .. Len(Tail(s)) : Tail(s)[i] = s[i + 1]
           /\ Tail(s) = <<>> <=> Len(s) = 1
<1>1. PICK S : s \in Seq(S)
  BY DEF IsSeq
<1>2. Len(s) \in Nat \ {0} /\ Tail(s) \in Seq(S) /\ Head(s) = s[1]
  BY <1>1
<1>3. Len(Tail(s)) = Len(s) - 1
  BY <1>1
<1>4. \A i \in 1 .. Len(Tail(s)) : Tail(s)[i] = s[i + 1]
  BY <1>1, <1>2, <1>3
<1>5. Tail(s) = <<>> <=> Len(s) = 1
  BY <1>2, <1>3
<1> QED  BY <1>2, <1>3, <1>4, <1>5 DEF IsSeq

\* A queue of one.
LEMMA SingletonSeq ==
    ASSUME NEW x
    PROVE  IsSeq(<<x>>) /\ Len(<<x>>) = 1 /\ <<x>>[1] = x
<1>1. <<x>> \in Seq({x})
  OBVIOUS
<1> QED  BY <1>1 DEF IsSeq

(* Whatever the rows, forward enqueues launches, and at least one.            *)
LEMMA RouteLaunches ==
    ASSUME NEW rows
    PROVE  /\ IsSeq(Route(rows)) /\ Len(Route(rows)) \in Nat \ {0}
           /\ \A i \in 1 .. Len(Route(rows)) : Route(rows)[i].op = "launch"
<1> DEFINE IsLaunch(l) == l.op = "launch"
<1>1. \A k, lo, hi, s, q, f : IsLaunch(Launch(k, lo, hi, s, q, f))
  BY DEF Launch
<1>2. \A lo, hi, f : IsLaunch(DecodeAttention(lo, hi, f))
  BY <1>1 DEF DecodeAttention
<1>3. \A lo, hi, n, q, f : IsLaunch(VerifyAttention(lo, hi, n, q, f))
  BY <1>1 DEF VerifyAttention
<1>4. \A lo, hi : IsLaunch(CachedMultiquery(rows, lo, hi))
  BY <1>1, <1>3 DEF CachedMultiquery
<1> HIDE DEF IsLaunch
<1>5. \A f : IsLaunch(DecodePortion(rows, f))
  BY <1>2, <1>3 DEF DecodePortion
<1>6. IsLaunch(PrefillPortion(rows))
  BY <1>1, <1>4 DEF PrefillPortion
<1>7. \A x, y : IsSeq(<<x, y>>) /\ Len(<<x, y>>) = 2 /\ <<x, y>>[1] = x /\ <<x, y>>[2] = y
  <2> TAKE x, y
  <2>1. <<x, y>> \in Seq({x, y})
    OBVIOUS
  <2> QED  BY <2>1 DEF IsSeq
<1>8. PICK d, e, f : /\ IsLaunch(d) /\ IsLaunch(e) /\ IsLaunch(f)
                     /\ Route(rows) \in {<<d>>, <<e>>, <<f, e>>}
  BY <1>5, <1>6 DEF Route
<1> QED  BY <1>7, <1>8, SingletonSeq DEF IsLaunch

\* The stream is empty at first.
LEMMA SyncInit == Init => SyncInv
<1> SUFFICES ASSUME Init PROVE SyncInv
  OBVIOUS
<1>1. stream = <<>> /\ phase = "idle"
  BY DEF Init
<1>2. IsSeq(<<>>)
  <2>1. <<>> \in Seq({})
    OBVIOUS
  <2> QED  BY <2>1 DEF IsSeq
<1> QED  BY <1>1, <1>2 DEF SyncInv, StreamInv, PlanInv

\* A plan depends on the deployment and the rows.
LEMMA SamePlan ==
    ASSUME dep' = dep, inputs' = inputs
    PROVE  PlanOf(inputs)' = PlanOf(inputs)
BY DEF PlanOf, HasVq, VqPlan, VqEntry, NumDecodes, NumDecodeTokens, NumTokens, Threshold,
       QueryStartLoc, QueryLens, SeqLens, CumSum, TokensOf, RowOf, Larger

\* Every step keeps plans and stream in step.
LEMMA SyncStep == SyncInv /\ [Next]_vars => SyncInv'
<1> SUFFICES ASSUME StreamInv, PlanInv, [Next]_vars
             PROVE  StreamInv' /\ PlanInv'
  BY DEF SyncInv
<1> USE DEF hostVars, deviceVars, vars
<1>0. IsSeq(stream)
  BY DEF StreamInv
<1>1. CASE Schedule
  <2>1. PICK e : /\ stream' = stream \o <<e>>
                 /\ e.op = "inputs" /\ e.rows = batch'
    <3> DEFINE e == [op |-> "inputs", rows |-> batch']
    <3>1. stream' = Append(stream, e)
      BY <1>1 DEF Schedule
    <3>2. PICK S : stream \in Seq(S)
      BY <1>0 DEF IsSeq
    <3>3. stream \in Seq(S \cup {e})
      BY <3>2
    <3>4. Append(stream, e) = stream \o <<e>>
      BY <3>3
    <3>5. e.op = "inputs" /\ e.rows = batch'
      OBVIOUS
    <3> HIDE DEF e
    <3> QED  BY <3>1, <3>4, <3>5
  <2>2. phase = "idle" /\ phase' = "build" /\ UNCHANGED <<dep, inputs, plan, staging>>
    BY <1>1 DEF Schedule
  <2>3. /\ IsSeq(stream') /\ Len(stream) \in Nat /\ Len(stream') = Len(stream) + 1
        /\ \A i \in 1 .. Len(stream) : stream'[i] = stream[i]
        /\ stream'[Len(stream) + 1] = e
        /\ stream = <<>> <=> Len(stream) = 0
    BY <1>0, <2>1, EnqueueSeq, SingletonSeq
  <2>4. StreamInv'
    BY <2>1, <2>2, <2>3 DEF StreamInv
  <2>5. stream' # <<>> /\ Head(stream') = stream'[1]
    BY <2>3, DequeueSeq
  <2>6. PlanOf(inputs)' = PlanOf(inputs)
    BY <2>2, SamePlan
  <2>7. PlanInv'
    <3>1. CASE stream = <<>>
      BY <2>1, <2>2, <2>3, <2>5, <3>1 DEF PlanInv
    <3>2. CASE stream # <<>>
      <4>1. Head(stream') = Head(stream)
        BY <1>0, <2>3, <2>5, <3>2, DequeueSeq
      <4> QED  BY <2>2, <2>5, <2>6, <3>2, <4>1 DEF PlanInv
    <3> QED  BY <3>1, <3>2
  <2> QED  BY <2>4, <2>7
<1>2. CASE Build
  <2>1. /\ stream = <<>> /\ stream' = <<[op |-> "copy"]>> /\ phase' = "forward"
        /\ staging' = PlanOf(batch) /\ phase = "build" /\ UNCHANGED <<dep, inputs>>
    BY <1>2 DEF Build, Synced
  <2>2. /\ IsSeq(stream') /\ Len(stream') = 1 /\ stream'[1].op = "copy"
    BY <2>1, SingletonSeq
  <2>3. StreamInv'
    BY <2>1, <2>2 DEF StreamInv
  <2>4. stream' # <<>> /\ Head(stream').op = "copy"
    BY <2>1
  <2>5. PlanOf(inputs)' = PlanOf(inputs) /\ inputs = batch
    BY <2>1, SamePlan DEF PlanInv
  <2>6. PlanInv'
    BY <2>1, <2>4, <2>5 DEF PlanInv
  <2> QED  BY <2>3, <2>6
<1>3. CASE Forward
  <2>1. /\ phase = "forward" /\ phase' = "idle"
        /\ UNCHANGED <<dep, batch, staging, inputs, plan>>
    BY <1>3 DEF Forward
  <2>2. PICK r : /\ stream' = stream \o r
                 /\ IsSeq(r) /\ Len(r) \in Nat \ {0}
                 /\ \A i \in 1 .. Len(r) : r[i].op = "launch"
    BY <1>3, RouteLaunches DEF Forward, Captured
  <2>3. /\ IsSeq(stream') /\ Len(stream) \in Nat /\ Len(stream') = Len(stream) + Len(r)
        /\ \A i \in 1 .. Len(stream) : stream'[i] = stream[i]
        /\ \A i \in 1 .. Len(r) : stream'[Len(stream) + i] = r[i]
        /\ stream = <<>> <=> Len(stream) = 0
    BY <1>0, <2>2, EnqueueSeq
  <2>4. \A i \in 1 .. Len(stream) : i = 1 /\ stream[i].op = "copy"
    BY <2>1 DEF StreamInv
  <2>5. \A i \in 1 .. Len(stream') :
            \/ i = 1 /\ i <= Len(stream) /\ stream'[i].op = "copy"
            \/ stream'[i].op = "launch"
    <3> TAKE i \in 1 .. Len(stream')
    <3>1. CASE i <= Len(stream)
      BY <2>3, <2>4, <3>1
    <3>2. CASE i > Len(stream)
      <4>1. i - Len(stream) \in 1 .. Len(r) /\ i = Len(stream) + (i - Len(stream))
        BY <2>2, <2>3, <3>2
      <4> QED  BY <2>2, <2>3, <4>1
    <3> QED  BY <2>3, <3>1, <3>2
  <2>6. StreamInv'
    BY <2>1, <2>3, <2>5 DEF StreamInv
  <2>7. stream' # <<>> /\ Head(stream') = stream'[1] /\ 1 \in 1 .. Len(stream')
    BY <2>2, <2>3, DequeueSeq
  <2>8. PlanOf(inputs)' = PlanOf(inputs)
    BY <2>1, SamePlan
  <2>9. PlanInv'
    <3>1. CASE stream = <<>>
      <4>1. plan = PlanOf(inputs) /\ Head(stream').op # "copy"
        BY <2>1, <2>3, <2>5, <2>7, <3>1 DEF PlanInv
      <4> QED  BY <2>1, <2>7, <2>8, <4>1 DEF PlanInv
    <3>2. CASE stream # <<>>
      <4>1. Head(stream).op = "copy" /\ Head(stream') = Head(stream)
        BY <1>0, <2>3, <2>4, <2>7, <3>2, DequeueSeq
      <4> QED  BY <2>1, <2>7, <2>8, <3>2, <4>1 DEF PlanInv
    <3> QED  BY <3>1, <3>2
  <2> QED  BY <2>6, <2>9
<1>4. ASSUME stream # <<>>, stream' = Tail(stream), UNCHANGED <<phase, batch>>
      PROVE  /\ StreamInv'
             /\ stream' # <<>> => /\ Head(stream') = stream[2] /\ 2 \in 1 .. Len(stream)
                                  /\ Head(stream').op # "copy"
             /\ stream' = <<>> => Len(stream) = 1
             /\ Head(stream) = stream[1] /\ 1 \in 1 .. Len(stream)
  <2>1. /\ IsSeq(stream') /\ Len(stream) \in Nat \ {0} /\ Len(stream') = Len(stream) - 1
        /\ \A i \in 1 .. Len(stream') : stream'[i] = stream[i + 1]
        /\ stream' = <<>> <=> Len(stream) = 1
        /\ Head(stream) = stream[1]
    BY <1>0, <1>4, DequeueSeq
  <2>2. StreamInv'
    <3>1. \A i \in 1 .. Len(stream') :
              /\ i + 1 \in 1 .. Len(stream) /\ i + 1 # 1
              /\ stream'[i] = stream[i + 1]
              /\ i + 1 = Len(stream) => i = Len(stream')
      BY <2>1
    <3>2. \A i \in 1 .. Len(stream') :
              /\ stream'[i].op \in {"inputs", "copy", "launch"}
              /\ stream'[i].op = "inputs" => /\ i = Len(stream')
                                             /\ phase = "build"
                                             /\ stream'[i].rows = batch
              /\ stream'[i].op = "copy" => i = 1
              /\ stream'[i].op = "launch" => phase # "forward"
      BY <3>1 DEF StreamInv
    <3>3. ASSUME phase = "build", stream' # <<>>
          PROVE  stream'[Len(stream')].op = "inputs"
      <4>1. Len(stream') \in 1 .. Len(stream') /\ Len(stream') + 1 = Len(stream)
        BY <2>1, <3>3
      <4> QED  BY <1>4, <3>1, <3>3, <4>1 DEF StreamInv
    <3> QED  BY <1>4, <2>1, <3>2, <3>3 DEF StreamInv
  <2>3. ASSUME stream' # <<>>
        PROVE  /\ Head(stream') = stream[2] /\ 2 \in 1 .. Len(stream)
               /\ Head(stream').op # "copy"
    <3>1. Head(stream') = stream'[1]
      BY <2>1, <2>3, DequeueSeq
    <3> QED  BY <2>1, <2>3, <3>1 DEF StreamInv
  <2> QED  BY <2>1, <2>2, <2>3
<1>5. CASE UpdateInputs
  <2>1. /\ stream # <<>> /\ stream' = Tail(stream) /\ Head(stream).op = "inputs"
        /\ UNCHANGED <<phase, batch>> /\ inputs' = Head(stream).rows
    BY <1>5 DEF UpdateInputs, Next1
  <2>2. phase = "build" /\ Len(stream) = 1 /\ inputs' = batch'
    <3>1. 1 \in 1 .. Len(stream) /\ stream[1] = Head(stream)
      BY <1>4, <2>1
    <3>2. 1 = Len(stream) /\ phase = "build" /\ stream[1].rows = batch
      BY <2>1, <3>1 DEF StreamInv
    <3> QED  BY <2>1, <3>1, <3>2
  <2>3. stream' = <<>>
    BY <1>4, <2>1, <2>2
  <2> QED  BY <1>4, <2>1, <2>2, <2>3 DEF PlanInv
<1>6. CASE CopyPlan
  <2>1. /\ stream # <<>> /\ stream' = Tail(stream) /\ Head(stream).op = "copy"
        /\ UNCHANGED <<dep, phase, batch, inputs>> /\ plan' = staging
    BY <1>6 DEF CopyPlan, Next1
  <2>2. plan' = PlanOf(inputs)'
    BY <2>1, SamePlan DEF PlanInv
  <2>3. ~ (stream' = <<>> /\ phase' = "build")
    BY <1>4, <2>1 DEF StreamInv
  <2> QED  BY <1>4, <2>1, <2>2, <2>3 DEF PlanInv
<1>7. CASE RunKernels
  <2>1. /\ stream # <<>> /\ stream' = Tail(stream) /\ Head(stream).op = "launch"
        /\ UNCHANGED <<dep, phase, batch, inputs, plan>>
    BY <1>7 DEF RunKernels, Next1
  <2>2. plan' = PlanOf(inputs)'
    BY <2>1, SamePlan DEF PlanInv
  <2>3. ~ (stream' = <<>> /\ phase' = "build")
    BY <1>4, <2>1 DEF StreamInv
  <2> QED  BY <1>4, <2>1, <2>2, <2>3 DEF PlanInv
<1>8. CASE UNCHANGED vars
  <2>1. PlanOf(inputs)' = PlanOf(inputs)
    BY <1>8, SamePlan
  <2> QED  BY <1>8, <2>1 DEF StreamInv, PlanInv
<1> QED  BY <1>1, <1>2, <1>3, <1>5, <1>6, <1>7, <1>8 DEF Next

(* A launched kernel reads the plan of its own rows, for all batches,         *)
(* deployments and lengths of the stream: build's read-back keeps the pinned  *)
(* staging memory and the device buffers from being refilled too early.       *)
THEOREM PlanIsOfTheStep == Spec => []PlanMatchesInputs
<1>1. SyncInv => PlanMatchesInputs
  BY DEF SyncInv, PlanInv, PlanMatchesInputs
<1> QED  BY SyncInit, SyncStep, <1>1, PTL DEF Spec

-----------------------------------------------------------------------------
(* Prefix sums.                                                             *)

\* A set of natural numbers that is not empty has a least member.
LEMMA LeastNat ==
    ASSUME NEW T, T \subseteq Nat, T # {}
    PROVE  \E x \in T : \A y \in T : x <= y
  <1>1. \E R : IsWellFoundedOn(R, Nat) /\ \A x, y \in Nat : x < y => <<x, y>> \in R
    <2> DEFINE R == OpToRel(<, Nat)
    <2>1. IsWellFoundedOn(R, Nat)
      BY NatLessThanWellFounded
    <2>2. \A x, y \in Nat : x < y => <<x, y>> \in R
      BY DEF OpToRel
    <2> HIDE DEF R
    <2> QED
      BY <2>1, <2>2
  <1>2. PICK R : IsWellFoundedOn(R, Nat) /\ \A x, y \in Nat : x < y => <<x, y>> \in R
    BY <1>1
  <1>3. \E x \in T : \A y \in T : ~(<<y, x>> \in R)
    <2>1. IsWellFoundedOn(R, Nat)
      BY <1>2
    <2> QED
      BY <2>1, WFMin, Zenon
  <1>4. PICK x \in T : \A y \in T : ~(y < x)
    BY <1>2, <1>3
  <1> QED
    BY <1>4

\* The lengths that CumSum adds up.
Lengths(lens) == Len(lens) \in Nat /\ \A n \in 1 .. Len(lens) : lens[n] \in Nat

\* The recursive function of CumSum exists: each partial sum extends the last.
LEMMA SumsExist ==
    ASSUME NEW lens, Lengths(lens)
    PROVE  \E f : f = [n \in 0 .. Len(lens) |-> IF n = 0 THEN 0 ELSE f[n - 1] + lens[n]]
                  /\ \A n \in 0 .. Len(lens) : f[n] \in Nat
  <1> DEFINE Sums(m, f) == f = [n \in 0 .. m |-> IF n = 0 THEN 0 ELSE f[n - 1] + lens[n]]
                           /\ \A n \in 0 .. m : f[n] \in Nat
             Missing == {m \in 0 .. Len(lens) : ~ \E f : Sums(m, f)}
  <1>1. SUFFICES ASSUME Missing # {} PROVE FALSE
    <2>1. Len(lens) \in 0 .. Len(lens)
      BY DEF Lengths
    <2>2. CASE Missing # {}
      BY <1>1, <2>2
    <2>3. CASE Missing = {}
      BY <2>1, <2>3
    <2> QED
      BY <2>2, <2>3
  <1>2. PICK m \in Missing : \A y \in Missing : m <= y
    <2>1. Missing \subseteq Nat
      BY DEF Lengths
    <2> HIDE DEF Missing
    <2> QED
      BY <1>1, <2>1, LeastNat
  <1>3. m \in 0 .. Len(lens) /\ ~ \E f : Sums(m, f)
    BY <1>2
  <1>4. CASE m = 0
    <2> DEFINE f == [n \in 0 .. 0 |-> 0]
    <2>1. f = [n \in 0 .. 0 |-> IF n = 0 THEN 0 ELSE f[n - 1] + lens[n]]
      OBVIOUS
    <2>2. \A n \in 0 .. 0 : f[n] \in Nat
      OBVIOUS
    <2> HIDE DEF f
    <2> QED
      BY <1>3, <1>4, <2>1, <2>2
  <1>5. CASE m # 0
    <2>1. m - 1 \in 0 .. Len(lens) /\ m \in 1 .. Len(lens) /\ ~(m <= m - 1)
      BY <1>3, <1>5 DEF Lengths
    <2>2. m - 1 \notin Missing
      BY <1>2, <2>1
    <2>3. PICK f : Sums(m - 1, f)
      BY <2>1, <2>2
    <2>4. lens[m] \in Nat
      BY <2>1 DEF Lengths
    <2> DEFINE g == [n \in 0 .. m |-> IF n = m THEN f[m - 1] + lens[m] ELSE f[n]]
    <2>5. g = [n \in 0 .. m |-> IF n = 0 THEN 0 ELSE g[n - 1] + lens[n]]
      <3>1. \A n \in 0 .. m - 1 : f[n] = IF n = 0 THEN 0 ELSE f[n - 1] + lens[n]
        BY <2>3
      <3>2. ASSUME NEW n \in 0 .. m
            PROVE  g[n] = IF n = 0 THEN 0 ELSE g[n - 1] + lens[n]
        <4>1. CASE n = m
          <5>1. n # 0 /\ n - 1 \in 0 .. m /\ n - 1 # m
            BY <1>5, <2>1, <4>1
          <5> QED
            BY <4>1, <5>1
        <4>2. CASE n # m
          <5>1. n \in 0 .. m - 1 /\ (n # 0 => n - 1 \in 0 .. m /\ n - 1 # m)
            BY <2>1, <4>2
          <5> QED
            BY <3>1, <4>2, <5>1
        <4> QED
          BY <4>1, <4>2
      <3> DEFINE h == [n \in 0 .. m |-> IF n = 0 THEN 0 ELSE g[n - 1] + lens[n]]
      <3>3. \A n \in 0 .. m : g[n] = h[n]
        BY <3>2
      <3>4. g = [n \in 0 .. m |-> g[n]]
        OBVIOUS
      <3>5. h = [n \in 0 .. m |-> h[n]]
        OBVIOUS
      <3> HIDE DEF g, h
      <3>6. g = h
        BY <3>3, <3>4, <3>5
      <3> QED
        BY <3>6 DEF h
    <2>6. \A n \in 0 .. m : g[n] \in Nat
      <3>1. \A n \in 0 .. m : n = m \/ n \in 0 .. m - 1
        BY <2>1
      <3>2. m - 1 \in 0 .. m - 1
        BY <2>1
      <3> QED
        BY <2>3, <2>4, <3>1, <3>2
    <2> HIDE DEF g
    <2> QED
      BY <1>3, <2>5, <2>6
  <1> QED
    BY <1>4, <1>5

\* The offsets of a batch: from 0, each one row further.
LEMMA CumSumLaw ==
    ASSUME NEW lens, Lengths(lens)
    PROVE  /\ CumSum(lens) \in [1 .. Len(lens) + 1 -> Nat]
           /\ CumSum(lens)[1] = 0
           /\ \A n \in 1 .. Len(lens) : CumSum(lens)[n + 1] = CumSum(lens)[n] + lens[n]
  <1> DEFINE S[n \in 0 .. Len(lens)] == IF n = 0 THEN 0 ELSE S[n - 1] + lens[n]
  <1>1. \E f : f = [n \in 0 .. Len(lens) |-> IF n = 0 THEN 0 ELSE f[n - 1] + lens[n]]
    BY SumsExist
  <1>2. S = [n \in 0 .. Len(lens) |-> IF n = 0 THEN 0 ELSE S[n - 1] + lens[n]]
    BY <1>1
  <1>3. CumSum(lens) = [n \in 1 .. Len(lens) + 1 |-> S[n - 1]]
    BY DEF CumSum
  <1> HIDE DEF S
  <1>4. \A n \in 0 .. Len(lens) : S[n] \in Nat
    <2>1. PICK f : f = [n \in 0 .. Len(lens) |-> IF n = 0 THEN 0 ELSE f[n - 1] + lens[n]]
                  /\ \A n \in 0 .. Len(lens) : f[n] \in Nat
      BY SumsExist
    <2> DEFINE Off == {n \in 0 .. Len(lens) : S[n] # f[n]}
    <2>2. Off = {}
      <3> SUFFICES ASSUME Off # {} PROVE FALSE
        OBVIOUS
      <3>1. PICK n \in Off : \A y \in Off : n <= y
        <4>1. Off \subseteq Nat
          BY DEF Lengths
        <4> HIDE DEF Off
        <4> QED
          BY <4>1, LeastNat
      <3>2. n # 0
        BY <1>2, <2>1, <3>1 DEF Lengths
      <3>3. n - 1 \in 0 .. Len(lens) /\ ~(n <= n - 1)
        BY <3>1, <3>2 DEF Lengths
      <3>4. S[n - 1] = f[n - 1]
        BY <3>1, <3>3
      <3>5. S[n] = S[n - 1] + lens[n] /\ f[n] = f[n - 1] + lens[n]
        BY <1>2, <2>1, <3>1, <3>2
      <3> QED
        BY <3>1, <3>4, <3>5
    <2> QED
      BY <2>1, <2>2
  <1>5. Len(lens) \in Nat
    BY DEF Lengths
  <1>6. \A n \in 1 .. Len(lens) + 1 : n - 1 \in 0 .. Len(lens) /\ CumSum(lens)[n] = S[n - 1]
    BY <1>3, <1>5
  <1>7. CumSum(lens) \in [1 .. Len(lens) + 1 -> Nat]
    BY <1>3, <1>4, <1>5, <1>6
  <1>8. CumSum(lens)[1] = 0
    BY <1>2, <1>5, <1>6
  <1>9. ASSUME NEW n \in 1 .. Len(lens)
        PROVE  CumSum(lens)[n + 1] = CumSum(lens)[n] + lens[n]
    <2>1. n + 1 \in 1 .. Len(lens) + 1 /\ n \in 1 .. Len(lens) + 1 /\ n + 1 - 1 = n
          /\ n \in 0 .. Len(lens) /\ n # 0
      BY <1>5
    <2>2. S[n] = S[n - 1] + lens[n]
      BY <1>2, <2>1
    <2> QED
      BY <1>6, <2>1, <2>2
  <1> QED
    BY <1>7, <1>8, <1>9

\* C are the offsets of rows of those lengths.
Offsets(C, lens) ==
    /\ C \in Seq(Nat) /\ Len(C) = Len(lens) + 1 /\ C[1] = 0
    /\ \A n \in 1 .. Len(lens) : C[n + 1] = C[n] + lens[n]

\* CumSum computes the offsets.
LEMMA CumSumOffsets ==
    ASSUME NEW lens, Lengths(lens)
    PROVE  Offsets(CumSum(lens), lens)
  <1> DEFINE C == CumSum(lens)
  <1>1. /\ C \in [1 .. Len(lens) + 1 -> Nat] /\ C[1] = 0
        /\ \A n \in 1 .. Len(lens) : C[n + 1] = C[n] + lens[n]
    BY CumSumLaw
  <1>2. Len(lens) + 1 \in Nat
    BY DEF Lengths
  <1> HIDE DEF C
  <1>3. C \in Seq(Nat) /\ Len(C) = Len(lens) + 1
    BY <1>1, <1>2
  <1> QED
    BY <1>1, <1>3 DEF Offsets, C

\* Offsets never fall from one row to a later one.
LEMMA OffsetsRise ==
    ASSUME NEW lens, Lengths(lens), NEW C, Offsets(C, lens),
           NEW i \in 1 .. Len(lens) + 1, NEW j \in 1 .. Len(lens) + 1, i <= j
    PROVE  C[i] \in Nat /\ C[j] \in Nat /\ C[i] <= C[j]
  <1>1. Len(lens) \in Nat /\ \A n \in 1 .. Len(lens) + 1 : C[n] \in Nat
    BY DEF Lengths, Offsets
  <1> DEFINE Falls == {n \in 1 .. Len(lens) + 1 : i <= n /\ C[n] < C[i]}
  <1>2. Falls = {}
    <2> SUFFICES ASSUME Falls # {} PROVE FALSE
      OBVIOUS
    <2>1. PICK n \in Falls : \A y \in Falls : n <= y
      <3>1. Falls \subseteq Nat
        BY <1>1
      <3> HIDE DEF Falls
      <3> QED
        BY <3>1, LeastNat
    <2>2. n # i
      BY <1>1, <2>1
    <2>3. n - 1 \in 1 .. Len(lens) /\ i <= n - 1 /\ n - 1 + 1 = n /\ ~(n <= n - 1)
          /\ n - 1 \in 1 .. Len(lens) + 1
      BY <1>1, <2>1, <2>2
    <2>4. C[n] = C[n - 1] + lens[n - 1] /\ lens[n - 1] \in Nat
      BY <2>3 DEF Offsets, Lengths
    <2>5. ~(C[n - 1] < C[i])
      BY <2>1, <2>3
    <2> QED
      BY <1>1, <2>1, <2>3, <2>4, <2>5
  <1> QED
    BY <1>1, <1>2

\* Every token below the last offset lies in one row, and RowOf is that row.
LEMMA RowFound ==
    ASSUME NEW lens, Lengths(lens), NEW C, Offsets(C, lens), NEW t \in Nat, t < C[Len(lens) + 1]
    PROVE  /\ RowOf(C, t) \in 1 .. Len(lens) /\ C[RowOf(C, t)] <= t /\ t < C[RowOf(C, t) + 1]
           /\ \A r \in 1 .. Len(lens) : C[r] <= t /\ t < C[r + 1] => r = RowOf(C, t)
  <1>1. Len(lens) \in Nat /\ \A n \in 1 .. Len(lens) + 1 : C[n] \in Nat
    BY DEF Lengths, Offsets
  <1>2. Len(C) - 1 = Len(lens) /\ C[1] = 0
    BY <1>1 DEF Offsets
  <1> DEFINE Above == {n \in 1 .. Len(lens) : t < C[n + 1]}
  <1>3. Len(lens) # 0
    BY <1>2
  <1>4. Len(lens) \in Above /\ Above \subseteq Nat
    BY <1>1, <1>3
  <1>5. PICK b \in Above : \A y \in Above : b <= y
    <2> HIDE DEF Above
    <2> QED
      BY <1>4, LeastNat
  <1>6. C[b] <= t
    <2>1. CASE b = 1
      BY <1>2, <2>1
    <2>2. CASE b # 1
      <3>1. b - 1 \in 1 .. Len(lens) /\ b - 1 + 1 = b /\ ~(b <= b - 1)
        BY <1>1, <1>5, <2>2
      <3>2. ~(t < C[b])
        BY <1>5, <3>1
      <3> QED
        BY <1>1, <3>1, <3>2
    <2> QED
      BY <2>1, <2>2
  <1>7. ASSUME NEW r \in 1 .. Len(lens), C[r] <= t, t < C[r + 1],
               NEW q \in 1 .. Len(lens), C[q] <= t, t < C[q + 1], r < q
        PROVE  FALSE
    <2>1. r + 1 \in 1 .. Len(lens) + 1 /\ q \in 1 .. Len(lens) + 1 /\ r + 1 <= q
      BY <1>1, <1>7
    <2>2. C[r + 1] <= C[q] /\ C[r + 1] \in Nat /\ C[q] \in Nat
      BY <2>1, OffsetsRise
    <2> QED
      BY <1>7, <2>2
  <1>8. \A r, q \in 1 .. Len(lens) : C[r] <= t /\ t < C[r + 1] /\ C[q] <= t /\ t < C[q + 1] => r = q
    <2> SUFFICES ASSUME NEW r \in 1 .. Len(lens), C[r] <= t, t < C[r + 1],
                        NEW q \in 1 .. Len(lens), C[q] <= t, t < C[q + 1]
                 PROVE  r = q
      OBVIOUS
    <2>1. ~(r < q) /\ ~(q < r)
      BY <1>7
    <2> QED
      BY <2>1
  <1>9. b \in 1 .. Len(lens) /\ C[b] <= t /\ t < C[b + 1]
    BY <1>5, <1>6
  <1>10. RowOf(C, t) \in 1 .. Len(lens) /\ C[RowOf(C, t)] <= t /\ t < C[RowOf(C, t) + 1]
    BY <1>2, <1>9 DEF RowOf
  <1> QED
    BY <1>8, <1>10

\* One more row of width q.
LEMMA SuccTimes ==
    ASSUME NEW m \in Nat, NEW q \in Nat
    PROVE  (m + 1) * q = m * q + q
  OBVIOUS

\* The offsets of rows that are all q wide.
LEMMA UniformOffsets ==
    ASSUME NEW lens, Lengths(lens), NEW C, Offsets(C, lens), NEW q \in Nat, NEW k \in 0 .. Len(lens),
           \A b \in 1 .. k : lens[b] = q
    PROVE  \A b \in 1 .. k + 1 : C[b] = (b - 1) * q
  <1>1. Len(lens) \in Nat /\ k \in Nat
    BY DEF Lengths
  <1> DEFINE Off == {b \in 1 .. k + 1 : C[b] # (b - 1) * q}
  <1>2. Off = {}
    <2> SUFFICES ASSUME Off # {} PROVE FALSE
      OBVIOUS
    <2>1. PICK b \in Off : \A y \in Off : b <= y
      <3>1. Off \subseteq Nat
        BY <1>1
      <3> HIDE DEF Off
      <3> QED
        BY <3>1, LeastNat
    <2>2. b # 1
      <3>1. C[1] = 0 /\ (1 - 1) * q = 0
        BY DEF Offsets
      <3> QED
        BY <2>1, <3>1
    <2>3. b - 1 \in 1 .. k /\ ~(b <= b - 1) /\ b - 1 + 1 = b /\ b - 1 \in 1 .. Len(lens) /\ b - 1 \in 1 .. k + 1
      BY <1>1, <2>1, <2>2
    <2>4. C[b] = C[b - 1] + q
      BY <2>3 DEF Offsets
    <2>5. C[b - 1] = (b - 1 - 1) * q
      BY <2>1, <2>3
    <2>6. (b - 1) * q = (b - 1 - 1) * q + q
      <3>1. b - 1 - 1 \in Nat /\ b - 1 - 1 + 1 = b - 1
        BY <2>3
      <3> HIDE DEF Off
      <3> QED
        BY <3>1, SuccTimes
    <2> QED
      BY <2>1, <2>4, <2>5, <2>6
  <1> QED
    BY <1>2

-----------------------------------------------------------------------------
(* The rows of a batch and the plan of a step.                              *)

\* A padding row.
Blank == [q |-> 0, s |-> 0]

\* n rows of requests and, behind them, the padding of a graph.
Rows(rows, n) ==
    /\ rows \in Seq(Shapes \cup {Blank}) /\ n \in 1 .. Len(rows)
    /\ \A b \in 1 .. n : rows[b] \in Shapes
    /\ \A b \in n + 1 .. Len(rows) : rows[b] = Blank

\* The rows of a step that is, or is not, replayed from a graph.
Formed(rows, n, g) ==
    /\ Rows(rows, n) /\ Len(rows) <= MaxRows /\ n <= dep.max_num_seqs
    /\ \A b, c \in 1 .. n : b < c /\ rows[c].q <= Threshold => rows[b].q <= Threshold
    /\ ~dep.causal => \A b \in 1 .. n : rows[b].q = 1 + dep.num_spec
    /\ g => (\A b \in 1 .. n : rows[b].q = rows[1].q) /\ rows[1].q \in {1, Threshold}
    /\ ~g => n = Len(rows)

\* The numbers in a row; only padding rows have no token.
LEMMA RowTypes ==
    ASSUME NEW rows, NEW n, Rows(rows, n), NEW b \in 1 .. Len(rows)
    PROVE  /\ rows[b].q \in Nat /\ rows[b].s \in Nat /\ rows[b].q <= rows[b].s /\ rows[b].s <= MaxModelLen
           /\ b <= n <=> rows[b].q > 0
           /\ MaxModelLen \in Nat /\ n \in Nat /\ Len(rows) \in Nat /\ n <= Len(rows) /\ n >= 1
  <1>1. Len(rows) \in Nat /\ n \in Nat /\ n <= Len(rows) /\ n >= 1 /\ MaxModelLen \in Nat
    BY AttentionAssumption DEF Rows
  <1>2. CASE b <= n
    <2>1. rows[b] \in Shapes
      BY <1>1, <1>2 DEF Rows
    <2>2. rows[b].q \in 1 .. MaxModelLen /\ rows[b].s \in 1 .. MaxModelLen /\ rows[b].q <= rows[b].s
      BY <2>1, AttentionAssumption
    <2> QED
      BY <1>1, <1>2, <2>2
  <1>3. CASE ~(b <= n)
    <2>1. rows[b].q = 0 /\ rows[b].s = 0
      BY <1>1, <1>3 DEF Rows, Blank
    <2> QED
      BY <1>1, <1>3, <2>1
  <1> QED
    BY <1>2, <1>3

\* Query lengths and their offsets; the padding adds nothing.
LEMMA QueryOffsets ==
    ASSUME NEW rows, NEW n, Rows(rows, n)
    PROVE  /\ Lengths(QueryLens(rows)) /\ Len(QueryLens(rows)) = Len(rows)
           /\ Offsets(QueryStartLoc(rows), QueryLens(rows))
           /\ QueryStartLoc(rows) \in Seq(Nat) /\ Len(QueryStartLoc(rows)) = Len(rows) + 1
           /\ QueryStartLoc(rows)[1] = 0
           /\ \A b \in 1 .. Len(rows) : /\ QueryLens(rows)[b] = rows[b].q
                                        /\ QueryStartLoc(rows)[b + 1] = QueryStartLoc(rows)[b] + rows[b].q
           /\ \A b \in 1 .. Len(rows) + 1 : QueryStartLoc(rows)[b] \in Nat
           /\ TokensOf(rows) = QueryStartLoc(rows)[Len(rows) + 1]
  <1> DEFINE q == QueryLens(rows)
             C == QueryStartLoc(rows)
  <1>1. Len(rows) \in Nat /\ DOMAIN rows = 1 .. Len(rows)
    BY DEF Rows
  <1>2. q = [b \in 1 .. Len(rows) |-> rows[b].q] /\ \A b \in 1 .. Len(rows) : rows[b].q \in Nat
    BY <1>1, RowTypes DEF QueryLens
  <1> HIDE DEF q
  <1>3. q \in [1 .. Len(rows) -> Nat]
    BY <1>2
  <1>4. Len(q) = Len(rows) /\ \A b \in 1 .. Len(rows) : q[b] = rows[b].q
    BY <1>1, <1>2, <1>3
  <1>5. Lengths(q)
    BY <1>1, <1>3, <1>4 DEF Lengths
  <1>6. Offsets(C, q)
    BY <1>5, CumSumOffsets DEF QueryStartLoc, q
  <1> HIDE DEF C
  <1>7. C \in Seq(Nat) /\ Len(C) = Len(rows) + 1 /\ C[1] = 0
        /\ \A b \in 1 .. Len(rows) : C[b + 1] = C[b] + rows[b].q
    BY <1>4, <1>6 DEF Offsets
  <1>8. \A b \in 1 .. Len(rows) + 1 : C[b] \in Nat
    BY <1>1, <1>7
  <1>9. TokensOf(rows) = C[Len(rows) + 1]
    BY <1>7 DEF TokensOf, Last, C
  <1> QED
    BY <1>4, <1>5, <1>6, <1>7, <1>8, <1>9 DEF q, C

\* A token's row: the request it belongs to and its number in it.
LEMMA TokenRow ==
    ASSUME NEW rows, NEW n, Rows(rows, n), NEW t \in Nat, t < TokensOf(rows)
    PROVE  LET C == QueryStartLoc(rows)
               b == RowOf(C, t)
           IN  /\ b \in 1 .. n /\ b \in 1 .. Len(rows) /\ C[b] \in Nat /\ C[b] <= t /\ t < C[b] + rows[b].q
               /\ \A r \in 1 .. Len(rows) : C[r] <= t /\ t < C[r + 1] => r = b
  <1> DEFINE C == QueryStartLoc(rows)
             b == RowOf(C, t)
             lens == QueryLens(rows)
  <1>1. Lengths(lens) /\ Len(lens) = Len(rows) /\ Offsets(C, lens) /\ t < C[Len(lens) + 1]
    BY QueryOffsets
  <1>2. /\ b \in 1 .. Len(rows) /\ C[b] <= t /\ t < C[b + 1]
        /\ \A r \in 1 .. Len(rows) : C[r] <= t /\ t < C[r + 1] => r = b
    <2> HIDE DEF C, lens
    <2> QED
      BY <1>1, RowFound
  <1>3. C[b + 1] = C[b] + rows[b].q /\ C[b] \in Nat
    <2>1. \A r \in 1 .. Len(rows) : C[r + 1] = C[r] + rows[r].q
      BY QueryOffsets
    <2>2. \A r \in 1 .. Len(rows) + 1 : C[r] \in Nat
      BY QueryOffsets
    <2>3. b \in 1 .. Len(rows) + 1
      BY <1>2 DEF Rows
    <2> HIDE DEF b, C
    <2> QED
      BY <1>2, <2>1, <2>2, <2>3
  <1>4. rows[b].q > 0
    <2>1. rows[b].q \in Nat
      BY <1>2, RowTypes
    <2> HIDE DEF b, C
    <2> QED
      BY <1>2, <1>3, <2>1
  <1>5. b \in 1 .. n
    <2>1. b <= n
      BY <1>2, <1>4, RowTypes
    <2> HIDE DEF b
    <2> QED
      BY <1>2, <2>1 DEF Rows
  <1> QED
    BY <1>2, <1>3, <1>5

\* A set of rows closed downwards is a prefix, as long as it has rows.
LEMMA PrefixSet ==
    ASSUME NEW N \in Nat, NEW D \in SUBSET (1 .. N), \A c \in D : \A b \in 1 .. N : b < c => b \in D
    PROVE  Cardinality(D) \in 0 .. N /\ D = 1 .. Cardinality(D)
  <1> DEFINE Beyond == {m \in 0 .. N : \A c \in D : c <= m}
  <1>1. N \in Beyond /\ Beyond \subseteq Nat
    OBVIOUS
  <1>2. PICK m \in Beyond : \A y \in Beyond : m <= y
    <2> HIDE DEF Beyond
    <2> QED
      BY <1>1, LeastNat
  <1>3. D = 1 .. m
    <2>1. CASE m = 0
      BY <1>2, <2>1
    <2>2. CASE m # 0
      <3>1. m - 1 \in 0 .. N /\ ~(m <= m - 1)
        BY <1>2, <2>2
      <3>2. PICK c \in D : ~(c <= m - 1)
        BY <1>2, <3>1
      <3>3. c = m /\ m \in D /\ m \in 1 .. N
        BY <1>2, <3>2
      <3>4. \A b \in D : b \in 1 .. m
        BY <1>2
      <3>5. \A b \in 1 .. m : b \in D
        BY <3>3
      <3> QED
        BY <3>4, <3>5
    <2> QED
      BY <2>1, <2>2
  <1>4. Cardinality(D) = m
    <2>1. m \in Nat
      BY <1>2
    <2>2. Cardinality(1 .. m) = IF 1 > m THEN 0 ELSE m - 1 + 1
      BY <2>1, FS_Interval
    <2> QED
      BY <1>3, <2>1, <2>2
  <1> QED
    BY <1>2, <1>3, <1>4

\* The widest row that counts as a decode.
LEMMA ThresholdType ==
    ASSUME dep \in Deployments
    PROVE  Threshold \in Nat \ {0} /\ (dep.fused_verify => Threshold = 1 + dep.num_spec)
           /\ dep.num_spec \in Nat /\ dep.causal \in BOOLEAN
  BY AttentionAssumption DEF Threshold

\* The decode rows come first, padding among them.
LEMMA DecodeRows ==
    ASSUME dep \in Deployments, NEW rows, NEW n, NEW g \in BOOLEAN, Formed(rows, n, g)
    PROVE  /\ NumDecodes(rows) \in 0 .. Len(rows) /\ Len(rows) \in Nat
           /\ \A b \in 1 .. Len(rows) : rows[b].q <= Threshold <=> b <= NumDecodes(rows)
           /\ n < Len(rows) => NumDecodes(rows) = Len(rows)
           /\ g => NumDecodes(rows) = Len(rows)
  <1> DEFINE N == Len(rows)
             D == {b \in DOMAIN rows : rows[b].q <= Threshold}
  <1>1. Rows(rows, n) /\ N \in Nat /\ DOMAIN rows = 1 .. N /\ n \in 1 .. N
    BY DEF Formed, Rows
  <1>2. Threshold \in Nat \ {0}
    BY ThresholdType
  <1>3. \A b \in 1 .. N : rows[b].q \in Nat /\ (b <= n <=> rows[b].q > 0)
    BY <1>1, RowTypes
  <1>4. g => D = 1 .. N
    <2> SUFFICES ASSUME g, NEW b \in 1 .. N PROVE rows[b].q <= Threshold
      BY <1>1
    <2>1. CASE b <= n
      BY <1>1, <1>2, <2>1 DEF Formed
    <2>2. CASE ~(b <= n)
      BY <1>2, <1>3, <2>2
    <2> QED
      BY <2>1, <2>2
  <1>5. ASSUME NEW c \in D, NEW b \in 1 .. N, b < c
        PROVE  b \in D
    <2>1. CASE g
      BY <1>4, <2>1
    <2>2. CASE ~g
      <3>1. n = N
        BY <2>2 DEF Formed
      <3>2. b \in 1 .. n /\ c \in 1 .. n
        BY <1>1, <3>1
      <3> QED
        BY <1>1, <1>5, <3>2 DEF Formed
    <2> QED
      BY <2>1, <2>2
  <1>6. NumDecodes(rows) = Cardinality(D)
    BY DEF NumDecodes
  <1>7. D \in SUBSET (1 .. N)
    BY <1>1
  <1>8. NumDecodes(rows) \in 0 .. N /\ D = 1 .. NumDecodes(rows)
    <2> HIDE DEF D, N
    <2> QED
      BY <1>1, <1>5, <1>6, <1>7, PrefixSet
  <1>9. n < N => g
    <2>1. ~g => n = N
      BY DEF Formed
    <2> HIDE DEF N
    <2> QED
      BY <1>1, <2>1
  <1>10. D = 1 .. N => NumDecodes(rows) = N
    <2> HIDE DEF D
    <2>1. SUFFICES ASSUME D = 1 .. N, NumDecodes(rows) # N PROVE FALSE
      OBVIOUS
    <2>2. N \in D /\ ~(N \in 1 .. NumDecodes(rows))
      BY <1>1, <1>8, <2>1
    <2> QED
      BY <1>8, <2>2
  <1> QED
    BY <1>1, <1>4, <1>8, <1>9, <1>10

\* The keys that token j of row b attends.
Limit(rows, b, j) == IF dep.causal THEN rows[b].s - rows[b].q + j + 1 ELSE rows[b].s

\* The verify plan's entry of a token names its row and the keys it attends.
LEMMA EntryRight ==
    ASSUME dep \in Deployments, NEW rows, NEW n, Rows(rows, n), NEW t \in Nat, t < TokensOf(rows)
    PROVE  LET b == RowOf(QueryStartLoc(rows), t)
               limit == Limit(rows, b, t - QueryStartLoc(rows)[b])
           IN  VqEntry(rows, t) = [req |-> b, len |-> limit] /\ limit \in 1 .. rows[b].s
  <1> DEFINE C == QueryStartLoc(rows)
             b == RowOf(C, t)
             q == rows[b].q
             s == rows[b].s
             j == t - C[b]
  <1>1. b \in 1 .. Len(rows) /\ C[b] \in Nat /\ C[b] <= t /\ t < C[b] + q
    BY TokenRow
  <1>2. q \in Nat /\ s \in Nat /\ q <= s
    BY <1>1, RowTypes
  <1>3. j \in Nat /\ j < q
    <2> HIDE DEF C, b, q
    <2> QED
      BY <1>1, <1>2
  <1>4. VqEntry(rows, t) = [req |-> b, len |-> IF dep.causal THEN Larger(s - q, 0) + j + 1 ELSE Larger(s - q, 0) + q]
    BY DEF VqEntry
  <1>5. Limit(rows, b, j) = IF dep.causal THEN s - q + j + 1 ELSE s
    BY DEF Limit
  <1> HIDE DEF C, b, q, s, j
  <1>6. Larger(s - q, 0) = s - q
    BY <1>2 DEF Larger
  <1>7. s - q + q = s /\ s - q + j + 1 \in 1 .. s /\ s \in 1 .. s
    BY <1>2, <1>3
  <1> QED
    BY <1>4, <1>5, <1>6, <1>7 DEF C, b, s, j

\* The decode tokens are among the tokens of the step.
LEMMA TokenCounts ==
    ASSUME dep \in Deployments, NEW rows, NEW n, NEW g \in BOOLEAN, Formed(rows, n, g)
    PROVE  /\ NumDecodeTokens(rows) \in Nat /\ TokensOf(rows) \in Nat
           /\ QueryStartLoc(rows)[NumDecodes(rows) + 1] \in Nat
           /\ QueryStartLoc(rows)[NumDecodes(rows) + 1] <= TokensOf(rows)
  <1> DEFINE C == QueryStartLoc(rows)
             d == NumDecodes(rows)
  <1>1. Rows(rows, n) /\ d \in 0 .. Len(rows) /\ Len(rows) \in Nat
    BY DecodeRows DEF Formed
  <1>2. /\ Lengths(QueryLens(rows)) /\ Len(QueryLens(rows)) = Len(rows) /\ Offsets(C, QueryLens(rows))
        /\ TokensOf(rows) = C[Len(rows) + 1]
    BY <1>1, QueryOffsets
  <1>3. d + 1 \in 1 .. Len(rows) + 1 /\ Len(rows) + 1 \in 1 .. Len(rows) + 1 /\ d + 1 <= Len(rows) + 1
    <2> HIDE DEF d
    <2> QED
      BY <1>1
  <1>4. C[d + 1] \in Nat /\ TokensOf(rows) \in Nat /\ C[d + 1] <= TokensOf(rows)
    <2> HIDE DEF d, C
    <2> QED
      BY <1>2, <1>3, OffsetsRise
  <1>5. NumTokens(rows) \in Nat
    <2>1. 1 \in 1 .. Len(rows)
      BY <1>1 DEF Rows
    <2>2. rows[1].q \in Nat
      BY <1>1, <2>1, RowTypes
    <2>3. Len(rows) * rows[1].q \in Nat
      BY <1>1, <2>2
    <2> QED
      BY <1>4, <2>3 DEF NumTokens
  <1> QED
    BY <1>4, <1>5 DEF NumDecodeTokens

\* The verify plan's type, and its entries for the tokens of the batch.
LEMMA VqTypes ==
    ASSUME dep \in Deployments, NEW rows, NEW n, NEW g \in BOOLEAN, Formed(rows, n, g)
    PROVE  /\ VqPlan(rows) \in Seq([req : 1 .. MaxRows, len : 0 .. MaxModelLen])
           /\ Len(VqPlan(rows)) = NumDecodeTokens(rows)
           /\ \A i \in 1 .. NumDecodeTokens(rows) :
                  i <= QueryStartLoc(rows)[NumDecodes(rows) + 1] => VqPlan(rows)[i] = VqEntry(rows, i - 1)
  <1> DEFINE filled == QueryStartLoc(rows)[NumDecodes(rows) + 1]
             T == [req : 1 .. MaxRows, len : 0 .. MaxModelLen]
             m == NumDecodeTokens(rows)
  <1>1. m \in Nat /\ TokensOf(rows) \in Nat /\ filled \in Nat /\ filled <= TokensOf(rows)
    BY TokenCounts
  <1>2. Rows(rows, n) /\ Len(rows) <= MaxRows /\ MaxRows \in Nat /\ MaxModelLen \in Nat /\ 1 \in 1 .. MaxRows
    BY AttentionAssumption DEF Formed, Rows
  <1>3. ASSUME NEW i \in 1 .. m, i <= filled
        PROVE  VqEntry(rows, i - 1) \in T
    <2> DEFINE t == i - 1
               b == RowOf(QueryStartLoc(rows), t)
               limit == Limit(rows, b, t - QueryStartLoc(rows)[b])
    <2>1. t \in Nat /\ t < TokensOf(rows)
      BY <1>1, <1>3
    <2>2. VqEntry(rows, t) = [req |-> b, len |-> limit] /\ limit \in 1 .. rows[b].s
      BY <1>2, <2>1, EntryRight
    <2>3. b \in 1 .. Len(rows)
      BY <1>2, <2>1, TokenRow
    <2>4. rows[b].s \in Nat /\ rows[b].s <= MaxModelLen
      BY <1>2, <2>3, RowTypes
    <2>5. b \in 1 .. MaxRows
      <3> HIDE DEF b
      <3> QED
        BY <1>2, <2>3 DEF Rows
    <2> HIDE DEF b, limit, t
    <2>6. limit \in 0 .. MaxModelLen
      BY <1>2, <2>2, <2>4
    <2> QED
      BY <2>2, <2>5, <2>6 DEF t
  <1>4. [req |-> 1, len |-> 0] \in T
    BY <1>2
  <1>5. VqPlan(rows) = [i \in 1 .. m |-> IF i <= filled THEN VqEntry(rows, i - 1) ELSE [req |-> 1, len |-> 0]]
    BY DEF VqPlan
  <1> HIDE DEF T, m, filled
  <1>6. VqPlan(rows) \in [1 .. m -> T]
    BY <1>3, <1>4, <1>5
  <1>7. VqPlan(rows) \in Seq(T) /\ Len(VqPlan(rows)) = m
    BY <1>1, <1>6
  <1>8. \A i \in 1 .. m : i <= filled => VqPlan(rows)[i] = VqEntry(rows, i - 1)
    BY <1>5
  <1> QED
    BY <1>7, <1>8 DEF T, m, filled

-----------------------------------------------------------------------------
(* The types.                                                               *)

\* What the host holds: the rows of the step it has scheduled, and plans of the types the kernels expect.
HostInv ==
    /\ dep \in Deployments
    /\ phase \in {"idle", "build", "forward"} /\ graph \in BOOLEAN
    /\ batch \in Seq(Shapes \cup {Blank})
    /\ phase # "idle" => \E n : Formed(batch, n, graph)
    /\ plan.vq \in Seq([req : 1 .. MaxRows, len : 0 .. MaxModelLen])
    /\ staging.vq \in Seq([req : 1 .. MaxRows, len : 0 .. MaxModelLen])

\* A step that keeps the rows and the deployment keeps their form.
LEMMA SameFormed ==
    ASSUME dep' = dep, batch' = batch, graph' = graph, NEW n, Formed(batch, n, graph)
    PROVE  Formed(batch, n, graph)'
  BY DEF Formed, Rows, Threshold

\* The scheduler's batches, padded for a graph or not, are well formed.
LEMMA ScheduleFormed ==
    ASSUME dep \in Deployments, Schedule
    PROVE  batch' \in Seq(Shapes \cup {Blank}) /\ graph' \in BOOLEAN /\ \E n : Formed(batch, n, graph)'
  <1>1. PICK rows \in Batches, g \in BOOLEAN :
           /\ g => Uniform(rows) /\ rows[1].q \in {1, Threshold}
           /\ \E padded \in IF g THEN Len(rows) .. MaxRows ELSE {Len(rows)} :
                batch' = [b \in 1 .. padded |-> IF b <= Len(rows) THEN rows[b] ELSE [q |-> 0, s |-> 0]]
           /\ graph' = g
    BY DEF Schedule
  <1>2. PICK padded \in IF g THEN Len(rows) .. MaxRows ELSE {Len(rows)} :
           batch' = [b \in 1 .. padded |-> IF b <= Len(rows) THEN rows[b] ELSE [q |-> 0, s |-> 0]]
    BY <1>1
  <1>3. PICK n \in 1 .. MaxRows : rows \in [1 .. n -> Shapes]
    BY DEF Batches
  <1>4. /\ Len(rows) <= dep.max_num_seqs /\ DecodeFirst(rows)
        /\ ~ dep.causal => Uniform(rows) /\ rows[1].q = 1 + dep.num_spec
    BY DEF Batches
  <1>5. MaxRows \in Nat /\ n \in Nat /\ n >= 1 /\ n <= MaxRows /\ DOMAIN rows = 1 .. n /\ Len(rows) = n
        /\ 1 \in 1 .. n
    <2>1. MaxRows \in Nat
      BY AttentionAssumption
    <2>2. n \in Nat /\ n >= 1 /\ n <= MaxRows
      BY <2>1
    <2>3. rows \in Seq(Shapes) /\ Len(rows) = n
      BY <1>3, <2>2
    <2> QED
      BY <1>3, <2>1, <2>2, <2>3
  <1>6. padded \in Nat /\ n <= padded /\ padded <= MaxRows /\ (~g => padded = n)
    BY <1>2, <1>5
  <1> DEFINE all == [b \in 1 .. padded |-> IF b <= n THEN rows[b] ELSE Blank]
  <1>7. batch' = all
    BY <1>2, <1>5 DEF Blank
  <1>8. all \in [1 .. padded -> Shapes \cup {Blank}]
    <2>1. \A b \in 1 .. padded : b <= n => rows[b] \in Shapes
      BY <1>3, <1>5
    <2> QED
      BY <2>1
  <1>9. \A b \in 1 .. n : b \in 1 .. padded /\ all[b] = rows[b]
    BY <1>5, <1>6
  <1>10. \A b \in n + 1 .. padded : all[b] = Blank
    BY <1>5, <1>6
  <1> HIDE DEF all
  <1>11. all \in Seq(Shapes \cup {Blank}) /\ Len(all) = padded
    BY <1>6, <1>8
  <1>12. \A b \in 1 .. n : rows[b] \in Shapes
    BY <1>3
  <1>13. Rows(all, n)
    BY <1>5, <1>6, <1>9, <1>10, <1>11, <1>12 DEF Rows
  <1>14. dep' = dep /\ Threshold' = Threshold
    BY DEF Schedule, Threshold
  <1>15. \A b, c \in 1 .. n : b < c /\ all[c].q <= Threshold => all[b].q <= Threshold
    BY <1>4, <1>5, <1>9 DEF DecodeFirst
  <1>16. ~dep.causal => \A b \in 1 .. n : all[b].q = 1 + dep.num_spec
    BY <1>4, <1>5, <1>9 DEF Uniform
  <1>17. g => (\A b \in 1 .. n : all[b].q = all[1].q) /\ all[1].q \in {1, Threshold}
    BY <1>1, <1>5, <1>9 DEF Uniform
  <1>18. ~g => n = Len(all)
    BY <1>6, <1>11
  <1>19. Formed(all, n, g)
    BY <1>4, <1>5, <1>6, <1>11, <1>13, <1>15, <1>16, <1>17, <1>18 DEF Formed
  <1>20. Formed(batch, n, graph)'
    BY <1>1, <1>7, <1>14, <1>19 DEF Formed, Rows
  <1> QED
    BY <1>1, <1>7, <1>11, <1>20

\* Nothing is scheduled at first.
LEMMA HostInit == Init => HostInv
  <1> SUFFICES ASSUME Init PROVE HostInv
    OBVIOUS
  <1>1. <<>> \in Seq(Shapes \cup {Blank}) /\ <<>> \in Seq([req : 1 .. MaxRows, len : 0 .. MaxModelLen])
    OBVIOUS
  <1> QED
    BY <1>1 DEF Init, HostInv

\* Every step keeps the host's state well formed.
LEMMA HostNext == HostInv /\ [Next]_vars => HostInv'
  <1> SUFFICES ASSUME HostInv, [Next]_vars PROVE HostInv'
    OBVIOUS
  <1> DEFINE T == [req : 1 .. MaxRows, len : 0 .. MaxModelLen]
  <1>1. CASE Schedule
    <2>1. batch' \in Seq(Shapes \cup {Blank}) /\ graph' \in BOOLEAN /\ \E n : Formed(batch, n, graph)'
      BY <1>1, ScheduleFormed DEF HostInv
    <2>2. dep' = dep /\ phase' = "build" /\ plan' = plan /\ staging' = staging
      BY <1>1 DEF Schedule, deviceVars
    <2> QED
      BY <2>1, <2>2 DEF HostInv
  <1>2. CASE Build
    <2>1. dep' = dep /\ phase = "build" /\ phase' = "forward" /\ batch' = batch /\ graph' = graph
          /\ plan' = plan /\ staging' = PlanOf(batch)
      BY <1>2 DEF Build, deviceVars
    <2>2. PICK n : Formed(batch, n, graph)
      BY <2>1 DEF HostInv
    <2>3. Formed(batch, n, graph)'
      BY <2>1, <2>2, SameFormed
    <2>4. VqPlan(batch) \in Seq(T)
      BY <2>2, VqTypes DEF HostInv
    <2>5. staging'.vq \in Seq(T)
      <3>1. <<>> \in Seq(T)
        OBVIOUS
      <3> HIDE DEF T
      <3> QED
        BY <2>1, <2>4, <3>1 DEF PlanOf
    <2> QED
      BY <2>1, <2>3, <2>5 DEF HostInv
  <1>3. ASSUME UNCHANGED <<dep, batch, graph, staging>>, phase' \in {phase, "idle"}, plan' \in {plan, staging}
        PROVE  HostInv'
    <2>1. \A n : Formed(batch, n, graph) => Formed(batch, n, graph)'
      BY <1>3, SameFormed
    <2>2. phase' # "idle" => \E n : Formed(batch, n, graph)'
      BY <1>3, <2>1 DEF HostInv
    <2>3. plan'.vq \in Seq(T) /\ staging'.vq \in Seq(T)
      <3>1. plan.vq \in Seq(T) /\ staging.vq \in Seq(T)
        BY DEF HostInv
      <3> HIDE DEF T
      <3> QED
        BY <1>3, <3>1
    <2> QED
      BY <1>3, <2>2, <2>3 DEF HostInv
  <1>4. CASE Forward
    BY <1>3, <1>4 DEF Forward, deviceVars
  <1>5. CASE UpdateInputs
    BY <1>3, <1>5 DEF UpdateInputs, hostVars
  <1>6. CASE CopyPlan
    BY <1>3, <1>6 DEF CopyPlan, hostVars
  <1>7. CASE RunKernels
    BY <1>3, <1>7 DEF RunKernels, hostVars
  <1>8. CASE UNCHANGED vars
    BY <1>3, <1>8 DEF vars, hostVars, deviceVars
  <1> QED
    BY <1>1, <1>2, <1>4, <1>5, <1>6, <1>7, <1>8 DEF Next

\* The types of the host's state, the plan and the stream, for every batch and deployment.
THEOREM AttentionTypes == Spec => []AttentionTypeOK
  <1>1. HostInv /\ SyncInv => AttentionTypeOK
    <2> SUFFICES ASSUME HostInv, StreamInv PROVE AttentionTypeOK
      BY DEF SyncInv
    <2>1. \A i \in DOMAIN stream : stream[i].op \in {"inputs", "copy", "launch"}
      <3>1. PICK S : stream \in Seq(S)
        BY DEF StreamInv, IsSeq
      <3>2. DOMAIN stream = 1 .. Len(stream)
        BY <3>1
      <3> QED
        BY <3>2 DEF StreamInv
    <2>2. \A b \in DOMAIN batch : batch[b] \in Shapes \cup {[q |-> 0, s |-> 0]}
      <3> DEFINE S == Shapes \cup {Blank}
      <3>1. batch \in Seq(S)
        BY DEF HostInv
      <3> HIDE DEF S
      <3>2. \A b \in DOMAIN batch : batch[b] \in S
        BY <3>1
      <3> QED
        BY <3>2 DEF S, Blank
    <2> QED
      BY <2>1, <2>2 DEF HostInv, AttentionTypeOK
  <1> QED
    BY HostInit, HostNext, SyncInit, SyncStep, <1>1, PTL DEF Spec

-----------------------------------------------------------------------------
(* The cells of the kernels.                                                *)

\* The cells are the wanted positions of row b, each once.
Exact(cells, b, wanted) ==
    /\ {<<x[2], x[3]>> : x \in cells} = {<<b, p>> : p \in wanted}
    /\ Cardinality(cells) = Cardinality(wanted)

\* Cells that differ in their positions, one for each position of a range.
LEMMA TaggedExact ==
    ASSUME NEW cells, NEW b, NEW lo \in Int, NEW hi \in Int,
           \A x \in cells : \E s : \E p \in lo .. hi : x = <<s, b, p>>,
           \A p \in lo .. hi : \E s : <<s, b, p>> \in cells,
           \A x, y \in cells : x[3] = y[3] => x = y
    PROVE  Exact(cells, b, lo .. hi)
  <1> DEFINE wanted == lo .. hi
             f == [p \in wanted |-> CHOOSE x \in cells : x[3] = p]
  <1>1. \A x \in cells : x[2] = b /\ x[3] \in wanted
    OBVIOUS
  <1>2. \A p \in wanted : \E x \in cells : x[3] = p /\ x[2] = b
    <2> SUFFICES ASSUME NEW p \in wanted PROVE \E x \in cells : x[3] = p /\ x[2] = b
      OBVIOUS
    <2>1. PICK s : <<s, b, p>> \in cells
      OBVIOUS
    <2>2. <<s, b, p>>[3] = p /\ <<s, b, p>>[2] = b
      OBVIOUS
    <2> QED
      BY <2>1, <2>2
  <1>3. IsFiniteSet(wanted)
    BY FS_Interval
  <1> HIDE DEF wanted
  <1>4. \A p \in wanted : f[p] \in cells /\ f[p][3] = p
    BY <1>2
  <1>5. {<<x[2], x[3]>> : x \in cells} = {<<b, p>> : p \in wanted}
    <2>1. \A x \in cells : <<x[2], x[3]>> \in {<<b, p>> : p \in wanted}
      BY <1>1
    <2>2. ASSUME NEW p \in wanted PROVE <<b, p>> \in {<<x[2], x[3]>> : x \in cells}
      <3>1. PICK x \in cells : x[3] = p /\ x[2] = b
        BY <1>2
      <3>2. <<b, p>> = <<x[2], x[3]>>
        BY <3>1
      <3> QED
        BY <3>2
    <2> QED
      BY <2>1, <2>2
  <1>6. f \in [wanted -> cells]
    BY <1>4
  <1>7. \A p, q \in wanted : f[p] = f[q] => p = q
    BY <1>4
  <1>8. \A x \in cells : f[x[3]] = x /\ x[3] \in wanted
    <2> SUFFICES ASSUME NEW x \in cells PROVE f[x[3]] = x /\ x[3] \in wanted
      OBVIOUS
    <2>1. x[3] \in wanted
      BY <1>1
    <2>2. f[x[3]] \in cells /\ f[x[3]][3] = x[3]
      BY <1>4, <2>1
    <2> HIDE DEF f
    <2> QED
      BY <2>1, <2>2
  <1> HIDE DEF f
  <1>9. ExistsBijection(wanted, cells)
    <2>1. f \in Injection(wanted, cells)
      BY <1>6, <1>7 DEF Injection, IsInjective
    <2>2. f \in Surjection(wanted, cells)
      BY <1>6, <1>8 DEF Surjection
    <2> QED
      BY <2>1, <2>2 DEF ExistsBijection, Bijection
  <1>10. Cardinality(cells) = Cardinality(wanted)
    BY <1>3, <1>9, FS_Bijection
  <1> QED
    BY <1>5, <1>10 DEF Exact, wanted

\* A window starts at or before its end.
LEMMA WinStartType ==
    ASSUME dep \in Deployments, NEW limit \in Nat
    PROVE  WinStart(limit) \in Nat /\ WinStart(limit) <= limit
  <1>1. dep.sliding_window \in Nat
    BY AttentionAssumption
  <1> QED
    BY <1>1 DEF WinStart, Larger

\* The unsplit kernel scores a row's window, block by block.
LEMMA FusedExact ==
    ASSUME dep \in Deployments, NEW row, NEW len \in Nat \ {0}
    PROVE  Exact(FusedDecode(row, len), row, WinStart(len) .. len - 1)
  <1> DEFINE w == WinStart(len)
             lo == w \div Group
             hi == CeilDiv(len, Group)
             cells == FusedDecode(row, len)
  <1>1. w \in Nat /\ w <= len
    BY WinStartType
  <1>2. Group \in Nat \ {0}
    BY AttentionAssumption
  <1>3. hi \in Nat /\ len <= hi * Group
    BY <1>2, CeilDivBounds
  <1> HIDE DEF w, hi
  <1>4. lo \in Nat /\ lo * Group <= w
    BY <1>1, <1>2, SMTT(30)
  <1> HIDE DEF lo
  <1>5. cells = {<<0, row, p>> : p \in {p \in lo * Group .. hi * Group - 1 : p < len /\ p < len /\ p >= w}}
    BY DEF FusedDecode, BlockCells, w, lo, hi
  <1> HIDE DEF cells
  <1>6. lo * Group \in Nat /\ hi * Group \in Nat
    BY <1>2, <1>3, <1>4
  <1>7. {p \in lo * Group .. hi * Group - 1 : p < len /\ p < len /\ p >= w} = w .. len - 1
    <2> DEFINE l == lo * Group
               h == hi * Group
    <2>1. l \in Nat /\ h \in Nat /\ l <= w /\ len <= h
      BY <1>3, <1>4, <1>6
    <2> HIDE DEF l, h
    <2>2. {p \in l .. h - 1 : p < len /\ p < len /\ p >= w} = w .. len - 1
      BY <1>1, <2>1
    <2> QED
      BY <2>2 DEF l, h
  <1>8. cells = {<<0, row, p>> : p \in w .. len - 1}
    BY <1>5, <1>7
  <1>9. \A x \in cells : \E s : \E p \in w .. len - 1 : x = <<s, row, p>>
    BY <1>8
  <1>10. \A p \in w .. len - 1 : \E s : <<s, row, p>> \in cells
    BY <1>8
  <1>11. \A x, y \in cells : x[3] = y[3] => x = y
    BY <1>8
  <1>12. w \in Int /\ len - 1 \in Int
    BY <1>1
  <1>13. Exact(cells, row, w .. len - 1)
    BY <1>9, <1>10, <1>11, <1>12, TaggedExact
  <1> QED
    BY <1>13 DEF cells, w

\* The split-K kernels score the keys of a row's window, each in one split.
LEMMA SplitExact ==
    ASSUME dep \in Deployments, NEW row, NEW len \in Nat, NEW limit \in 0 .. len, NEW splits \in Nat \ {0}
    PROVE  Exact(SplitDecode(row, len, limit, splits), row, WinStart(limit) .. limit - 1)
  <1> DEFINE w == WinStart(limit)
             cells == SplitDecode(row, len, limit, splits)
             n == CeilDiv(len, Group)
  <1>1. w \in Nat /\ w <= limit
    BY WinStartType
  <1>2. Group \in Nat \ {0}
    BY AttentionAssumption
  <1>3. n \in Nat
    BY <1>2, CeilDivBounds
  <1>4. \A p \in Nat :
           /\ (\E s \in Nat : <<s, row, p>> \in cells) <=> p \in w .. limit - 1
           /\ \A s, t \in Nat : <<s, row, p>> \in cells /\ <<t, row, p>> \in cells => s = t
    <2> SUFFICES ASSUME NEW p \in Nat
                 PROVE  /\ (\E s \in Nat : <<s, row, p>> \in cells) <=> p \in w .. limit - 1
                        /\ \A s, t \in Nat : <<s, row, p>> \in cells /\ <<t, row, p>> \in cells => s = t
      OBVIOUS
    <2> DEFINE tags == {s \in Nat : <<s, row, p>> \in cells}
    <2>1. ((\E s \in Nat : s \in tags) <=> p \in w .. limit - 1) /\ \A s, t \in tags : s = t
      BY SplitDecodeExact
    <2> HIDE DEF cells, w
    <2> QED
      BY <2>1
  <1>5. ASSUME NEW x \in cells PROVE \E s \in Nat, p \in Nat : x = <<s, row, p>>
    <2>1. PICK s \in 0 .. splits - 1 : x \in BlockCells(s, row, len, SplitLo(n, splits, s), SplitHi(n, splits, s), limit)
      BY <1>5 DEF SplitDecode
    <2>2. PICK p \in SplitLo(n, splits, s) * Group .. SplitHi(n, splits, s) * Group - 1 :
             x = <<s, row, p>> /\ p >= w
      BY <2>1 DEF BlockCells
    <2>3. p \in Int /\ w \in Nat
      BY <1>1, <2>2
    <2>4. p \in Nat
      BY <2>2, <2>3
    <2>5. s \in Nat
      BY <2>1
    <2> QED
      BY <2>2, <2>4, <2>5
  <1> HIDE DEF cells, w, n
  <1>6. ASSUME NEW x \in cells PROVE \E s \in Nat : \E p \in w .. limit - 1 : x = <<s, row, p>>
    <2>1. PICK s \in Nat, p \in Nat : x = <<s, row, p>>
      BY <1>5
    <2>2. p \in w .. limit - 1
      BY <1>4, <1>6, <2>1
    <2> QED
      BY <2>1, <2>2
  <1>7. \A p \in w .. limit - 1 : \E s : <<s, row, p>> \in cells
    <2> SUFFICES ASSUME NEW p \in w .. limit - 1 PROVE \E s : <<s, row, p>> \in cells
      OBVIOUS
    <2>1. p \in Nat
      BY <1>1
    <2> QED
      BY <1>4, <2>1
  <1>8. ASSUME NEW x \in cells, NEW y \in cells, x[3] = y[3] PROVE x = y
    <2>1. PICK s \in Nat, p \in Nat : x = <<s, row, p>>
      BY <1>5
    <2>2. PICK t \in Nat, q \in Nat : y = <<t, row, q>>
      BY <1>5
    <2>3. p = q
      BY <1>8, <2>1, <2>2
    <2>4. s = t
      BY <1>4, <2>1, <2>2, <2>3
    <2> QED
      BY <2>1, <2>2, <2>3, <2>4
  <1>9. w \in Int /\ limit - 1 \in Int
    BY <1>1
  <1>10. \A x \in cells : \E s : \E p \in w .. limit - 1 : x = <<s, row, p>>
    BY <1>6
  <1>11. Exact(cells, row, w .. limit - 1)
    BY <1>7, <1>8, <1>9, <1>10, TaggedExact
  <1> QED
    BY <1>11 DEF cells, w

\* The scratch of a packed call: each row's keys lie in its own range of it.
LEMMA PackedExact ==
    ASSUME NEW rows, NEW lo \in Nat, NEW hi \in Nat, lo <= hi, NEW lens, Lengths(lens), Len(lens) >= hi - lo + 1,
           \A k \in 1 .. hi - lo + 1 : lens[k] = rows[lo + k - 1].s,
           NEW C, Offsets(C, lens), C[hi - lo + 2] <= FaScratchRows, FaScratchRows \in Nat,
           NEW b \in lo .. hi, NEW keys \in 0 .. rows[b].s
    PROVE  Exact(FlashVarlen(PackedKV(rows, lo, hi, C), C[b - lo + 1], keys), b, 0 .. keys - 1)
  <1> DEFINE from == C[b - lo + 1]
             scratch == PackedKV(rows, lo, hi, C)
             m == hi - lo + 1
             range == from .. from + keys - 1
  <1>1. /\ Len(lens) \in Nat /\ m \in Nat /\ m <= Len(lens)
        /\ \A k \in 1 .. Len(lens) + 1 : C[k] \in Nat
    BY SMTT(30) DEF Lengths, Offsets
  <1>2. \A c \in lo .. hi : /\ c - lo + 1 \in 1 .. m /\ c - lo + 1 \in 1 .. Len(lens)
                            /\ c - lo + 1 \in 1 .. Len(lens) + 1
                            /\ c - lo + 2 \in 1 .. Len(lens) + 1 /\ c - lo + 2 = c - lo + 1 + 1
                            /\ c - lo + 2 <= m + 1
                            /\ lo + (c - lo + 1) - 1 = c
    BY <1>1
  <1>3. \A c \in lo .. hi : /\ C[c - lo + 1] \in Nat /\ C[c - lo + 2] \in Nat /\ rows[c].s \in Nat
                            /\ C[c - lo + 2] = C[c - lo + 1] + rows[c].s
    <2> SUFFICES ASSUME NEW c \in lo .. hi
                 PROVE  /\ C[c - lo + 1] \in Nat /\ C[c - lo + 2] \in Nat /\ rows[c].s \in Nat
                        /\ C[c - lo + 2] = C[c - lo + 1] + rows[c].s
      OBVIOUS
    <2> DEFINE k == c - lo + 1
    <2>1. k \in 1 .. m /\ k \in 1 .. Len(lens) /\ k \in 1 .. Len(lens) + 1
          /\ k + 1 \in 1 .. Len(lens) + 1 /\ k + 1 = c - lo + 2 /\ lo + k - 1 = c
      BY <1>2
    <2> HIDE DEF k
    <2>2. lens[k] = rows[c].s /\ lens[k] \in Nat /\ C[k + 1] = C[k] + lens[k] /\ C[k] \in Nat
          /\ C[k + 1] \in Nat
      BY <1>1, <2>1 DEF Offsets, Lengths
    <2> QED
      BY <2>1, <2>2 DEF k
  <1>4. \A c \in lo .. hi : C[c - lo + 2] <= C[m + 1]
    <2> SUFFICES ASSUME NEW c \in lo .. hi PROVE C[c - lo + 2] <= C[m + 1]
      OBVIOUS
    <2>1. c - lo + 2 \in 1 .. Len(lens) + 1 /\ m + 1 \in 1 .. Len(lens) + 1 /\ c - lo + 2 <= m + 1
      BY <1>1, <1>2
    <2> QED
      BY <2>1, OffsetsRise
  <1>5. \A c, d \in lo .. hi : c < d => C[c - lo + 2] <= C[d - lo + 1]
    <2> SUFFICES ASSUME NEW c \in lo .. hi, NEW d \in lo .. hi, c < d PROVE C[c - lo + 2] <= C[d - lo + 1]
      OBVIOUS
    <2>1. c - lo + 2 \in 1 .. Len(lens) + 1 /\ d - lo + 1 \in 1 .. Len(lens) + 1 /\ c - lo + 2 <= d - lo + 1
      BY <1>2
    <2> QED
      BY <2>1, OffsetsRise
  <1>6. scratch = {x \in UNION {{<<C[c - lo + 1] + p, c, p>> : p \in 0 .. rows[c].s - 1} : c \in lo .. hi} : x[1] < FaScratchRows}
    BY DEF PackedKV
  <1>7. C[m + 1] <= FaScratchRows
    <2>1. m + 1 = hi - lo + 2
      OBVIOUS
    <2> QED
      BY <2>1
  <1>8. from \in Nat /\ keys \in Nat /\ keys <= rows[b].s /\ from + keys <= FaScratchRows
    <2> DEFINE next == C[b - lo + 2]
               last == C[m + 1]
               s == rows[b].s
    <2>1. from \in Nat /\ next \in Nat /\ s \in Nat /\ next = from + s
      BY <1>3
    <2>2. next <= last
      BY <1>4
    <2>3. last \in Nat
      <3>1. m + 1 \in 1 .. Len(lens) + 1
        BY <1>1
      <3> QED
        BY <1>1, <3>1
    <2>4. last <= FaScratchRows
      BY <1>7
    <2> HIDE DEF from, next, last, s, m
    <2>5. keys \in 0 .. s
      BY DEF s
    <2>6. from \in Nat /\ keys \in Nat /\ keys <= s /\ from + keys <= FaScratchRows
      BY <2>1, <2>2, <2>3, <2>4, <2>5
    <2> QED
      BY <2>6 DEF s
  <1> HIDE DEF scratch, m, from
  <1>9. ASSUME NEW x \in scratch PROVE \E c \in lo .. hi : \E p \in 0 .. rows[c].s - 1 : x = <<C[c - lo + 1] + p, c, p>>
    BY <1>6
  <1>10. ASSUME NEW x \in scratch, x[1] \in range
         PROVE  \E p \in 0 .. keys - 1 : x = <<from + p, b, p>>
    <2>c. PICK c \in lo .. hi : \E p \in 0 .. rows[c].s - 1 : x = <<C[c - lo + 1] + p, c, p>>
      BY <1>9
    <2>1. PICK p \in 0 .. rows[c].s - 1 : x = <<C[c - lo + 1] + p, c, p>>
      BY <2>c
    <2> DEFINE start == C[c - lo + 1]
               end == C[c - lo + 2]
               next == C[b - lo + 2]
               s == rows[c].s
               sb == rows[b].s
    <2>2. start \in Nat /\ end \in Nat /\ s \in Nat /\ end = start + s /\ next \in Nat /\ sb \in Nat
          /\ next = from + sb
      BY <1>3 DEF from
    <2>3. x[1] = start + p /\ p \in 0 .. s - 1
      BY <2>1
    <2>4. (c < b => end <= from) /\ (b < c => next <= start)
      BY <1>5 DEF from
    <2>5. keys <= sb /\ keys \in Nat /\ from \in Nat
      BY <1>8
    <2>6. start + p \in from .. from + keys - 1
      BY <1>10, <2>3
    <2>7. c = b => start = from
      BY DEF from
    <2> HIDE DEF start, end, next, s, sb, range
    <2>8. p \in Nat /\ start + p < end /\ start <= start + p /\ from <= start + p
          /\ start + p < from + keys /\ from + keys <= next
      BY <2>2, <2>3, <2>5, <2>6
    <2>9. ~(c < b) /\ ~(b < c)
      BY <2>2, <2>4, <2>5, <2>8
    <2>10. c = b
      BY <2>9
    <2>11. start = from /\ p \in 0 .. keys - 1
      BY <2>5, <2>7, <2>8, <2>10
    <2> QED
      BY <2>1, <2>10, <2>11 DEF start
  <1>11. ASSUME NEW p \in 0 .. keys - 1
         PROVE  <<from + p, b, p>> \in scratch /\ from + p \in range
    <2>1. from + p \in range /\ from + p < FaScratchRows /\ p \in 0 .. rows[b].s - 1
      <3> DEFINE s == rows[b].s
      <3>1. from \in Nat /\ keys \in Nat /\ s \in Nat /\ keys <= s /\ from + keys <= FaScratchRows
        BY <1>3, <1>8
      <3> HIDE DEF s
      <3> QED
        BY <3>1 DEF s
    <2>2. <<from + p, b, p>> \in UNION {{<<C[c - lo + 1] + r, c, r>> : r \in 0 .. rows[c].s - 1} : c \in lo .. hi}
      BY <2>1 DEF from
    <2>3. <<from + p, b, p>>[1] = from + p
      OBVIOUS
    <2> QED
      BY <1>6, <2>1, <2>2, <2>3
  <1> DEFINE cells == FlashVarlen(scratch, from, keys)
  <1>12. cells = {x \in scratch : x[1] \in range}
    <2>1. \A i \in range : i \in {x[1] : x \in scratch}
      <3> SUFFICES ASSUME NEW i \in range PROVE i \in {x[1] : x \in scratch}
        OBVIOUS
      <3> DEFINE p == i - from
      <3>1. p \in 0 .. keys - 1 /\ from + p = i
        BY <1>8
      <3> HIDE DEF p, range
      <3>2. <<from + p, b, p>> \in scratch /\ <<from + p, b, p>>[1] = i
        BY <1>11, <3>1
      <3> QED
        BY <3>2
    <2> HIDE DEF range
    <2>2. range \ {x[1] : x \in scratch} = {}
      BY <2>1
    <2>3. cells = {x \in scratch : x[1] \in range} \cup {<<i, 0, 0>> : i \in range \ {x[1] : x \in scratch}}
      BY DEF FlashVarlen, range
    <2> QED
      BY <2>2, <2>3
  <1> HIDE DEF cells, range
  <1>13. \A x \in cells : \E p \in 0 .. keys - 1 : x = <<from + p, b, p>>
    BY <1>10, <1>12
  <1>14. \A p \in 0 .. keys - 1 : <<from + p, b, p>> \in cells
    <2> SUFFICES ASSUME NEW p \in 0 .. keys - 1 PROVE <<from + p, b, p>> \in cells
      OBVIOUS
    <2>1. <<from + p, b, p>>[1] = from + p
      OBVIOUS
    <2> QED
      BY <1>11, <1>12, <2>1
  <1>15. \A x \in cells : \E s : \E p \in 0 .. keys - 1 : x = <<s, b, p>>
    BY <1>13
  <1>16. \A p \in 0 .. keys - 1 : \E s : <<s, b, p>> \in cells
    BY <1>14
  <1>17. \A x, y \in cells : x[3] = y[3] => x = y
    <2> SUFFICES ASSUME NEW x \in cells, NEW y \in cells, x[3] = y[3] PROVE x = y
      OBVIOUS
    <2>1. PICK p \in 0 .. keys - 1 : x = <<from + p, b, p>>
      BY <1>13
    <2>2. PICK q \in 0 .. keys - 1 : y = <<from + q, b, q>>
      BY <1>13
    <2> QED
      BY <2>1, <2>2
  <1>18. 0 \in Int /\ keys - 1 \in Int
    BY <1>8
  <1>19. Exact(cells, b, 0 .. keys - 1)
    BY <1>15, <1>16, <1>17, <1>18, TaggedExact
  <1> QED
    BY <1>19 DEF cells, from, scratch

-----------------------------------------------------------------------------
(* From the metadata to the launches of a step.                             *)

\* Rows of at least one token take at least as many tokens as they are.
LEMMA OffsetsAtLeast ==
    ASSUME NEW lens, Lengths(lens), NEW C, Offsets(C, lens), NEW k \in 0 .. Len(lens),
           \A b \in 1 .. k : lens[b] >= 1, NEW i \in 1 .. k + 1, NEW j \in 1 .. k + 1, i <= j
    PROVE  C[i] \in Nat /\ C[j] \in Nat /\ C[i] + (j - i) <= C[j]
  <1>1. Len(lens) \in Nat /\ k \in Nat /\ \A m \in 1 .. Len(lens) + 1 : C[m] \in Nat
    BY DEF Lengths, Offsets
  <1>2. \A m \in 1 .. k + 1 : C[m] \in Nat
    BY <1>1
  <1> DEFINE Short == {m \in 1 .. k + 1 : i <= m /\ C[m] < C[i] + (m - i)}
  <1>3. Short = {}
    <2> SUFFICES ASSUME Short # {} PROVE FALSE
      OBVIOUS
    <2>1. PICK m \in Short : \A y \in Short : m <= y
      <3>1. Short \subseteq Nat
        BY <1>1
      <3> HIDE DEF Short
      <3> QED
        BY <3>1, LeastNat
    <2>2. m # i
      BY <1>2, <2>1
    <2>3. m - 1 \in 1 .. k /\ i <= m - 1 /\ m - 1 + 1 = m /\ ~(m <= m - 1) /\ m - 1 \in 1 .. Len(lens)
          /\ m - 1 \in 1 .. k + 1 /\ m \in 1 .. k + 1
      BY <1>1, <2>1, <2>2
    <2>4. C[m] = C[m - 1] + lens[m - 1] /\ lens[m - 1] \in Nat /\ lens[m - 1] >= 1
      BY <2>3 DEF Offsets, Lengths
    <2>5. ~(C[m - 1] < C[i] + (m - 1 - i))
      BY <2>1, <2>3
    <2>6. C[m] \in Nat /\ C[m - 1] \in Nat /\ C[i] \in Nat /\ C[m] < C[i] + (m - i)
      BY <1>2, <2>1, <2>3
    <2> DEFINE u == C[m]
               v == C[m - 1]
               w == C[i]
               x == lens[m - 1]
    <2>7. u \in Nat /\ v \in Nat /\ w \in Nat /\ x \in Nat /\ x >= 1 /\ u = v + x /\ u < w + (m - i)
          /\ ~(v < w + (m - 1 - i))
      BY <2>4, <2>5, <2>6
    <2>8. m \in Nat /\ i \in Nat
      BY <1>1, <2>1
    <2> HIDE DEF u, v, w, x
    <2> QED
      BY <2>7, <2>8
  <1>4. ~(C[j] < C[i] + (j - i))
    BY <1>3
  <1> QED
    BY <1>2, <1>4

\* The tokens of k rows that are all q wide.
LEMMA UniformTotal ==
    ASSUME NEW lens, Lengths(lens), NEW C, Offsets(C, lens), NEW q \in Nat, NEW k \in 0 .. Len(lens),
           \A b \in 1 .. k : lens[b] = q
    PROVE  C[k + 1] = k * q
  <1>1. \A b \in 1 .. k + 1 : C[b] = (b - 1) * q
    BY UniformOffsets, ZenonT(30)
  <1>2. k + 1 \in 1 .. k + 1 /\ k + 1 - 1 = k
    BY DEF Lengths
  <1> QED
    BY <1>1, <1>2

\* Rows of at least one token that take no more tokens than they are have one each.
LEMMA OnesOnly ==
    ASSUME NEW lens, Lengths(lens), NEW C, Offsets(C, lens), NEW k \in 0 .. Len(lens),
           \A b \in 1 .. k : lens[b] >= 1, C[k + 1] <= k, NEW b \in 1 .. k
    PROVE  lens[b] = 1
  <1>1. /\ k \in Nat /\ 1 \in 1 .. k + 1 /\ b \in 1 .. k + 1 /\ b + 1 \in 1 .. k + 1 /\ k + 1 \in 1 .. k + 1
        /\ 1 <= b /\ b + 1 <= k + 1 /\ b \in 1 .. Len(lens)
    BY DEF Lengths
  <1>2. C[1] \in Nat /\ C[b] \in Nat /\ C[1] + (b - 1) <= C[b]
    BY <1>1, OffsetsAtLeast
  <1> DEFINE i == b + 1
             j == k + 1
  <1>3. i \in 1 .. k + 1 /\ j \in 1 .. k + 1 /\ i <= j
    BY <1>1
  <1>4. C[i] = C[b] + lens[b] /\ lens[b] \in Nat /\ lens[b] >= 1 /\ C[1] = 0 /\ C[j] <= k
    BY <1>1 DEF Offsets, Lengths
  <1>5. i = b + 1 /\ j = k + 1
    OBVIOUS
  <1> HIDE DEF i, j
  <1>6. C[i] \in Nat /\ C[j] \in Nat /\ C[i] + (j - i) <= C[j]
    BY <1>3, OffsetsAtLeast
  <1> QED
    BY <1>1, <1>2, <1>4, <1>5, <1>6, SMTT(30)

\* A graph's decode tokens, padding included, and an unpadded batch's.
LEMMA GraphTokens ==
    ASSUME dep \in Deployments, NEW rows, NEW n, Formed(rows, n, TRUE)
    PROVE  NumDecodeTokens(rows) = Len(rows) * rows[1].q /\ rows[1].q \in Nat \ {0}
  <1> DEFINE N == Len(rows)
             Q == rows[1].q
             C == QueryStartLoc(rows)
  <1>1. Rows(rows, n) /\ N \in Nat /\ n \in 1 .. N /\ \A b \in 1 .. n : rows[b].q = Q
    BY DEF Formed, Rows
  <1>2. NumDecodes(rows) = N
    BY DecodeRows
  <1>3. Q \in Nat \ {0}
    <2>1. 1 \in 1 .. N /\ 1 <= n
      BY <1>1
    <2> QED
      BY <1>1, <2>1, RowTypes
  <1>4. Last(rows).q = rows[N].q
    BY DEF Last
  <1>5. CASE rows[N].q = 0
    BY <1>2, <1>3, <1>4, <1>5 DEF NumDecodeTokens, NumTokens
  <1>6. CASE rows[N].q # 0
    <2>1. N \in 1 .. N
      BY <1>1
    <2>2. N <= n
      BY <1>1, <1>6, <2>1, RowTypes
    <2>3. n = N
      BY <1>1, <2>2
    <2> DEFINE lens == QueryLens(rows)
    <2>4. /\ Lengths(lens) /\ Len(lens) = N /\ Offsets(C, lens)
          /\ \A b \in 1 .. N : lens[b] = rows[b].q
          /\ TokensOf(rows) = C[N + 1]
      BY <1>1, QueryOffsets
    <2>5. N \in 0 .. Len(lens) /\ \A b \in 1 .. N : lens[b] = Q
      BY <1>1, <2>3, <2>4
    <2>6. PICK q \in Nat : q = Q
      BY <1>3
    <2>7. \A b \in 1 .. N : lens[b] = q
      BY <2>5, <2>6
    <2>8. C[N + 1] = N * q
      <3>1. Lengths(lens)
        BY <2>4
      <3>2. Offsets(C, lens)
        BY <2>4
      <3>3. N \in 0 .. Len(lens)
        BY <2>5
      <3> HIDE DEF C, N, lens
      <3> QED
        BY <3>1, <3>2, <3>3, <2>7, UniformTotal, Zenon
    <2> QED
      BY <1>2, <1>3, <1>4, <1>6, <2>4, <2>6, <2>8 DEF NumDecodeTokens, NumTokens, N, C
  <1> QED
    BY <1>3, <1>5, <1>6

\* A batch without padding: its decode tokens are those of its decode rows.
LEMMA EagerTokens ==
    ASSUME dep \in Deployments, NEW rows, NEW n, Formed(rows, n, FALSE)
    PROVE  /\ NumDecodeTokens(rows) = QueryStartLoc(rows)[NumDecodes(rows) + 1]
           /\ NumTokens(rows) = TokensOf(rows) /\ n = Len(rows)
           /\ \A b \in 1 .. Len(rows) : rows[b].q \in Nat /\ rows[b].q >= 1
           /\ NumDecodes(rows) < Len(rows) => QueryStartLoc(rows)[NumDecodes(rows) + 1] < TokensOf(rows)
  <1> DEFINE N == Len(rows)
             d == NumDecodes(rows)
             C == QueryStartLoc(rows)
  <1>1. Rows(rows, n) /\ N \in Nat /\ n \in 1 .. N /\ n = N
    BY DEF Formed, Rows
  <1>2. \A b \in 1 .. N : rows[b].q \in Nat /\ rows[b].q >= 1
    <2> SUFFICES ASSUME NEW b \in 1 .. N PROVE rows[b].q \in Nat /\ rows[b].q >= 1
      OBVIOUS
    <2>1. rows[b].q \in Nat /\ rows[b].q > 0
      BY <1>1, RowTypes
    <2> QED
      BY <2>1
  <1>3. N \in 1 .. N
    BY <1>1
  <1>4. NumTokens(rows) = TokensOf(rows)
    BY <1>2, <1>3 DEF NumTokens, Last
  <1>5. d \in 0 .. N
    BY DecodeRows
  <1>6. /\ Lengths(QueryLens(rows)) /\ Len(QueryLens(rows)) = N /\ Offsets(C, QueryLens(rows))
        /\ \A b \in 1 .. N : QueryLens(rows)[b] = rows[b].q
        /\ TokensOf(rows) = C[N + 1]
    BY <1>1, QueryOffsets
  <1>7. NumDecodeTokens(rows) = C[d + 1]
    BY <1>4, <1>6 DEF NumDecodeTokens
  <1>8. d < N => C[d + 1] < C[N + 1]
    <2> SUFFICES ASSUME d < N PROVE C[d + 1] < C[N + 1]
      OBVIOUS
    <2> DEFINE lens == QueryLens(rows)
    <2>0. Lengths(lens) /\ Len(lens) = N /\ Offsets(C, lens)
      BY <1>6
    <2>1. N \in 0 .. Len(lens) /\ \A b \in 1 .. N : lens[b] >= 1
      BY <1>1, <1>2, <1>6
    <2> HIDE DEF C, d, N, lens
    <2>2. d + 1 \in 1 .. N + 1 /\ N + 1 \in 1 .. N + 1 /\ d + 1 <= N + 1
      BY <1>1, <1>5
    <2>3. C[d + 1] \in Nat /\ C[N + 1] \in Nat /\ C[d + 1] + (N + 1 - (d + 1)) <= C[N + 1]
      BY <2>0, <2>1, <2>2, OffsetsAtLeast
    <2> QED
      BY <1>1, <1>5, <2>3
  <1> QED
    BY <1>1, <1>2, <1>4, <1>6, <1>7, <1>8

\* Without a verify plan every decode row has one token.
LEMMA DecodeWidths ==
    ASSUME dep \in Deployments, NEW rows, NEW n, NEW g \in BOOLEAN, Formed(rows, n, g), ~HasVq(rows)
    PROVE  \A b \in 1 .. n : b <= NumDecodes(rows) => rows[b].q = 1
  <1> DEFINE N == Len(rows)
             d == NumDecodes(rows)
             C == QueryStartLoc(rows)
  <1>1. Rows(rows, n) /\ N \in Nat /\ n \in 1 .. N /\ d \in 0 .. N
    BY DecodeRows DEF Formed, Rows
  <1>2. d > 0 => ~(NumDecodeTokens(rows) > d)
    BY DEF HasVq
  <1>3. CASE g
    <2>1. Formed(rows, n, TRUE)
      BY <1>3 DEF Formed
    <2>2. NumDecodeTokens(rows) = N * rows[1].q /\ rows[1].q \in Nat \ {0}
      BY <2>1, GraphTokens
    <2>3. d = N
      BY <1>3, DecodeRows
    <2>4. rows[1].q = 1
      <3> DEFINE Q == rows[1].q
      <3>1. N \in Nat \ {0} /\ Q \in Nat \ {0} /\ ~(N * Q > N)
        BY <1>1, <1>2, <2>2, <2>3
      <3> HIDE DEF Q, N
      <3>2. Q >= 2 => FALSE
        <4> SUFFICES ASSUME Q >= 2 PROVE FALSE
          OBVIOUS
        <4>1. PICK e \in Nat : Q = e + 1
          <5>1. Q - 1 \in Nat /\ Q = Q - 1 + 1
            BY <3>1
          <5> QED
            BY <5>1
        <4>2. e >= 1 /\ N * Q = N * e + N
          BY <3>1, <4>1, SMTT(30)
        <4>3. PICK f \in Nat : e = f + 1
          <5>1. e - 1 \in Nat /\ e = e - 1 + 1
            BY <4>1, <4>2
          <5> QED
            BY <5>1
        <4>4. N * e = N * f + N
          BY <3>1, <4>3, SMTT(30)
        <4>5. N * f \in Nat
          BY <3>1, <4>3
        <4> QED
          BY <3>1, <4>2, <4>4, <4>5
      <3>3. Q = 1
        BY <3>1, <3>2
      <3> QED
        BY <3>3 DEF Q
    <2> QED
      BY <2>1, <2>4 DEF Formed
  <1>4. CASE ~g
    <2>1. Formed(rows, n, FALSE)
      BY <1>4 DEF Formed
    <2>2. NumDecodeTokens(rows) = C[d + 1] /\ n = N /\ \A b \in 1 .. N : rows[b].q \in Nat /\ rows[b].q >= 1
      BY <2>1, EagerTokens
    <2>3. SUFFICES ASSUME NEW b \in 1 .. n, b <= d, rows[b].q # 1 PROVE FALSE
      OBVIOUS
    <2> DEFINE lens == QueryLens(rows)
    <2>4. /\ Lengths(lens) /\ Len(lens) = N /\ Offsets(C, lens) /\ C[1] = 0
          /\ \A r \in 1 .. N : lens[r] = rows[r].q /\ C[r + 1] = C[r] + rows[r].q
      BY <1>1, QueryOffsets
    <2>5. b \in 1 .. d /\ d > 0 /\ d \in 0 .. Len(lens) /\ d \in Nat /\ b \in 1 .. N
      BY <1>1, <2>2, <2>3, <2>4
    <2>6. \A r \in 1 .. d : lens[r] >= 1
      <3>1. \A r \in 1 .. d : r \in 1 .. N
        BY <1>1
      <3> QED
        BY <2>2, <2>4, <3>1
    <2>7. d + 1 \in 1 .. N + 1
      BY <1>1, <2>5
    <2>8. C[d + 1] \in Nat
      BY <1>1, <2>7, QueryOffsets
    <2>9. C[d + 1] <= d
      BY <1>2, <2>2, <2>5, <2>8
    <2>10. lens[b] = 1
      BY <2>4, <2>5, <2>6, <2>9, OnesOnly
    <2> QED
      BY <2>3, <2>4, <2>5, <2>10
  <1> QED
    BY <1>3, <1>4

\* The launches of a step.
Kernels(rows, g) == IF g THEN Captured(rows) ELSE Route(rows)

\* A launch over the decode rows of a batch.
DecodeLaunch(rows, n, l) ==
    LET d == NumDecodes(rows) IN
    \/ ~HasVq(rows) /\ \E fresh \in BOOLEAN : l = DecodeAttention(1, d, fresh)
    \/ /\ HasVq(rows)
       /\ \E tokens, qlen \in Nat :
             /\ l = VerifyAttention(1, d, tokens, qlen, FALSE)
             /\ qlen >= 2 => dep.causal /\ \A b \in 1 .. n : b <= d => rows[b].q = qlen

\* The largest of a batch's query lengths bounds each.
LEMMA MaxQueryBound ==
    ASSUME NEW rows, NEW n, Rows(rows, n), MaxQueryLen(rows) <= 1
    PROVE  \A b \in 1 .. Len(rows) : rows[b].q <= 1
  <1> DEFINE S == {rows[b].q : b \in DOMAIN rows}
             Bounds == {m \in Nat : \A x \in S : x <= m}
  <1>1. DOMAIN rows = 1 .. Len(rows) /\ Len(rows) \in Nat /\ 1 \in 1 .. Len(rows)
    BY DEF Rows
  <1>2. MaxModelLen \in Nat /\ \A x \in S : x \in Nat /\ x <= MaxModelLen
    <2>1. MaxModelLen \in Nat
      BY AttentionAssumption
    <2>2. ASSUME NEW b \in 1 .. Len(rows) PROVE rows[b].q \in Nat /\ rows[b].q <= MaxModelLen
      <3>1. rows[b].q \in Nat /\ rows[b].s \in Nat /\ rows[b].q <= rows[b].s /\ rows[b].s <= MaxModelLen
        BY RowTypes
      <3> QED
        BY <2>1, <3>1
    <2> QED
      BY <1>1, <2>1, <2>2
  <1>3. rows[1].q \in S
    BY <1>1
  <1> HIDE DEF S
  <1>4. PICK m \in Bounds : \A y \in Bounds : m <= y
    <2>1. MaxModelLen \in Bounds /\ Bounds \subseteq Nat
      BY <1>2
    <2> HIDE DEF Bounds
    <2> QED
      BY <2>1, LeastNat
  <1>5. m \in S
    <2>1. CASE m = 0
      <3>1. rows[1].q = 0
        BY <1>2, <1>3, <1>4, <2>1
      <3> QED
        BY <1>3, <2>1, <3>1
    <2>2. CASE m # 0
      <3>1. m - 1 \in Nat /\ ~(m <= m - 1)
        BY <1>4, <2>2
      <3>2. PICK x \in S : ~(x <= m - 1)
        BY <1>4, <3>1
      <3>3. x = m
        BY <1>2, <1>4, <3>2
      <3> QED
        BY <3>2, <3>3
    <2> QED
      BY <2>1, <2>2
  <1>6. \A x \in S : m >= x
    BY <1>2, <1>4
  <1>7. Max(S) \in S /\ \A x \in S : Max(S) >= x
    BY <1>5, <1>6 DEF Max
  <1>8. Max(S) <= 1
    BY DEF MaxQueryLen, S
  <1>9. \A x \in S : x <= 1
    BY <1>2, <1>7, <1>8
  <1> QED
    BY <1>1, <1>9 DEF S

\* _decode_path and _verify_decode_path launch over the decode rows.
LEMMA PortionLaunch ==
    ASSUME dep \in Deployments, NEW rows, NEW n, NEW g \in BOOLEAN, Formed(rows, n, g), NEW fresh \in BOOLEAN
    PROVE  DecodeLaunch(rows, n, DecodePortion(rows, fresh))
  <1> DEFINE d == NumDecodes(rows)
  <1>1. CASE HasVq(rows)
    <2> DEFINE l == VerifyAttention(1, d, NumDecodeTokens(rows), VqQlen(rows), FALSE)
    <2>1. NumDecodeTokens(rows) \in Nat
      BY TokenCounts
    <2>2. 1 \in 1 .. Len(rows)
      BY DEF Formed, Rows
    <2>3. rows[1].q \in Nat
      BY <2>2, RowTypes DEF Formed
    <2>4. VqQlen(rows) \in Nat
      BY <2>3 DEF VqQlen
    <2>5. VqQlen(rows) >= 2 => dep.causal /\ \A b \in 1 .. n : b <= d => rows[b].q = VqQlen(rows)
      <3> SUFFICES ASSUME VqQlen(rows) >= 2 PROVE dep.causal /\ \A b \in 1 .. n : b <= d => rows[b].q = VqQlen(rows)
        OBVIOUS
      <3>1. VqQlen(rows) # 0
        BY <2>4
      <3>2. /\ \A b \in 1 .. NumDecodes(rows) : rows[b].q = rows[1].q
            /\ dep.causal /\ VqQlen(rows) = rows[1].q
        BY <3>1 DEF VqQlen
      <3>3. d \in Nat /\ n \in Nat
        BY DecodeRows DEF Formed, Rows
      <3>4. \A b \in 1 .. n : b <= d => b \in 1 .. d
        BY <3>3
      <3> QED
        BY <3>2, <3>4
    <2>6. DecodePortion(rows, fresh) = l
      BY <1>1 DEF DecodePortion
    <2> QED
      BY <1>1, <2>1, <2>4, <2>5, <2>6 DEF DecodeLaunch
  <1>2. CASE ~HasVq(rows)
    BY <1>2 DEF DecodeLaunch, DecodePortion
  <1> QED
    BY <1>1, <1>2

\* The launches of a step, in order.
Launches(rows, n, K) ==
    LET d == NumDecodes(rows) IN
    \/ d = Len(rows) /\ \E l : K = <<l>> /\ DecodeLaunch(rows, n, l)
    \/ d = 0 /\ n = Len(rows) /\ K = <<PrefillPortion(rows)>>
    \/ /\ d # 0 /\ d # Len(rows) /\ n = Len(rows)
       /\ \E l : K = <<l, PrefillPortion(rows)>> /\ DecodeLaunch(rows, n, l)

\* forward launches for the decode rows, the others, or first the one and
\* then the other.
LEMMA EagerLaunches ==
    ASSUME dep \in Deployments, NEW rows, NEW n, Formed(rows, n, FALSE)
    PROVE  Launches(rows, n, Route(rows))
  <1> DEFINE N == Len(rows)
             d == NumDecodes(rows)
  <1>1. Rows(rows, n) /\ N \in Nat /\ n = N /\ d \in 0 .. N /\ n \in 1 .. N
    BY DecodeRows DEF Formed, Rows
  <1>2. \A f \in BOOLEAN : DecodeLaunch(rows, n, DecodePortion(rows, f))
    BY PortionLaunch
  <1>3. CASE d = N
    <2>1. NumDecodeTokens(rows) = NumTokens(rows)
      BY <1>3 DEF NumDecodeTokens
    <2>2. Route(rows) = <<DecodePortion(rows, FALSE)>>
      BY <2>1 DEF Route
    <2>3. DecodeLaunch(rows, n, DecodePortion(rows, FALSE))
      BY <1>2
    <2> QED
      BY <1>3, <2>2, <2>3 DEF Launches
  <1>4. CASE d # N
    <2>1. d + 1 \in 1 .. N /\ d < N
      BY <1>1, <1>4
    <2>2. /\ NumDecodeTokens(rows) = QueryStartLoc(rows)[d + 1] /\ NumTokens(rows) = TokensOf(rows)
          /\ QueryStartLoc(rows)[d + 1] < TokensOf(rows)
      BY <2>1, EagerTokens
    <2>3. NumDecodeTokens(rows) \in Nat /\ TokensOf(rows) \in Nat
      BY TokenCounts
    <2>4. NumDecodeTokens(rows) # NumTokens(rows)
      BY <2>2, <2>3
    <2>5. ~(MaxQueryLen(rows) <= 1)
      <3> SUFFICES ASSUME MaxQueryLen(rows) <= 1 PROVE FALSE
        OBVIOUS
      <3>1. rows[d + 1].q <= 1 /\ rows[d + 1].q \in Nat
        BY <1>1, <2>1, MaxQueryBound, RowTypes
      <3>2. Threshold \in Nat \ {0}
        BY ThresholdType
      <3>3. rows[d + 1].q <= Threshold
        BY <3>1, <3>2
      <3>4. d + 1 <= d
        BY <2>1, <3>3, DecodeRows
      <3> QED
        BY <1>1, <3>4
    <2>6. CASE d = 0
      <3>1. Route(rows) = <<PrefillPortion(rows)>>
        BY <2>4, <2>5, <2>6 DEF Route
      <3> QED
        BY <1>1, <2>6, <3>1 DEF Launches
    <2>7. CASE d # 0
      <3>1. Route(rows) = <<DecodePortion(rows, TRUE), PrefillPortion(rows)>>
        BY <2>4, <2>5, <2>7 DEF Route
      <3>2. DecodeLaunch(rows, n, DecodePortion(rows, TRUE))
        BY <1>2
      <3> QED
        BY <1>1, <1>4, <2>7, <3>1, <3>2 DEF Launches
    <2> QED
      BY <2>6, <2>7
  <1> QED
    BY <1>3, <1>4

\* A graph was captured with rows of the same width, so it holds the launches
\* that suit the batch it is replayed for.
LEMMA GraphLaunches ==
    ASSUME dep \in Deployments, NEW rows, NEW n, Formed(rows, n, TRUE)
    PROVE  Launches(rows, n, Captured(rows))
  <1> DEFINE N == Len(rows)
             Q == rows[1].q
             cap == [b \in DOMAIN rows |-> [q |-> Q, s |-> MaxModelLen]]
             lens == QueryLens(cap)
  <1>1. Rows(rows, n) /\ N \in Nat \ {0} /\ n \in 1 .. N /\ NumDecodes(rows) = N /\ DOMAIN rows = 1 .. N
    <2>1. Rows(rows, n) /\ N \in Nat /\ n \in 1 .. N /\ DOMAIN rows = 1 .. N
      BY DEF Formed, Rows
    <2>2. NumDecodes(rows) = N
      BY DecodeRows
    <2> QED
      BY <2>1, <2>2
  <1>2. PICK q \in Nat \ {0} : q = Q /\ NumDecodeTokens(rows) = N * q
    BY GraphTokens
  <1>3. q <= Threshold
    <2>1. Q \in {1, Threshold} /\ Threshold \in Nat \ {0}
      BY ThresholdType DEF Formed
    <2> QED
      BY <1>2, <2>1
  <1>4. /\ cap = [b \in 1 .. N |-> [q |-> q, s |-> MaxModelLen]] /\ Len(cap) = N /\ DOMAIN cap = 1 .. N
        /\ \A b \in 1 .. N : cap[b].q = q
    BY <1>1, <1>2
  <1> HIDE DEF cap
  <1>5. NumDecodes(cap) = N
    <2>1. {b \in DOMAIN cap : cap[b].q <= Threshold} = 1 .. N
      BY <1>3, <1>4
    <2>2. Cardinality(1 .. N) = N
      <3>1. 1 \in Int /\ N \in Int /\ ~(1 > N) /\ N - 1 + 1 = N
        BY <1>1
      <3> QED
        BY <3>1, FS_Interval
    <2> QED
      BY <2>1, <2>2 DEF NumDecodes
  <1>6. TokensOf(cap) = N * q
    <2>1. lens = [b \in 1 .. N |-> q]
      BY <1>4 DEF QueryLens
    <2>2. Len(lens) = N /\ \A b \in 1 .. N : lens[b] = q
      BY <1>1, <2>1
    <2>3. Lengths(lens)
      BY <1>1, <2>2 DEF Lengths
    <2>4. Offsets(CumSum(lens), lens)
      BY <2>3, CumSumOffsets
    <2>5. TokensOf(cap) = CumSum(lens)[N + 1]
      <3> DEFINE c == CumSum(lens)
      <3>1. Len(c) = N + 1
        BY <2>2, <2>4 DEF Offsets
      <3> HIDE DEF c
      <3>2. Last(c) = c[N + 1]
        BY <3>1 DEF Last
      <3> QED
        BY <3>2 DEF TokensOf, QueryStartLoc, c
    <2>6. N \in 0 .. Len(lens)
      BY <1>1, <2>2
    <2>7. \A b \in 1 .. N : lens[b] = q
      BY <2>2
    <2>8. q \in Nat
      OBVIOUS
    <2> HIDE DEF lens, N
    <2>9. CumSum(lens)[N + 1] = N * q
      BY <2>3, <2>4, <2>6, <2>7, <2>8, UniformTotal, ZenonT(60)
    <2> QED
      BY <2>5, <2>9
  <1>7. NumTokens(cap) = N * q
    <2>1. Last(cap).q = q
      <3>1. N \in 1 .. N /\ Last(cap) = cap[N]
        BY <1>1, <1>4 DEF Last
      <3> QED
        BY <1>4, <3>1
    <2> QED
      BY <1>2, <1>6, <2>1 DEF NumTokens
  <1>8. NumDecodeTokens(cap) = NumDecodeTokens(rows)
    BY <1>2, <1>4, <1>5, <1>7 DEF NumDecodeTokens
  <1>9. HasVq(cap) <=> HasVq(rows)
    BY <1>1, <1>5, <1>8 DEF HasVq
  <1>10. Captured(rows) = <<DecodePortion(cap, FALSE)>>
    <2>1. NumDecodeTokens(cap) = NumTokens(cap)
      BY <1>4, <1>5 DEF NumDecodeTokens
    <2>2. Captured(rows) = Route(cap)
      BY DEF Captured, cap
    <2> QED
      BY <2>1, <2>2 DEF Route
  <1>11. DecodeLaunch(rows, n, DecodePortion(cap, FALSE))
    <2>1. CASE HasVq(rows)
      <3> DEFINE w == VqQlen(cap)
                 e == NumDecodeTokens(rows)
      <3>1. DecodePortion(cap, FALSE) = VerifyAttention(1, N, e, w, FALSE)
        BY <1>5, <1>8, <1>9, <2>1 DEF DecodePortion
      <3>2. w \in {0, q} /\ (w # 0 => dep.causal)
        <4>1. 1 \in 1 .. N
          BY <1>1
        <4>2. cap[1].q = q
          BY <1>4, <4>1
        <4> QED
          BY <4>2 DEF VqQlen
      <3>3. \A b \in 1 .. n : rows[b].q = q
        BY <1>2 DEF Formed
      <3>4. e \in Nat /\ w \in Nat
        BY <1>2, <3>2, TokenCounts
      <3>5. w >= 2 => dep.causal /\ \A b \in 1 .. n : b <= N => rows[b].q = w
        BY <3>2, <3>3
      <3> HIDE DEF w, e
      <3> QED
        BY <1>1, <2>1, <3>1, <3>4, <3>5 DEF DecodeLaunch
    <2>2. CASE ~HasVq(rows)
      <3>1. DecodePortion(cap, FALSE) = DecodeAttention(1, N, FALSE)
        BY <1>5, <1>9, <2>2 DEF DecodePortion
      <3> QED
        BY <1>1, <2>2, <3>1 DEF DecodeLaunch
    <2> QED
      BY <2>1, <2>2
  <1> QED
    BY <1>1, <1>10, <1>11 DEF Launches

\* The launches of a step, replayed from a graph or not.
LEMMA StepLaunches ==
    ASSUME dep \in Deployments, NEW rows, NEW n, NEW g \in BOOLEAN, Formed(rows, n, g)
    PROVE  Launches(rows, n, Kernels(rows, g))
  BY EagerLaunches, GraphLaunches DEF Kernels, Formed

-----------------------------------------------------------------------------
(* The launches' cells.                                                     *)

\* A product orders as its factor does.
LEMMA MoreTimes ==
    ASSUME NEW a \in Nat, NEW b \in Nat, a <= b, NEW m \in Nat
    PROVE  a * m \in Nat /\ b * m \in Nat /\ a * m <= b * m
  <1>1. PICK c \in Nat : b = a + c
    <2>1. b - a \in Nat /\ b = a + (b - a)
      OBVIOUS
    <2> QED
      BY <2>1
  <1>2. b * m = a * m + c * m
    BY <1>1, SMTT(30)
  <1>3. a * m \in Nat /\ c * m \in Nat
    OBVIOUS
  <1> QED
    BY <1>2, <1>3

\* Lengths bounded by m up to row k, and nothing behind it.
LEMMA OffsetsAtMost ==
    ASSUME NEW lens, Lengths(lens), NEW C, Offsets(C, lens), NEW m \in Nat, NEW k \in 0 .. Len(lens),
           \A b \in 1 .. k : lens[b] <= m, \A b \in k + 1 .. Len(lens) : lens[b] = 0, NEW i \in 1 .. Len(lens) + 1
    PROVE  C[i] \in Nat /\ C[i] <= k * m
  <1> DEFINE N == Len(lens)
  <1>1. N \in Nat /\ k \in Nat /\ k <= N /\ \A b \in 1 .. N + 1 : C[b] \in Nat
    BY DEF Lengths, Offsets
  <1>2. \A b \in 1 .. N : C[b + 1] = C[b] + lens[b] /\ lens[b] \in Nat
    BY DEF Offsets, Lengths
  <1>3. \A b \in 1 .. k + 1 : C[b] <= (b - 1) * m
    <2> DEFINE Bad == {b \in 1 .. k + 1 : ~(C[b] <= (b - 1) * m)}
    <2> SUFFICES ASSUME Bad # {} PROVE FALSE
      OBVIOUS
    <2>1. PICK b \in Bad : \A y \in Bad : b <= y
      <3>1. Bad \subseteq Nat
        BY <1>1
      <3> HIDE DEF Bad
      <3> QED
        BY <3>1, LeastNat
    <2>2. b # 1
      <3>1. C[1] = 0 /\ (1 - 1) * m = 0
        BY DEF Offsets
      <3> QED
        BY <2>1, <3>1
    <2>3. PICK a \in Nat : b = a + 2
      <3>1. b - 2 \in Nat /\ b = b - 2 + 2
        BY <1>1, <2>1, <2>2
      <3> QED
        BY <3>1
    <2>4. a + 1 \in 1 .. k /\ a + 1 \in 1 .. N /\ a + 1 \in 1 .. k + 1 /\ ~(b <= a + 1) /\ a + 1 + 1 = b
          /\ a + 1 - 1 = a /\ b - 1 = a + 1
          /\ b \in 1 .. N + 1 /\ a + 1 \in 1 .. N + 1
      BY <1>1, <2>1, <2>3
    <2>5. C[a + 1] <= a * m
      <3>1. a + 1 \notin Bad
        BY <2>1, <2>4
      <3> QED
        BY <2>4, <3>1
    <2>6. (a + 1) * m = a * m + m
      BY SuccTimes
    <2>7. C[b] = C[a + 1] + lens[a + 1] /\ lens[a + 1] <= m /\ lens[a + 1] \in Nat
      BY <1>2, <2>4
    <2>8. ~(C[b] <= (a + 1) * m)
      BY <2>1, <2>4
    <2>9. C[b] \in Nat /\ C[a + 1] \in Nat /\ a * m \in Nat
      BY <1>1, <2>4
    <2> QED
      BY <2>5, <2>6, <2>7, <2>8, <2>9, SMTT(30)
  <1>4. C[k + 1] <= k * m
    <2>1. k + 1 \in 1 .. k + 1 /\ k + 1 - 1 = k
      BY <1>1
    <2> QED
      BY <1>3, <2>1
  <1>5. \A b \in k + 1 .. N + 1 : C[b] = C[k + 1]
    <2> DEFINE Bad == {b \in k + 1 .. N + 1 : C[b] # C[k + 1]}
    <2> SUFFICES ASSUME Bad # {} PROVE FALSE
      OBVIOUS
    <2>1. PICK b \in Bad : \A y \in Bad : b <= y
      <3>1. Bad \subseteq Nat
        BY <1>1
      <3> HIDE DEF Bad
      <3> QED
        BY <3>1, LeastNat
    <2>2. b # k + 1
      BY <2>1
    <2>3. b - 1 \in k + 1 .. N /\ b - 1 + 1 = b /\ ~(b <= b - 1) /\ b - 1 \in 1 .. N /\ b - 1 \in 1 .. N + 1
      BY <1>1, <2>1, <2>2
    <2>4. C[b - 1] = C[k + 1]
      <3>1. b - 1 \notin Bad /\ b - 1 \in k + 1 .. N + 1
        BY <1>1, <2>1, <2>3
      <3> QED
        BY <3>1
    <2>5. C[b] = C[b - 1] + lens[b - 1] /\ lens[b - 1] = 0 /\ C[b - 1] \in Nat
      BY <1>1, <1>2, <2>3
    <2> QED
      BY <2>1, <2>4, <2>5
  <1>6. k * m \in Nat
    BY <1>1
  <1>7. CASE i <= k + 1
    <2>1. i \in 1 .. k + 1 /\ i - 1 \in Nat /\ i - 1 <= k
      BY <1>1, <1>7
    <2>2. C[i] <= (i - 1) * m
      BY <1>3, <2>1
    <2>3. (i - 1) * m \in Nat /\ (i - 1) * m <= k * m
      BY <1>1, <2>1, MoreTimes
    <2>4. C[i] \in Nat
      BY <1>1
    <2> DEFINE u == (i - 1) * m
               v == k * m
    <2>5. u \in Nat /\ v \in Nat /\ C[i] <= u /\ u <= v
      BY <1>6, <2>2, <2>3
    <2> HIDE DEF u, v
    <2>6. C[i] <= v
      BY <2>4, <2>5
    <2> QED
      BY <2>4, <2>6 DEF v
  <1>8. CASE ~(i <= k + 1)
    <2>1. i \in k + 1 .. N + 1
      BY <1>1, <1>8
    <2> QED
      BY <1>1, <1>4, <1>5, <2>1
  <1> QED
    BY <1>7, <1>8

\* The plan holds an entry for every decode token.
LEMMA FilledFits ==
    ASSUME dep \in Deployments, NEW rows, NEW n, NEW g \in BOOLEAN, Formed(rows, n, g)
    PROVE  QueryStartLoc(rows)[NumDecodes(rows) + 1] <= NumDecodeTokens(rows)
  <1> DEFINE N == Len(rows)
             d == NumDecodes(rows)
             C == QueryStartLoc(rows)
  <1>1. CASE ~g
    <2>1. Formed(rows, n, FALSE)
      BY <1>1 DEF Formed
    <2>2. NumDecodeTokens(rows) = C[d + 1]
      BY <2>1, EagerTokens
    <2>3. NumDecodeTokens(rows) \in Nat
      BY TokenCounts
    <2> QED
      BY <2>2, <2>3
  <1>2. CASE g
    <2>1. Formed(rows, n, TRUE) /\ Rows(rows, n) /\ d = N
      BY <1>2, DecodeRows DEF Formed
    <2>2. NumDecodeTokens(rows) = N * rows[1].q /\ rows[1].q \in Nat \ {0}
      BY <2>1, GraphTokens
    <2>3. PICK q \in Nat : q = rows[1].q
      BY <2>2
    <2>4. N \in Nat /\ n \in 1 .. N /\ \A b \in 1 .. n : rows[b].q = q
      BY <2>1, <2>3 DEF Formed, Rows
    <2> DEFINE lens == QueryLens(rows)
    <2>5. Lengths(lens) /\ Len(lens) = N /\ Offsets(C, lens) /\ \A b \in 1 .. N : lens[b] = rows[b].q
      BY <2>1, QueryOffsets
    <2>6. \A b \in 1 .. N : lens[b] <= q
      <3> SUFFICES ASSUME NEW b \in 1 .. N PROVE lens[b] <= q
        OBVIOUS
      <3>1. rows[b].q \in Nat /\ (b <= n <=> rows[b].q > 0)
        BY <2>1, RowTypes
      <3>2. CASE b <= n
        BY <2>4, <2>5, <3>2
      <3>3. CASE ~(b <= n)
        BY <2>5, <3>1, <3>3
      <3> QED
        BY <3>2, <3>3
    <2>7. Lengths(lens)
      BY <2>5
    <2>8. Offsets(C, lens)
      BY <2>5
    <2>9. N \in 0 .. Len(lens) /\ N + 1 \in 1 .. Len(lens) + 1 /\ \A b \in N + 1 .. Len(lens) : lens[b] = 0
      BY <2>4, <2>5
    <2> HIDE DEF lens, C, N
    <2>10. C[N + 1] <= N * q
      BY <2>6, <2>7, <2>8, <2>9, OffsetsAtMost
    <2> QED
      BY <2>1, <2>2, <2>3, <2>10 DEF C, N
  <1> QED
    BY <1>1, <1>2

\* The row of one of a launch's tokens.
LEMMA LaunchToken ==
    ASSUME NEW rows, NEW n, Rows(rows, n), NEW lo \in 1 .. Len(rows), NEW hi \in 1 .. Len(rows), lo <= hi,
           NEW t \in QueryStartLoc(rows)[lo] .. QueryStartLoc(rows)[hi + 1] - 1
    PROVE  LET C == QueryStartLoc(rows)
               b == RowOf(C, t)
           IN  /\ t \in Nat /\ t < TokensOf(rows)
               /\ b \in lo .. hi /\ b \in 1 .. n /\ b \in 1 .. Len(rows)
               /\ C[b] \in Nat /\ t - C[b] \in 0 .. rows[b].q - 1 /\ C[b + 1] = C[b] + rows[b].q
  <1> DEFINE N == Len(rows)
             C == QueryStartLoc(rows)
             b == RowOf(C, t)
             lens == QueryLens(rows)
  <1>1. N \in Nat /\ \A k \in 1 .. N + 1 : C[k] \in Nat
    <2>1. N \in Nat
      BY DEF Rows
    <2> QED
      BY <2>1, QueryOffsets
  <1>2. Lengths(lens) /\ Len(lens) = N /\ Offsets(C, lens)
    BY QueryOffsets
  <1>3. \A k \in 1 .. N : C[k + 1] = C[k] + rows[k].q
    BY QueryOffsets
  <1>4. TokensOf(rows) = C[N + 1]
    BY QueryOffsets
  <1>5. /\ lo \in 1 .. N + 1 /\ hi + 1 \in 1 .. N + 1 /\ N + 1 \in 1 .. N + 1 /\ hi + 1 <= N + 1
    BY <1>1
  <1> HIDE DEF N, C, lens, b
  <1>6. \A k, m \in 1 .. N + 1 : k <= m => C[k] <= C[m]
    BY <1>2, OffsetsRise
  <1>7. C[lo] \in Nat /\ C[hi + 1] \in Nat /\ C[N + 1] \in Nat /\ C[hi + 1] <= C[N + 1]
    BY <1>1, <1>5, <1>6
  <1>8. t \in Nat /\ C[lo] <= t /\ t < C[hi + 1] /\ t < C[N + 1]
    <2>1. t \in C[lo] .. C[hi + 1] - 1
      BY DEF C
    <2> QED
      BY <1>7, <2>1
  <1>9. b \in 1 .. n /\ b \in 1 .. N /\ C[b] \in Nat /\ C[b] <= t /\ t < C[b] + rows[b].q
    BY <1>4, <1>8, TokenRow DEF b, C, N
  <1>10. rows[b].q \in Nat
    BY <1>9, RowTypes DEF N
  <1>11. b >= lo
    <2> SUFFICES ASSUME ~(b >= lo) PROVE FALSE
      OBVIOUS
    <2>1. b + 1 \in 1 .. N + 1 /\ b + 1 <= lo
      BY <1>1, <1>5, <1>9
    <2>2. C[b + 1] <= C[lo]
      BY <1>5, <1>6, <2>1
    <2>3. C[b + 1] = C[b] + rows[b].q
      BY <1>3, <1>9
    <2> QED
      BY <1>7, <1>8, <1>9, <1>10, <2>2, <2>3
  <1>12. b <= hi
    <2> SUFFICES ASSUME ~(b <= hi) PROVE FALSE
      OBVIOUS
    <2>1. b \in 1 .. N + 1 /\ hi + 1 <= b
      BY <1>1, <1>5, <1>9
    <2>2. C[hi + 1] <= C[b]
      BY <1>5, <1>6, <2>1
    <2> QED
      BY <1>7, <1>8, <1>9, <2>2
  <1>13. t - C[b] \in 0 .. rows[b].q - 1
    BY <1>8, <1>9, <1>10
  <1>14. b \in lo .. hi
    BY <1>1, <1>9, <1>11, <1>12
  <1> QED
    BY <1>3, <1>4, <1>8, <1>9, <1>13, <1>14 DEF b, C, N

\* What OutputsExact asks of the cells scored for token t.
WantedCells(cells, t) ==
    LET C == QueryStartLoc(inputs)
        b == RowOf(C, t)
    IN  \E keys \in Accepted(b, t - C[b]) : Exact(cells, b, keys)

\* A kernel that ignores the window scores every key up to the limit: right where
\* there is no window, and accepted in a row too long for a decode.
LEMMA Unwindowed ==
    ASSUME dep \in Deployments,
           NEW cells, NEW t, NEW b, NEW j, b = RowOf(QueryStartLoc(inputs), t), j = t - QueryStartLoc(inputs)[b],
           Limit(inputs, b, j) \in Nat, inputs[b].q > Threshold \/ dep.sliding_window = 0,
           Exact(cells, b, 0 .. Limit(inputs, b, j) - 1)
    PROVE  WantedCells(cells, t)
  <1> DEFINE limit == Limit(inputs, b, j)
             w == dep.sliding_window
  <1>1. KeysUpTo(b, j) = limit
    BY DEF KeysUpTo, Limit
  <1>2. w \in Nat /\ limit \in Nat
    BY AttentionAssumption
  <1>3. 0 .. limit - 1 \in Accepted(b, j)
    <2>1. CASE w = 0 \/ limit <= w
      <3>1. \A p \in 0 .. limit - 1 : InWindow(limit, p)
        <4> SUFFICES ASSUME NEW p \in 0 .. limit - 1 PROVE InWindow(limit, p)
          OBVIOUS
        <4> HIDE DEF limit
        <4> QED
          BY <1>2, <2>1 DEF InWindow
      <3>2. Wanted(b, j) = 0 .. limit - 1
        BY <1>1, <3>1 DEF Wanted
      <3> QED
        BY <3>2 DEF Accepted
    <2>2. CASE ~(w = 0 \/ limit <= w)
      <3>1. 0 < w /\ w < limit
        BY <1>2, <2>2
      <3>2. inputs[b].q > Threshold
        BY <2>2
      <3> QED
        BY <1>1, <3>1, <3>2 DEF Accepted
    <2> QED
      BY <2>1, <2>2
  <1> QED
    BY <1>3 DEF WantedCells

\* A kernel that applies the window scores its keys.
LEMMA Windowed ==
    ASSUME dep \in Deployments,
           NEW cells, NEW t, NEW b, NEW j, b = RowOf(QueryStartLoc(inputs), t), j = t - QueryStartLoc(inputs)[b],
           Limit(inputs, b, j) \in Nat,
           Exact(cells, b, WinStart(Limit(inputs, b, j)) .. Limit(inputs, b, j) - 1)
    PROVE  WantedCells(cells, t)
  <1> DEFINE limit == Limit(inputs, b, j)
             w == dep.sliding_window
             win == WinStart(limit)
  <1>1. KeysUpTo(b, j) = limit
    BY DEF KeysUpTo, Limit
  <1>2. w \in Nat /\ limit \in Nat
    BY AttentionAssumption
  <1>3. Wanted(b, j) = win .. limit - 1
    <2>1. win \in Nat /\ \A p \in Nat : InWindow(limit, p) <=> win <= p
      <3> SUFFICES win \in Nat /\ \A p \in Nat : (w = 0 \/ limit - w <= p) <=> win <= p
        BY DEF InWindow
      <3>1. win = IF w > 0 THEN (IF limit - w > 0 THEN limit - w ELSE 0) ELSE 0
        <4>1. limit - w \in Int
          BY <1>2
        <4> QED
          BY <1>2, <4>1 DEF WinStart, Larger
      <3> HIDE DEF limit, w, win
      <3> QED
        BY <1>2, <3>1
    <2> HIDE DEF limit, win
    <2>2. \A p : p \in 0 .. limit - 1 => p \in Nat
      BY <1>2
    <2>3. \A p : p \in win .. limit - 1 <=> p \in 0 .. limit - 1 /\ win <= p
      BY <1>2, <2>1
    <2>4. \A p : p \in 0 .. limit - 1 /\ InWindow(limit, p) <=> p \in win .. limit - 1
      BY <2>1, <2>2, <2>3
    <2>5. Wanted(b, j) = {p \in 0 .. limit - 1 : InWindow(limit, p)}
      BY <1>1 DEF Wanted
    <2> QED
      BY <2>4, <2>5, Zenon
  <1>4. Wanted(b, j) \in Accepted(b, j)
    BY DEF Accepted
  <1> QED
    BY <1>3, <1>4 DEF WantedCells

\* What each kernel scores.
Index(l, t) == t - QueryStartLoc(inputs)[l.lo]
\* The rows of a launch, the key offsets it packs by, and the keys, the plan
\* entry and the last plan entry of a token's row.
Slice(l) == [n \in 1 .. l.hi - l.lo + 1 |-> inputs[l.lo + n - 1]]
PackedOffsets(l) == IF l.fresh THEN CumSum(SeqLens(Slice(l))) ELSE plan.cu_k
CausalKeys(t) ==
    LET C == QueryStartLoc(inputs)
        b == RowOf(C, t)
    IN  inputs[b].s - inputs[b].q + (t - C[b]) + 1
Entry(l, t) ==
    IF l.fresh THEN [req |-> RowOf(QueryStartLoc(inputs), t), len |-> CausalKeys(t)]
    ELSE plan.vq[Index(l, t) + 1]
Full(l, t) == plan.vq[(Index(l, t) \div l.qlen) * l.qlen + l.qlen].len

\* The fused kernel reads row lo + i.
LEMMA FusedCells ==
    ASSUME NEW l, NEW t, l.kernel = "fused"
    PROVE  Attended(l, t) = FusedDecode(l.lo + Index(l, t), inputs[l.lo + Index(l, t)].s)
  BY DEF Attended, Index

\* So does its split-K form, within the rows of the partial buffer.
LEMMA SplitCells ==
    ASSUME NEW l, NEW t, l.kernel = "split", (Index(l, t) + 1) * Hq <= MidRows
    PROVE  Attended(l, t) = SplitDecode(l.lo + Index(l, t), inputs[l.lo + Index(l, t)].s,
                                        inputs[l.lo + Index(l, t)].s, l.splits)
  BY DEF Attended, Index

\* The verify kernels read the row and the keys of the token's entry.
LEMMA VerifyCells ==
    ASSUME NEW l, NEW t
    PROVE  /\ l.kernel = "verify" => Attended(l, t) = FusedDecode(Entry(l, t).req, Entry(l, t).len)
           /\ l.kernel = "verify_split" =>
                  Attended(l, t) = SplitDecode(Entry(l, t).req, Entry(l, t).len, Entry(l, t).len, l.splits)
  BY DEF Attended, Index, Entry, CausalKeys

\* The shared kernel reads the last entry of a row and cuts the staircase.
LEMMA SharedCells ==
    ASSUME NEW l, NEW t, l.kernel = "shared"
    PROVE  Attended(l, t) = SplitDecode(l.lo + Index(l, t) \div l.qlen, Full(l, t),
                                        Full(l, t) - l.qlen + (Index(l, t) % l.qlen) + 1, l.splits)
  BY DEF Attended, Index, Full

\* The materialised path packs each row and attends all of it.
LEMMA MaterialisedCells ==
    ASSUME NEW l, NEW t, l.kernel = "materialised"
    PROVE  Attended(l, t) =
             FlashVarlen(PackedKV(inputs, l.lo, l.hi, PackedOffsets(l)), PackedOffsets(l)[Index(l, t) + 1],
                         PackedOffsets(l)[Index(l, t) + 2] - PackedOffsets(l)[Index(l, t) + 1])
  BY DEF Attended, Index, PackedOffsets, Slice

\* The packed path attends the causal part of each packed row.
LEMMA PackedCells ==
    ASSUME NEW l, NEW t, l.kernel = "packed", dep.causal
    PROVE  Attended(l, t) =
             FlashVarlen(PackedKV(inputs, l.lo, l.hi, PackedOffsets(l)),
                         PackedOffsets(l)[RowOf(QueryStartLoc(inputs), t) - l.lo + 1], CausalKeys(t))
  BY DEF Attended, PackedOffsets, Slice, CausalKeys

\* A prefill attends the tokens of the call itself.
LEMMA PrefillCells ==
    ASSUME NEW l, NEW t, l.kernel = "prefill", dep.causal
    PROVE  LET C == QueryStartLoc(inputs)
               b == RowOf(C, t)
           IN  Attended(l, t) = {<<0, b, inputs[b].s - inputs[b].q + n>> : n \in 0 .. t - C[b]}
  BY DEF Attended

\* The slow path attends the causal part of the row, from the cache.
LEMMA SlowCells ==
    ASSUME NEW l, NEW t, l.kernel = "slow"
    PROVE  Attended(l, t) = {<<0, RowOf(QueryStartLoc(inputs), t), p>> : p \in 0 .. CausalKeys(t) - 1}
  BY DEF Attended, CausalKeys

\* There is at least one split.
LEMMA SplitsType ==
    ASSUME dep \in Deployments
    PROVE  NumKvSplits \in Nat \ {0}
  <1>1. dep.num_kv_splits \in Nat
    BY AttentionAssumption
  <1> QED
    BY <1>1 DEF NumKvSplits

\* The scratch holds a step whose keys fit the cap.
LEMMA ScratchType ==
    ASSUME dep \in Deployments
    PROVE  /\ FaScratchRows \in Nat
           /\ dep.max_num_seqs * MaxModelLen <= dep.fa_scratch_cap => dep.max_num_seqs * MaxModelLen <= FaScratchRows
  <1> DEFINE p == dep.max_num_seqs * MaxModelLen
  <1>1. dep.max_num_seqs \in Nat /\ dep.fa_scratch_cap \in Nat /\ dep.fa_scratch_floor \in Nat
        /\ MaxModelLen \in Nat
    BY AttentionAssumption
  <1>2. p \in Nat
    BY <1>1
  <1> HIDE DEF p
  <1>3. FaScratchRows = LET cap == dep.fa_scratch_cap
                        IN  Larger(Larger(Smaller(p, cap), Smaller(MaxModelLen, cap)), dep.fa_scratch_floor)
    BY DEF FaScratchRows, p
  <1>4. FaScratchRows \in Nat /\ (p <= dep.fa_scratch_cap => p <= FaScratchRows)
    BY <1>1, <1>2, <1>3 DEF Larger, Smaller
  <1> QED
    BY <1>4 DEF p

\* A decode row of a batch without a verify plan is one token.
LEMMA DecodeToken ==
    ASSUME dep \in Deployments, NEW rows, NEW n, NEW g \in BOOLEAN, Formed(rows, n, g), ~HasVq(rows),
           NumDecodes(rows) \in 1 .. Len(rows),
           NEW t \in QueryStartLoc(rows)[1] .. QueryStartLoc(rows)[NumDecodes(rows) + 1] - 1
    PROVE  LET b == RowOf(QueryStartLoc(rows), t)
           IN  /\ b \in 1 .. NumDecodes(rows) /\ b \in 1 .. n
               /\ t = b - 1 /\ QueryStartLoc(rows)[1] = 0 /\ QueryStartLoc(rows)[b] = t
               /\ Limit(rows, b, 0) = rows[b].s /\ rows[b].s \in Nat \ {0}
  <1> DEFINE d == NumDecodes(rows)
             C == QueryStartLoc(rows)
             b == RowOf(C, t)
             lens == QueryLens(rows)
  <1>1. Rows(rows, n) /\ 1 \in 1 .. Len(rows) /\ 1 <= d
    BY DEF Formed, Rows
  <1>2. /\ t \in Nat /\ b \in 1 .. d /\ b \in 1 .. n /\ b \in 1 .. Len(rows)
        /\ C[b] \in Nat /\ t - C[b] \in 0 .. rows[b].q - 1
    BY <1>1, LaunchToken
  <1>3. \A r \in 1 .. n : r <= d => rows[r].q = 1
    BY DecodeWidths
  <1>4. rows[b].q = 1
    BY <1>2, <1>3
  <1>5. t = C[b]
    BY <1>2, <1>4
  <1>6. Lengths(lens) /\ Len(lens) = Len(rows) /\ Offsets(C, lens) /\ C[1] = 0
        /\ \A r \in 1 .. Len(rows) : lens[r] = rows[r].q
    BY <1>1, QueryOffsets
  <1>7. n \in Nat /\ n <= Len(rows) /\ Len(rows) \in Nat /\ d \in Nat
    BY <1>1, DecodeRows DEF Rows
  <1>8. \A r \in 1 .. b : lens[r] = 1
    <2> SUFFICES ASSUME NEW r \in 1 .. b PROVE lens[r] = 1
      OBVIOUS
    <2>1. r \in 1 .. n /\ r <= d /\ r \in 1 .. Len(rows)
      BY <1>2, <1>7
    <2> QED
      BY <1>3, <1>6, <2>1
  <1>9. C[b] = b - 1
    <2>1. Lengths(lens)
      BY <1>6
    <2>a. Offsets(C, lens)
      BY <1>6
    <2>b. PICK k \in 0 .. Len(lens) : b = k + 1
      <3>1. b - 1 \in 0 .. Len(lens) /\ b = b - 1 + 1
        BY <1>2, <1>6, <1>7
      <3> QED
        BY <3>1
    <2>c. PICK w \in Nat : w = 1
      OBVIOUS
    <2>d. \A r \in 1 .. k : lens[r] = w
      <3>1. k \in Nat /\ \A r \in 1 .. k : r \in 1 .. b
        BY <1>6, <1>7, <2>b
      <3> QED
        BY <1>8, <2>c, <3>1
    <2> HIDE DEF lens, C, b
    <2>3. C[k + 1] = k * w
      BY <2>1, <2>a, <2>d, UniformTotal, Zenon
    <2>4. k \in Nat
      BY <1>6, <1>7
    <2> QED
      BY <2>b, <2>c, <2>3, <2>4
  <1>10. rows[b].s \in Nat /\ rows[b].q <= rows[b].s
    BY <1>1, <1>2, RowTypes
  <1>11. Limit(rows, b, 0) = rows[b].s /\ rows[b].s # 0
    BY <1>4, <1>10 DEF Limit
  <1> QED
    BY <1>2, <1>5, <1>6, <1>9, <1>10, <1>11

\* The keys of the decode rows fit the packed scratch.
LEMMA PackedFits ==
    ASSUME dep \in Deployments, NEW rows, NEW n, NEW g \in BOOLEAN, Formed(rows, n, g),
           dep.max_num_seqs * MaxModelLen <= dep.fa_scratch_cap,
           NEW k \in 1 .. Len(rows), NEW lens, Lengths(lens), Len(lens) \in k .. Len(rows),
           \A r \in 1 .. Len(lens) : lens[r] = rows[r].s, NEW C, Offsets(C, lens)
    PROVE  C[k + 1] <= FaScratchRows
  <1> DEFINE m == IF n <= Len(lens) THEN n ELSE Len(lens)
  <1>1. Rows(rows, n) /\ n <= dep.max_num_seqs /\ Len(rows) \in Nat /\ n \in 1 .. Len(rows)
    BY DEF Formed, Rows
  <1>2. dep.max_num_seqs \in Nat /\ MaxModelLen \in Nat
    BY AttentionAssumption
  <1>3. m \in 0 .. Len(lens) /\ m \in Nat /\ m <= dep.max_num_seqs /\ k + 1 \in 1 .. Len(lens) + 1
        /\ Len(lens) \in Nat
    BY <1>1, <1>2
  <1>4. \A r \in 1 .. m : lens[r] <= MaxModelLen
    <2> SUFFICES ASSUME NEW r \in 1 .. m PROVE lens[r] <= MaxModelLen
      OBVIOUS
    <2>1. r \in 1 .. Len(lens) /\ r \in 1 .. Len(rows)
      BY <1>1, <1>3
    <2> QED
      BY <1>1, <2>1, RowTypes
  <1>5. \A r \in m + 1 .. Len(lens) : lens[r] = 0
    <2> SUFFICES ASSUME NEW r \in m + 1 .. Len(lens) PROVE lens[r] = 0
      OBVIOUS
    <2>1. r \in 1 .. Len(lens) /\ r \in n + 1 .. Len(rows)
      BY <1>1, <1>3
    <2>2. rows[r] = Blank
      BY <1>1, <2>1 DEF Rows
    <2> QED
      BY <2>1, <2>2 DEF Blank
  <1> HIDE DEF m
  <1>6. C[k + 1] \in Nat /\ C[k + 1] <= m * MaxModelLen
    BY <1>2, <1>3, <1>4, <1>5, OffsetsAtMost
  <1>7. m * MaxModelLen \in Nat /\ dep.max_num_seqs * MaxModelLen \in Nat
        /\ m * MaxModelLen <= dep.max_num_seqs * MaxModelLen
    BY <1>2, <1>3, MoreTimes
  <1>8. FaScratchRows \in Nat /\ dep.max_num_seqs * MaxModelLen <= FaScratchRows
    BY ScratchType
  <1> DEFINE u == m * MaxModelLen
             v == dep.max_num_seqs * MaxModelLen
  <1>9. u \in Nat /\ v \in Nat /\ C[k + 1] <= u /\ u <= v /\ v <= FaScratchRows
    BY <1>6, <1>7, <1>8
  <1> HIDE DEF u, v
  <1> QED
    BY <1>6, <1>8, <1>9

\* The key offsets of a launch's own rows.
LEMMA SliceLens ==
    ASSUME NEW rows, NEW n, Rows(rows, n), NEW lo \in 1 .. Len(rows), NEW hi \in 1 .. Len(rows), lo <= hi
    PROVE  LET lens == SeqLens([m \in 1 .. hi - lo + 1 |-> rows[lo + m - 1]])
           IN  /\ Lengths(lens) /\ Len(lens) = hi - lo + 1 /\ Offsets(CumSum(lens), lens)
               /\ \A m \in 1 .. hi - lo + 1 : lens[m] = rows[lo + m - 1].s
  <1> DEFINE lens == SeqLens([m \in 1 .. hi - lo + 1 |-> rows[lo + m - 1]])
  <1>1. lens = [m \in 1 .. hi - lo + 1 |-> rows[lo + m - 1].s]
    BY DEF SeqLens
  <1>2. hi - lo + 1 \in Nat /\ \A m \in 1 .. hi - lo + 1 : lo + m - 1 \in 1 .. Len(rows)
    BY DEF Rows
  <1> HIDE DEF lens
  <1>3. Len(lens) = hi - lo + 1 /\ \A m \in 1 .. hi - lo + 1 : lens[m] = rows[lo + m - 1].s
    BY <1>1, <1>2
  <1>4. Lengths(lens)
    <2> SUFFICES ASSUME NEW m \in 1 .. hi - lo + 1 PROVE lens[m] \in Nat
      BY <1>2, <1>3 DEF Lengths
    <2>1. rows[lo + m - 1].s \in Nat
      BY <1>2, RowTypes
    <2> QED
      BY <1>3, <2>1
  <1> QED
    BY <1>3, <1>4, CumSumOffsets DEF lens

\* The decode kernels, each of which serves rows of one token.
LEMMA DecodeAttentionExact ==
    ASSUME dep \in Deployments, NEW n, NEW g \in BOOLEAN, Formed(inputs, n, g), plan = PlanOf(inputs),
           ~HasVq(inputs), NumDecodes(inputs) \in 1 .. Len(inputs), NEW fresh \in BOOLEAN,
           ~dep.fused_decode => dep.max_num_seqs * MaxModelLen <= dep.fa_scratch_cap,
           ~dep.fused_decode => dep.sliding_window = 0,
           NEW t \in QueryStartLoc(inputs)[1] .. QueryStartLoc(inputs)[NumDecodes(inputs) + 1] - 1,
           NEW l, l = DecodeAttention(1, NumDecodes(inputs), fresh)
    PROVE  WantedCells(Attended(l, t), t)
  <1> DEFINE d == NumDecodes(inputs)
             C == QueryStartLoc(inputs)
             b == RowOf(C, t)
             s == inputs[b].s
  <1>1. /\ b \in 1 .. d /\ b \in 1 .. n /\ t = b - 1 /\ C[1] = 0 /\ C[b] = t
        /\ Limit(inputs, b, 0) = s /\ s \in Nat \ {0}
    BY DecodeToken
  <1>2. d \in Nat /\ d - 1 + 1 = d /\ 0 = t - C[b] /\ t \in Nat /\ b \in Nat /\ Len(inputs) \in Nat
    BY <1>1, DecodeRows
  <1>3. CASE DecodeSplits(d)
    <2>1. l = Launch("split", 1, d, NumKvSplits, 0, fresh)
      BY <1>2, <1>3 DEF DecodeAttention
    <2>2. l.kernel = "split" /\ l.lo = 1 /\ l.splits = NumKvSplits
      BY <2>1 DEF Launch
    <2>3. Index(l, t) = t /\ l.lo + Index(l, t) = b /\ Index(l, t) + 1 = b
      BY <1>1, <1>2, <2>2 DEF Index
    <2>4. b * Hq <= MidRows
      <3>1. d * Hq <= MidRows
        BY <1>3 DEF DecodeSplits, MidFits
      <3>2. Hq \in Nat /\ Hk \in Nat \ {0} /\ dep.sm_count \in Nat
        BY AttentionAssumption
      <3>3. MidRows \in Nat
        <4>1. dep.sm_count \div Hk \in Nat
          BY <3>2, SMTT(30)
        <4>2. (dep.sm_count \div Hk) * Hq \in Nat
          BY <3>2, <4>1
        <4> QED
          BY <3>2, <4>2 DEF MidRows, Larger
      <3>4. b * Hq \in Nat /\ d * Hq \in Nat /\ b * Hq <= d * Hq
        BY <1>1, <1>2, <3>2, MoreTimes
      <3> DEFINE u == b * Hq
                 v == d * Hq
      <3>5. u \in Nat /\ v \in Nat /\ u <= v /\ v <= MidRows
        BY <3>1, <3>4
      <3> HIDE DEF u, v
      <3>6. u <= MidRows
        BY <3>3, <3>5
      <3> QED
        BY <3>6 DEF u
    <2>5. Attended(l, t) = SplitDecode(b, s, s, NumKvSplits)
      BY <2>2, <2>3, <2>4, SplitCells
    <2>6. Exact(Attended(l, t), b, WinStart(s) .. s - 1)
      BY <1>1, <2>5, SplitExact, SplitsType
    <2> QED
      BY <1>1, <1>2, <2>6, Windowed
  <1>4. CASE ~DecodeSplits(d) /\ dep.fused_decode
    <2>1. l = Launch("fused", 1, d, 1, 0, fresh)
      BY <1>2, <1>4 DEF DecodeAttention
    <2>2. l.kernel = "fused" /\ l.lo = 1
      BY <2>1 DEF Launch
    <2>3. l.lo + Index(l, t) = b
      BY <1>1, <1>2, <2>2 DEF Index
    <2>4. Attended(l, t) = FusedDecode(b, s)
      BY <2>2, <2>3, FusedCells
    <2>5. Exact(Attended(l, t), b, WinStart(s) .. s - 1)
      BY <1>1, <2>4, FusedExact
    <2> QED
      BY <1>1, <1>2, <2>5, Windowed
  <1>5. CASE ~DecodeSplits(d) /\ ~dep.fused_decode
    <2>1. l = Launch("materialised", 1, d, 1, 0, fresh)
      BY <1>2, <1>5 DEF DecodeAttention
    <2>2. l.kernel = "materialised" /\ l.lo = 1 /\ l.hi = d /\ l.fresh = fresh
      BY <2>1 DEF Launch
    <2>3. Index(l, t) + 1 = b /\ Index(l, t) + 2 = b + 1
      BY <1>1, <1>2, <2>2 DEF Index
    <2>4. Rows(inputs, n) /\ 1 \in 1 .. Len(inputs) /\ 1 <= d
      BY <1>1, <1>2 DEF Formed, Rows
    <2>5. PICK lens : /\ Lengths(lens) /\ Len(lens) \in d .. Len(inputs) /\ Offsets(PackedOffsets(l), lens)
                      /\ \A r \in 1 .. Len(lens) : lens[r] = inputs[r].s
      <3>1. CASE fresh
        <4> DEFINE lens == SeqLens([m \in 1 .. d - 1 + 1 |-> inputs[1 + m - 1]])
        <4>1. /\ Lengths(lens) /\ Len(lens) = d - 1 + 1 /\ Offsets(CumSum(lens), lens)
              /\ \A m \in 1 .. d - 1 + 1 : lens[m] = inputs[1 + m - 1].s
          BY <2>4, SliceLens
        <4>2. PackedOffsets(l) = CumSum(lens)
          BY <2>2, <3>1 DEF PackedOffsets, Slice
        <4> HIDE DEF lens
        <4>3. Len(lens) = d /\ \A m \in 1 .. d : lens[m] = inputs[m].s
          <5>1. \A m \in 1 .. d : 1 + m - 1 = m
            BY <1>2
          <5> QED
            BY <1>2, <4>1, <5>1
        <4>4. d \in d .. Len(inputs)
          BY <1>2
        <4> QED
          BY <4>1, <4>2, <4>3, <4>4
      <3>2. CASE ~fresh
        <4> DEFINE lens == SeqLens(inputs)
        <4>1. PackedOffsets(l) = CumSum(lens)
          BY <2>2, <3>2 DEF PackedOffsets, PlanOf
        <4>2. lens = [r \in 1 .. Len(inputs) |-> inputs[r].s]
          <5>1. DOMAIN inputs = 1 .. Len(inputs)
            BY <2>4 DEF Rows
          <5> QED
            BY <5>1 DEF SeqLens
        <4> HIDE DEF lens
        <4>3. Len(lens) = Len(inputs) /\ \A r \in 1 .. Len(inputs) : lens[r] = inputs[r].s
          BY <1>2, <4>2
        <4>4. Lengths(lens)
          <5>1. \A r \in 1 .. Len(inputs) : inputs[r].s \in Nat
            BY <2>4, RowTypes
          <5> QED
            BY <1>2, <4>3, <5>1 DEF Lengths
        <4>5. Len(inputs) \in d .. Len(inputs)
          BY <1>2
        <4> QED
          BY <4>1, <4>3, <4>4, <4>5, CumSumOffsets
      <3> QED
        BY <3>1, <3>2
    <2> DEFINE P == PackedOffsets(l)
    <2>6. P[d + 1] <= FaScratchRows /\ FaScratchRows \in Nat
      BY <1>5, <2>5, PackedFits, ScratchType
    <2>7. b \in 1 .. Len(lens) /\ lens[b] = s
      BY <1>1, <1>2, <2>5
    <2>8. P[b + 1] = P[b] + s /\ P[b] \in Nat
      <3>1. b \in 1 .. Len(lens) + 1
        BY <2>7
      <3>2. Lengths(lens) /\ Offsets(P, lens)
        BY <2>5
      <3> HIDE DEF P
      <3>3. P[b] \in Nat
        BY <3>1, <3>2, OffsetsRise
      <3>4. P[b + 1] = P[b] + lens[b]
        BY <2>7, <3>2 DEF Offsets
      <3> QED
        BY <2>7, <3>3, <3>4
    <2>9. P[b + 1] - P[b] = s
      BY <1>1, <2>8
    <2> HIDE DEF P
    <2>10. Attended(l, t) = FlashVarlen(PackedKV(inputs, 1, d, P), P[b], s)
      BY <2>2, <2>3, <2>9, MaterialisedCells DEF P
    <2>11. Exact(Attended(l, t), b, 0 .. s - 1)
      <3>1. /\ 1 \in Nat /\ d \in Nat /\ 1 <= d /\ Len(lens) >= d - 1 + 1 /\ d - 1 + 2 = d + 1
            /\ b - 1 + 1 = b /\ s \in 0 .. s
        BY <1>1, <1>2, <2>4, <2>5
      <3>2. \A k \in 1 .. d - 1 + 1 : lens[k] = inputs[1 + k - 1].s
        <4> SUFFICES ASSUME NEW k \in 1 .. d - 1 + 1 PROVE lens[k] = inputs[1 + k - 1].s
          OBVIOUS
        <4>1. k \in 1 .. Len(lens) /\ 1 + k - 1 = k
          BY <1>2, <2>5
        <4> QED
          BY <2>5, <4>1
      <3>3. Lengths(lens) /\ Offsets(P, lens)
        BY <2>5 DEF P
      <3>4. P[d - 1 + 2] <= FaScratchRows
        BY <2>6, <3>1 DEF P
      <3>5. Exact(FlashVarlen(PackedKV(inputs, 1, d, P), P[b - 1 + 1], s), b, 0 .. s - 1)
        BY <1>1, <2>6, <3>1, <3>2, <3>3, <3>4, PackedExact
      <3> QED
        BY <2>10, <3>1, <3>5
    <2> QED
      BY <1>1, <1>2, <1>5, <2>11, Unwindowed
  <1> QED
    BY <1>3, <1>4, <1>5

\* Token t's entry of the plan, and the last entry of its row.
LEMMA PlanEntries ==
    ASSUME dep \in Deployments, NEW rows, NEW n, NEW g \in BOOLEAN, Formed(rows, n, g),
           NumDecodes(rows) \in 1 .. Len(rows),
           NEW t \in QueryStartLoc(rows)[1] .. QueryStartLoc(rows)[NumDecodes(rows) + 1] - 1
    PROVE  LET C == QueryStartLoc(rows)
               b == RowOf(C, t)
           IN  /\ C[1] = 0 /\ t \in Nat /\ b \in 1 .. NumDecodes(rows) /\ b \in 1 .. n /\ b \in 1 .. Len(rows)
               /\ C[b] \in Nat /\ t - C[b] \in 0 .. rows[b].q - 1 /\ C[b + 1] = C[b] + rows[b].q
               /\ Limit(rows, b, t - C[b]) \in 1 .. rows[b].s
               /\ VqPlan(rows)[t + 1] = [req |-> b, len |-> Limit(rows, b, t - C[b])]
               /\ VqPlan(rows)[C[b] + rows[b].q] = [req |-> b, len |-> rows[b].s]
  <1> DEFINE d == NumDecodes(rows)
             C == QueryStartLoc(rows)
             b == RowOf(C, t)
             last == C[b] + rows[b].q - 1
             T == NumDecodeTokens(rows)
  <1>1. Rows(rows, n) /\ 1 \in 1 .. Len(rows) /\ 1 <= d /\ d \in Nat /\ Len(rows) \in Nat
    BY DecodeRows DEF Formed, Rows
  <1>2. /\ t \in Nat /\ t < TokensOf(rows) /\ b \in 1 .. d /\ b \in 1 .. n /\ b \in 1 .. Len(rows)
        /\ C[b] \in Nat /\ t - C[b] \in 0 .. rows[b].q - 1 /\ C[b + 1] = C[b] + rows[b].q
    BY <1>1, LaunchToken
  <1>3. C[d + 1] \in Nat /\ C[d + 1] <= T /\ T \in Nat /\ TokensOf(rows) \in Nat /\ C[d + 1] <= TokensOf(rows)
    BY FilledFits, TokenCounts
  <1>4. C[1] = 0
    BY <1>1, QueryOffsets
  <1>5. rows[b].q \in Nat \ {0} /\ rows[b].s \in Nat /\ rows[b].q <= rows[b].s
    BY <1>1, <1>2, RowTypes
  <1>6. C[b + 1] <= C[d + 1] /\ C[b + 1] \in Nat
    <2> DEFINE lens == QueryLens(rows)
    <2>1. Lengths(lens) /\ Offsets(C, lens) /\ Len(lens) = Len(rows)
      BY <1>1, QueryOffsets
    <2>2. b + 1 \in 1 .. Len(lens) + 1 /\ d + 1 \in 1 .. Len(lens) + 1 /\ b + 1 <= d + 1
      BY <1>1, <1>2, <2>1
    <2> HIDE DEF lens, C, b, d
    <2>3. C[b + 1] \in Nat /\ C[d + 1] \in Nat /\ C[b + 1] <= C[d + 1]
      BY <2>1, <2>2, OffsetsRise
    <2> QED
      BY <2>3
  <1>7. t + 1 \in 1 .. T /\ t + 1 <= C[d + 1] /\ t + 1 - 1 = t
    <2>1. t \in C[1] .. C[d + 1] - 1
      OBVIOUS
    <2> QED
      BY <1>2, <1>3, <1>4, <2>1
  <1>8. last \in Nat /\ last + 1 \in 1 .. T /\ last + 1 <= C[d + 1] /\ last + 1 - 1 = last
        /\ last < TokensOf(rows)
        /\ C[b] <= last /\ last < C[b + 1] /\ last + 1 = C[b] + rows[b].q /\ last - C[b] = rows[b].q - 1
    <2> DEFINE u == C[b]
               v == rows[b].q
               w == C[d + 1]
               z == TokensOf(rows)
               y == C[b + 1]
    <2>1. /\ u \in Nat /\ v \in Nat \ {0} /\ w \in Nat /\ T \in Nat /\ z \in Nat /\ y \in Nat
          /\ y = u + v /\ w <= T /\ w <= z /\ y <= w
      BY <1>2, <1>3, <1>5, <1>6
    <2>2. last = u + v - 1
      OBVIOUS
    <2> HIDE DEF u, v, w, T, z, y, last
    <2>3. last \in Nat /\ last + 1 \in 1 .. T /\ last + 1 <= w /\ last + 1 - 1 = last /\ last < z
          /\ u <= last /\ last < y /\ last + 1 = u + v /\ last - u = v - 1
      BY <2>1, <2>2
    <2> QED
      BY <2>3 DEF u, v, w, z, y
  <1>9. VqPlan(rows)[t + 1] = VqEntry(rows, t)
    BY <1>7, VqTypes
  <1>10. VqEntry(rows, t) = [req |-> b, len |-> Limit(rows, b, t - C[b])]
         /\ Limit(rows, b, t - C[b]) \in 1 .. rows[b].s
    BY <1>1, <1>2, EntryRight
  <1> HIDE DEF last
  <1>11. VqPlan(rows)[last + 1] = VqEntry(rows, last)
    BY <1>8, VqTypes
  <1>12. RowOf(C, last) = b
    BY <1>1, <1>2, <1>8, TokenRow
  <1>13. VqEntry(rows, last) = [req |-> b, len |-> Limit(rows, b, last - C[b])]
    BY <1>1, <1>8, <1>12, EntryRight
  <1>14. Limit(rows, b, last - C[b]) = rows[b].s
    BY <1>5, <1>8, SMTT(30) DEF Limit
  <1> QED
    BY <1>2, <1>4, <1>8, <1>9, <1>10, <1>11, <1>13, <1>14

\* Quotient and remainder.
LEMMA QuotientOf ==
    ASSUME NEW a \in Nat, NEW q \in Nat \ {0}
    PROVE  a \div q \in Nat /\ a % q \in 0 .. q - 1 /\ a = q * (a \div q) + (a % q)
  <1>1. a \div q \in Nat
    OBVIOUS
  <1>2. a % q \in 0 .. q - 1
    OBVIOUS
  <1>3. a = q * (a \div q) + (a % q)
    OBVIOUS
  <1> QED
    BY <1>1, <1>2, <1>3

\* Rows of one width: a token's row and its place in the row.
LEMMA DivideToken ==
    ASSUME NEW q \in Nat \ {0}, NEW b \in Nat \ {0}, NEW j \in 0 .. q - 1, NEW t, t = (b - 1) * q + j
    PROVE  t \div q = b - 1 /\ t % q = j
  <1>1. PICK a \in Nat : a = b - 1
    OBVIOUS
  <1>2. t = a * q + j /\ a * q \in Nat
    BY <1>1
  <1>3. t \in Nat
    BY <1>2
  <1>4. t \div q \in Nat /\ t % q \in 0 .. q - 1 /\ t = q * (t \div q) + (t % q)
    BY <1>3, QuotientOf
  <1> DEFINE x == t \div q
             y == t % q
  <1>5. x \in Nat /\ y \in 0 .. q - 1 /\ x * q \in Nat /\ x * q + y = a * q + j
    <2>1. q * x = x * q
      BY <1>4, SMTT(30)
    <2>2. x * q \in Nat
      BY <1>4
    <2> QED
      BY <1>2, <1>4, <2>1, <2>2
  <1> HIDE DEF x, y
  <1>6. \A c, e \in Nat : c < e => c * q + q <= e * q
    <2> SUFFICES ASSUME NEW c \in Nat, NEW e \in Nat, c < e PROVE c * q + q <= e * q
      OBVIOUS
    <2>1. (c + 1) * q = c * q + q
      BY SuccTimes
    <2>2. c + 1 \in Nat /\ c + 1 <= e
      OBVIOUS
    <2>3. (c + 1) * q <= e * q
      BY <2>2, MoreTimes
    <2> QED
      BY <2>1, <2>3
  <1>7. ~(x < a) /\ ~(a < x)
    BY <1>2, <1>5, <1>6
  <1>8. x = a /\ y = j
    BY <1>2, <1>5, <1>7
  <1> QED
    BY <1>1, <1>8 DEF x, y

\* The decode rows are of width qlen, when there is one.
Width(rows, n, qlen) ==
    qlen >= 2 => dep.causal /\ \A r \in 1 .. n : r <= NumDecodes(rows) => rows[r].q = qlen

\* The fields of a launch.
LEMMA LaunchFields ==
    ASSUME NEW kernel, NEW lo, NEW hi, NEW splits, NEW qlen, NEW fresh,
           NEW l, l = Launch(kernel, lo, hi, splits, qlen, fresh)
    PROVE  /\ l.kernel = kernel /\ l.lo = lo /\ l.hi = hi /\ l.splits = splits /\ l.qlen = qlen
           /\ l.fresh = fresh
           /\ l.op = "launch"
  BY DEF Launch

\* The shared kernel's launch over the decode rows.
LEMMA SharedForm ==
    ASSUME dep \in Deployments, NEW d, NEW tokens, NEW qlen, SharedVerify(tokens, qlen), NEW fresh,
           NEW l, l = VerifyAttention(1, d, tokens, qlen, fresh)
    PROVE  l.kernel = "shared" /\ l.lo = 1 /\ l.hi = d /\ l.splits \in Nat \ {0} /\ l.qlen = qlen
  <1> DEFINE fills == MaxBlocks >= SplitBlocks /\ (tokens \div qlen) * Hk <= dep.sm_count
             splits == IF fills THEN NumKvSplits ELSE 1
  <1>1. l = Launch("shared", 1, d, splits, qlen, FALSE)
    BY DEF VerifyAttention
  <1>2. splits \in Nat \ {0}
    BY SplitsType
  <1> HIDE DEF splits
  <1>3. l.kernel = "shared" /\ l.lo = 1 /\ l.hi = d /\ l.splits = splits /\ l.qlen = qlen
    <2>1. PICK f : f = FALSE
      OBVIOUS
    <2>2. l = Launch("shared", 1, d, splits, qlen, f)
      BY <1>1, <2>1, Zenon
    <2> QED
      BY <2>2, LaunchFields
  <1> QED
    BY <1>2, <1>3

\* The other launches of kvarn_verify_attention.
LEMMA VerifyForm ==
    ASSUME dep \in Deployments, NEW lo, NEW hi, NEW tokens, NEW qlen, ~SharedVerify(tokens, qlen), NEW fresh,
           NEW l, l = VerifyAttention(lo, hi, tokens, qlen, fresh)
    PROVE  /\ l.kernel \in {"verify", "verify_split"} /\ l.lo = lo /\ l.hi = hi /\ l.fresh = fresh
           /\ l.kernel = "verify_split" => l.splits \in Nat \ {0}
  <1>1. NumKvSplits \in Nat \ {0}
    BY SplitsType
  <1>2. CASE VerifySplits
    <2>1. l = Launch("verify_split", lo, hi, NumKvSplits, 0, fresh)
      BY <1>2 DEF VerifyAttention
    <2> QED
      BY <1>1, <2>1 DEF Launch
  <1>3. CASE ~VerifySplits
    <2>1. l = Launch("verify", lo, hi, 1, 0, fresh)
      BY <1>3 DEF VerifyAttention
    <2> QED
      BY <2>1 DEF Launch
  <1> QED
    BY <1>2, <1>3

\* The verify kernels, by the plan of the batch.
LEMMA VerifyAttentionExact ==
    ASSUME dep \in Deployments, NEW n, NEW g \in BOOLEAN, Formed(inputs, n, g), plan = PlanOf(inputs),
           HasVq(inputs), NumDecodes(inputs) \in 1 .. Len(inputs), NEW tokens \in Nat, NEW qlen \in Nat,
           Width(inputs, n, qlen),
           NEW t \in QueryStartLoc(inputs)[1] .. QueryStartLoc(inputs)[NumDecodes(inputs) + 1] - 1,
           NEW fresh, ~fresh, fresh \in BOOLEAN,
           NEW l, l = VerifyAttention(1, NumDecodes(inputs), tokens, qlen, fresh)
    PROVE  WantedCells(Attended(l, t), t)
  <1> DEFINE d == NumDecodes(inputs)
             C == QueryStartLoc(inputs)
             b == RowOf(C, t)
             s == inputs[b].s
             limit == Limit(inputs, b, t - C[b])
  <1>1. /\ C[1] = 0 /\ t \in Nat /\ b \in 1 .. d /\ b \in 1 .. n /\ b \in 1 .. Len(inputs)
        /\ C[b] \in Nat /\ t - C[b] \in 0 .. inputs[b].q - 1 /\ C[b + 1] = C[b] + inputs[b].q
        /\ limit \in 1 .. s
        /\ VqPlan(inputs)[t + 1] = [req |-> b, len |-> limit]
        /\ VqPlan(inputs)[C[b] + inputs[b].q] = [req |-> b, len |-> s]
    BY PlanEntries
  <1>2. plan.vq = VqPlan(inputs)
    BY DEF PlanOf
  <1>3. s \in Nat /\ inputs[b].q \in Nat /\ limit \in Nat \ {0}
    <2>1. s \in Nat /\ inputs[b].q \in Nat
      BY <1>1, RowTypes DEF Formed
    <2> QED
      BY <1>1, <2>1
  <1>4. CASE SharedVerify(tokens, qlen)
    <2>2. l.kernel = "shared" /\ l.lo = 1 /\ l.splits \in Nat \ {0} /\ l.qlen = qlen
      BY <1>4, SharedForm
    <2>3. qlen >= 2 /\ dep.causal /\ \A r \in 1 .. n : r <= d => inputs[r].q = qlen
      BY <1>4 DEF SharedVerify, Width
    <2>4. Index(l, t) = t
      BY <1>1, <2>2 DEF Index
    <2>5. n \in Nat /\ d \in Nat /\ b \in Nat
      BY <1>1, DecodeRows DEF Formed, Rows
    <2>6. C[b] = (b - 1) * qlen
      <3> DEFINE lens == QueryLens(inputs)
      <3>0. Rows(inputs, n)
        BY DEF Formed
      <3>1. Lengths(lens) /\ Len(lens) = Len(inputs) /\ Offsets(C, lens)
            /\ \A r \in 1 .. Len(inputs) : lens[r] = inputs[r].q
        BY <3>0, QueryOffsets
      <3>2. PICK k \in 0 .. Len(lens) : b = k + 1
        <4>1. b - 1 \in 0 .. Len(lens) /\ b = b - 1 + 1
          BY <1>1, <3>0, <3>1, SMTT(30) DEF Rows
        <4> QED
          BY <4>1
      <3>3. k \in Nat /\ b - 1 = k
        BY <2>5, <3>1, <3>2
      <3>4. \A r \in 1 .. k : lens[r] = qlen
        <4> SUFFICES ASSUME NEW r \in 1 .. k PROVE lens[r] = qlen
          OBVIOUS
        <4>1. r \in 1 .. n /\ r <= d /\ r \in 1 .. Len(inputs)
          BY <1>1, <2>5, <3>2, <3>3
        <4> QED
          BY <2>3, <3>1, <4>1
      <3>5. Lengths(lens)
        BY <3>1
      <3>6. Offsets(C, lens)
        BY <3>1
      <3> HIDE DEF lens, C, b
      <3>7. C[k + 1] = k * qlen
        BY <3>4, <3>5, <3>6, UniformTotal, ZenonT(60)
      <3> QED
        BY <3>2, <3>3, <3>7
    <2>7. inputs[b].q = qlen
      BY <1>1, <2>3
    <2>8. t \div qlen = b - 1 /\ t % qlen = t - C[b]
      <3> DEFINE j == t - C[b]
      <3>1. j \in 0 .. qlen - 1 /\ t = C[b] + j /\ b \in Nat \ {0} /\ qlen \in Nat \ {0}
        BY <1>1, <2>3, <2>5, <2>7, SMTT(30)
      <3>2. t = (b - 1) * qlen + j
        BY <2>6, <3>1
      <3> HIDE DEF j, b, C
      <3>3. t \div qlen = b - 1 /\ t % qlen = j
        BY <3>1, <3>2, DivideToken
      <3> QED
        BY <3>3 DEF j, C, b
    <2>9. Full(l, t) = s
      <3>1. (Index(l, t) \div l.qlen) * l.qlen + l.qlen = C[b] + inputs[b].q
        BY <2>2, <2>4, <2>6, <2>7, <2>8
      <3> QED
        BY <1>1, <1>2, <3>1 DEF Full
    <2>10. l.lo + Index(l, t) \div l.qlen = b
      <3>1. l.lo + Index(l, t) \div l.qlen = 1 + (b - 1)
        BY <2>2, <2>4, <2>8
      <3> QED
        BY <2>5, <3>1
    <2>11. Full(l, t) - l.qlen + (Index(l, t) % l.qlen) + 1 = limit
      BY <2>2, <2>3, <2>4, <2>7, <2>8, <2>9 DEF Limit
    <2>12. Attended(l, t) = SplitDecode(b, s, limit, l.splits)
      BY <2>2, <2>9, <2>10, <2>11, SharedCells
    <2>13. limit \in 0 .. s
      BY <1>1, <1>3
    <2> HIDE DEF limit, s
    <2>14. Exact(Attended(l, t), b, WinStart(limit) .. limit - 1)
      BY <1>3, <2>2, <2>12, <2>13, SplitExact
    <2> QED
      BY <1>3, <2>14, Windowed DEF limit
  <1>5. CASE ~SharedVerify(tokens, qlen)
    <2>2. /\ l.kernel \in {"verify", "verify_split"} /\ l.lo = 1 /\ l.fresh = fresh
          /\ l.kernel = "verify_split" => l.splits \in Nat \ {0}
      BY <1>5, VerifyForm
    <2>3. Index(l, t) = t
      BY <1>1, <2>2 DEF Index
    <2>4. Entry(l, t) = [req |-> b, len |-> limit]
      BY <1>1, <1>2, <2>2, <2>3 DEF Entry
    <2>5. Entry(l, t).req = b /\ Entry(l, t).len = limit
      BY <2>4
    <2>6. limit \in 0 .. limit
      BY <1>3
    <2> HIDE DEF limit, s
    <2>7. Exact(Attended(l, t), b, WinStart(limit) .. limit - 1)
      <3>1. CASE l.kernel = "verify"
        BY <1>3, <2>5, <3>1, VerifyCells, FusedExact
      <3>2. CASE l.kernel = "verify_split"
        BY <1>3, <2>2, <2>5, <2>6, <3>2, VerifyCells, SplitExact
      <3> QED
        BY <2>2, <3>1, <3>2
    <2> QED
      BY <1>3, <2>7, Windowed DEF limit
  <1> QED
    BY <1>4, <1>5

\* The launch for the rows that are not decodes.
LEMMA PrefillForm ==
    ASSUME dep \in Deployments, NEW rows, NEW l, l = PrefillPortion(rows)
    PROVE  /\ l.lo = NumDecodes(rows) + 1 /\ l.hi = Len(rows) /\ l.fresh
           /\ l.kernel \in {"verify", "verify_split", "packed", "slow", "prefill"}
           /\ l.kernel = "verify_split" => l.splits \in Nat \ {0}
           /\ l.kernel = "packed" => ScratchHolds(rows, l.lo, l.hi)
           /\ l.kernel = "prefill" => ~HasCachedMultiquery(rows)
  <1> DEFINE lo == NumDecodes(rows) + 1
             hi == Len(rows)
  <1> HIDE DEF lo, hi
  <1>1. PICK f : f = TRUE
    OBVIOUS
  <1>2. CASE ~HasCachedMultiquery(rows)
    <2>1. l = Launch("prefill", lo, hi, 1, 0, f)
      BY <1>1, <1>2, Zenon DEF PrefillPortion, lo, hi
    <2>2. l.kernel = "prefill" /\ l.lo = lo /\ l.hi = hi /\ l.fresh = f
      BY <2>1, LaunchFields
    <2> QED
      BY <1>1, <1>2, <2>2 DEF lo, hi
  <1>3. CASE HasCachedMultiquery(rows)
    <2>1. l = CachedMultiquery(rows, lo, hi)
      BY <1>3 DEF PrefillPortion, lo, hi
    <2> DEFINE verifies == /\ dep.fused_verify
                           /\ MaxQueryLen(rows) <= dep.fused_verify_maxq
                           /\ CeilDiv(MaxSeqLen(rows), Group) >= dep.fused_verify_min_blocks
               packs == dep.flash_attn /\ ScratchHolds(rows, lo, hi)
    <2>2. l = IF verifies THEN VerifyAttention(lo, hi, 0, 0, f)
              ELSE IF packs THEN Launch("packed", lo, hi, 1, 0, f)
              ELSE Launch("slow", lo, hi, 1, 0, f)
      BY <1>1, <2>1, Zenon DEF CachedMultiquery
    <2>a. packs => ScratchHolds(rows, lo, hi)
      OBVIOUS
    <2> HIDE DEF verifies, packs
    <2>3. CASE verifies
      <3>1. ~SharedVerify(0, 0)
        BY DEF SharedVerify
      <3>2. l = VerifyAttention(lo, hi, 0, 0, f)
        BY <2>2, <2>3
      <3>3. /\ l.kernel \in {"verify", "verify_split"} /\ l.lo = lo /\ l.hi = hi /\ l.fresh = f
            /\ l.kernel = "verify_split" => l.splits \in Nat \ {0}
        BY <3>1, <3>2, VerifyForm
      <3> QED
        BY <1>1, <3>3 DEF lo, hi
    <2>4. CASE ~verifies /\ packs
      <3>1. l = Launch("packed", lo, hi, 1, 0, f)
        BY <2>2, <2>4
      <3>2. l.kernel = "packed" /\ l.lo = lo /\ l.hi = hi /\ l.fresh = f
        BY <3>1, LaunchFields
      <3> QED
        BY <1>1, <2>a, <2>4, <3>2 DEF lo, hi
    <2>5. CASE ~verifies /\ ~packs
      <3>1. l = Launch("slow", lo, hi, 1, 0, f)
        BY <2>2, <2>5
      <3>2. l.kernel = "slow" /\ l.lo = lo /\ l.hi = hi /\ l.fresh = f
        BY <3>1, LaunchFields
      <3> QED
        BY <1>1, <3>2 DEF lo, hi
    <2> QED
      BY <2>3, <2>4, <2>5
  <1> QED
    BY <1>2, <1>3

\* Cells of one tag, a row and a range of positions.
LEMMA PlainExact ==
    ASSUME NEW b, NEW m \in Nat, NEW cells, cells = {<<0, b, p>> : p \in 0 .. m - 1}
    PROVE  Exact(cells, b, 0 .. m - 1)
  <1>1. 0 \in Int /\ m - 1 \in Int
    OBVIOUS
  <1>2. \A x \in cells : \E s : \E p \in 0 .. m - 1 : x = <<s, b, p>>
    OBVIOUS
  <1>3. \A p \in 0 .. m - 1 : \E s : <<s, b, p>> \in cells
    OBVIOUS
  <1>4. \A x, y \in cells : x[3] = y[3] => x = y
    OBVIOUS
  <1> QED
    BY <1>1, <1>2, <1>3, <1>4, TaggedExact

\* Only a causal pass has rows that are not decodes: the drafter's rows are
\* as wide as the threshold when verify rows count as decodes.
LEMMA PrefillIsCausal ==
    ASSUME dep \in Deployments, NEW rows, NEW n, NEW g \in BOOLEAN, Formed(rows, n, g), n = Len(rows),
           NumDecodes(rows) # Len(rows), ~dep.causal => dep.fused_verify \/ dep.num_spec = 0
    PROVE  dep.causal
  <1> SUFFICES ASSUME ~dep.causal PROVE FALSE
    OBVIOUS
  <1>1. Len(rows) \in Nat /\ n \in 1 .. Len(rows) /\ rows[n].q = 1 + dep.num_spec
    <2>1. Len(rows) \in Nat /\ n \in 1 .. Len(rows)
      BY DEF Formed, Rows
    <2>2. n \in 1 .. n
      BY <2>1
    <2> QED
      BY <2>1, <2>2 DEF Formed
  <1>2. Threshold \in Nat \ {0} /\ (dep.fused_verify => Threshold = 1 + dep.num_spec) /\ dep.num_spec \in Nat
    BY ThresholdType
  <1>3. rows[n].q <= Threshold
    BY <1>1, <1>2
  <1>4. n <= NumDecodes(rows) /\ NumDecodes(rows) \in 0 .. Len(rows)
    BY <1>1, <1>3, DecodeRows
  <1> QED
    BY <1>1, <1>4

\* The kernels for the rows that are not decodes.
LEMMA PrefillExact ==
    ASSUME dep \in Deployments, NEW n, NEW g \in BOOLEAN, Formed(inputs, n, g), n = Len(inputs),
           NumDecodes(inputs) # Len(inputs), ~dep.causal => dep.fused_verify \/ dep.num_spec = 0,
           NEW t \in QueryStartLoc(inputs)[NumDecodes(inputs) + 1] .. QueryStartLoc(inputs)[Len(inputs) + 1] - 1,
           NEW l, l = PrefillPortion(inputs)
    PROVE  WantedCells(Attended(l, t), t)
  <1> DEFINE d == NumDecodes(inputs)
             N == Len(inputs)
             C == QueryStartLoc(inputs)
             b == RowOf(C, t)
             s == inputs[b].s
             q == inputs[b].q
             limit == Limit(inputs, b, t - C[b])
  <1>1. dep.causal
    BY PrefillIsCausal
  <1>2. Rows(inputs, n) /\ N \in Nat /\ d \in 0 .. N /\ d + 1 \in 1 .. N /\ N \in 1 .. N /\ d + 1 <= N
    <2>1. Rows(inputs, n) /\ N \in Nat /\ d \in 0 .. N /\ d # N
      BY DecodeRows DEF Formed, Rows
    <2> QED
      BY <2>1
  <1>3. /\ t \in Nat /\ t < TokensOf(inputs) /\ b \in d + 1 .. N /\ b \in 1 .. N /\ C[b] \in Nat
        /\ t - C[b] \in 0 .. q - 1
    BY <1>2, LaunchToken
  <1>4. q \in Nat /\ s \in Nat /\ q <= s
    BY <1>2, <1>3, RowTypes
  <1>5. limit \in 1 .. s /\ limit = s - q + (t - C[b]) + 1
    <2>1. limit = s - q + (t - C[b]) + 1
      BY <1>1 DEF Limit
    <2>2. limit \in 1 .. s
      BY <1>2, <1>3, EntryRight
    <2> QED
      BY <2>1, <2>2
  <1>6. CausalKeys(t) = limit
    BY <1>1 DEF CausalKeys, Limit
  <1>7. limit \in Nat \ {0} /\ limit \in 0 .. limit /\ limit \in 0 .. s
    BY <1>4, <1>5
  <1>8. /\ l.lo = d + 1 /\ l.hi = N /\ l.fresh
        /\ l.kernel \in {"verify", "verify_split", "packed", "slow", "prefill"}
        /\ l.kernel = "verify_split" => l.splits \in Nat \ {0}
        /\ l.kernel = "packed" => ScratchHolds(inputs, l.lo, l.hi)
        /\ l.kernel = "prefill" => ~HasCachedMultiquery(inputs)
    BY PrefillForm
  <1>9. Entry(l, t).req = b /\ Entry(l, t).len = limit
    BY <1>6, <1>8 DEF Entry
  <1>10. inputs[b].q > Threshold
    <2>1. ~(inputs[b].q <= Threshold)
      <3>1. ~(b <= d)
        BY <1>2, <1>3
      <3> QED
        BY <1>3, <3>1, DecodeRows
    <2>2. Threshold \in Nat \ {0}
      BY ThresholdType
    <2> QED
      BY <1>4, <2>1, <2>2
  <1>11. CASE l.kernel \in {"verify", "verify_split"}
    <2> HIDE DEF limit, s, b
    <2>1. Exact(Attended(l, t), b, WinStart(limit) .. limit - 1)
      <3>1. CASE l.kernel = "verify"
        BY <1>7, <1>9, <3>1, VerifyCells, FusedExact
      <3>2. CASE l.kernel = "verify_split"
        BY <1>7, <1>8, <1>9, <3>2, VerifyCells, SplitExact
      <3> QED
        BY <1>11, <3>1, <3>2
    <2> QED
      BY <1>7, <2>1, Windowed DEF limit, b
  <1>12. CASE l.kernel \in {"packed", "slow", "prefill"}
    <2>1. Exact(Attended(l, t), b, 0 .. limit - 1)
      <3>1. CASE l.kernel = "slow"
        <4>1. Attended(l, t) = {<<0, b, p>> : p \in 0 .. limit - 1}
          BY <1>6, <3>1, SlowCells
        <4> QED
          BY <1>7, <4>1, PlainExact
      <3>2. CASE l.kernel = "prefill"
        <4>1. Attended(l, t) = {<<0, b, s - q + m>> : m \in 0 .. t - C[b]}
          BY <1>1, <3>2, PrefillCells
        <4>2. s = q
          <5>1. inputs[b].q > 1
            <6>1. Threshold \in Nat \ {0}
              BY ThresholdType
            <6> QED
              BY <1>4, <1>10, <6>1
          <5>2. b \in DOMAIN inputs
            BY <1>2, <1>3 DEF Rows
          <5>3. ~(inputs[b].s > inputs[b].q)
            BY <1>8, <3>2, <5>1, <5>2 DEF HasCachedMultiquery
          <5> QED
            BY <1>4, <5>3
        <4>3. t - C[b] = limit - 1
          BY <1>3, <1>4, <1>5, <4>2
        <4>4. {<<0, b, s - q + m>> : m \in 0 .. t - C[b]} = {<<0, b, p>> : p \in 0 .. limit - 1}
          <5> HIDE DEF limit
          <5>1. \A m \in 0 .. limit - 1 : s - q + m = m
            BY <1>4, <1>7, <4>2
          <5> QED
            BY <4>3, <5>1
        <4> QED
          BY <1>7, <4>1, <4>4, PlainExact
      <3>3. CASE l.kernel = "packed"
        <4> DEFINE lens == SeqLens([m \in 1 .. N - (d + 1) + 1 |-> inputs[d + 1 + m - 1]])
                   P == CumSum(lens)
        <4>1. /\ Lengths(lens) /\ Len(lens) = N - (d + 1) + 1 /\ Offsets(P, lens)
              /\ \A m \in 1 .. N - (d + 1) + 1 : lens[m] = inputs[d + 1 + m - 1].s
          BY <1>2, SliceLens
        <4>2. PackedOffsets(l) = P
          BY <1>8 DEF PackedOffsets, Slice
        <4>3. P[N - (d + 1) + 2] <= FaScratchRows
          <5> DEFINE rs == [m \in 1 .. N - (d + 1) + 1 |-> [q |-> inputs[d + 1 + m - 1].s]]
          <5>1. QueryLens(rs) = lens
            <6>1. lens = [m \in 1 .. N - (d + 1) + 1 |-> inputs[d + 1 + m - 1].s]
              BY DEF SeqLens
            <6>2. QueryLens(rs) = [m \in 1 .. N - (d + 1) + 1 |-> inputs[d + 1 + m - 1].s]
              BY DEF QueryLens
            <6> QED
              BY <6>1, <6>2
          <5>2. TokensOf(rs) <= FaScratchRows
            BY <1>8, <3>3 DEF ScratchHolds
          <5> HIDE DEF rs, lens
          <5>3. TokensOf(rs) = Last(P)
            BY <5>1 DEF TokensOf, QueryStartLoc
          <5> HIDE DEF P
          <5>4. Last(P) = P[N - (d + 1) + 2]
            <6>1. Len(P) = Len(lens) + 1
              BY <4>1 DEF Offsets
            <6>2. Len(P) = N - (d + 1) + 2
              BY <1>2, <4>1, <6>1
            <6> QED
              BY <6>2 DEF Last
          <5> QED
            BY <5>2, <5>3, <5>4
        <4>4. FaScratchRows \in Nat /\ d + 1 \in Nat /\ N \in Nat /\ d + 1 <= N /\ Len(lens) >= N - (d + 1) + 1
          BY <1>2, <4>1, ScratchType
        <4> HIDE DEF P, lens, limit
        <4>5. Attended(l, t) = FlashVarlen(PackedKV(inputs, d + 1, N, P), P[b - (d + 1) + 1], limit)
          BY <1>1, <1>6, <1>8, <3>3, <4>2, PackedCells
        <4>6. Exact(FlashVarlen(PackedKV(inputs, d + 1, N, P), P[b - (d + 1) + 1], limit), b, 0 .. limit - 1)
          <5>1. Lengths(lens)
            BY <4>1
          <5>2. Offsets(P, lens)
            BY <4>1
          <5>3. \A m \in 1 .. N - (d + 1) + 1 : lens[m] = inputs[d + 1 + m - 1].s
            BY <4>1
          <5>4. b \in d + 1 .. N
            BY <1>3
          <5>5. limit \in 0 .. inputs[b].s
            BY <1>7
          <5> DEFINE lo == d + 1
          <5>6. lo \in Nat /\ N \in Nat /\ lo <= N /\ Len(lens) >= N - lo + 1 /\ P[N - lo + 2] <= FaScratchRows
            BY <4>3, <4>4
          <5>7. b \in lo .. N /\ \A m \in 1 .. N - lo + 1 : lens[m] = inputs[lo + m - 1].s
            BY <5>3, <5>4
          <5> HIDE DEF lo, N, b, d
          <5>8. Exact(FlashVarlen(PackedKV(inputs, lo, N, P), P[b - lo + 1], limit), b, 0 .. limit - 1)
            BY <4>4, <5>1, <5>2, <5>5, <5>6, <5>7, PackedExact
          <5> QED
            BY <5>8 DEF lo
        <4> QED
          BY <4>5, <4>6
      <3> QED
        BY <1>12, <3>1, <3>2, <3>3
    <2> QED
      BY <1>7, <1>10, <2>1, Unwindowed
  <1> QED
    BY <1>8, <1>11, <1>12

-----------------------------------------------------------------------------
(* The step.                                                                *)

\* The launches a step enqueues depend on the deployment and the rows.
LEMMA SameLaunches ==
    ASSUME dep' = dep, inputs' = inputs, NEW n, NEW K, Launches(inputs, n, K)
    PROVE  Launches(inputs, n, K)'
  <1>1. Threshold' = Threshold
    BY DEF Threshold
  <1>2. NumDecodes(inputs)' = NumDecodes(inputs)
    BY <1>1 DEF NumDecodes
  <1>3. NumDecodeTokens(inputs)' = NumDecodeTokens(inputs) /\ NumTokens(inputs)' = NumTokens(inputs)
    BY <1>2 DEF NumDecodeTokens, NumTokens, TokensOf, QueryStartLoc, QueryLens, CumSum
  <1>4. HasVq(inputs)' = HasVq(inputs)
    BY <1>2, <1>3 DEF HasVq
  <1>5. \A lo, hi, f : DecodeAttention(lo, hi, f)' = DecodeAttention(lo, hi, f)
    BY DEF DecodeAttention, DecodeSplits, MidFits, MidRows, NumKvSplits
  <1>6. \A lo, hi, tokens, qlen, f : VerifyAttention(lo, hi, tokens, qlen, f)' = VerifyAttention(lo, hi, tokens, qlen, f)
    BY DEF VerifyAttention, SharedVerify, VerifySplits, NumKvSplits
  <1>7. \A l : DecodeLaunch(inputs, n, l) => DecodeLaunch(inputs, n, l)'
    <2> SUFFICES ASSUME NEW l, DecodeLaunch(inputs, n, l) PROVE DecodeLaunch(inputs, n, l)'
      OBVIOUS
    <2>1. CASE ~HasVq(inputs)
      <3>1. PICK fresh \in BOOLEAN : l = DecodeAttention(1, NumDecodes(inputs), fresh)
        BY <2>1 DEF DecodeLaunch
      <3>2. l = DecodeAttention(1, NumDecodes(inputs), fresh)'
        BY <1>2, <1>5, <3>1
      <3> QED
        BY <1>4, <2>1, <3>2 DEF DecodeLaunch
    <2>2. CASE HasVq(inputs)
      <3>1. PICK tokens \in Nat, qlen \in Nat :
              /\ l = VerifyAttention(1, NumDecodes(inputs), tokens, qlen, FALSE)
              /\ qlen >= 2 => dep.causal /\ \A b \in 1 .. n : b <= NumDecodes(inputs) => inputs[b].q = qlen
        BY <2>2 DEF DecodeLaunch
      <3>2. l = VerifyAttention(1, NumDecodes(inputs), tokens, qlen, FALSE)'
        BY <1>2, <1>6, <3>1
      <3>3. (qlen >= 2 => dep.causal /\ \A b \in 1 .. n : b <= NumDecodes(inputs) => inputs[b].q = qlen)'
        BY <1>2, <3>1
      <3> QED
        BY <1>4, <2>2, <3>2, <3>3 DEF DecodeLaunch
    <2> QED
      BY <2>1, <2>2
  <1>8. HasCachedMultiquery(inputs)' = HasCachedMultiquery(inputs)
    BY DEF HasCachedMultiquery
  <1>9. \A lo, hi : ScratchHolds(inputs, lo, hi)' = ScratchHolds(inputs, lo, hi)
    BY DEF ScratchHolds, FaScratchRows
  <1>10. MaxQueryLen(inputs)' = MaxQueryLen(inputs) /\ MaxSeqLen(inputs)' = MaxSeqLen(inputs)
    BY DEF MaxQueryLen, MaxSeqLen
  <1>11. \A lo, hi : CachedMultiquery(inputs, lo, hi)' = CachedMultiquery(inputs, lo, hi)
    BY <1>6, <1>9, <1>10 DEF CachedMultiquery
  <1>12. PrefillPortion(inputs)' = PrefillPortion(inputs)
    BY <1>2, <1>8, <1>11 DEF PrefillPortion
  <1> QED
    BY <1>2, <1>7, <1>12 DEF Launches

\* The same of the rows on the device.
LEMMA SameFormedInputs ==
    ASSUME dep' = dep, inputs' = inputs, NEW n, NEW g, Formed(inputs, n, g)
    PROVE  Formed(inputs, n, g)'
  BY DEF Formed, Rows, Threshold

\* What the tokens want depends on the deployment and the rows.
LEMMA SameCells ==
    ASSUME dep' = dep, inputs' = inputs, NEW cells, NEW t, WantedCells(cells, t)
    PROVE  WantedCells(cells, t)'
  <1>1. QueryStartLoc(inputs)' = QueryStartLoc(inputs)
    BY DEF QueryStartLoc
  <1>2. \A b, j : KeysUpTo(b, j)' = KeysUpTo(b, j)
    BY DEF KeysUpTo
  <1>3. \A b, j : Wanted(b, j)' = Wanted(b, j)
    BY <1>2 DEF Wanted, InWindow
  <1>4. \A b, j : Accepted(b, j)' = Accepted(b, j)
    BY <1>2, <1>3 DEF Accepted, Threshold
  <1> QED
    BY <1>1, <1>4 DEF WantedCells

\* The deployments whose outputs are exact: verify rows that are not causal have a
\* kernel of their own; the packing path has a scratch for the largest batch, and
\* no window, of which it knows nothing.
Exactness(d) ==
    /\ ~d.causal => d.fused_verify \/ d.num_spec = 0
    /\ ~d.fused_decode => d.max_num_seqs * MaxModelLen <= d.fa_scratch_cap
    /\ ~d.fused_decode => d.sliding_window = 0

\* A launch over the decode rows starts at row 1 and ends at the last of them.
LEMMA DecodeForm ==
    ASSUME NEW rows, NEW n, NEW l, DecodeLaunch(rows, n, l)
    PROVE  l.lo = 1 /\ l.hi = NumDecodes(rows)
  <1> DEFINE d == NumDecodes(rows)
  <1> HIDE DEF d
  <1>1. CASE ~HasVq(rows)
    <2>1. PICK fresh \in BOOLEAN : l = DecodeAttention(1, d, fresh)
      BY <1>1 DEF DecodeLaunch, d
    <2>2. PICK kernel, splits : l = Launch(kernel, 1, d, splits, 0, fresh)
      BY <2>1 DEF DecodeAttention
    <2> QED
      BY <2>2, LaunchFields DEF d
  <1>2. CASE HasVq(rows)
    <2>1. PICK f : f = FALSE
      OBVIOUS
    <2>2. PICK tokens \in Nat, qlen \in Nat : l = VerifyAttention(1, d, tokens, qlen, f)
      BY <1>2, <2>1, Zenon DEF DecodeLaunch, d
    <2>3. \E kernel, splits, q, fresh : l = Launch(kernel, 1, d, splits, q, fresh)
      <3>1. CASE SharedVerify(tokens, qlen)
        <4> DEFINE fills == MaxBlocks >= SplitBlocks /\ (tokens \div qlen) * Hk <= dep.sm_count
                   splits == IF fills THEN NumKvSplits ELSE 1
        <4>1. l = Launch("shared", 1, d, splits, qlen, FALSE)
          BY <2>2, <3>1 DEF VerifyAttention
        <4> HIDE DEF splits
        <4> QED
          BY <4>1, Zenon
      <3>2. CASE ~SharedVerify(tokens, qlen)
        BY <2>2, <3>2 DEF VerifyAttention
      <3> QED
        BY <3>1, <3>2
    <2> QED
      BY <2>3, LaunchFields DEF d
  <1> QED
    BY <1>1, <1>2

\* The launches of a step follow one another over the rows of its batch.
LEMMA LaunchesInOrder ==
    ASSUME dep \in Deployments, NEW rows, NEW n, NEW g \in BOOLEAN, Formed(rows, n, g), NEW K, Launches(rows, n, K)
    PROVE  /\ Len(K) \in {1, 2} /\ K[1].lo = 1 /\ K[Len(K)].hi = Len(rows)
           /\ Len(K) = 2 => K[2].lo = K[1].hi + 1
           /\ \A k \in 1 .. Len(K) : K[k].lo \in 1 .. Len(rows) /\ K[k].hi \in 1 .. Len(rows) /\ K[k].lo <= K[k].hi
  <1> DEFINE d == NumDecodes(rows)
             N == Len(rows)
             p == PrefillPortion(rows)
  <1>1. d \in 0 .. N /\ N \in Nat /\ 1 \in 1 .. N /\ N \in 1 .. N
    <2>1. N \in Nat /\ n \in 1 .. N
      BY DEF Formed, Rows
    <2> QED
      BY <2>1, DecodeRows
  <1>2. p.lo = d + 1 /\ p.hi = N
    BY PrefillForm
  <1> HIDE DEF d, N, p
  <1>3. \/ d = N /\ \E l : K = <<l>> /\ DecodeLaunch(rows, n, l)
        \/ d = 0 /\ K = <<p>>
        \/ d # 0 /\ d # N /\ \E l : K = <<l, p>> /\ DecodeLaunch(rows, n, l)
    BY DEF Launches, d, N, p
  <1>4. CASE d = N /\ \E l : K = <<l>> /\ DecodeLaunch(rows, n, l)
    <2>1. PICK l : K = <<l>> /\ l.lo = 1 /\ l.hi = d
      BY <1>4, DecodeForm DEF d
    <2>2. Len(K) = 1 /\ K[1] = l
      BY <2>1
    <2>3. \A k \in 1 .. Len(K) : k = 1
      BY <2>2
    <2> QED
      BY <1>1, <1>4, <2>1, <2>2, <2>3 DEF N
  <1>5. CASE d = 0 /\ K = <<p>>
    <2>1. Len(K) = 1 /\ K[1] = p /\ \A k \in 1 .. Len(K) : k = 1
      BY <1>5
    <2> QED
      BY <1>1, <1>2, <1>5, <2>1 DEF N
  <1>6. CASE d # 0 /\ d # N /\ \E l : K = <<l, p>> /\ DecodeLaunch(rows, n, l)
    <2>1. PICK l : K = <<l, p>> /\ l.lo = 1 /\ l.hi = d
      BY <1>6, DecodeForm DEF d
    <2>2. Len(K) = 2 /\ K[1] = l /\ K[2] = p
      BY <2>1
    <2>3. \A k \in 1 .. Len(K) : k \in {1, 2}
      BY <2>2
    <2>4. d \in 1 .. N /\ d + 1 \in 1 .. N /\ 1 <= d /\ d + 1 <= N
      BY <1>1, <1>6
    <2> QED
      BY <1>1, <1>2, <2>1, <2>2, <2>3, <2>4 DEF N
  <1> QED
    BY <1>3, <1>4, <1>5, <1>6

\* The kernels for the decode rows, with a verify plan and without.
LEMMA DecodeLaunchExact ==
    ASSUME dep \in Deployments, Exactness(dep), NEW n, NEW g \in BOOLEAN, Formed(inputs, n, g), plan = PlanOf(inputs),
           NumDecodes(inputs) \in 1 .. Len(inputs), NEW l, DecodeLaunch(inputs, n, l),
           NEW t \in QueryStartLoc(inputs)[1] .. QueryStartLoc(inputs)[NumDecodes(inputs) + 1] - 1
    PROVE  WantedCells(Attended(l, t), t)
  <1> DEFINE d == NumDecodes(inputs)
  <1>1. CASE ~HasVq(inputs)
    <2>1. PICK fresh \in BOOLEAN : l = DecodeAttention(1, d, fresh)
      BY <1>1 DEF DecodeLaunch
    <2>2. ~dep.fused_decode => dep.max_num_seqs * MaxModelLen <= dep.fa_scratch_cap
      BY DEF Exactness
    <2>3. ~dep.fused_decode => dep.sliding_window = 0
      BY DEF Exactness
    <2> QED
      BY <1>1, <2>1, <2>2, <2>3, DecodeAttentionExact
  <1>2. CASE HasVq(inputs)
    <2>1. PICK f \in BOOLEAN : f = FALSE
      OBVIOUS
    <2>2. PICK tokens \in Nat, qlen \in Nat :
            /\ l = VerifyAttention(1, d, tokens, qlen, f)
            /\ qlen >= 2 => dep.causal /\ \A b \in 1 .. n : b <= d => inputs[b].q = qlen
      BY <1>2, <2>1, Zenon DEF DecodeLaunch
    <2>3. Width(inputs, n, qlen)
      BY <2>2 DEF Width
    <2>4. ~f
      BY <2>1
    <2>5. l = VerifyAttention(1, d, tokens, qlen, f)
      BY <2>2
    <2> QED
      BY <1>2, <2>3, <2>4, <2>5, VerifyAttentionExact
  <1> QED
    BY <1>1, <1>2

\* Each launch of a step scores what its tokens want.
LEMMA LaunchExact ==
    ASSUME dep \in Deployments, Exactness(dep), NEW n, NEW g \in BOOLEAN, Formed(inputs, n, g), plan = PlanOf(inputs),
           NEW K, Launches(inputs, n, K), NEW k \in 1 .. Len(K),
           NEW t \in QueryStartLoc(inputs)[K[k].lo] .. QueryStartLoc(inputs)[K[k].hi + 1] - 1
    PROVE  WantedCells(Attended(K[k], t), t)
  <1> DEFINE d == NumDecodes(inputs)
             N == Len(inputs)
             p == PrefillPortion(inputs)
             l == K[k]
             C == QueryStartLoc(inputs)
  <1>1. d \in 0 .. N /\ N \in Nat /\ 1 \in 1 .. N
    <2>1. N \in Nat /\ n \in 1 .. N
      BY DEF Formed, Rows
    <2> QED
      BY <2>1, DecodeRows
  <1>2. \/ d \in 1 .. N /\ DecodeLaunch(inputs, n, l)
        \/ d # N /\ n = N /\ l = p
    <2>1. CASE d = N /\ \E m : K = <<m>> /\ DecodeLaunch(inputs, n, m)
      <3>1. PICK m : K = <<m>> /\ DecodeLaunch(inputs, n, m)
        BY <2>1
      <3>2. k = 1 /\ K[1] = m
        <4>1. Len(K) = 1 /\ K[1] = m
          BY <3>1
        <4> QED
          BY <4>1
      <3> QED
        BY <1>1, <2>1, <3>1, <3>2
    <2>2. CASE d = 0 /\ n = N /\ K = <<p>>
      <3>1. Len(K) = 1 /\ K[1] = p
        BY <2>2
      <3>2. k = 1
        BY <3>1
      <3> QED
        BY <1>1, <2>2, <3>1, <3>2
    <2>3. CASE d # 0 /\ d # N /\ n = N /\ \E m : K = <<m, p>> /\ DecodeLaunch(inputs, n, m)
      <3>1. PICK m : K = <<m, p>> /\ DecodeLaunch(inputs, n, m)
        BY <2>3
      <3>2. Len(K) = 2 /\ K[1] = m /\ K[2] = p
        BY <3>1
      <3>3. k \in {1, 2}
        BY <3>2
      <3>4. d \in 1 .. N
        BY <1>1, <2>3
      <3> QED
        BY <2>3, <3>1, <3>2, <3>3, <3>4
    <2> QED
      BY <2>1, <2>2, <2>3 DEF Launches
  <1>3. CASE d \in 1 .. N /\ DecodeLaunch(inputs, n, l)
    <2>1. l.lo = 1 /\ l.hi = d
      BY <1>3, DecodeForm
    <2>2. t \in C[1] .. C[d + 1] - 1
      BY <2>1
    <2> QED
      BY <1>3, <2>2, DecodeLaunchExact
  <1>4. CASE d # N /\ n = N /\ l = p
    <2>1. l.lo = d + 1 /\ l.hi = N
      BY <1>4, PrefillForm
    <2>2. t \in C[d + 1] .. C[N + 1] - 1
      BY <2>1
    <2>3. ~dep.causal => dep.fused_verify \/ dep.num_spec = 0
      BY DEF Exactness
    <2> QED
      BY <1>4, <2>2, <2>3, PrefillExact
  <1> QED
    BY <1>2, <1>3, <1>4

\* The tokens of the first k launches.
Done(rows, K, k) == IF k = 0 THEN {} ELSE 0 .. QueryStartLoc(rows)[K[k].hi + 1] - 1

\* No launch of the rows on the device is enqueued or has run.
Waiting == out = <<>> /\ \A i \in 1 .. Len(stream) : stream[i].op # "launch"

\* Of the launches K of the rows on the device k have run; the others are
\* enqueued, behind the copy of their plan (c = 1) or after it has executed,
\* and ahead of the next step's inputs.
Running(n, g, K, k, c) ==
    /\ g \in BOOLEAN /\ Formed(inputs, n, g) /\ Launches(inputs, n, K)
    /\ k \in 0 .. Len(K) /\ c \in {0, 1}
    /\ c = 1 => k = 0 /\ stream # <<>> /\ stream[1].op = "copy"
    /\ Len(stream) \in {c + (Len(K) - k), c + (Len(K) - k) + 1}
    /\ \A i \in 1 .. Len(K) - k : stream[c + i] = K[k + i] /\ stream[c + i].op = "launch"
    /\ Len(stream) = c + (Len(K) - k) + 1 => stream[Len(stream)].op = "inputs"
    /\ phase # "forward" /\ (phase = "build" => stream # <<>>)
    /\ DOMAIN out = Done(inputs, K, k)

\* Every token that has an output has the right one.
CellsWanted == \A t \in DOMAIN out : WantedCells(out[t], t)

\* What the device has done for the rows it holds.
OutInv ==
    /\ Waiting \/ \E n, g, K, k, c : Running(n, g, K, k, c)
    /\ phase = "forward" => inputs = batch
    /\ CellsWanted

\* The inductive invariant.
StepInv == SyncInv /\ HostInv /\ OutInv

\* No output, no token to be right about.
LEMMA NoOutput == out = <<>> => DOMAIN out = {} /\ CellsWanted
  <1>1. out = <<>> => DOMAIN out = {}
    OBVIOUS
  <1> QED
    BY <1>1 DEF CellsWanted

\* Nothing has run at first.
LEMMA OutInit == Init => OutInv
  <1> SUFFICES ASSUME Init PROVE OutInv
    OBVIOUS
  <1>1. out = <<>> /\ stream = <<>> /\ phase = "idle"
    BY DEF Init
  <1>2. Len(stream) = 0
    BY <1>1
  <1>3. Waiting
    BY <1>1, <1>2 DEF Waiting
  <1> QED
    BY <1>1, <1>3, NoOutput DEF OutInv

\* The invariant gives the property: with no launch left, every token has run.
LEMMA StepsExecuted ==
    ASSUME StepInv
    PROVE  OutputsExact
  <1> DEFINE C == QueryStartLoc(inputs)
  <1>1. \A t \in DOMAIN out :
            LET b == RowOf(C, t)
            IN  \E keys \in Accepted(b, t - C[b]) :
                   /\ {<<x[2], x[3]>> : x \in out[t]} = {<<b, p>> : p \in keys}
                   /\ Cardinality(out[t]) = Cardinality(keys)
    BY DEF StepInv, OutInv, CellsWanted, WantedCells, Exact
  <1>2. ASSUME StepExecuted PROVE DOMAIN out = 0 .. TokensOf(inputs) - 1
    <2>1. out # <<>>
      BY <1>2 DEF StepExecuted
    <2>2. PICK n, g, K, k, c : Running(n, g, K, k, c)
      BY <2>1 DEF StepInv, OutInv, Waiting
    <2>3. dep \in Deployments /\ IsSeq(stream)
      BY DEF StepInv, HostInv, SyncInv, StreamInv
    <2>4. /\ Formed(inputs, n, g) /\ g \in BOOLEAN /\ Launches(inputs, n, K) /\ k \in 0 .. Len(K)
          /\ c \in {0, 1}
          /\ c = 1 => k = 0 /\ stream # <<>> /\ stream[1].op = "copy"
          /\ Len(stream) \in {c + (Len(K) - k), c + (Len(K) - k) + 1}
          /\ \A i \in 1 .. Len(K) - k : stream[c + i].op = "launch"
          /\ DOMAIN out = Done(inputs, K, k)
      BY <2>2 DEF Running
    <2>5. Len(K) \in {1, 2} /\ K[Len(K)].hi = Len(inputs)
      BY <2>3, <2>4, LaunchesInOrder
    <2>6. k = Len(K)
      <3>1. CASE stream = <<>>
        <4>1. Len(stream) = 0
          BY <3>1
        <4> QED
          BY <2>4, <2>5, <4>1
      <3>2. CASE stream # <<>>
        <4>1. Head(stream).op = "inputs"
          BY <1>2, <3>2 DEF StepExecuted
        <4>2. stream[1].op = "inputs"
          BY <2>3, <3>2, <4>1, DequeueSeq
        <4>3. c = 0
          BY <2>4, <4>2
        <4>4. ~(1 \in 1 .. Len(K) - k)
          <5>1. 1 \in 1 .. Len(K) - k => stream[c + 1].op = "launch"
            BY <2>4
          <5>2. c + 1 = 1
            BY <4>3
          <5> QED
            BY <4>2, <5>1, <5>2
        <4> QED
          BY <2>4, <2>5, <4>4
      <3> QED
        BY <3>1, <3>2
    <2>7. DOMAIN out = 0 .. C[Len(inputs) + 1] - 1
      BY <2>4, <2>5, <2>6 DEF Done
    <2>8. TokensOf(inputs) = C[Len(inputs) + 1]
      BY <2>4, QueryOffsets DEF Formed
    <2> QED
      BY <2>7, <2>8
  <1> QED
    BY <1>1, <1>2 DEF OutputsExact

\* A step that keeps the rows keeps their launches.
LEMMA SameRunning ==
    ASSUME dep' = dep, inputs' = inputs, NEW n, NEW g, NEW K, Formed(inputs, n, g), Launches(inputs, n, K)
    PROVE  Formed(inputs, n, g)' /\ Launches(inputs, n, K)' /\ \A k : Done(inputs, K, k)' = Done(inputs, K, k)
  <1>1. Formed(inputs, n, g)'
    BY SameFormedInputs
  <1>2. Launches(inputs, n, K)'
    BY SameLaunches
  <1>3. QueryStartLoc(inputs)' = QueryStartLoc(inputs)
    BY DEF QueryStartLoc
  <1> QED
    BY <1>1, <1>2, <1>3 DEF Done

\* And keeps the outputs right.
LEMMA SameWanted ==
    ASSUME dep' = dep, inputs' = inputs, out' = out, CellsWanted
    PROVE  CellsWanted'
  <1>1. \A cells, t : WantedCells(cells, t) => WantedCells(cells, t)'
    BY SameCells
  <1>2. ASSUME NEW t \in DOMAIN out PROVE WantedCells(out[t], t)'
    <2>1. WantedCells(out[t], t)
      BY DEF CellsWanted
    <2> DEFINE e == out[t]
    <2>2. PICK x : x = e
      OBVIOUS
    <2>3. WantedCells(x, t)
      BY <2>1, <2>2
    <2>4. WantedCells(x, t)'
      BY <1>1, <2>3
    <2>5. e' = x
      BY <2>2
    <2> QED
      BY <2>4, <2>5
  <1> QED
    BY <1>2 DEF CellsWanted

\* The next step's inputs queue behind the launches of this one.
LEMMA ScheduleOut == StepInv /\ Schedule => OutInv'
  <1> SUFFICES ASSUME StepInv, Schedule PROVE OutInv'
    OBVIOUS
  <1>1. /\ phase = "idle" /\ phase' = "build" /\ UNCHANGED <<dep, inputs, plan, out>>
        /\ stream' = Append(stream, [op |-> "inputs", rows |-> batch'])
    BY DEF Schedule, deviceVars
  <1>2. IsSeq(stream)
    BY DEF StepInv, SyncInv, StreamInv
  <1>3. PICK e : e = [op |-> "inputs", rows |-> batch']
    OBVIOUS
  <1>4. e.op = "inputs"
    BY <1>3
  <1>5. /\ Len(stream) \in Nat /\ Len(stream') = Len(stream) + 1 /\ stream' # <<>>
        /\ \A i \in 1 .. Len(stream) : stream'[i] = stream[i]
        /\ stream'[Len(stream) + 1] = e
    <2>1. PICK S : stream \in Seq(S)
      BY <1>2 DEF IsSeq
    <2>2. stream \in Seq(S \cup {e})
      BY <2>1
    <2>3. stream' = Append(stream, e) /\ e \in S \cup {e}
      BY <1>1, <1>3
    <2>4. Len(stream) \in Nat /\ Len(Append(stream, e)) = Len(stream) + 1
      BY <2>2
    <2>5. \A i \in 1 .. Len(stream) : Append(stream, e)[i] = stream[i]
      BY <2>2
    <2>6. Append(stream, e)[Len(stream) + 1] = e
      BY <2>2
    <2>7. Append(stream, e) # <<>>
      <3>1. Len(<<>>) = 0 /\ Len(stream) + 1 # 0
        BY <2>4
      <3> QED
        BY <2>4, <3>1
    <2> QED
      BY <2>3, <2>4, <2>5, <2>6, <2>7
  <1>6. CellsWanted'
    BY <1>1, SameWanted DEF StepInv, OutInv
  <1>7. CASE Waiting
    <2>1. Waiting'
      <3>1. ASSUME NEW i \in 1 .. Len(stream') PROVE stream'[i].op # "launch"
        <4>1. CASE i \in 1 .. Len(stream)
          BY <1>5, <1>7, <4>1 DEF Waiting
        <4>2. CASE i = Len(stream) + 1
          BY <1>4, <1>5, <4>2
        <4> QED
          BY <1>5, <4>1, <4>2
      <3> QED
        BY <1>1, <1>7, <3>1 DEF Waiting
    <2> QED
      BY <1>1, <1>6, <2>1 DEF OutInv
  <1>8. CASE \E n, g, K, k, c : Running(n, g, K, k, c)
    <2>1. PICK n, g, K, k, c : Running(n, g, K, k, c)
      BY <1>8
    <2>2. /\ g \in BOOLEAN /\ Formed(inputs, n, g) /\ Launches(inputs, n, K)
          /\ k \in 0 .. Len(K) /\ c \in {0, 1}
          /\ c = 1 => k = 0 /\ stream # <<>> /\ stream[1].op = "copy"
          /\ Len(stream) \in {c + (Len(K) - k), c + (Len(K) - k) + 1}
          /\ \A i \in 1 .. Len(K) - k : stream[c + i] = K[k + i] /\ stream[c + i].op = "launch"
          /\ Len(stream) = c + (Len(K) - k) + 1 => stream[Len(stream)].op = "inputs"
          /\ DOMAIN out = Done(inputs, K, k)
      BY <2>1 DEF Running
    <2>3. Len(K) \in Nat
      BY <2>2, LaunchesInOrder DEF StepInv, HostInv
    <2>4. Len(stream) # c + (Len(K) - k) + 1
      <3> SUFFICES ASSUME Len(stream) = c + (Len(K) - k) + 1 PROVE FALSE
        OBVIOUS
      <3>1. Len(stream) \in 1 .. Len(stream)
        BY <1>5, <2>2, <2>3
      <3> QED
        BY <1>1, <2>2, <3>1 DEF StepInv, SyncInv, StreamInv
    <2>5. Len(stream) = c + (Len(K) - k)
      BY <2>2, <2>4
    <2>6. Len(stream') = c + (Len(K) - k) + 1 /\ stream'[Len(stream')].op = "inputs"
      BY <1>4, <1>5, <2>5
    <2>7. \A i \in 1 .. Len(K) - k : stream'[c + i] = K[k + i] /\ stream'[c + i].op = "launch"
      <3> SUFFICES ASSUME NEW i \in 1 .. Len(K) - k PROVE stream'[c + i] = K[k + i]
      /\ stream'[c + i].op = "launch"
        OBVIOUS
      <3>1. c + i \in 1 .. Len(stream)
        BY <1>5, <2>2, <2>3, <2>5
      <3> QED
        BY <1>5, <2>2, <3>1
    <2>8. c = 1 => k = 0 /\ stream' # <<>> /\ stream'[1].op = "copy"
      <3>1. c = 1 => 1 \in 1 .. Len(stream)
        BY <1>5, <2>2, <2>3, <2>5
      <3> QED
        BY <1>5, <2>2, <3>1
    <2>9. Formed(inputs, n, g)' /\ Launches(inputs, n, K)' /\ Done(inputs, K, k)' = Done(inputs, K, k)
      BY <1>1, <2>2, SameRunning
    <2>10. Running(n, g, K, k, c)'
      BY <1>1, <1>5, <2>2, <2>6, <2>7, <2>8, <2>9 DEF Running
    <2> QED
      BY <1>1, <1>6, <2>10 DEF OutInv
  <1> QED
    BY <1>7, <1>8 DEF StepInv, OutInv

\* build ships its plan when the launches of the step before have run.
LEMMA BuildOut == StepInv /\ Build => OutInv'
  <1> SUFFICES ASSUME StepInv, Build PROVE OutInv'
    OBVIOUS
  <1>1. /\ phase = "build" /\ phase' = "forward" /\ UNCHANGED <<dep, batch, inputs, plan, out>> /\ stream = <<>>
        /\ stream' = Append(stream, [op |-> "copy"])
    BY DEF Build, Synced, deviceVars
  <1>2. Waiting
    <2>1. \A n, g, K, k, c : ~Running(n, g, K, k, c)
      BY <1>1 DEF Running
    <2> QED
      BY <2>1 DEF StepInv, OutInv
  <1>3. Len(stream') = 1 /\ stream'[1].op = "copy"
    BY <1>1
  <1>4. Waiting'
    <2>1. \A i \in 1 .. Len(stream') : i = 1
      BY <1>3
    <2> QED
      BY <1>1, <1>2, <1>3, <2>1 DEF Waiting
  <1>5. inputs' = batch'
    BY <1>1 DEF StepInv, SyncInv, PlanInv
  <1>6. CellsWanted'
    BY <1>1, SameWanted DEF StepInv, OutInv
  <1> QED
    BY <1>4, <1>5, <1>6 DEF OutInv

\* forward enqueues the launches of the rows that are on the device.
LEMMA ForwardOut == StepInv /\ Forward => OutInv'
  <1> SUFFICES ASSUME StepInv, Forward PROVE OutInv'
    OBVIOUS
  <1>0. PICK K, m : K = Kernels(batch, graph) /\ m = graph
    OBVIOUS
  <1>1. /\ phase = "forward" /\ phase' = "idle" /\ UNCHANGED <<dep, batch, graph, inputs, plan, out>>
        /\ stream' = stream \o K
    BY <1>0 DEF Forward, deviceVars, Kernels
  <1>2. Waiting
    <2>1. \A n, g, L, k, c : ~Running(n, g, L, k, c)
      BY <1>1 DEF Running
    <2> QED
      BY <2>1 DEF StepInv, OutInv
  <1>3. dep \in Deployments /\ m \in BOOLEAN /\ \E n : Formed(batch, n, m)
    BY <1>0, <1>1 DEF StepInv, HostInv
  <1>4. PICK n : Formed(batch, n, m)
    BY <1>3
  <1>5. inputs = batch
    BY <1>1 DEF StepInv, OutInv
  <1>6. Formed(inputs, n, m) /\ Launches(inputs, n, K)
    BY <1>0, <1>3, <1>4, <1>5, StepLaunches
  <1>7. IsSeq(K) /\ \A i \in 1 .. Len(K) : K[i].op = "launch"
    BY <1>0, RouteLaunches DEF Kernels, Captured
  <1>8. Len(K) \in {1, 2}
    BY <1>3, <1>6, LaunchesInOrder
  <1>9. IsSeq(stream) /\ \A i \in 1 .. Len(stream) : i = 1 /\ stream[i].op = "copy"
    BY <1>1 DEF StepInv, SyncInv, StreamInv
  <1>10. /\ Len(stream) \in Nat /\ Len(stream') = Len(stream) + Len(K)
         /\ \A i \in 1 .. Len(stream) : stream'[i] = stream[i]
         /\ \A i \in 1 .. Len(K) : stream'[Len(stream) + i] = K[i]
    BY <1>1, <1>7, <1>9, EnqueueSeq
  <1>11. PICK c \in {0, 1} : c = Len(stream)
    <2>1. Len(stream) >= 2 => FALSE
      <3>1. Len(stream) >= 2 => 2 \in 1 .. Len(stream)
        BY <1>10
      <3> QED
        BY <1>9, <3>1
    <2> QED
      BY <1>10, <2>1
  <1>12. stream' # <<>>
    <2>1. Len(stream') # 0
      BY <1>8, <1>10
    <2> QED
      BY <2>1
  <1>13. c = 1 => stream'[1].op = "copy"
    <2>1. c = 1 => 1 \in 1 .. Len(stream)
      BY <1>11
    <2> QED
      BY <1>9, <1>10, <2>1
  <1>14. \A i \in 1 .. Len(K) - 0 : stream'[c + i] = K[0 + i] /\ stream'[c + i].op = "launch"
    <2> SUFFICES ASSUME NEW i \in 1 .. Len(K) - 0 PROVE stream'[c + i] = K[0 + i]
    /\ stream'[c + i].op = "launch"
      OBVIOUS
    <2>1. i \in 1 .. Len(K) /\ 0 + i = i
      BY <1>8
    <2> QED
      BY <1>7, <1>10, <1>11, <2>1
  <1>15. Len(stream') = c + (Len(K) - 0) /\ Len(stream') # c + (Len(K) - 0) + 1 /\ 0 \in 0 .. Len(K)
    BY <1>8, <1>10, <1>11
  <1>16. Formed(inputs, n, m)' /\ Launches(inputs, n, K)' /\ Done(inputs, K, 0)' = Done(inputs, K, 0)
    BY <1>1, <1>6, SameRunning
  <1>17. DOMAIN out' = Done(inputs, K, 0)
    <2>1. out' = <<>>
      BY <1>1, <1>2 DEF Waiting
    <2> QED
      BY <2>1, NoOutput DEF Done
  <1>18. Running(n, m, K, 0, c)'
    BY <1>1, <1>3, <1>12, <1>13, <1>14, <1>15, <1>16, <1>17 DEF Running
  <1>19. CellsWanted'
    BY <1>1, SameWanted DEF StepInv, OutInv
  <1> QED
    BY <1>1, <1>18, <1>19 DEF OutInv

\* A launch at the head of the stream is the next of its step.
LEMMA HeadOfRest ==
    ASSUME StepInv, NEW n, NEW g, NEW K, NEW k, NEW c, Running(n, g, K, k, c), stream # <<>>
    PROVE  /\ Len(stream) \in Nat \ {0} /\ Head(stream) = stream[1]
           /\ Len(K) \in {1, 2} /\ k \in 0 .. Len(K) /\ c \in {0, 1}
           /\ Head(stream).op = "copy" => c = 1
           /\ Head(stream).op = "launch" => c = 0 /\ k + 1 \in 1 .. Len(K) /\ Head(stream) = K[k + 1]
  <1>1. /\ g \in BOOLEAN /\ Formed(inputs, n, g) /\ Launches(inputs, n, K)
        /\ k \in 0 .. Len(K) /\ c \in {0, 1}
        /\ c = 1 => k = 0 /\ stream # <<>> /\ stream[1].op = "copy"
        /\ Len(stream) \in {c + (Len(K) - k), c + (Len(K) - k) + 1}
        /\ \A i \in 1 .. Len(K) - k : stream[c + i] = K[k + i] /\ stream[c + i].op = "launch"
        /\ Len(stream) = c + (Len(K) - k) + 1 => stream[Len(stream)].op = "inputs"
    BY DEF Running
  <1>2. Len(K) \in {1, 2}
    BY <1>1, LaunchesInOrder DEF StepInv, HostInv
  <1>3. Len(stream) \in Nat \ {0} /\ Head(stream) = stream[1]
    BY DequeueSeq DEF StepInv, SyncInv, StreamInv
  <1>4. CASE c = 1
    BY <1>1, <1>2, <1>3, <1>4
  <1>5. CASE c = 0 /\ k = Len(K)
    <2>1. Len(stream) = 1 /\ Len(stream) = c + (Len(K) - k) + 1
      BY <1>1, <1>2, <1>3, <1>5
    <2>2. stream[1].op = "inputs"
      BY <1>1, <2>1
    <2> QED
      BY <1>1, <1>2, <1>3, <1>5, <2>2
  <1>6. CASE c = 0 /\ k # Len(K)
    <2>1. 1 \in 1 .. Len(K) - k /\ k + 1 \in 1 .. Len(K) /\ c + 1 = 1
      BY <1>1, <1>2, <1>6
    <2>2. stream[1] = K[k + 1] /\ stream[1].op = "launch"
      <3>1. stream[c + 1] = K[k + 1] /\ stream[c + 1].op = "launch"
        BY <1>1, <2>1
      <3> QED
        BY <2>1, <3>1
    <2> QED
      BY <1>1, <1>2, <1>3, <1>6, <2>1, <2>2
  <1> QED
    BY <1>1, <1>4, <1>5, <1>6

\* Executing the head of the stream.
LEMMA Dequeued ==
    ASSUME StepInv, stream # <<>>, stream' = Tail(stream)
    PROVE  /\ Len(stream') = Len(stream) - 1 /\ Len(stream) \in Nat \ {0}
           /\ \A i \in 1 .. Len(stream') : stream'[i] = stream[i + 1] /\ i + 1 \in 1 .. Len(stream)
           /\ stream' = <<>> <=> Len(stream) = 1
           /\ Waiting => \A i \in 1 .. Len(stream') : stream'[i].op # "launch"
  <1>1. IsSeq(stream)
    BY DEF StepInv, SyncInv, StreamInv
  <1>2. /\ Len(stream) \in Nat \ {0} /\ Len(stream') = Len(stream) - 1
        /\ \A i \in 1 .. Len(stream') : stream'[i] = stream[i + 1]
        /\ stream' = <<>> <=> Len(stream) = 1
    BY <1>1, DequeueSeq
  <1>3. \A i \in 1 .. Len(stream') : i + 1 \in 1 .. Len(stream)
    BY <1>2
  <1> QED
    BY <1>2, <1>3 DEF Waiting

\* New inputs drop the outputs of the step before.
LEMMA UpdateOut == StepInv /\ UpdateInputs => OutInv'
  <1> SUFFICES ASSUME StepInv, UpdateInputs PROVE OutInv'
    OBVIOUS
  <1>1. /\ stream # <<>> /\ stream' = Tail(stream) /\ Head(stream).op = "inputs" /\ out' = <<>>
        /\ UNCHANGED <<dep, phase, batch>>
    BY DEF UpdateInputs, Next1, hostVars
  <1>2. Len(stream) \in Nat \ {0} /\ Head(stream) = stream[1]
    BY <1>1, DequeueSeq DEF StepInv, SyncInv, StreamInv
  <1>3. phase = "build" /\ Len(stream) = 1
    <2>1. 1 \in 1 .. Len(stream) /\ stream[1].op = "inputs"
      BY <1>1, <1>2
    <2> QED
      BY <2>1 DEF StepInv, SyncInv, StreamInv
  <1>4. Len(stream') = 0
    BY <1>1, <1>3, Dequeued
  <1>5. Waiting'
    <2>1. \A i \in 1 .. Len(stream') : FALSE
      BY <1>4
    <2> QED
      BY <1>1, <2>1 DEF Waiting
  <1>6. CellsWanted'
    <2>1. DOMAIN out' = {}
      BY <1>1, NoOutput
    <2> QED
      BY <2>1 DEF CellsWanted
  <1> QED
    BY <1>1, <1>3, <1>5, <1>6 DEF OutInv

\* The copied plan is followed by its launches.
LEMMA CopyOut == StepInv /\ CopyPlan => OutInv'
  <1> SUFFICES ASSUME StepInv, CopyPlan PROVE OutInv'
    OBVIOUS
  <1>1. /\ stream # <<>> /\ stream' = Tail(stream) /\ Head(stream).op = "copy"
        /\ UNCHANGED <<dep, phase, batch, inputs, out>>
    BY DEF CopyPlan, Next1, hostVars
  <1>2. /\ Len(stream') = Len(stream) - 1 /\ Len(stream) \in Nat \ {0}
        /\ \A i \in 1 .. Len(stream') : stream'[i] = stream[i + 1] /\ i + 1 \in 1 .. Len(stream)
        /\ stream' = <<>> <=> Len(stream) = 1
        /\ Waiting => \A i \in 1 .. Len(stream') : stream'[i].op # "launch"
    BY <1>1, Dequeued
  <1>3. CellsWanted' /\ (phase' = "forward" => inputs' = batch')
    BY <1>1, SameWanted DEF StepInv, OutInv
  <1>4. CASE Waiting
    <2>1. Waiting'
      BY <1>1, <1>2, <1>4 DEF Waiting
    <2> QED
      BY <1>3, <2>1 DEF OutInv
  <1>5. CASE \E n, g, K, k, c : Running(n, g, K, k, c)
    <2>1. PICK n, g, K, k, c : Running(n, g, K, k, c)
      BY <1>5
    <2>2. c = 1 /\ Len(K) \in {1, 2}
      BY <1>1, <2>1, HeadOfRest
    <2>3. /\ g \in BOOLEAN /\ Formed(inputs, n, g) /\ Launches(inputs, n, K) /\ k = 0
          /\ Len(stream) \in {1 + Len(K), 1 + Len(K) + 1}
          /\ \A i \in 1 .. Len(K) : stream[1 + i] = K[i] /\ stream[1 + i].op = "launch"
          /\ Len(stream) = 1 + Len(K) + 1 => stream[Len(stream)].op = "inputs"
          /\ phase # "forward" /\ DOMAIN out = Done(inputs, K, k)
      <3>1. /\ g \in BOOLEAN /\ Formed(inputs, n, g) /\ Launches(inputs, n, K) /\ k = 0
            /\ Len(stream) \in {c + (Len(K) - k), c + (Len(K) - k) + 1}
            /\ \A i \in 1 .. Len(K) - k : stream[c + i] = K[k + i] /\ stream[c + i].op = "launch"
            /\ Len(stream) = c + (Len(K) - k) + 1 => stream[Len(stream)].op = "inputs"
            /\ phase # "forward" /\ DOMAIN out = Done(inputs, K, k)
        BY <2>1, <2>2 DEF Running
      <3>2. Len(K) - k = Len(K) /\ \A i \in 1 .. Len(K) : k + i = i
        BY <2>2, <3>1
      <3> QED
        BY <2>2, <3>1, <3>2
    <2>4. Len(stream') \in {0 + (Len(K) - 0), 0 + (Len(K) - 0) + 1} /\ stream' # <<>> /\ 0 \in 0 .. Len(K)
      BY <1>2, <2>2, <2>3
    <2>5. \A i \in 1 .. Len(K) - 0 : stream'[0 + i] = K[0 + i] /\ stream'[0 + i].op = "launch"
      <3> SUFFICES ASSUME NEW i \in 1 .. Len(K) - 0 PROVE stream'[0 + i] = K[0 + i]
      /\ stream'[0 + i].op = "launch"
        OBVIOUS
      <3>1. i \in 1 .. Len(K) /\ 0 + i = i /\ i \in 1 .. Len(stream') /\ i + 1 = 1 + i
        BY <1>2, <2>2, <2>3
      <3> QED
        BY <1>2, <2>3, <3>1
    <2>6. Len(stream') = 0 + (Len(K) - 0) + 1 => stream'[Len(stream')].op = "inputs"
      <3> SUFFICES ASSUME Len(stream') = 0 + (Len(K) - 0) + 1 PROVE stream'[Len(stream')].op = "inputs"
        OBVIOUS
      <3>1. Len(stream') \in 1 .. Len(stream') /\ Len(stream') + 1 = Len(stream) /\ Len(stream) = 1 + Len(K) + 1
        BY <1>2, <2>2
      <3>2. stream'[Len(stream')] = stream[Len(stream)]
        BY <1>2, <3>1
      <3> QED
        BY <2>3, <3>1, <3>2
    <2>7. Formed(inputs, n, g)' /\ Launches(inputs, n, K)' /\ Done(inputs, K, 0)' = Done(inputs, K, 0)
      BY <1>1, <2>3, SameRunning
    <2>8. Running(n, g, K, 0, 0)'
      BY <1>1, <2>3, <2>4, <2>5, <2>6, <2>7 DEF Running
    <2> QED
      BY <1>3, <2>8 DEF OutInv
  <1> QED
    BY <1>4, <1>5 DEF StepInv, OutInv

\* The next launch covers the tokens behind those of the launches before it.
LEMMA MoreDone ==
    ASSUME dep \in Deployments, NEW rows, NEW n, NEW g \in BOOLEAN, Formed(rows, n, g), NEW K, Launches(rows, n, K),
           NEW k \in 0 .. Len(K), k + 1 \in 1 .. Len(K)
    PROVE  LET C == QueryStartLoc(rows)
           IN  Done(rows, K, k) \cup (C[K[k + 1].lo] .. C[K[k + 1].hi + 1] - 1) = Done(rows, K, k + 1)
  <1> DEFINE C == QueryStartLoc(rows)
             N == Len(rows)
             l == K[k + 1]
             lens == QueryLens(rows)
  <1>1. /\ Len(K) \in {1, 2} /\ K[1].lo = 1
        /\ Len(K) = 2 => K[2].lo = K[1].hi + 1
        /\ \A m \in 1 .. Len(K) : K[m].lo \in 1 .. N /\ K[m].hi \in 1 .. N /\ K[m].lo <= K[m].hi
    BY LaunchesInOrder
  <1>2. l.lo \in 1 .. N /\ l.hi \in 1 .. N /\ l.lo <= l.hi
    BY <1>1
  <1>3. Lengths(lens) /\ Len(lens) = N /\ Offsets(C, lens) /\ C[1] = 0 /\ N \in Nat
    BY QueryOffsets DEF Formed, Rows
  <1>4. l.lo \in 1 .. N + 1 /\ l.hi + 1 \in 1 .. N + 1 /\ l.lo <= l.hi + 1
    BY <1>2, <1>3
  <1> DEFINE u == C[l.lo]
             v == C[l.hi + 1]
  <1>5. u \in Nat /\ v \in Nat /\ u <= v
    <2>1. Lengths(lens) /\ Offsets(C, lens)
      BY <1>3
    <2> HIDE DEF C, lens, l
    <2> QED
      BY <1>3, <1>4, <2>1, OffsetsRise
  <1>6. Done(rows, K, k + 1) = 0 .. v - 1
    <2>1. k + 1 # 0
      BY <1>1
    <2> QED
      BY <2>1 DEF Done
  <1>7. Done(rows, K, k) = 0 .. u - 1
    <2>1. k \in {0, 1}
      BY <1>1
    <2>2. CASE k = 0
      <3>1. u = 0
        BY <1>1, <1>3, <2>2
      <3>2. Done(rows, K, k) = {}
        BY <2>2 DEF Done
      <3>3. 0 .. 0 - 1 = {}
        OBVIOUS
      <3> HIDE DEF u
      <3> QED
        BY <3>1, <3>2, <3>3
    <2>3. CASE k = 1
      <3>1. Len(K) = 2 /\ l = K[2]
        BY <1>1, <2>3
      <3>2. l.lo = K[1].hi + 1
        BY <1>1, <3>1
      <3>3. Done(rows, K, k) = 0 .. C[K[1].hi + 1] - 1
        BY <2>3 DEF Done
      <3> QED
        BY <3>2, <3>3
    <2> QED
      BY <2>1, <2>2, <2>3
  <1> HIDE DEF u, v
  <1>8. (0 .. u - 1) \cup (u .. v - 1) = 0 .. v - 1
    BY <1>5
  <1>9. Done(rows, K, k) \cup (u .. v - 1) = Done(rows, K, k + 1)
    BY <1>6, <1>7, <1>8
  <1> QED
    BY <1>9 DEF u, v

\* An executed launch adds the outputs of its tokens, and they are right.
LEMMA RunOut ==
    ASSUME StepInv, RunKernels, Exactness(dep)
    PROVE  OutInv'
  <1> DEFINE l == Head(stream)
             C == QueryStartLoc(inputs)
             tokens == C[l.lo] .. C[l.hi + 1] - 1
  <1>1. /\ stream # <<>> /\ stream' = Tail(stream) /\ l.op = "launch"
        /\ UNCHANGED <<dep, phase, batch, inputs, plan>>
        /\ out' = [t \in DOMAIN out \cup tokens |->
                      IF t \in tokens THEN Attended(l, t) ELSE out[t]]
    BY DEF RunKernels, Next1, hostVars
  <1>2. /\ Len(stream') = Len(stream) - 1 /\ Len(stream) \in Nat \ {0}
        /\ \A i \in 1 .. Len(stream') : stream'[i] = stream[i + 1] /\ i + 1 \in 1 .. Len(stream)
        /\ stream' = <<>> <=> Len(stream) = 1
    BY <1>1, Dequeued
  <1>3. PICK n, g, K, k, c : Running(n, g, K, k, c)
    <2>1. 1 \in 1 .. Len(stream) /\ l = stream[1]
      <3>1. IsSeq(stream)
        BY DEF StepInv, SyncInv, StreamInv
      <3>2. Head(stream) = stream[1]
        BY <1>1, <3>1, DequeueSeq
      <3> QED
        BY <1>2, <3>2
    <2>2. ~Waiting
      BY <1>1, <2>1 DEF Waiting
    <2> QED
      BY <2>2 DEF StepInv, OutInv
  <1>4. c = 0 /\ Len(K) \in {1, 2} /\ k \in 0 .. Len(K) /\ k + 1 \in 1 .. Len(K) /\ l = K[k + 1]
    BY <1>1, <1>3, HeadOfRest
  <1>5. /\ g \in BOOLEAN /\ Formed(inputs, n, g) /\ Launches(inputs, n, K)
        /\ Len(stream) \in {Len(K) - k, Len(K) - k + 1}
        /\ \A i \in 1 .. Len(K) - k : stream[i] = K[k + i] /\ stream[i].op = "launch"
        /\ Len(stream) = Len(K) - k + 1 => stream[Len(stream)].op = "inputs"
        /\ phase # "forward" /\ DOMAIN out = Done(inputs, K, k)
    <2>1. /\ g \in BOOLEAN /\ Formed(inputs, n, g) /\ Launches(inputs, n, K)
          /\ Len(stream) \in {c + (Len(K) - k), c + (Len(K) - k) + 1}
          /\ \A i \in 1 .. Len(K) - k : stream[c + i] = K[k + i] /\ stream[c + i].op = "launch"
          /\ Len(stream) = c + (Len(K) - k) + 1 => stream[Len(stream)].op = "inputs"
          /\ phase # "forward" /\ DOMAIN out = Done(inputs, K, k)
      BY <1>3 DEF Running
    <2>2. /\ c + (Len(K) - k) = Len(K) - k /\ c + (Len(K) - k) + 1 = Len(K) - k + 1
          /\ \A i \in 1 .. Len(K) - k : c + i = i
      BY <1>4
    <2> QED
      BY <2>1, <2>2
  <1>6. dep \in Deployments /\ plan = PlanOf(inputs)
    BY <1>1 DEF StepInv, HostInv, SyncInv, PlanInv
  <1>7. DOMAIN out' = Done(inputs, K, k + 1)
    <2>1. DOMAIN out' = DOMAIN out \cup tokens
      BY <1>1
    <2>2. Done(inputs, K, k) \cup tokens = Done(inputs, K, k + 1)
      BY <1>4, <1>5, <1>6, MoreDone
    <2> QED
      BY <1>5, <2>1, <2>2
  <1>8. CellsWanted'
    <2>1. ASSUME NEW t \in DOMAIN out' PROVE WantedCells(out'[t], t)
      <3>1. CASE t \in tokens
        <4>1. WantedCells(Attended(K[k + 1], t), t)
          BY <1>4, <1>5, <1>6, <3>1, LaunchExact
        <4>2. out'[t] = Attended(l, t)
          BY <1>1, <2>1, <3>1
        <4> QED
          BY <1>4, <4>1, <4>2
      <3>2. CASE t \notin tokens
        <4>1. t \in DOMAIN out /\ out'[t] = out[t]
          BY <1>1, <2>1, <3>2
        <4> QED
          BY <4>1 DEF StepInv, OutInv, CellsWanted
      <3> QED
        BY <3>1, <3>2
    <2>2. \A cells, t : WantedCells(cells, t) => WantedCells(cells, t)'
      BY <1>1, SameCells
    <2>3. ASSUME NEW t \in DOMAIN out' PROVE WantedCells(out[t], t)'
      <3>1. PICK x : x = out'[t]
        OBVIOUS
      <3>2. WantedCells(x, t)
        BY <2>1, <3>1
      <3>3. WantedCells(x, t)'
        BY <2>2, <3>2
      <3> QED
        BY <3>1, <3>3
    <2> QED
      BY <2>3 DEF CellsWanted
  <1>9. Len(stream') \in {0 + (Len(K) - (k + 1)), 0 + (Len(K) - (k + 1)) + 1} /\ k + 1 \in 0 .. Len(K)
    BY <1>2, <1>4, <1>5
  <1>10. \A i \in 1 .. Len(K) - (k + 1) : stream'[0 + i] = K[k + 1 + i] /\ stream'[0 + i].op = "launch"
    <2> SUFFICES ASSUME NEW i \in 1 .. Len(K) - (k + 1)
                 PROVE stream'[0 + i] = K[k + 1 + i] /\ stream'[0 + i].op = "launch"
      OBVIOUS
    <2>1. i \in 1 .. Len(stream') /\ i + 1 \in 1 .. Len(K) - k /\ k + (i + 1) = k + 1 + i /\ 0 + i = i
      BY <1>4, <1>9
    <2> QED
      BY <1>2, <1>5, <2>1
  <1>11. Len(stream') = 0 + (Len(K) - (k + 1)) + 1 => stream'[Len(stream')].op = "inputs"
    <2> SUFFICES ASSUME Len(stream') = 0 + (Len(K) - (k + 1)) + 1 PROVE stream'[Len(stream')].op = "inputs"
      OBVIOUS
    <2>1. Len(stream') \in 1 .. Len(stream') /\ Len(stream') + 1 = Len(stream) /\ Len(stream) = Len(K) - k + 1
      BY <1>2, <1>4, SMTT(30)
    <2>2. stream'[Len(stream')] = stream[Len(stream)]
      BY <1>2, <2>1
    <2> QED
      BY <1>5, <2>1, <2>2
  <1>12. phase = "build" => stream' # <<>>
    <2> SUFFICES ASSUME phase = "build" PROVE stream' # <<>>
      OBVIOUS
    <2>1. stream[Len(stream)].op = "inputs"
      BY <1>1 DEF StepInv, SyncInv, StreamInv
    <2>2. stream[1].op = "launch"
      BY <1>1, DequeueSeq DEF StepInv, SyncInv, StreamInv
    <2>3. Len(stream) # 1
      BY <2>1, <2>2
    <2> QED
      BY <1>2, <2>3
  <1>13. Formed(inputs, n, g)' /\ Launches(inputs, n, K)' /\ Done(inputs, K, k + 1)' = Done(inputs, K, k + 1)
    BY <1>1, <1>5, SameRunning
  <1> DEFINE m == k + 1
  <1>14. /\ m \in 0 .. Len(K) /\ DOMAIN out' = Done(inputs, K, m)' /\ 0 \in {0, 1} /\ 0 # 1
         /\ Len(stream') \in {0 + (Len(K) - m), 0 + (Len(K) - m) + 1}
         /\ \A i \in 1 .. Len(K) - m : stream'[0 + i] = K[m + i] /\ stream'[0 + i].op = "launch"
         /\ Len(stream') = 0 + (Len(K) - m) + 1 => stream'[Len(stream')].op = "inputs"
    BY <1>7, <1>9, <1>10, <1>11, <1>13
  <1> HIDE DEF m
  <1>15. Running(n, g, K, m, 0)'
    BY <1>1, <1>5, <1>12, <1>13, <1>14 DEF Running
  <1>16. \E a, b, d, e, f : Running(a, b, d, e, f)'
    BY <1>15
  <1>17. phase' = "forward" => inputs' = batch'
    BY <1>1 DEF StepInv, OutInv
  <1> QED
    BY <1>8, <1>16, <1>17 DEF OutInv

\* Every step keeps the outputs right.
LEMMA OutStep ==
    ASSUME StepInv, [Next]_vars, \A d \in Deployments : Exactness(d)
    PROVE  OutInv'
  <1>1. CASE Schedule
    BY <1>1, ScheduleOut
  <1>2. CASE Build
    BY <1>2, BuildOut
  <1>3. CASE Forward
    BY <1>3, ForwardOut
  <1>4. CASE UpdateInputs
    BY <1>4, UpdateOut
  <1>5. CASE CopyPlan
    BY <1>5, CopyOut
  <1>6. CASE RunKernels
    <2>1. Exactness(dep)
      BY DEF StepInv, HostInv
    <2> QED
      BY <1>6, <2>1, RunOut
  <1>7. CASE UNCHANGED vars
    <2>1. UNCHANGED <<dep, phase, batch, inputs, stream, out>>
      BY <1>7 DEF vars, hostVars, deviceVars
    <2>2. CellsWanted'
      BY <2>1, SameWanted DEF StepInv, OutInv
    <2>3. Waiting => Waiting'
      BY <2>1 DEF Waiting
    <2>4. ASSUME NEW n, NEW g, NEW K, NEW k, NEW c, Running(n, g, K, k, c) PROVE Running(n, g, K, k, c)'
      <3>1. Formed(inputs, n, g) /\ Launches(inputs, n, K)
        BY <2>4 DEF Running
      <3>2. Formed(inputs, n, g)' /\ Launches(inputs, n, K)' /\ Done(inputs, K, k)' = Done(inputs, K, k)
        BY <2>1, <3>1, SameRunning
      <3> QED
        BY <2>1, <2>4, <3>2 DEF Running
    <2> QED
      BY <2>1, <2>2, <2>3, <2>4 DEF StepInv, OutInv
  <1> QED
    BY <1>1, <1>2, <1>3, <1>4, <1>5, <1>6, <1>7 DEF Next

(* Each query token scores every key of its own request up to itself, or all  *)
(* of them when the pass is not causal, that lies in its layer's window, each *)
(* exactly once and no other key, on every path of forward, with graphs       *)
(* replayed and plans in flight; and when a step's launches have run every    *)
(* token has its output.  A row too long for a decode that reaches past its   *)
(* window scores either that or its full history (Accepted).                  *)
(* Exactness leaves out three settings: verify rows that are not causal       *)
(* without the kernel that knows them, which no launcher starts; and the      *)
(* path that packs every key of a decode batch, with a scratch smaller than   *)
(* the largest batch, which run materialised shows to overflow, or with a     *)
(* window, which it does not apply.                                           *)
THEOREM ExactOutputs ==
    ASSUME \A d \in Deployments : Exactness(d)
    PROVE  Spec => []OutputsExact
  <1>1. Init => StepInv
    BY SyncInit, HostInit, OutInit DEF StepInv
  <1>2. StepInv /\ [Next]_vars => StepInv'
    BY SyncStep, HostNext, OutStep DEF StepInv
  <1>3. StepInv => OutputsExact
    BY StepsExecuted
  <1> QED
    BY <1>1, <1>2, <1>3, PTL DEF Spec
=============================================================================
