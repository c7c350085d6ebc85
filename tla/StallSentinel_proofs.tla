------------------------- MODULE StallSentinel_proofs -------------------------
(***************************************************************************)
(* Safety of the stall sentinel for every threshold and check interval.    *)
(***************************************************************************)
EXTENDS StallSentinel, TLAPS

(* A reset clock, timer or count is in range.                                 *)
LEMMA ZeroInRange == 0 \in 0 .. Threshold /\ 0 \in 0 .. MaxLive /\ 0 \in 0 .. CheckInterval
BY SentinelAssumption

(* The sentinel thread never leaves its states and no clock reading leaves    *)
(* its range.                                                                 *)
THEOREM TypesHold == Spec => []SentinelTypeOK
<1>1. Init => SentinelTypeOK
  BY ZeroInRange, Zenon DEF Init, SentinelTypeOK
<1>2. SentinelTypeOK /\ [Next]_vars => SentinelTypeOK'
  <2> SUFFICES ASSUME SentinelTypeOK, [Next]_vars PROVE SentinelTypeOK'
    OBVIOUS
  <2> USE SentinelAssumption DEF SentinelTypeOK, episodeVars
  <2>1. CASE Tick
    BY <2>1 DEF Tick, Later, engineVars
  <2>2. CASE Engine
    <3>1. CASE Input
      BY <3>1 DEF Input, sentinelVars
    <3>2. CASE BeginStep
      BY <3>2 DEF BeginStep, sentinelVars
    <3>3. CASE Hang
      BY <3>3 DEF Hang, sentinelVars
    <3>4. CASE EndStep
      BY <3>4 DEF EndStep, sentinelVars
    <3>5. CASE StampStep
      BY <3>5, ZeroInRange DEF StampStep, Refresh
    <3>6. CASE ClearFlag
      BY <3>6 DEF ClearFlag, FlagCleared, sentinelVars
    <3> QED BY <2>2, <3>1, <3>2, <3>3, <3>4, <3>5, <3>6 DEF Engine
  <2>3. CASE Sentinel
    <3>1. CASE ReadClock
      BY <3>1 DEF ReadClock, engineVars
    <3>2. CASE ReadGap
      BY <3>2 DEF ReadGap, engineVars
    <3>3. CASE Test
      BY <3>3 DEF Test, BackToWait, engineVars
    <3>4. CASE ReadCounts
      BY <3>4 DEF ReadCounts, BackToWait, engineVars
    <3>5. CASE RaiseFlag
      BY <3>5 DEF RaiseFlag, engineVars
    <3>6. CASE Warn
      BY <3>6 DEF Warn, BackToWait, engineVars
    <3> QED BY <2>3, <3>1, <3>2, <3>3, <3>4, <3>5, <3>6 DEF Sentinel
  <2>4. CASE UNCHANGED vars
    BY <2>4 DEF vars, engineVars, sentinelVars
  <2> QED BY <2>1, <2>2, <2>3, <2>4 DEF Next
<1> QED BY <1>1, <1>2, PTL DEF Spec

-----------------------------------------------------------------------------

(* The raised flag silences the sentinel in the episode it was raised for and  *)
(* in no other, unless the tick that raised it had been outrun by step_done,   *)
(* whichever way the two unlocked threads interleave.                          *)
THEOREM FlagSilencesOneEpisode == Spec => []FlagSilencesOnlyItsEpisode
<1>1. Init => FlagSilencesOnlyItsEpisode
  BY DEF Init, FlagSilencesOnlyItsEpisode
<1>2. FlagSilencesOnlyItsEpisode /\ [Next]_vars => FlagSilencesOnlyItsEpisode'
  <2> SUFFICES ASSUME FlagSilencesOnlyItsEpisode, [Next]_vars
               PROVE FlagSilencesOnlyItsEpisode'
    OBVIOUS
  <2> USE DEF FlagSilencesOnlyItsEpisode, episodeVars
  <2>1. CASE Tick
    BY <2>1 DEF Tick, engineVars
  <2>2. CASE Input \/ BeginStep \/ Hang \/ EndStep
    BY <2>2 DEF Input, BeginStep, Hang, EndStep, sentinelVars
  <2>3. CASE StampStep \/ ClearFlag
    BY <2>3 DEF StampStep, ClearFlag, FlagCleared
  <2>4. CASE ReadClock \/ ReadGap \/ Test \/ ReadCounts
    BY <2>4 DEF ReadClock, ReadGap, Test, ReadCounts, BackToWait, engineVars
  <2>5. CASE RaiseFlag
    BY <2>5 DEF RaiseFlag
  <2>6. CASE Warn
    BY <2>6 DEF Warn, BackToWait, engineVars
  <2>7. CASE UNCHANGED vars
    BY <2>7 DEF vars, engineVars, sentinelVars
  <2> QED BY <2>1, <2>2, <2>3, <2>4, <2>5, <2>6, <2>7 DEF Next, Engine, Sentinel
<1> QED BY <1>1, <1>2, PTL DEF Spec

-----------------------------------------------------------------------------

\* What each local of the sentinel says about the silence at its clock reading.
GapsAreSilences ==
    /\ age = quiet
    /\ sentinel = "clock" /\ clock >= Threshold => lapsed
    /\ sentinel = "gap" /\ gap >= Threshold => lapsed
    /\ sentinel \in {"counts", "raise", "log"} => lapsed

(* A warning always follows a silence of the threshold: a refresh of          *)
(* _last_done between the sentinel's two reads can only shrink its gap.       *)
THEOREM SteadyHolds == Spec => []SteadyNeverAlarms
<1>1. Init => GapsAreSilences
  BY DEF Init, GapsAreSilences
<1>2. SentinelTypeOK /\ GapsAreSilences /\ [Next]_vars => GapsAreSilences'
  <2> SUFFICES ASSUME SentinelTypeOK, GapsAreSilences, [Next]_vars
               PROVE GapsAreSilences'
    OBVIOUS
  <2> USE SentinelAssumption DEF GapsAreSilences, SentinelTypeOK
  <2>1. CASE Tick
    BY <2>1 DEF Tick, Later
  <2>2. CASE StampStep
    BY <2>2 DEF StampStep, Refresh
  <2>3. CASE Input \/ BeginStep \/ Hang \/ EndStep \/ ClearFlag
    BY <2>3 DEF Input, BeginStep, Hang, EndStep, ClearFlag, sentinelVars
  <2>4. CASE ReadClock \/ ReadGap
    BY <2>4 DEF ReadClock, ReadGap
  <2>5. CASE Test
    BY <2>5 DEF Test, BackToWait
  <2>6. CASE ReadCounts \/ RaiseFlag \/ Warn
    BY <2>6 DEF ReadCounts, RaiseFlag, Warn, BackToWait
  <2>7. CASE UNCHANGED vars
    BY <2>7 DEF vars, sentinelVars
  <2> QED BY <2>1, <2>2, <2>3, <2>4, <2>5, <2>6, <2>7 DEF Next, Engine, Sentinel
<1>3. GapsAreSilences => SteadyNeverAlarms
  BY DEF GapsAreSilences, SteadyNeverAlarms
<1> QED BY <1>1, <1>2, <1>3, TypesHold, PTL DEF Spec
=============================================================================
