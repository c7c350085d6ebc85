---------------------------- MODULE StallSentinel ----------------------------
(***************************************************************************)
(* The stall sentinel of engine-stall-sentinel.patch: a daemon thread that *)
(* warns when the engine core stops completing steps while requests are    *)
(* live.  The two threads share _last_done and _stall_logged without a     *)
(* lock, so every read and write of them is a step of its own.             *)
(*                                                                         *)
(* Time is discrete and relative: every clock reading is kept as its       *)
(* distance from _last_done, and no distance above the threshold is told   *)
(* from another.  The engine loop and the request counts are vLLM's.       *)
(***************************************************************************)
EXTENDS Integers

CONSTANTS
    Threshold,      \* _threshold_s, in ticks
    CheckInterval,  \* _check_interval_s, in ticks
    MaxLive         \* bound: requests in the scheduler

ASSUME SentinelAssumption ==
    /\ Threshold \in Nat \ {0}
    /\ CheckInterval \in Nat \ {0}
    /\ MaxLive \in Nat

VARIABLES
    loop,           \* engine thread: where it is between input and step_done
    live,           \* running + waiting requests
    age,            \* time.monotonic() - _last_done
    stall_logged,   \* _stall_logged
    sentinel,       \* sentinel thread: where it is in _run
    timer,          \* ticks spent in _stop.wait
    clock,          \* the monotonic() reading of this tick, minus _last_done
    gap,            \* gap of this tick
    quiet,          \* history: time since step_done was last called
    held,           \* history: time with a live request and no step_done call
    lapsed,         \* history: quiet was at the threshold at the clock reading
    outrun,         \* history: step_done has run since gap was read
    reported,       \* history: a gap counted from this _last_done was logged
    stray           \* history: the flag was raised for a gap that was outrun

engineVars == <<loop, live>>
sentinelVars == <<sentinel, timer, clock, gap>>
episodeVars == <<outrun, reported, stray>>
vars == <<engineVars, age, stall_logged, sentinelVars,
          quiet, held, lapsed, episodeVars>>

Init ==
    /\ loop = "input" /\ live = 0
    /\ age = 0 /\ stall_logged = FALSE
    /\ sentinel = "wait" /\ timer = 0 /\ clock = 0 /\ gap = 0
    /\ quiet = 0 /\ held = 0 /\ lapsed = FALSE
    /\ outrun = FALSE /\ reported = FALSE /\ stray = FALSE

-----------------------------------------------------------------------------

Later(t, bound) == IF t < bound THEN t + 1 ELSE t

Tick ==
    /\ age' = Later(age, Threshold)
    /\ quiet' = Later(quiet, Threshold)
    /\ held' = IF live > 0 THEN Later(held, Threshold) ELSE 0
    /\ timer' = IF sentinel = "wait" THEN Later(timer, CheckInterval) ELSE timer
    /\ UNCHANGED <<engineVars, stall_logged, sentinel, clock, gap, lapsed, episodeVars>>

-----------------------------------------------------------------------------
(* The engine thread: one iteration of the busy loop.                      *)

\* The input queue adds and aborts requests between two steps; without any
\* request the loop blocks on it.
Input ==
    /\ loop = "input"
    /\ live' \in {live - 1, live + 1} \cap (0 .. MaxLive)
    /\ held' = IF live' = 0 THEN 0 ELSE held
    /\ UNCHANGED <<loop, age, stall_logged, sentinelVars, quiet, lapsed, episodeVars>>

\* A step starts, hangs for good, or ends with some requests finished.
BeginStep ==
    /\ loop = "input" /\ live > 0
    /\ loop' = "step"
    /\ UNCHANGED <<live, age, stall_logged, sentinelVars, quiet, held, lapsed, episodeVars>>

Hang ==
    /\ loop = "step"
    /\ loop' = "hung"
    /\ UNCHANGED <<live, age, stall_logged, sentinelVars, quiet, held, lapsed, episodeVars>>

EndStep ==
    /\ loop = "step"
    /\ loop' = "done"
    /\ live' \in 0 .. live
    /\ held' = IF live' = 0 THEN 0 ELSE held
    /\ UNCHANGED <<age, stall_logged, sentinelVars, quiet, lapsed, episodeVars>>

\* step_done, first line: _last_done = time.monotonic().  A clock reading the
\* sentinel took before lies at or before the new _last_done.
RefreshForgotten == age
RefreshAhead == -1
Refresh == 0

StampStep ==
    /\ loop = "done"
    /\ loop' = "stamped"
    /\ age' = Refresh
    /\ clock' = 0
    /\ quiet' = 0 /\ held' = 0
    /\ outrun' = TRUE /\ reported' = FALSE
    /\ UNCHANGED <<live, stall_logged, sentinel, timer, gap, lapsed, stray>>

\* step_done, second line: _stall_logged = False.
FlagKept == stall_logged
FlagCleared == FALSE

ClearFlag ==
    /\ loop = "stamped"
    /\ loop' = "input"
    /\ stall_logged' = FlagCleared
    /\ stray' = FALSE
    /\ UNCHANGED <<live, age, sentinelVars, quiet, held, lapsed, outrun, reported>>

-----------------------------------------------------------------------------
(* The sentinel thread: one pass of _run.                                  *)

BackToWait ==
    /\ sentinel' = "wait"
    /\ timer' = 0

\* The wait times out and the left operand of gap is read ...
ReadClock ==
    /\ sentinel = "wait" /\ timer = CheckInterval
    /\ sentinel' = "clock"
    /\ clock' = age
    /\ lapsed' = (quiet >= Threshold)
    /\ UNCHANGED <<engineVars, age, stall_logged, timer, gap, quiet, held, episodeVars>>

\* ... and then _last_done.
ReadGap ==
    /\ sentinel = "clock"
    /\ sentinel' = "gap"
    /\ gap' = clock
    /\ outrun' = FALSE
    /\ UNCHANGED <<engineVars, age, stall_logged, timer, clock, quiet, held,
                   lapsed, reported, stray>>

Test ==
    /\ sentinel = "gap"
    /\ IF gap < Threshold \/ stall_logged
       THEN BackToWait
       ELSE sentinel' = "counts" /\ UNCHANGED timer
    /\ UNCHANGED <<engineVars, age, stall_logged, clock, gap, quiet, held,
                   lapsed, episodeVars>>

\* get_request_counts() reads the scheduler's own queues from this thread; it
\* may raise while the engine thread is changing them.
ReadCountsUncaught ==
    /\ sentinel = "counts"
    /\ \/ live > 0 /\ sentinel' = "raise" /\ UNCHANGED timer
       \/ live = 0 /\ BackToWait
       \/ loop # "hung" /\ sentinel' = "dead" /\ UNCHANGED timer
    /\ UNCHANGED <<engineVars, age, stall_logged, clock, gap, quiet, held,
                   lapsed, episodeVars>>
ReadCounts ==
    /\ sentinel = "counts"
    /\ \/ live > 0 /\ sentinel' = "raise" /\ UNCHANGED timer
       \/ live = 0 /\ BackToWait
       \/ loop # "hung" /\ BackToWait
    /\ UNCHANGED <<engineVars, age, stall_logged, clock, gap, quiet, held,
                   lapsed, episodeVars>>

RaiseFlag ==
    /\ sentinel = "raise"
    /\ sentinel' = "log"
    /\ stall_logged' = TRUE
    /\ stray' = outrun
    /\ UNCHANGED <<engineVars, age, timer, clock, gap, quiet, held, lapsed,
                   outrun, reported>>

Warn ==
    /\ sentinel = "log"
    /\ BackToWait
    /\ reported' = (reported \/ ~outrun)
    /\ UNCHANGED <<engineVars, age, stall_logged, clock, gap, quiet, held,
                   lapsed, outrun, stray>>

Engine == Input \/ BeginStep \/ Hang \/ EndStep \/ StampStep \/ ClearFlag

Sentinel == ReadClock \/ ReadGap \/ Test \/ ReadCounts \/ RaiseFlag \/ Warn

Next == Tick \/ Engine \/ Sentinel

\* The operating system runs the daemon thread and time passes; nothing is
\* assumed of the engine thread, whose stall is what is looked for.
Spec == Init /\ [][Next]_vars /\ WF_vars(Tick) /\ WF_vars(Sentinel)

-----------------------------------------------------------------------------

SentinelTypeOK ==
    /\ loop \in {"input", "step", "hung", "done", "stamped"}
    /\ live \in 0 .. MaxLive
    /\ age \in 0 .. Threshold /\ quiet \in 0 .. Threshold
    /\ held \in 0 .. Threshold
    /\ clock \in 0 .. Threshold /\ gap \in 0 .. Threshold
    /\ stall_logged \in BOOLEAN /\ lapsed \in BOOLEAN
    /\ outrun \in BOOLEAN /\ reported \in BOOLEAN /\ stray \in BOOLEAN
    /\ sentinel \in {"wait", "clock", "gap", "counts", "raise", "log"}
    /\ timer \in 0 .. CheckInterval

(* The flag silences the sentinel until step_done lowers it.  It is up only   *)
(* in an episode whose own gap was logged or is about to be, while step_done  *)
(* is on its way to lower it, or because one tick was outrun: it had passed   *)
(* its test before a step completed and raised the flag after.                *)
FlagSilencesOnlyItsEpisode ==
    stall_logged =>
        \/ reported
        \/ sentinel = "log" /\ ~outrun
        \/ loop = "stamped"
        \/ stray

(* A prefill of any length whose steps each end within the threshold of the   *)
(* one before never alarms: whenever the flag is raised, no step had completed *)
(* for the threshold when the sentinel's tick began, however the two threads  *)
(* interleaved since.                                                         *)
SteadyNeverAlarms == sentinel \in {"raise", "log"} => lapsed

(* A hang with live requests is reported by a warning whose gap counts from   *)
(* the last completed step ("logs one warning line per stall episode").  The   *)
(* sentinel misses one for one reason only: a tick that the step before the    *)
(* hang outran left the flag up.  No exception of get_request_counts, no       *)
(* request-free tick and no earlier report silences it.                        *)
HangReportedUnlessOutrun == loop = "hung" /\ live > 0 ~> reported \/ stray

(* What is reported is a stall: when the flag is raised, requests have been   *)
(* live, and no step completed, for the threshold (envs.py: "Warn when the    *)
(* engine core stops completing steps while requests are still alive, after   *)
(* this many seconds").                                                       *)
AlarmMeansHeld == sentinel = "raise" => held >= Threshold
=============================================================================
