------------------------------ MODULE FasEngine ------------------------------
(***************************************************************************)
(* The frame-aware scheduling engine: the phase machine of                 *)
(* bin/fas/fas_engine.cpp, driven by the FAS prediction thread.            *)
(*                                                                         *)
(* The thread sleeps, wakes, tells the engine about an application switch  *)
(* if there was one, and ticks it once on the frame statistics of the      *)
(* moment (a reading).  The engine measures the frame interval the game    *)
(* reaches at the sweet-spot frequency (CALIBRATING), lowers the frequency *)
(* while the game keeps that rate (STABLE) and raises it in proportion to  *)
(* the loss while it does not (DEGRADED).                                  *)
(*                                                                         *)
(* A time stamp x_ms of the code is modelled by its age now - x_ms, in     *)
(* time units, None for the value 0 the code uses for "not set".  Ages     *)
(* saturate at Horizon, the largest bound they are compared with, so that  *)
(* time is unbounded and the state space is not.  calib_since_ms is None   *)
(* outside calibration, where the code does not read it.                   *)
(***************************************************************************)
EXTENDS Integers, FiniteSets

CONSTANTS
    Apps,               \* packages that may come to the foreground
    NoApp,              \* the empty package name
    Intervals,          \* short-window frame intervals the buffer can yield, in ms
    Rates,              \* long-window frame rates the buffer can yield, in fps
    SleepSteps,         \* how long the thread may sleep between two ticks
    WarmupMs,           \* kBufferUsableWarmupMs
    CalibMs,            \* kCalibMs
    CalibMinFrames,     \* kCalibMinFrames
    CalibMaxSamples,    \* kCalibMaxSamples
    CalibMinIntervalMs, \* kCalibMinIntervalMs, in ms
    CalibMaxWaitMs,     \* kCalibMaxWaitMs
    UnusableResetMs,    \* kUnusableResetMs
    DegradeHoldMs,      \* kDegradeHoldMs
    SlowDropIntervalMs, \* kSlowDropIntervalMs
    UpshiftHoldMs,      \* kUpshiftHoldMs
    SceneHeavyHoldMs,   \* kSceneHeavyHoldMs
    UpshiftDetectFps,   \* kUpshiftDetectFps, in fps
    Conservative,       \* config.conservative
    QuickDrop,          \* config.quick_drop
    OccupancyTrigger    \* report_thread_state and upscale_occupancy > 0

ASSUME FasAssumption ==
    /\ NoApp \notin Apps
    /\ Intervals \subseteq Nat \ {0} /\ Rates \subseteq Nat /\ SleepSteps \subseteq Nat \ {0}
    /\ {WarmupMs, CalibMs, CalibMaxWaitMs, UnusableResetMs, DegradeHoldMs, SlowDropIntervalMs,
        UpshiftHoldMs, SceneHeavyHoldMs, CalibMinIntervalMs} \subseteq Nat \ {0}
    /\ {CalibMinFrames, CalibMaxSamples, UpshiftDetectFps} \subseteq Nat \ {0}
    /\ Conservative \in Nat
    /\ QuickDrop \in BOOLEAN /\ OccupancyTrigger \in BOOLEAN

-----------------------------------------------------------------------------
None == -1

Larger(a, b) == IF a >= b THEN a ELSE b
Smaller(a, b) == IF a <= b THEN a ELSE b

DegradeHold == DegradeHoldMs * Larger(Conservative, 1)

\* The saturation point of the ages: the largest bound of all.
Horizon == Larger(Larger(Larger(WarmupMs, CalibMs), Larger(CalibMaxWaitMs, UnusableResetMs)),
                  Larger(Larger(DegradeHold, SlowDropIntervalMs),
                         Larger(UpshiftHoldMs, SceneHeavyHoldMs)))

\* The age of a time stamp d units later.
Aged(age, d) == IF age = None THEN None ELSE Smaller(age + d, Horizon)

\* A candidate time stamp that is set to now unless it runs already.
Started(age) == IF age = None THEN 0 ELSE age

Phases == {"UNKNOWN", "CALIBRATING", "STABLE", "DEGRADED"}

FpsFromInterval(ms) == Larger(1, Smaller(1000, (2000 + ms) \div (2 * ms)))

\* fps_long < stable_fps - 1.2 and fps_long >= stable_fps - 0.6, in tenths.
BelowTolerance(fps, stable) == 10 * fps < 10 * stable - 12
Recovered(fps, stable) == 10 * fps >= 10 * stable - 6

\* The medians a window holding the samples S may have: median_of sorts the
\* samples, whose number and repetition the model does not keep.
Medians(S) == {m \in Intervals : (\E a \in S : a <= m) /\ (\E b \in S : m <= b)}

\* DEGRADED: short interval over base, clamped to 1..4, and 4% of margin.
RaiseScale(short, over) == (Larger(1000, Smaller(4000, (1000 * short) \div over)) * 104) \div 100

SlowDropScale == 920
OccupancyScale == 1150

Ages == 0..Horizon \cup {None}

\* FasOutput, the fields the executor acts on; scale is freq_scale in permille.
Outputs == [phase : Phases, usable : BOOLEAN, hold_sweetspot : BOOLEAN,
            drop_to_floor : BOOLEAN, scale : Nat]
Idle == [phase |-> "UNKNOWN", usable |-> FALSE, hold_sweetspot |-> FALSE,
         drop_to_floor |-> FALSE, scale |-> 1000]
Sweetspot == [phase |-> "CALIBRATING", usable |-> TRUE, hold_sweetspot |-> TRUE,
              drop_to_floor |-> FALSE, scale |-> 1000]
Ask(ph, floor, s) == [phase |-> ph, usable |-> TRUE, hold_sweetspot |-> FALSE,
                      drop_to_floor |-> floor, scale |-> s]

\* What a tick sees of the frame buffer: the averages of its two windows, or no
\* steady frames.
Readings == [fps : Rates, short : Intervals]
Silent == [fps |-> 0, short |-> 0]

-----------------------------------------------------------------------------
VARIABLES
    awake,                  \* the thread has left usleep and not ticked yet
    app,                    \* buffer_state.package
    warmup,                 \* age of working_state_since_ms while UNUSABLE, None while USABLE
    buffered,               \* frame_buffer.count > 0
    phase, phase_since,
    calib_samples, calib_count, calib_since,
    base_interval, stable_fps,
    degrade_candidate, upshift_candidate, upshift_candidate_fps,
    last_drop, unusable_since,
    reading,                \* what the last tick saw
    out                     \* what the last tick returned

measure == <<calib_samples, calib_count, calib_since>>
base == <<base_interval, stable_fps>>
upshift == <<upshift_candidate, upshift_candidate_fps>>
buffer == <<app, warmup, buffered, unusable_since>>
machine == <<phase, phase_since, measure, base, degrade_candidate, upshift, last_drop>>
vars == <<awake, buffer, machine, reading, out>>

Init ==
    /\ awake = FALSE
    /\ app = NoApp /\ warmup = 0 /\ buffered = FALSE /\ unusable_since = None
    /\ phase = "UNKNOWN" /\ phase_since = 0
    /\ calib_samples = {} /\ calib_count = 0 /\ calib_since = None
    /\ base_interval = 0 /\ stable_fps = 0
    /\ degrade_candidate = None /\ upshift_candidate = None /\ upshift_candidate_fps = 0
    /\ last_drop = 0
    /\ reading = Silent /\ out = Idle

\* usleep at the end of the thread's loop.
SleepFor(d) ==
    /\ ~awake
    /\ awake' = TRUE
    /\ warmup' = Aged(warmup, d)
    /\ unusable_since' = Aged(unusable_since, d)
    /\ phase_since' = Aged(phase_since, d)
    /\ calib_since' = Aged(calib_since, d)
    /\ degrade_candidate' = Aged(degrade_candidate, d)
    /\ upshift_candidate' = Aged(upshift_candidate, d)
    /\ last_drop' = Aged(last_drop, d)
    /\ UNCHANGED <<app, buffered, phase, calib_samples, calib_count, base,
                   upshift_candidate_fps, reading, out>>

Sleep == \E d \in SleepSteps : SleepFor(d)

\* Mutant: only the phase is reset, the base stays.
DropBaseKeepsBase ==
    /\ phase' = "UNKNOWN"
    /\ calib_samples' = {} /\ calib_count' = 0 /\ calib_since' = None
    /\ UNCHANGED base

\* Mutant: the base is forgotten, the phase stays.
DropBaseKeepsPhase ==
    /\ calib_samples' = {} /\ calib_count' = 0 /\ calib_since' = None
    /\ base_interval' = 0 /\ stable_fps' = 0
    /\ UNCHANGED phase

\* Both ways of forgetting the base, a switch and a long silence.
DropBase ==
    /\ phase' = "UNKNOWN"
    /\ calib_samples' = {} /\ calib_count' = 0 /\ calib_since' = None
    /\ base_interval' = 0 /\ stable_fps' = 0

\* fas_engine_on_app_change: the thread found another package in the foreground, or
\* the same one after a pause, in which it forgets the package it last announced.
OnAppChange == \E a \in Apps :
    /\ awake
    /\ app' = a
    /\ warmup' = 0 /\ buffered' = FALSE /\ unusable_since' = None
    /\ DropBase
    /\ phase_since' = 0
    /\ degrade_candidate' = None /\ upshift_candidate' = None /\ upshift_candidate_fps' = 0
    /\ last_drop' = 0
    /\ UNCHANGED <<awake, reading, out>>

\* fas_engine_tick on an empty buffer (lines 280-282) and before any package.
EmptyTick ==
    /\ awake /\ ~buffered
    /\ awake' = FALSE
    /\ reading' = Silent /\ out' = Idle
    /\ UNCHANGED <<buffer, machine>>

\* fas_engine_tick while no steady frames arrive (lines 263-277): too few or too
\* old, or the buffer has been unusable for less than the warm-up.
Unusable ==
    /\ awake /\ app # NoApp
    /\ awake' = FALSE /\ buffered' = TRUE
    /\ warmup' = Started(warmup)
    /\ unusable_since' = Started(unusable_since)
    /\ reading' = Silent /\ out' = Idle
    /\ UNCHANGED app

ShortSilence ==
    /\ Unusable
    /\ phase = "UNKNOWN" \/ unusable_since' < UnusableResetMs
    /\ UNCHANGED machine

\* A silence of UnusableResetMs drops the base; the candidates stay as they are.
LongSilence ==
    /\ Unusable
    /\ phase # "UNKNOWN" /\ unusable_since' >= UnusableResetMs
    /\ DropBase
    /\ UNCHANGED <<phase_since, degrade_candidate, upshift, last_drop>>

\* Mutant: a usable tick does not end the silence.
UsableKeepsSilence(r) ==
    /\ awake /\ app # NoApp
    /\ warmup = None \/ warmup >= WarmupMs
    /\ awake' = FALSE /\ buffered' = TRUE
    /\ warmup' = None /\ UNCHANGED unusable_since
    /\ reading' = r
    /\ UNCHANGED app

\* The part every tick on a usable buffer shares: fas_take_snapshot found six
\* fresh frames and the buffer was usable or has warmed up.
Usable(r) ==
    /\ awake /\ app # NoApp
    /\ warmup = None \/ warmup >= WarmupMs
    /\ awake' = FALSE /\ buffered' = TRUE
    /\ warmup' = None /\ unusable_since' = None
    /\ reading' = r
    /\ UNCHANGED app

EnterPhase(p) ==
    /\ phase' = p
    /\ phase_since' = 0

\* Mutant: the candidates survive the change of phase.
EnterStableKeepsCandidates ==
    /\ EnterPhase("STABLE")
    /\ last_drop' = 0
    /\ UNCHANGED <<degrade_candidate, upshift>>

\* enter_phase(STABLE) also clears the candidates and restarts the slow drop.
EnterStable ==
    /\ EnterPhase("STABLE")
    /\ degrade_candidate' = None
    /\ upshift_candidate' = None
    /\ last_drop' = 0
    /\ UNCHANGED upshift_candidate_fps

-----------------------------------------------------------------------------
(* Calibration, lines 287-328.  UNKNOWN becomes CALIBRATING and takes its   *)
(* first sample in one tick.                                                *)

CalibElapsed == IF phase = "UNKNOWN" THEN 0 ELSE calib_since
CalibCount == Smaller(CalibMaxSamples, 1 + IF phase = "UNKNOWN" THEN 0 ELSE calib_count)
CalibSamples(short) ==
    IF phase = "UNKNOWN" THEN {short}
    ELSE IF calib_count < CalibMaxSamples THEN calib_samples \cup {short}
    ELSE calib_samples

Calibrating(r) ==
    /\ Usable(r)
    /\ phase \in {"UNKNOWN", "CALIBRATING"}
    /\ out' = Sweetspot

WindowFull == CalibElapsed >= CalibMs /\ CalibCount >= CalibMinFrames

StillLoading(med) == med > CalibMinIntervalMs /\ CalibElapsed < CalibMaxWaitMs

KeepCalibrating ==
    /\ phase' = "CALIBRATING"
    /\ phase_since' = IF phase = "UNKNOWN" THEN 0 ELSE phase_since
    /\ UNCHANGED <<base, degrade_candidate, upshift, last_drop>>

CalibrateSample(r) ==
    /\ Calibrating(r)
    /\ ~WindowFull
    /\ calib_since' = CalibElapsed
    /\ calib_count' = CalibCount
    /\ calib_samples' = CalibSamples(r.short)
    /\ KeepCalibrating

\* Below 20 fps the game is taken to be loading: the window starts again.
CalibrateRestart(r) == \E med \in Medians(CalibSamples(r.short)) :
    /\ Calibrating(r)
    /\ WindowFull /\ StillLoading(med)
    /\ calib_since' = 0 /\ calib_count' = 0 /\ calib_samples' = {}
    /\ KeepCalibrating

CalibrateDone(r) == \E med \in Medians(CalibSamples(r.short)) :
    /\ Calibrating(r)
    /\ WindowFull /\ ~StillLoading(med)
    /\ base_interval' = med
    /\ stable_fps' = FpsFromInterval(med)
    /\ calib_since' = None
    /\ calib_count' = CalibCount
    /\ calib_samples' = CalibSamples(r.short)
    /\ EnterStable

-----------------------------------------------------------------------------
(* STABLE, lines 349-414.                                                   *)

StableTick(r) == Usable(r) /\ phase = "STABLE"

\* The frequency a tick that ends in STABLE asks for; occ is the occupancy trigger.
SlowDropDue == ~QuickDrop /\ last_drop >= SlowDropIntervalMs
SteadyScale(occ) ==
    IF occ THEN OccupancyScale ELSE IF SlowDropDue THEN SlowDropScale ELSE 1000
StableOutput == \E occ \in IF OccupancyTrigger THEN BOOLEAN ELSE {FALSE} :
    /\ out' = Ask("STABLE", QuickDrop, SteadyScale(occ))
    /\ last_drop' = IF SlowDropDue THEN 0 ELSE last_drop

\* The rate is below the tolerance, for less than the hold so far.
StableUnder(r) ==
    /\ StableTick(r)
    /\ BelowTolerance(r.fps, stable_fps)
    /\ Started(degrade_candidate) < DegradeHold
    /\ degrade_candidate' = Started(degrade_candidate)
    /\ StableOutput
    /\ UNCHANGED <<phase, phase_since, measure, base, upshift>>

\* The hold is over: DEGRADED, and the same tick already asks for the raise.
StableDegrade(r) ==
    /\ StableTick(r)
    /\ BelowTolerance(r.fps, stable_fps)
    /\ Started(degrade_candidate) >= DegradeHold
    /\ EnterPhase("DEGRADED")
    /\ degrade_candidate' = None
    /\ out' = Ask("DEGRADED", FALSE, RaiseScale(r.short, base_interval))
    /\ UNCHANGED <<measure, base, upshift, last_drop>>

\* Mutant: a reading within the tolerance does not clear the candidate.
StableWithinKeepsCandidate(r) ==
    /\ StableTick(r)
    /\ ~BelowTolerance(r.fps, stable_fps)
    /\ UNCHANGED degrade_candidate
    /\ StableOutput
    /\ UNCHANGED <<phase, phase_since>>

StableWithin(r) ==
    /\ StableTick(r)
    /\ ~BelowTolerance(r.fps, stable_fps)
    /\ degrade_candidate' = None
    /\ StableOutput
    /\ UNCHANGED <<phase, phase_since>>

Faster(r) == r.fps >= stable_fps + UpshiftDetectFps

StableSteady(r) ==
    /\ StableWithin(r)
    /\ ~Faster(r)
    /\ upshift_candidate' = None /\ upshift_candidate_fps' = 0
    /\ UNCHANGED <<measure, base>>

\* A candidate for a higher rate starts, or runs for less than its hold.
UpshiftWatch(r) ==
    /\ StableWithin(r)
    /\ Faster(r)
    /\ \/ /\ upshift_candidate = None \/ upshift_candidate_fps # r.fps
          /\ upshift_candidate' = 0 /\ upshift_candidate_fps' = r.fps
       \/ /\ upshift_candidate # None /\ upshift_candidate_fps = r.fps
          /\ upshift_candidate < UpshiftHoldMs
          /\ UNCHANGED upshift
    /\ UNCHANGED <<measure, base>>

\* Mutant: the slower of the two.
UpshiftIntervalSlower(short) ==
    IF calib_count = 0 THEN {short} ELSE {Larger(short, med) : med \in Medians(calib_samples)}

UpshiftInterval(short) ==
    IF calib_count = 0 THEN {short} ELSE {Smaller(short, med) : med \in Medians(calib_samples)}

\* Mutant: any new interval is taken.
RaisesBaseAlways(new) == TRUE

RaisesBase(new) == FpsFromInterval(new) > stable_fps

\* The hold is over: the faster of the window's median and the current average
\* becomes the base if it is faster than the base.
UpshiftAccept(r) == \E new \in UpshiftInterval(r.short) :
    /\ StableWithin(r)
    /\ Faster(r)
    /\ upshift_candidate_fps = r.fps /\ upshift_candidate >= UpshiftHoldMs
    /\ upshift_candidate' = None /\ upshift_candidate_fps' = 0
    /\ IF RaisesBase(new)
       THEN /\ base_interval' = new
            /\ stable_fps' = FpsFromInterval(new)
            /\ calib_count' = 0 /\ calib_samples' = {}
       ELSE UNCHANGED <<base, calib_count, calib_samples>>
    /\ UNCHANGED calib_since

-----------------------------------------------------------------------------
(* DEGRADED, lines 417-457.                                                 *)

DegradedTick(r) == Usable(r) /\ phase = "DEGRADED"

DegradedRecover(r) ==
    /\ DegradedTick(r)
    /\ Recovered(r.fps, stable_fps)
    /\ EnterStable
    /\ out' = Ask("STABLE", FALSE, 1000)
    /\ UNCHANGED <<measure, base>>

\* Mutant: every raise starts the phase anew.
DegradedRaiseRestamps(r) ==
    /\ DegradedTick(r)
    /\ ~Recovered(r.fps, stable_fps) /\ phase_since < SceneHeavyHoldMs
    /\ EnterPhase("DEGRADED")
    /\ out' = Ask("DEGRADED", FALSE, RaiseScale(r.short, base_interval))
    /\ UNCHANGED <<measure, base, degrade_candidate, upshift, last_drop>>

DegradedRaise(r) ==
    /\ DegradedTick(r)
    /\ ~Recovered(r.fps, stable_fps) /\ phase_since < SceneHeavyHoldMs
    /\ out' = Ask("DEGRADED", FALSE, RaiseScale(r.short, base_interval))
    /\ UNCHANGED machine

\* The loss outlasted SceneHeavyHoldMs: the current short average is the new base.
SceneHeavy(r) ==
    /\ DegradedTick(r)
    /\ ~Recovered(r.fps, stable_fps) /\ phase_since >= SceneHeavyHoldMs
    /\ base_interval' = r.short
    /\ stable_fps' = FpsFromInterval(r.short)
    /\ calib_count' = 0 /\ calib_samples' = {}
    /\ EnterStable
    /\ out' = Ask("STABLE", FALSE, 1000)
    /\ UNCHANGED calib_since

-----------------------------------------------------------------------------
UsableTick == \E r \in Readings :
    \/ CalibrateSample(r) \/ CalibrateRestart(r) \/ CalibrateDone(r)
    \/ StableUnder(r) \/ StableDegrade(r) \/ StableSteady(r)
    \/ UpshiftWatch(r) \/ UpshiftAccept(r)
    \/ DegradedRecover(r) \/ DegradedRaise(r) \/ SceneHeavy(r)

Tick == EmptyTick \/ ShortSilence \/ LongSilence \/ UsableTick

Next == Sleep \/ OnAppChange \/ Tick

\* The thread's loop never stops while the daemon runs.
Spec == Init /\ [][Next]_vars /\ WF_vars(Sleep) /\ WF_vars(Tick)

-----------------------------------------------------------------------------
TypeOK ==
    /\ awake \in BOOLEAN /\ buffered \in BOOLEAN
    /\ app \in Apps \cup {NoApp}
    /\ warmup \in Ages /\ unusable_since \in Ages
    /\ phase \in Phases /\ phase_since \in 0..Horizon
    /\ calib_samples \subseteq Intervals /\ calib_count \in 0..CalibMaxSamples
    /\ calib_since \in Ages
    /\ base_interval \in Intervals \cup {0} /\ stable_fps \in Nat
    /\ degrade_candidate \in Ages /\ upshift_candidate \in Ages
    /\ upshift_candidate_fps \in Rates \cup {0}
    /\ last_drop \in 0..Horizon
    /\ reading \in {Silent} \cup Readings /\ out \in Outputs

\* The base is known exactly in STABLE and DEGRADED, and the interval and the
\* rate kept for it agree: DEGRADED never divides by zero, and the fallback of
\* fas_engine_tick for a lost base (lines 330-339), which the model therefore
\* has no action for, cannot run.
BaseKnown ==
    /\ base_interval > 0 <=> phase \in {"STABLE", "DEGRADED"}
    /\ stable_fps = IF base_interval = 0 THEN 0 ELSE FpsFromInterval(base_interval)

\* A hold that runs in STABLE began in this stay in STABLE.  LongSilence leaves
\* the candidates of the stay it ends set, so this rests on every way back into
\* STABLE clearing them; a leftover would cut a later hold short.
CandidatesOfThisStay ==
    /\ phase = "STABLE" => degrade_candidate <= phase_since /\ upshift_candidate <= phase_since
    /\ phase = "DEGRADED" => degrade_candidate = None

\* While a base is known it is only ever replaced by a slower one after a whole
\* SceneHeavyHoldMs in DEGRADED; the upshift path never lowers it.
BaseFallsOnlyWhenHeavy == [][
    stable_fps' # 0 /\ stable_fps' < stable_fps
        => phase = "DEGRADED" /\ phase_since >= SceneHeavyHoldMs]_vars

\* The engine does not ask for raised frequencies for ever: DEGRADED ends by a
\* recovery, a new base, a long silence or a switch of application.
DegradedEnds == phase = "DEGRADED" ~> phase # "DEGRADED"

\* A game that holds a rate the calibration accepts, and is not announced anew (which
\* makes the buffer unusable), gets a base within one frame per second of that rate,
\* whatever happened before, and keeps it.
Settles == \A r \in Readings :
    /\ r.fps = FpsFromInterval(r.short)
    /\ r.short <= CalibMinIntervalMs
    => (<>[](reading = r /\ warmup = None) => <>[](phase = "STABLE" /\ stable_fps \in (r.fps - 1)..(r.fps + 1)))

-----------------------------------------------------------------------------
PossibleRaises == {RaiseScale(short, b) : short \in Intervals, b \in Intervals}

Abstract == INSTANCE FasPhases WITH
    Raises <- PossibleRaises, Occupancy <- OccupancyTrigger, fresh <- awake /\ warmup = 0

\* The engine keeps the protocol its executor relies on: the first tick after a
\* switch asks for nothing, a base is measured in more than one tick, STABLE is only entered from the calibration or from DEGRADED,
\* DEGRADED asks for a raise in every tick and never together with the floor, and
\* what a tick returns goes with the phase the engine had or enters.
ImplementsPhases == Abstract!Spec

-----------------------------------------------------------------------------
(* Statements of the comments the engine does not keep.                     *)

\* fas_engine.cpp:62: a calibration is accepted after 20 s at the latest (on a
\* tick that completes a window).  The restart resets the clock the 20 s are
\* measured with, so a game below 20 fps calibrates for ever.
CalibrationDeadline == [][
    phase = "CALIBRATING" /\ reading' \in Readings /\ awake /\ ~awake'
        /\ WindowFull /\ phase_since >= CalibMaxWaitMs
        => phase' = "STABLE"]_vars

\* fas_engine.cpp:33-34: a loss that lasts 3 s lowers the base to the current
\* rate.  The loss is judged on the long window and the base taken from the
\* short one, which may be faster than the base.
SceneHeavyLowersBase == [][
    phase = "DEGRADED" /\ stable_fps' # 0 => stable_fps' <= stable_fps]_vars
=============================================================================
