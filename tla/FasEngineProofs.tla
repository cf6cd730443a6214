--------------------------- MODULE FasEngineProofs ---------------------------
(***************************************************************************)
(* The engine's invariants and its action property on the base, for every  *)
(* value of the constants.  The inductive invariant is the conjunction of  *)
(* the type invariant, BaseKnown and CandidatesOfThisStay: the type of the *)
(* raise of DEGRADED needs the base to be known there, and that the        *)
(* candidates are young needs their types.                                 *)
(*                                                                         *)
(* The last part is about the engine with its history: the history adds no *)
(* behaviour, so the invariant carries over, and together with what it     *)
(* says of the history (HInv) it gives the statements that relate a step   *)
(* to the readings before it.                                              *)
(***************************************************************************)
EXTENDS FasEngineHistory, TLAPS

IInv == TypeOK /\ BaseKnown /\ CandidatesOfThisStay

-----------------------------------------------------------------------------
(* The helpers. *)

\* The bounds are naturals, none above the saturation point.
LEMMA HorizonBounds ==
    /\ Horizon \in Nat /\ DegradeHold \in Nat
    /\ UnusableResetMs <= Horizon /\ DegradeHold <= Horizon
BY FasAssumption DEF Horizon, DegradeHold, Larger

\* Ages stay ages, and one that starts is one.
LEMMA AgesClosed ==
    ASSUME NEW age \in Ages, NEW d \in SleepSteps
    PROVE  /\ Aged(age, d) \in Ages
           /\ age # None => Aged(age, d) \in 0..Horizon
           /\ Started(age) \in 0..Horizon
BY HorizonBounds, FasAssumption DEF Ages, Aged, Started, Smaller, None

\* Ageing keeps the order of two time stamps.
LEMMA AgedMonotonic ==
    ASSUME NEW a \in Ages, NEW b \in Ages, a <= b, NEW d \in SleepSteps
    PROVE  Aged(a, d) <= Aged(b, d)
BY HorizonBounds, FasAssumption DEF Ages, Aged, Smaller, None

\* The rate of an interval is a rate between 1 and 1000.
LEMMA FpsRange ==
    ASSUME NEW ms \in Intervals
    PROVE  FpsFromInterval(ms) \in 1..1000
<1>1. (2000 + ms) \div (2 * ms) \in Int
  BY FasAssumption
<1>2. QED
  BY <1>1 DEF FpsFromInterval, Larger, Smaller

\* What the clamp of the raise leaves, whatever the ratio of the intervals.
LEMMA ClampedRaise ==
    ASSUME NEW q \in Int
    PROVE  LET m == Larger(1000, Smaller(4000, q))
           IN  (m * 104) \div 100 \in Nat /\ (m * 104) \div 100 > 1000
<1> DEFINE m == Larger(1000, Smaller(4000, q))
<1>1. m \in 1000..4000
  BY DEF Larger, Smaller
<1>2. \A x \in 1000..4000 : (x * 104) \div 100 \in Nat /\ (x * 104) \div 100 > 1000
  BY Z3
<1> HIDE DEF m
<1>3. (m * 104) \div 100 \in Nat /\ (m * 104) \div 100 > 1000
  BY <1>1, <1>2
<1>4. QED
  BY <1>3 DEF m

\* Every raise is one, by 4 % at least, wherever the base is known.
LEMMA RaiseRaises ==
    ASSUME NEW short \in Intervals, NEW b \in Intervals
    PROVE  RaiseScale(short, b) \in Nat /\ RaiseScale(short, b) > 1000
<1>0. \A x, y \in Nat \ {0} : x \div y \in Int
  OBVIOUS
<1> DEFINE q == (1000 * short) \div b
<1>1. q \in Int
  <2>1. short \in Nat \ {0} /\ b \in Nat \ {0}
    BY FasAssumption
  <2>2. 1000 * short \in Nat \ {0}
    BY <2>1
  <2>3. QED
    BY <1>0, <2>1, <2>2
<1>2. RaiseScale(short, b) = (Larger(1000, Smaller(4000, q)) * 104) \div 100
  BY Zenon DEF RaiseScale
<1> HIDE DEF q
<1>3. QED
  BY <1>1, <1>2, ClampedRaise

\* The medians of a window are intervals.
LEMMA MediansType == ASSUME NEW S PROVE Medians(S) \subseteq Intervals
BY DEF Medians

-----------------------------------------------------------------------------
LEMMA InitIInv == Init => IInv
<1> SUFFICES ASSUME Init PROVE IInv
  OBVIOUS
<1>1. TypeOK
  <2>1. 0 \in 0..Horizon /\ 0 \in Ages /\ None \in Ages
    BY HorizonBounds DEF Ages
  <2>2. out \in Outputs
    BY DEF Init, Outputs, Idle, Phases
  <2>3. 0 \in 0..CalibMaxSamples
    BY FasAssumption
  <2>4. phase \in Phases /\ reading \in {Silent} \cup Readings
    BY DEF Init, Phases
  <2>5. QED
    BY <2>1, <2>2, <2>3, <2>4 DEF Init, TypeOK
<1>2. BaseKnown
  BY DEF Init, BaseKnown
<1>3. CandidatesOfThisStay
  BY DEF Init, CandidatesOfThisStay
<1>4. QED
  BY <1>1, <1>2, <1>3 DEF IInv

LEMMA SleepIInv == IInv /\ Sleep => IInv'
<1> SUFFICES ASSUME IInv, Sleep PROVE IInv'
  OBVIOUS
<1>1. PICK d \in SleepSteps : SleepFor(d)
  BY DEF Sleep
<1>2. TypeOK'
  <2>1. phase_since' \in 0..Horizon /\ last_drop' \in 0..Horizon
    BY <1>1, AgesClosed DEF SleepFor, IInv, TypeOK, Ages, None
  <2>2. /\ warmup' \in Ages /\ unusable_since' \in Ages /\ calib_since' \in Ages
        /\ degrade_candidate' \in Ages /\ upshift_candidate' \in Ages
    BY <1>1, AgesClosed DEF SleepFor, IInv, TypeOK
  <2>3. QED
    BY <1>1, <2>1, <2>2 DEF SleepFor, IInv, TypeOK, base, upshift
<1>3. BaseKnown'
  BY <1>1 DEF SleepFor, IInv, BaseKnown, base
<1>4. CandidatesOfThisStay'
  <2>1. phase_since \in Ages
    BY DEF IInv, TypeOK, Ages
  <2>2. CASE phase = "STABLE"
    BY <1>1, <2>1, <2>2, AgedMonotonic DEF SleepFor, IInv, TypeOK, CandidatesOfThisStay
  <2>3. CASE phase = "DEGRADED"
    BY <1>1, <2>3 DEF SleepFor, IInv, CandidatesOfThisStay, Aged
  <2>4. QED
    BY <1>1, <2>2, <2>3 DEF SleepFor, CandidatesOfThisStay
<1>5. QED
  BY <1>2, <1>3, <1>4 DEF IInv

LEMMA AppChangeIInv == IInv /\ OnAppChange => IInv'
<1> SUFFICES ASSUME IInv, OnAppChange PROVE IInv'
  OBVIOUS
<1>1. 0 \in 0..Horizon /\ 0 \in Ages /\ None \in Ages /\ 0 \in 0..CalibMaxSamples
  BY HorizonBounds, FasAssumption DEF Ages
<1>2. TypeOK'
  <2>1. PICK a \in Apps : OnAppChange!(a)
    BY DEF OnAppChange
  <2>2. phase' \in Phases /\ calib_samples' = {} /\ calib_count' = 0 /\ calib_since' = None
    BY <2>1 DEF DropBase, Phases
  <2>3. base_interval' = 0 /\ stable_fps' = 0
    BY <2>1 DEF DropBase
  <2>4. QED
    BY <1>1, <2>1, <2>2, <2>3 DEF IInv, TypeOK
<1>3. BaseKnown'
  BY DEF OnAppChange, DropBase, BaseKnown
<1>4. CandidatesOfThisStay'
  BY DEF OnAppChange, DropBase, CandidatesOfThisStay
<1>5. QED
  BY <1>2, <1>3, <1>4 DEF IInv

LEMMA SilenceIInv == IInv /\ (EmptyTick \/ ShortSilence \/ LongSilence) => IInv'
<1> SUFFICES ASSUME IInv, EmptyTick \/ ShortSilence \/ LongSilence PROVE IInv'
  OBVIOUS
<1>1. Idle \in Outputs
  BY DEF Idle, Outputs, Phases
<1>2. 0 \in 0..CalibMaxSamples /\ None \in Ages /\ 0..Horizon \subseteq Ages
  BY FasAssumption DEF Ages
<1>3. Started(warmup) \in Ages /\ Started(unusable_since) \in Ages
  BY <1>2, HorizonBounds DEF IInv, TypeOK, Started, Ages
<1>4. CASE EmptyTick
  BY <1>1, <1>4 DEF EmptyTick, buffer, machine, measure, base, upshift, IInv, TypeOK, BaseKnown,
      CandidatesOfThisStay
<1>5. CASE ShortSilence
  BY <1>1, <1>3, <1>5 DEF ShortSilence, Unusable, machine, measure, base, upshift, IInv, TypeOK,
      BaseKnown, CandidatesOfThisStay
<1>6. CASE LongSilence
  <2>1. TypeOK'
    BY <1>1, <1>2, <1>3, <1>6 DEF LongSilence, Unusable, DropBase, upshift, IInv, TypeOK, Phases
  <2>2. BaseKnown' /\ CandidatesOfThisStay'
    BY <1>6 DEF LongSilence, DropBase, BaseKnown, CandidatesOfThisStay
  <2>3. QED
    BY <2>1, <2>2 DEF IInv
<1>7. QED
  BY <1>4, <1>5, <1>6

-----------------------------------------------------------------------------
(* The parts the usable ticks share. *)

\* The part of TypeOK a usable tick establishes by itself.
BufferOK ==
    /\ awake \in BOOLEAN /\ buffered \in BOOLEAN /\ app \in Apps \cup {NoApp}
    /\ warmup \in Ages /\ unusable_since \in Ages
    /\ reading \in {Silent} \cup Readings

LEMMA UsableBuffer ==
    ASSUME IInv, NEW r \in Readings, Usable(r)
    PROVE  BufferOK'
BY DEF IInv, TypeOK, Usable, BufferOK, Ages

\* What the engine returns is an output.
LEMMA OutputTypes ==
    /\ Sweetspot \in Outputs
    /\ \A p \in Phases, b \in BOOLEAN, s \in Nat : Ask(p, b, s) \in Outputs
BY DEF Outputs, Sweetspot, Ask, Phases

LEMMA StableOutputType ==
    ASSUME IInv, StableOutput
    PROVE  out' \in Outputs /\ last_drop' \in 0..Horizon
<1>1. PICK occ \in BOOLEAN : /\ out' = Ask("STABLE", QuickDrop, SteadyScale(occ))
                             /\ last_drop' = IF SlowDropDue THEN 0 ELSE last_drop
  BY DEF StableOutput
<1>2. SteadyScale(occ) \in Nat
  BY DEF SteadyScale, OccupancyScale, SlowDropScale
<1>3. QuickDrop \in BOOLEAN /\ "STABLE" \in Phases
  BY FasAssumption DEF Phases
<1>4. last_drop' \in 0..Horizon
  BY <1>1, HorizonBounds DEF IInv, TypeOK
<1>5. QED
  BY <1>1, <1>2, <1>3, <1>4, OutputTypes

\* The sample a calibrating tick takes keeps the window's types.
LEMMA CalibTypes ==
    ASSUME IInv, NEW short \in Intervals
    PROVE  /\ CalibCount \in 0..CalibMaxSamples
           /\ CalibSamples(short) \subseteq Intervals
           /\ CalibElapsed \in Ages
BY FasAssumption, HorizonBounds DEF IInv, TypeOK, CalibCount, CalibSamples, CalibElapsed, Smaller, Ages

\* Calibration starts without a base.
LEMMA NoBaseBefore ==
    ASSUME IInv, phase \in {"UNKNOWN", "CALIBRATING"}
    PROVE  base_interval = 0 /\ stable_fps = 0
BY FasAssumption DEF IInv, TypeOK, BaseKnown

\* Any interval makes a base that is known.
LEMMA BaseOfInterval ==
    ASSUME NEW ms \in Intervals, base_interval' = ms, stable_fps' = FpsFromInterval(ms),
           phase' = "STABLE"
    PROVE  BaseKnown' /\ base_interval' \in Intervals \cup {0} /\ stable_fps' \in Nat
<1>1. ms \in Nat \ {0}
  BY FasAssumption
<1>2. FpsFromInterval(ms) \in Nat
  BY FpsRange
<1>3. QED
  BY <1>1, <1>2 DEF BaseKnown

-----------------------------------------------------------------------------
LEMMA CalibrateIInv ==
    ASSUME IInv, NEW r \in Readings,
           CalibrateSample(r) \/ CalibrateRestart(r) \/ CalibrateDone(r)
    PROVE  IInv'
<1>1. Usable(r) /\ phase \in {"UNKNOWN", "CALIBRATING"} /\ out' = Sweetspot
  BY DEF CalibrateSample, CalibrateRestart, CalibrateDone, Calibrating
<1>2. r.short \in Intervals
  BY DEF Readings
<1>3. BufferOK' /\ out' \in Outputs
  BY <1>1, UsableBuffer, OutputTypes
<1>4. 0 \in 0..Horizon /\ 0 \in Ages /\ None \in Ages /\ 0 \in 0..CalibMaxSamples
  BY HorizonBounds, FasAssumption DEF Ages
<1>5. CASE KeepCalibrating
  <2>1. /\ calib_count' \in 0..CalibMaxSamples /\ calib_samples' \subseteq Intervals
        /\ calib_since' \in Ages
    <3>1. CASE CalibrateSample(r)
      BY <1>2, <3>1, CalibTypes DEF CalibrateSample
    <3>2. CASE CalibrateRestart(r)
      BY <1>4, <3>2 DEF CalibrateRestart
    <3>3. CASE CalibrateDone(r)
      BY <1>4, <1>2, <3>3, CalibTypes DEF CalibrateDone
    <3>4. QED
      BY <3>1, <3>2, <3>3
  <2>2. TypeOK'
    BY <1>3, <1>4, <1>5, <2>1 DEF KeepCalibrating, BufferOK, IInv, TypeOK, base, upshift, Phases
  <2>3. BaseKnown'
    BY <1>1, <1>5, NoBaseBefore DEF KeepCalibrating, BaseKnown, base
  <2>4. CandidatesOfThisStay'
    BY <1>5 DEF KeepCalibrating, CandidatesOfThisStay
  <2>5. QED
    BY <2>2, <2>3, <2>4 DEF IInv
<1>6. CASE CalibrateDone(r)
  <2>1. PICK med \in Medians(CalibSamples(r.short)) : CalibrateDone(r)!(med)
    BY <1>6 DEF CalibrateDone
  <2>2. med \in Intervals
    BY MediansType
  <2>3. BaseKnown' /\ base_interval' \in Intervals \cup {0} /\ stable_fps' \in Nat
    BY <2>1, <2>2, BaseOfInterval DEF EnterStable, EnterPhase
  <2>4. calib_count' \in 0..CalibMaxSamples /\ calib_samples' \subseteq Intervals
    BY <1>2, <2>1, CalibTypes
  <2>5. TypeOK'
    BY <1>3, <1>4, <2>1, <2>3, <2>4 DEF EnterStable, EnterPhase, BufferOK, IInv, TypeOK, Phases
  <2>6. CandidatesOfThisStay'
    BY <2>1 DEF EnterStable, EnterPhase, CandidatesOfThisStay, None
  <2>7. QED
    BY <2>3, <2>5, <2>6 DEF IInv
<1>7. QED
  BY <1>5, <1>6 DEF CalibrateSample, CalibrateRestart

\* In STABLE and DEGRADED the base is an interval and the raise is a number.
LEMMA BaseInUse ==
    ASSUME IInv, phase \in {"STABLE", "DEGRADED"}, NEW r \in Readings
    PROVE  base_interval \in Intervals /\ RaiseScale(r.short, base_interval) \in Nat
<1>1. base_interval \in Intervals
  BY DEF IInv, TypeOK, BaseKnown
<1>2. QED
  BY <1>1, RaiseRaises DEF Readings

LEMMA StableIInv ==
    ASSUME IInv, NEW r \in Readings,
           StableUnder(r) \/ StableDegrade(r) \/ StableSteady(r) \/ UpshiftWatch(r) \/ UpshiftAccept(r)
    PROVE  IInv'
<1>1. Usable(r) /\ phase = "STABLE"
  BY DEF StableUnder, StableDegrade, StableSteady, UpshiftWatch, UpshiftAccept, StableWithin,
      StableTick
<1>2. r.short \in Intervals /\ r.fps \in Rates
  BY DEF Readings
<1>3. BufferOK'
  BY <1>1, UsableBuffer
<1>4. 0 \in 0..Horizon /\ 0 \in Ages /\ None \in Ages /\ 0 \in 0..CalibMaxSamples
  BY HorizonBounds, FasAssumption DEF Ages
<1>5. Started(degrade_candidate) \in Ages /\ Started(degrade_candidate) <= phase_since
  BY <1>1, HorizonBounds DEF IInv, TypeOK, CandidatesOfThisStay, Started, Ages, None
<1>6. StableOutput => out' \in Outputs /\ last_drop' \in 0..Horizon
  BY StableOutputType
<1>7. CASE StableUnder(r)
  <2>1. TypeOK'
    BY <1>3, <1>5, <1>6, <1>7 DEF StableUnder, BufferOK, IInv, TypeOK, measure, base, upshift
  <2>2. BaseKnown' /\ CandidatesOfThisStay'
    BY <1>1, <1>5, <1>7 DEF StableUnder, IInv, BaseKnown, CandidatesOfThisStay, base, upshift
  <2>3. QED
    BY <2>1, <2>2 DEF IInv
<1>8. CASE StableDegrade(r)
  <2>1. out' \in Outputs
    BY <1>1, <1>8, BaseInUse, OutputTypes DEF StableDegrade, Phases
  <2>2. TypeOK'
    BY <1>3, <1>4, <1>8, <2>1
    DEF StableDegrade, EnterPhase, BufferOK, IInv, TypeOK, measure, base, upshift, Phases
  <2>3. BaseKnown' /\ CandidatesOfThisStay'
    BY <1>1, <1>8 DEF StableDegrade, EnterPhase, IInv, BaseKnown, CandidatesOfThisStay, base
  <2>4. QED
    BY <2>2, <2>3 DEF IInv
<1>9. ASSUME StableWithin(r), UNCHANGED <<measure, base>>,
             upshift_candidate' \in Ages, upshift_candidate' <= phase_since,
             upshift_candidate_fps' \in Rates \cup {0}
      PROVE  IInv'
  <2>1. TypeOK'
    BY <1>3, <1>4, <1>6, <1>9 DEF StableWithin, BufferOK, IInv, TypeOK, measure, base
  <2>2. BaseKnown' /\ CandidatesOfThisStay'
    BY <1>1, <1>9 DEF StableWithin, IInv, TypeOK, BaseKnown, CandidatesOfThisStay, base, None
  <2>3. QED
    BY <2>1, <2>2 DEF IInv
<1>10. CASE StableSteady(r)
  BY <1>4, <1>9, <1>10 DEF StableSteady, IInv, TypeOK, None
<1>11. CASE UpshiftWatch(r)
  BY <1>1, <1>2, <1>4, <1>9, <1>11
  DEF UpshiftWatch, upshift, IInv, TypeOK, CandidatesOfThisStay
<1>12. CASE UpshiftAccept(r)
  <2>1. PICK new \in UpshiftInterval(r.short) : UpshiftAccept(r)!(new)
    BY <1>12 DEF UpshiftAccept
  <2>2. CASE RaisesBase(new)
    <3>1. new \in Intervals
      BY <1>2, MediansType DEF UpshiftInterval, Smaller
    <3>2. phase' = "STABLE" /\ base_interval' = new /\ stable_fps' = FpsFromInterval(new)
      BY <1>1, <2>1, <2>2 DEF StableWithin
    <3>3. BaseKnown' /\ base_interval' \in Intervals \cup {0} /\ stable_fps' \in Nat
      BY <3>1, <3>2, BaseOfInterval
    <3>4. TypeOK'
      BY <1>3, <1>4, <1>6, <2>1, <2>2, <3>3 DEF StableWithin, BufferOK, IInv, TypeOK
    <3>5. CandidatesOfThisStay'
      BY <1>1, <2>1 DEF StableWithin, IInv, TypeOK, CandidatesOfThisStay, None
    <3>6. QED
      BY <3>3, <3>4, <3>5 DEF IInv
  <2>3. CASE ~RaisesBase(new)
    BY <1>4, <1>9, <2>1, <2>3 DEF measure, base, IInv, TypeOK, None
  <2>4. QED
    BY <2>2, <2>3
<1>13. QED
  BY <1>7, <1>8, <1>10, <1>11, <1>12

\* Every step of DEGRADED starts in it, with steady frames.
LEMMA InDegraded ==
    ASSUME NEW r \in Readings, DegradedRecover(r) \/ DegradedRaise(r) \/ SceneHeavy(r)
    PROVE  Usable(r) /\ phase = "DEGRADED"
<1>1. DegradedTick(r)
  <2>1. CASE DegradedRecover(r)
    BY <2>1, Zenon DEF DegradedRecover
  <2>2. CASE DegradedRaise(r)
    BY <2>2, Zenon DEF DegradedRaise
  <2>3. CASE SceneHeavy(r)
    BY <2>3, Zenon DEF SceneHeavy
  <2>4. QED
    BY <2>1, <2>2, <2>3
<1>2. QED
  BY <1>1, Zenon DEF DegradedTick

LEMMA DegradedIInv ==
    ASSUME IInv, NEW r \in Readings, DegradedRecover(r) \/ DegradedRaise(r) \/ SceneHeavy(r)
    PROVE  IInv'
<1>1. Usable(r) /\ phase = "DEGRADED"
  BY InDegraded
<1>2. BufferOK' /\ r.short \in Intervals
  BY <1>1, UsableBuffer DEF Readings
<1>3. 0 \in 0..Horizon /\ 0 \in Ages /\ None \in Ages /\ 0 \in 0..CalibMaxSamples
  BY HorizonBounds, FasAssumption DEF Ages
<1>4. /\ Ask("STABLE", FALSE, 1000) \in Outputs
      /\ Ask("DEGRADED", FALSE, RaiseScale(r.short, base_interval)) \in Outputs
  <2>1. RaiseScale(r.short, base_interval) \in Nat
    BY <1>1, BaseInUse
  <2>2. "STABLE" \in Phases /\ "DEGRADED" \in Phases /\ FALSE \in BOOLEAN /\ 1000 \in Nat
    BY DEF Phases
  <2>3. Ask("STABLE", FALSE, 1000) \in Outputs
    BY DEF Ask, Outputs, Phases
  <2>4. Ask("DEGRADED", FALSE, RaiseScale(r.short, base_interval)) \in Outputs
    BY <2>1, <2>2, OutputTypes
  <2>5. QED
    BY <2>3, <2>4
<1>5. CASE DegradedRecover(r)
  <2>1. TypeOK'
    BY <1>2, <1>3, <1>4, <1>5
    DEF DegradedRecover, EnterStable, EnterPhase, BufferOK, IInv, TypeOK, measure, base, Phases
  <2>2. BaseKnown' /\ CandidatesOfThisStay'
    BY <1>1, <1>5
    DEF DegradedRecover, EnterStable, EnterPhase, IInv, BaseKnown, CandidatesOfThisStay, base, None
  <2>3. QED
    BY <2>1, <2>2 DEF IInv
<1>6. CASE DegradedRaise(r)
  <2>1. /\ UNCHANGED machine
        /\ out' = Ask("DEGRADED", FALSE, RaiseScale(r.short, base_interval))
    BY <1>6 DEF DegradedRaise
  <2>2. TypeOK'
    BY <1>2, <1>4, <2>1 DEF BufferOK, IInv, TypeOK, machine, measure, base, upshift
  <2>3. BaseKnown' /\ CandidatesOfThisStay'
    BY <2>1 DEF IInv, BaseKnown, CandidatesOfThisStay, machine, measure, base, upshift
  <2>4. QED
    BY <2>2, <2>3 DEF IInv
<1>7. CASE SceneHeavy(r)
  <2>1. BaseKnown' /\ base_interval' \in Intervals \cup {0} /\ stable_fps' \in Nat
    BY <1>2, <1>7, BaseOfInterval DEF SceneHeavy, EnterStable, EnterPhase
  <2>2. TypeOK'
    BY <1>2, <1>3, <1>4, <1>7, <2>1
    DEF SceneHeavy, EnterStable, EnterPhase, BufferOK, IInv, TypeOK, Phases
  <2>3. CandidatesOfThisStay'
    BY <1>7 DEF SceneHeavy, EnterStable, EnterPhase, CandidatesOfThisStay, None
  <2>4. QED
    BY <2>1, <2>2, <2>3 DEF IInv
<1>8. QED
  BY <1>5, <1>6, <1>7

-----------------------------------------------------------------------------
LEMMA StutterIInv == IInv /\ UNCHANGED vars => IInv'
BY DEF IInv, TypeOK, BaseKnown, CandidatesOfThisStay, vars, buffer, machine, measure, base, upshift

LEMMA NextIInv == IInv /\ [Next]_vars => IInv'
BY SleepIInv, AppChangeIInv, SilenceIInv, CalibrateIInv, StableIInv, DegradedIInv, StutterIInv
DEF Next, Tick, UsableTick

\* The inductive invariant holds in every reachable state of the engine.
THEOREM EngineInvariant == Spec => []IInv
<1>1. Init => IInv
  BY InitIInv
<1>2. IInv /\ [Next]_vars => IInv'
  BY NextIInv
<1>3. QED
  BY <1>1, <1>2, PTL DEF Spec

\* Every variable of the engine keeps its type; in particular the raise that
\* DEGRADED computes (fas_engine.cpp:431) is a number: it never divides by 0.
THEOREM TypeCorrect == Spec => []TypeOK
<1>1. IInv => TypeOK
  BY DEF IInv
<1>2. QED
  BY <1>1, EngineInvariant, PTL

\* The base is known in STABLE and DEGRADED and only there, so the fallback for a
\* lost base (fas_engine.cpp:330-339) never runs.
THEOREM BaseAlwaysKnown == Spec => []BaseKnown
<1>1. IInv => BaseKnown
  BY DEF IInv
<1>2. QED
  BY <1>1, EngineInvariant, PTL

\* A candidate found set in STABLE was set in this stay in STABLE, although a long
\* silence (fas_engine.cpp:270-276) leaves the candidates as they are.
THEOREM NoStaleCandidates == Spec => []CandidatesOfThisStay
<1>1. IInv => CandidatesOfThisStay
  BY DEF IInv
<1>2. QED
  BY <1>1, EngineInvariant, PTL

\* A slower base is only ever accepted after SceneHeavyHoldMs in DEGRADED.
THEOREM BaseNeverLoweredEarly == Spec => BaseFallsOnlyWhenHeavy
<1> DEFINE Falls == stable_fps' # 0 /\ stable_fps' < stable_fps
           Heavy == phase = "DEGRADED" /\ phase_since >= SceneHeavyHoldMs
<1>1. ASSUME IInv, Next, Falls PROVE Heavy
  <2>1. CASE Sleep \/ EmptyTick \/ ShortSilence
    BY <1>1, <2>1 DEF IInv, TypeOK, Sleep, SleepFor, EmptyTick, ShortSilence, machine, base
  <2>2. CASE OnAppChange \/ LongSilence
    BY <1>1, <2>2 DEF OnAppChange, LongSilence, DropBase
  <2>3. CASE UsableTick
    <3>1. PICK r \in Readings : UsableTick!(r)
      BY <2>3 DEF UsableTick
    <3>2. ASSUME phase \in {"UNKNOWN", "CALIBRATING"}, stable_fps' \in Nat PROVE FALSE
      BY <1>1, <3>2, NoBaseBefore
    <3>3. stable_fps \in Nat /\ stable_fps' \in Nat
      BY <1>1, NextIInv DEF IInv, TypeOK
    <3>4. CASE CalibrateSample(r) \/ CalibrateRestart(r) \/ CalibrateDone(r)
      BY <3>2, <3>3, <3>4 DEF CalibrateSample, CalibrateRestart, CalibrateDone, Calibrating
    <3>5. CASE StableUnder(r) \/ StableDegrade(r) \/ StableSteady(r) \/ UpshiftWatch(r)
               \/ DegradedRecover(r) \/ DegradedRaise(r)
      <4>1. stable_fps' = stable_fps
        BY <3>5 DEF StableUnder, StableDegrade, StableSteady, UpshiftWatch, DegradedRecover,
            DegradedRaise, machine, base
      <4>2. QED
        BY <1>1, <3>3, <4>1
    <3>6. CASE UpshiftAccept(r)
      BY <1>1, <3>3, <3>6 DEF UpshiftAccept, RaisesBase, base
    <3>7. CASE SceneHeavy(r)
      BY <3>7 DEF SceneHeavy, DegradedTick
    <3>8. QED
      BY <3>1, <3>4, <3>5, <3>6, <3>7
  <2>4. QED
    BY <1>1, <2>1, <2>2, <2>3 DEF Next, Tick
<1>2. ASSUME UNCHANGED vars, Falls, IInv PROVE Heavy
  BY <1>2 DEF vars, machine, base, IInv, TypeOK
<1>3. IInv /\ [Next]_vars => [Falls => Heavy]_vars
  BY <1>1, <1>2
<1>4. QED
  BY <1>3, EngineInvariant, PTL DEF Spec, BaseFallsOnlyWhenHeavy

-----------------------------------------------------------------------------
(* The engine implements FasPhases.                                         *)

\* The engine's outputs and those of FasPhases are the same records.
LEMMA SameOutputs ==
    /\ Abstract!Idle = Idle /\ Abstract!Sweetspot = Sweetspot
    /\ \A p, f, s : Abstract!Ask(p, f, s) = Ask(p, f, s)
BY DEF Abstract!Idle, Idle, Abstract!Sweetspot, Sweetspot, Abstract!Ask, Ask

\* The scales FasPhases is instantiated with meet its assumption: DEGRADED never
\* asks for a lower frequency, for all intervals the buffer can yield.
THEOREM RaisesAreRaises == PossibleRaises \subseteq Nat /\ \A s \in PossibleRaises : s > 1000
<1> SUFFICES ASSUME NEW s \in PossibleRaises PROVE s \in Nat /\ s > 1000
  OBVIOUS
<1>1. PICK short \in Intervals, b \in Intervals : s = RaiseScale(short, b)
  BY DEF PossibleRaises
<1>2. QED
  BY <1>1, RaiseRaises

\* A usable tick is not the first one after a switch, whose warm-up is not over.
LEMMA UsableIsNotFresh ==
    ASSUME IInv, NEW r \in Readings, Usable(r)
    PROVE  ~(awake /\ warmup = 0) /\ app # NoApp /\ app' = app /\ awake' = FALSE
<1>1. WarmupMs \in Nat \ {0}
  BY FasAssumption
<1>2. QED
  BY <1>1 DEF Usable, None

LEMMA InitPhases == Init => Abstract!Init
BY SameOutputs DEF Init, Abstract!Init

LEMMA SleepPhases == IInv /\ Sleep => UNCHANGED Abstract!pvars
<1> SUFFICES ASSUME IInv, NEW d \in SleepSteps, SleepFor(d) PROVE UNCHANGED Abstract!pvars
  BY DEF Sleep
<1>1. warmup' # 0
  <2>1. d \in Nat \ {0}
    BY FasAssumption
  <2>2. WarmupMs \in Nat \ {0} /\ WarmupMs <= Horizon /\ Horizon \in Nat
    BY HorizonBounds, FasAssumption DEF Horizon, Larger
  <2>3. warmup \in Ages
    BY DEF IInv, TypeOK
  <2>4. QED
    BY <2>1, <2>2, <2>3 DEF SleepFor, Aged, Smaller, None, Ages
<1>2. UNCHANGED <<app, phase, out>> /\ ~awake
  BY DEF SleepFor
<1>3. (awake /\ warmup = 0) = FALSE /\ (awake' /\ warmup' = 0) = FALSE
  BY <1>1, <1>2
<1>4. QED
  BY <1>2, <1>3 DEF Abstract!pvars

LEMMA AppChangePhases == OnAppChange => Abstract!Next
<1> SUFFICES ASSUME NEW a \in Apps, OnAppChange!(a) PROVE Abstract!Next
  BY DEF OnAppChange
<1>1. app' = a /\ phase' = "UNKNOWN" /\ out' = out
  BY DEF DropBase
<1>2. (awake' /\ warmup' = 0) = TRUE
  OBVIOUS
<1>3. Abstract!Announce(a)
  BY <1>1, <1>2 DEF Abstract!Announce
<1>4. QED
  BY <1>3 DEF Abstract!Next

\* A tick maps to a step of FasPhases once its phase and output do.
LEMMA TickPhases ==
    ASSUME awake' = FALSE,
           Abstract!Rest \/ Abstract!Calibrate \/ Abstract!Hold \/ Abstract!Degrade \/ Abstract!Recover
    PROVE  Abstract!Next
<1>1. (awake' /\ warmup' = 0) = FALSE
  OBVIOUS
<1>2. QED
  BY <1>1 DEF Abstract!Next, Abstract!TickStep

LEMMA SilencePhases == EmptyTick \/ ShortSilence \/ LongSilence => Abstract!Next
<1> SUFFICES ASSUME EmptyTick \/ ShortSilence \/ LongSilence PROVE Abstract!Next
  OBVIOUS
<1>1. awake' = FALSE /\ app' = app /\ out' = Idle /\ phase' \in {phase, "UNKNOWN"}
  BY DEF EmptyTick, ShortSilence, LongSilence, Unusable, buffer, machine, DropBase
<1>2. Abstract!Rest
  BY <1>1, SameOutputs DEF Abstract!Rest
<1>3. QED
  BY <1>1, <1>2, TickPhases

LEMMA CalibratePhases ==
    ASSUME IInv, NEW r \in Readings,
           CalibrateSample(r) \/ CalibrateRestart(r) \/ CalibrateDone(r)
    PROVE  Abstract!Next
<1>1. Usable(r) /\ phase \in {"UNKNOWN", "CALIBRATING"} /\ out' = Sweetspot
  BY DEF CalibrateSample, CalibrateRestart, CalibrateDone, Calibrating
<1>2. phase' \in {"CALIBRATING", "STABLE"}
  BY DEF CalibrateSample, CalibrateRestart, CalibrateDone, KeepCalibrating, EnterStable, EnterPhase
<1>3. ASSUME phase = "UNKNOWN" PROVE phase' = "CALIBRATING"
  <2>1. ~WindowFull
    BY <1>3, FasAssumption DEF WindowFull, CalibElapsed
  <2>2. QED
    BY <2>1 DEF CalibrateSample, CalibrateRestart, CalibrateDone, KeepCalibrating
<1>4. Abstract!Calibrate
  BY <1>1, <1>2, <1>3, UsableIsNotFresh, SameOutputs DEF Abstract!Calibrate
<1>5. QED
  BY <1>1, <1>4, UsableIsNotFresh, TickPhases

LEMMA StableOutputKeeps == StableOutput => out' \in Abstract!Keeps
<1> SUFFICES ASSUME StableOutput PROVE out' \in Abstract!Keeps
  OBVIOUS
<1>1. PICK occ \in IF OccupancyTrigger THEN BOOLEAN ELSE {FALSE} :
        out' = Ask("STABLE", QuickDrop, SteadyScale(occ))
  BY DEF StableOutput
<1>2. occ \in BOOLEAN /\ (occ => OccupancyTrigger)
  OBVIOUS
<1>3. SteadyScale(occ) \in Abstract!SteadyScales
  <2>1. SlowDropDue => ~QuickDrop
    BY DEF SlowDropDue
  <2>2. QED
    BY <1>2, <2>1
    DEF SteadyScale, Abstract!SteadyScales, Abstract!OccupancyScale, OccupancyScale,
        Abstract!SlowDropScale, SlowDropScale
<1>4. QED
  BY <1>1, <1>3, SameOutputs DEF Abstract!Keeps

LEMMA RaisePhases ==
    ASSUME IInv, phase \in {"STABLE", "DEGRADED"}, NEW r \in Readings,
           out' = Ask("DEGRADED", FALSE, RaiseScale(r.short, base_interval))
    PROVE  out' \in Abstract!Lifts
<1>1. base_interval \in Intervals /\ r.short \in Intervals
  BY BaseInUse DEF Readings
<1>2. RaiseScale(r.short, base_interval) \in PossibleRaises
  BY <1>1 DEF PossibleRaises
<1>3. QED
  BY <1>2, SameOutputs DEF Abstract!Lifts

LEMMA StablePhases ==
    ASSUME IInv, NEW r \in Readings,
           StableUnder(r) \/ StableDegrade(r) \/ StableSteady(r) \/ UpshiftWatch(r) \/ UpshiftAccept(r)
    PROVE  Abstract!Next
<1>1. Usable(r) /\ phase = "STABLE"
  BY DEF StableUnder, StableDegrade, StableSteady, UpshiftWatch, UpshiftAccept, StableWithin,
      StableTick
<1>2. CASE StableDegrade(r)
  <2>1. phase' = "DEGRADED" /\ out' = Ask("DEGRADED", FALSE, RaiseScale(r.short, base_interval))
    BY <1>2 DEF StableDegrade, EnterPhase
  <2>2. Abstract!Degrade
    BY <1>1, <2>1, RaisePhases, UsableIsNotFresh DEF Abstract!Degrade
  <2>3. QED
    BY <1>1, <2>2, UsableIsNotFresh, TickPhases
<1>3. CASE StableUnder(r) \/ StableSteady(r) \/ UpshiftWatch(r) \/ UpshiftAccept(r)
  <2>1. phase' = phase /\ StableOutput
    BY <1>3 DEF StableUnder, StableSteady, UpshiftWatch, UpshiftAccept, StableWithin
  <2>2. Abstract!Hold
    BY <1>1, <2>1, StableOutputKeeps, UsableIsNotFresh DEF Abstract!Hold
  <2>3. QED
    BY <1>1, <2>2, UsableIsNotFresh, TickPhases
<1>4. QED
  BY <1>2, <1>3

LEMMA DegradedPhases ==
    ASSUME IInv, NEW r \in Readings, DegradedRecover(r) \/ DegradedRaise(r) \/ SceneHeavy(r)
    PROVE  Abstract!Next
<1>1. Usable(r) /\ phase = "DEGRADED"
  BY InDegraded
<1>2. CASE DegradedRaise(r)
  <2>1. phase' = phase /\ out' = Ask("DEGRADED", FALSE, RaiseScale(r.short, base_interval))
    BY <1>2 DEF DegradedRaise, machine
  <2>2. Abstract!Degrade
    BY <1>1, <2>1, RaisePhases, UsableIsNotFresh DEF Abstract!Degrade
  <2>3. QED
    BY <1>1, <2>2, UsableIsNotFresh, TickPhases
<1>3. CASE DegradedRecover(r) \/ SceneHeavy(r)
  <2>1. phase' = "STABLE" /\ out' = Ask("STABLE", FALSE, 1000)
    <3>1. EnterStable /\ out' = Ask("STABLE", FALSE, 1000)
      <4>1. CASE DegradedRecover(r)
        BY <4>1, Zenon DEF DegradedRecover
      <4>2. CASE SceneHeavy(r)
        BY <4>2, Zenon DEF SceneHeavy
      <4>3. QED
        BY <1>3, <4>1, <4>2
    <3>2. QED
      BY <3>1 DEF EnterStable, EnterPhase
  <2>2. Abstract!Recover
    BY <1>1, <2>1, SameOutputs, UsableIsNotFresh DEF Abstract!Recover
  <2>3. QED
    BY <1>1, <2>2, UsableIsNotFresh, TickPhases
<1>4. QED
  BY <1>2, <1>3

\* Every behaviour of the engine is one the executor's model allows, for all bounds
\* and readings: what FasPipeline shows of the executor holds for this engine.
THEOREM EngineImplementsPhases == Spec => ImplementsPhases
<1>1. Init => Abstract!Init
  BY InitPhases
<1>2. IInv /\ [Next]_vars => [Abstract!Next]_Abstract!pvars
  <2>1. ASSUME IInv, Next PROVE Abstract!Next \/ UNCHANGED Abstract!pvars
    BY <2>1, SleepPhases, AppChangePhases, SilencePhases, CalibratePhases, StablePhases,
       DegradedPhases DEF Next, Tick, UsableTick
  <2>2. ASSUME UNCHANGED vars PROVE UNCHANGED Abstract!pvars
    <3>1. UNCHANGED <<app, awake, warmup, phase, out>>
      BY <2>2 DEF vars, buffer, machine
    <3>2. QED
      BY <3>1 DEF Abstract!pvars
  <2>3. QED
    BY <2>1, <2>2
<1>3. QED
  BY <1>1, <1>2, EngineInvariant, PTL DEF Spec, ImplementsPhases, Abstract!Spec

-----------------------------------------------------------------------------
(* The engine with its history.                                             *)

\* What the history says of the engine.  A silence is no longer than the time
\* since the last usable reading, which a known base had; and a hold that runs in
\* STABLE is no longer than the stretch of readings below the tolerance.
HInv ==
    /\ since_usable \in Ages /\ low \in Ages
    /\ NoCrossGameBase
    /\ base_interval # 0 => since_usable # None /\ unusable_since <= since_usable
    /\ phase = "STABLE" => degrade_candidate <= low

\* A usable tick ends in STABLE or DEGRADED if it began there, and takes the
\* candidate for DEGRADED no further than its hold.
LEMMA UsableTickPhases ==
    ASSUME NEW r \in Readings, UsableTick!(r)
    PROVE  /\ Usable(r)
           /\ phase \in {"UNKNOWN", "CALIBRATING"} \/ phase' \in {"STABLE", "DEGRADED"}
           /\ phase' = "STABLE" =>
                \/ degrade_candidate' = None
                \/ /\ phase = "STABLE" /\ BelowTolerance(r.fps, stable_fps)
                   /\ degrade_candidate' = Started(degrade_candidate)
           /\ phase = "STABLE" /\ phase' = "DEGRADED" =>
                /\ BelowTolerance(r.fps, stable_fps)
                /\ Started(degrade_candidate) >= DegradeHold
<1>1. CASE CalibrateSample(r) \/ CalibrateRestart(r)
  BY <1>1 DEF CalibrateSample, CalibrateRestart, Calibrating, KeepCalibrating
<1>2. CASE CalibrateDone(r)
  BY <1>2 DEF CalibrateDone, Calibrating, EnterStable, EnterPhase
<1>3. CASE StableUnder(r)
  BY <1>3 DEF StableUnder, StableTick
<1>4. CASE StableDegrade(r)
  BY <1>4 DEF StableDegrade, StableTick, EnterPhase
<1>5. CASE StableSteady(r) \/ UpshiftWatch(r) \/ UpshiftAccept(r)
  <2>1. StableWithin(r)
    BY <1>5 DEF StableSteady, UpshiftWatch, UpshiftAccept
  <2>2. QED
    BY <2>1 DEF StableWithin, StableTick
<1>6. CASE DegradedRaise(r)
  BY <1>6 DEF DegradedRaise, DegradedTick, machine
<1>7. CASE DegradedRecover(r) \/ SceneHeavy(r)
  <2>1. DegradedTick(r) /\ EnterStable
    <3>1. CASE DegradedRecover(r)
      BY <3>1, Zenon DEF DegradedRecover
    <3>2. CASE SceneHeavy(r)
      BY <3>2, Zenon DEF SceneHeavy
    <3>3. QED
      BY <1>7, <3>1, <3>2
  <2>2. QED
    BY <2>1 DEF DegradedTick, EnterStable, EnterPhase
<1>8. QED
  BY <1>1, <1>2, <1>3, <1>4, <1>5, <1>6, <1>7

LEMMA InitHInv == HInit => HInv
BY HorizonBounds DEF HInit, Init, HInv, NoCrossGameBase, Ages, None

LEMMA HSleepHInv == IInv /\ HInv /\ HSleep => HInv'
<1> SUFFICES ASSUME IInv, HInv, HSleep PROVE HInv'
  OBVIOUS
<1>1. PICK d \in SleepSteps : HSleep!(d)
  BY DEF HSleep
<1>2. UNCHANGED <<app, phase, base_interval, sampled, measured>>
  BY <1>1 DEF SleepFor, base
<1>3. /\ since_usable' = Aged(since_usable, d) /\ low' = Aged(low, d)
      /\ unusable_since' = Aged(unusable_since, d)
      /\ degrade_candidate' = Aged(degrade_candidate, d)
  BY <1>1 DEF SleepFor
<1>4. /\ since_usable \in Ages /\ low \in Ages /\ unusable_since \in Ages
      /\ degrade_candidate \in Ages
  BY DEF HInv, IInv, TypeOK
<1>5. since_usable' \in Ages /\ low' \in Ages /\ (since_usable # None => since_usable' # None)
  BY <1>3, <1>4, AgesClosed, HorizonBounds DEF None
<1>6. base_interval' # 0 => since_usable' # None /\ unusable_since' <= since_usable'
  BY <1>2, <1>3, <1>4, <1>5, AgedMonotonic DEF HInv
<1>7. phase' = "STABLE" => degrade_candidate' <= low'
  BY <1>2, <1>3, <1>4, AgedMonotonic DEF HInv
<1>8. QED
  BY <1>2, <1>5, <1>6, <1>7 DEF HInv, NoCrossGameBase

LEMMA HAppChangeHInv == HAppChange => HInv'
<1> SUFFICES ASSUME HAppChange PROVE HInv'
  OBVIOUS
<1>1. phase' = "UNKNOWN" /\ base_interval' = 0 /\ calib_samples' = {}
  BY DEF HAppChange, OnAppChange, DropBase
<1>2. since_usable' = None /\ low' = None /\ sampled' = {} /\ measured' = {}
  BY <1>1 DEF HAppChange
<1>3. QED
  BY <1>1, <1>2 DEF HInv, NoCrossGameBase, Ages

LEMMA HSilenceHInv == IInv /\ HInv /\ HSilence => HInv'
<1> SUFFICES ASSUME IInv, HInv, HSilence PROVE HInv'
  OBVIOUS
<1>1. /\ app' = app /\ UNCHANGED <<since_usable, low, degrade_candidate>>
      /\ base_interval' \in {0, base_interval} /\ phase' \in {phase, "UNKNOWN"}
      /\ unusable_since' \in {unusable_since, Started(unusable_since)}
  BY DEF HSilence, EmptyTick, ShortSilence, LongSilence, Unusable, buffer, machine, base, DropBase
<1>2. sampled' \subseteq sampled /\ measured' \subseteq measured
  BY DEF HSilence
<1>3. unusable_since \in Ages /\ since_usable \in Ages /\ low \in Ages
  BY DEF IInv, TypeOK, HInv
<1>4. ASSUME base_interval' # 0 PROVE since_usable' # None /\ unusable_since' <= since_usable'
  BY <1>1, <1>3, <1>4 DEF HInv, Started, Ages, None
<1>5. phase' = "STABLE" => degrade_candidate' <= low'
  BY <1>1 DEF HInv
<1>6. NoCrossGameBase'
  BY <1>1, <1>2 DEF HInv, NoCrossGameBase
<1>7. QED
  BY <1>1, <1>3, <1>4, <1>5, <1>6 DEF HInv

LEMMA HUsableHInv == IInv /\ HInv /\ HUsable => HInv'
<1> SUFFICES ASSUME IInv, HInv, HUsable PROVE HInv'
  OBVIOUS
<1>1. PICK r \in Readings : UsableTick!(r)
  BY DEF HUsable, UsableTick
<1>2. app' = app /\ unusable_since' = None /\ reading' = r
  BY <1>1, UsableTickPhases DEF Usable
<1> DEFINE below == phase = "STABLE" /\ BelowTolerance(r.fps, stable_fps)
           window == {app} \cup IF phase = "UNKNOWN" THEN {} ELSE sampled
<1>3. /\ since_usable' = 0
      /\ low' = IF below THEN Started(low) ELSE None
      /\ sampled' \in {{}, window, sampled} /\ measured' \in {measured, window}
  BY <1>2 DEF HUsable
<1>4. NoCrossGameBase'
  BY <1>2, <1>3 DEF HInv, NoCrossGameBase
<1>5. low \in Ages /\ degrade_candidate \in Ages
  BY DEF HInv, IInv, TypeOK
<1>6. low' \in Ages /\ since_usable' \in Ages
  BY <1>3, <1>5, HorizonBounds DEF Ages, Started, None
<1>7. ASSUME phase' = "STABLE" PROVE degrade_candidate' <= low'
  <2>1. CASE degrade_candidate' = None
    BY <1>6, <2>1, HorizonBounds DEF Ages, None
  <2>2. CASE below /\ degrade_candidate' = Started(degrade_candidate)
    BY <1>3, <1>5, <2>2, HorizonBounds DEF HInv, Started, Ages, None
  <2>3. QED
    BY <1>1, <1>7, <2>1, <2>2, UsableTickPhases
<1>8. QED
  BY <1>2, <1>3, <1>4, <1>6, <1>7 DEF HInv, None

\* The history is only looked at: what the engine does with it, it does without.
LEMMA HistoryStep == [HNext]_hvars => [Next]_vars
<1>1. HNext => Next
  BY DEF HNext, HSleep, HAppChange, HSilence, HUsable, Next, Sleep, Tick
<1>2. UNCHANGED hvars => UNCHANGED vars
  BY DEF hvars
<1>3. QED
  BY <1>1, <1>2

LEMMA NextHInv == IInv /\ HInv /\ [HNext]_hvars => HInv'
<1>1. IInv /\ HInv /\ HNext => HInv'
  BY HSleepHInv, HAppChangeHInv, HSilenceHInv, HUsableHInv DEF HNext
<1>2. HInv /\ UNCHANGED hvars => HInv'
  BY DEF HInv, NoCrossGameBase, hvars, history, vars, buffer, machine, base
<1>3. QED
  BY <1>1, <1>2

\* The history adds no behaviour to the engine and takes none away but by fairness.
THEOREM HistoryAddsNothing == HSpec => Init /\ [][Next]_vars
<1>1. HInit => Init
  BY DEF HInit
<1>2. QED
  BY <1>1, HistoryStep, PTL DEF HSpec

\* The inductive invariant of the engine with its history.
THEOREM HistoryInvariant == HSpec => [](IInv /\ HInv)
<1>1. HInit => IInv /\ HInv
  BY InitIInv, InitHInv DEF HInit
<1>2. (IInv /\ HInv) /\ [HNext]_hvars => (IInv /\ HInv)'
  BY HistoryStep, NextIInv, NextHInv
<1>3. QED
  BY <1>1, <1>2, PTL DEF HSpec

\* The base in use and the window it comes from were measured on the package now in
\* front (fas_engine.cpp:182), in every behaviour and for every set of packages.
THEOREM BaseIsOfThisGame == HSpec => []NoCrossGameBase
<1>1. HInv => NoCrossGameBase
  BY DEF HInv
<1>2. QED
  BY <1>1, HistoryInvariant, PTL

\* A tick forgets a known base only after UnusableResetMs without one usable reading
\* (fas_engine.cpp:266-276), however the silences and the steady frames alternate.
THEOREM ShortSilencesKeepBase == HSpec => SilenceKeepsBase
<1> DEFINE Loses == base_interval # 0 /\ base_interval' = 0 /\ awake /\ ~awake'
           Long == since_usable >= UnusableResetMs
<1>1. ASSUME IInv, HInv, IInv', HNext, Loses PROVE Long
  <2>1. CASE HSleep \/ HAppChange
    BY <1>1, <2>1 DEF HSleep, SleepFor, HAppChange, OnAppChange
  <2>2. CASE HSilence
    <3>1. LongSilence
      BY <1>1, <2>2 DEF HSilence, EmptyTick, ShortSilence, machine, base
    <3>2. Started(unusable_since) >= UnusableResetMs
      BY <3>1 DEF LongSilence, Unusable
    <3>3. UnusableResetMs \in Nat \ {0} /\ unusable_since \in Ages /\ since_usable \in Ages
      BY <1>1, FasAssumption DEF IInv, TypeOK, HInv
    <3>4. unusable_since >= UnusableResetMs /\ unusable_since <= since_usable
      BY <1>1, <3>2, <3>3 DEF Started, HInv
    <3>5. QED
      BY <3>3, <3>4, HorizonBounds DEF Ages, None
  <2>3. CASE HUsable
    <3>1. PICK r \in Readings : UsableTick!(r)
      BY <2>3 DEF HUsable, UsableTick
    <3>2. phase \in {"STABLE", "DEGRADED"}
      BY <1>1, NoBaseBefore DEF IInv, TypeOK, Phases
    <3>3. phase' \in {"STABLE", "DEGRADED"}
      BY <3>1, <3>2, UsableTickPhases
    <3>4. QED
      BY <1>1, <3>3 DEF IInv, BaseKnown
  <2>4. QED
    BY <1>1, <2>1, <2>2, <2>3 DEF HNext
<1>2. ASSUME UNCHANGED hvars, Loses PROVE Long
  BY <1>2 DEF hvars, vars
<1>3. (IInv /\ HInv) /\ (IInv /\ HInv)' /\ [HNext]_hvars => [Loses => Long]_hvars
  BY <1>1, <1>2
<1>4. QED
  BY <1>3, HistoryInvariant, PTL DEF HSpec, SilenceKeepsBase

\* STABLE only ends in DEGRADED after a stretch of readings at least as long as the
\* hold that were all below the tolerance (fas_engine.cpp:349-367): a candidate that
\* survives a good reading, a silence or an earlier stay in STABLE is impossible.
THEOREM OnlySustainedLossDegrades == HSpec => DegradeSustained
<1> DEFINE Degrades == phase = "STABLE" /\ phase' = "DEGRADED"
           Held == low' >= DegradeHold
<1>1. ASSUME IInv, HInv, HNext, Degrades PROVE Held
  <2>1. CASE HSleep \/ HAppChange \/ HSilence
    BY <1>1, <2>1
    DEF HSleep, SleepFor, HAppChange, OnAppChange, HSilence, EmptyTick, ShortSilence, LongSilence,
        machine, DropBase
  <2>2. CASE HUsable
    <3>1. PICK r \in Readings : UsableTick!(r)
      BY <2>2 DEF HUsable, UsableTick
    <3>2. Started(degrade_candidate) >= DegradeHold /\ BelowTolerance(reading'.fps, stable_fps)
      BY <1>1, <3>1, UsableTickPhases DEF Usable
    <3>3. low' = Started(low)
      BY <1>1, <2>2, <3>2 DEF HUsable
    <3>4. degrade_candidate \in Ages /\ low \in Ages /\ degrade_candidate <= low
      BY <1>1 DEF IInv, TypeOK, HInv
    <3>5. QED
      BY <3>2, <3>3, <3>4, HorizonBounds DEF Started, Ages, None
  <2>3. QED
    BY <1>1, <2>1, <2>2 DEF HNext
<1>2. ASSUME UNCHANGED hvars, Degrades PROVE Held
  BY <1>2 DEF hvars, vars, machine
<1>3. (IInv /\ HInv) /\ [HNext]_hvars => [Degrades => Held]_hvars
  BY <1>1, <1>2
<1>4. QED
  BY <1>3, HistoryInvariant, PTL DEF HSpec, DegradeSustained
=============================================================================
