--------------------------- MODULE FreqBandProofs ---------------------------
(***************************************************************************)
(* The band of a cluster, for every frequency table, corridor, vendor and  *)
(* time step: the types, the bound on how long the vendor's band lasts,    *)
(* and how fast the wanted ceiling may fall.                               *)
(***************************************************************************)
EXTENDS FreqBand, TLAPS

-----------------------------------------------------------------------------
(* The table and the bands.                                                 *)

LEMMA Table ==
    /\ Freqs \subseteq Nat \ {0} /\ Lowest \in Freqs /\ \A f \in Freqs : Lowest <= f
<1>1. \E f \in Freqs : \A g \in Freqs : f <= g
  BY TableAssumption, BandAssumption
<1>2. QED
  BY <1>1, BandAssumption, Zenon DEF Lowest

\* Rounding down: the highest frequency that is not above, or the lowest.
LEMMA RoundsDown ==
    ASSUME NEW x \in Int
    PROVE  /\ RoundDown(x) \in Freqs
           /\ RoundDown(x) <= x \/ RoundDown(x) = Lowest
           /\ \A g \in Freqs : g <= x => g <= RoundDown(x)
<1>1. CASE \E f \in Freqs : f <= x
  <2> DEFINE S == {f \in Freqs : f <= x}
  <2>1. S \in SUBSET Freqs /\ S # {}
    BY <1>1
  <2>2. \E h \in Freqs : h <= x /\ \A g \in Freqs : g <= x => g <= h
    BY <2>1, TableAssumption
  <2>3. QED
    BY <1>1, <2>2, Zenon DEF RoundDown
<1>2. CASE ~ \E f \in Freqs : f <= x
  BY <1>2, Table, Zenon DEF RoundDown
<1>3. QED
  BY <1>1, <1>2

LEMMA RoundDownMonotone ==
    ASSUME NEW x \in Int, NEW y \in Int, x <= y
    PROVE  RoundDown(x) <= RoundDown(y)
<1>1. /\ RoundDown(x) \in Freqs /\ RoundDown(y) \in Freqs
      /\ RoundDown(x) <= x \/ RoundDown(x) = Lowest
      /\ \A g \in Freqs : g <= y => g <= RoundDown(y)
  BY RoundsDown
<1>2. CASE RoundDown(x) = Lowest
  BY <1>1, <1>2, Table
<1>3. CASE RoundDown(x) <= x
  <2>1. RoundDown(x) \in Int
    <3>1. Freqs \subseteq Int
      BY Table
    <3>2. QED
      BY <1>1, <3>1
  <2>2. RoundDown(x) <= y
    BY <1>3, <2>1
  <2>3. QED
    BY <1>1, <2>2
<1>4. QED
  BY <1>1, <1>2, <1>3

LEMMA RoundsUp == ASSUME NEW x \in Int PROVE RoundUp(x) \in Freqs
<1>1. CASE \E f \in Freqs : x <= f
  <2> DEFINE S == {f \in Freqs : x <= f}
  <2>1. S \in SUBSET Freqs /\ S # {}
    BY <1>1
  <2>2. \E h \in Freqs : x <= h /\ \A g \in Freqs : x <= g => h <= g
    BY <2>1, TableAssumption
  <2>3. QED
    BY <1>1, <2>2, Zenon DEF RoundUp
<1>2. CASE ~ \E f \in Freqs : x <= f
  <2>1. Highest \in Freqs
    BY TableAssumption, BandAssumption DEF Highest
  <2>2. QED
    BY <1>2, <2>1, Zenon DEF RoundUp
<1>3. QED
  BY <1>1, <1>2

\* Rounding stays in the table.
LEMMA Rounding ==
    ASSUME NEW x \in Int
    PROVE  RoundDown(x) \in Nat /\ RoundUp(x) \in Nat
  BY RoundsDown, RoundsUp, Table

\* What a pass asks for consists of natural numbers.
LEMMA AskNat ==
    ASSUME NEW a \in Asks
    PROVE  /\ a.fmin \in Nat /\ a.fmax \in Nat /\ a.lo \in Nat /\ a.hi \in Nat
           /\ a.fas \in BOOLEAN /\ a.game \in BOOLEAN
  BY BandAssumption DEF AskType

LEMMA StepNat == ASSUME NEW a \in Asks PROVE ReleaseStep(a) \in Nat
<1>1. Larger(1, a.fmax - a.fmin) * StepPermille \in Int
  BY AskNat, BandAssumption DEF Larger
<1>2. MinStep \in Nat
  BY BandAssumption
<1>3. QED
  BY <1>1, <1>2 DEF ReleaseStep, Larger

\* The band of a frame-aware pass, and a step of its release.
LEMMA WantNat ==
    ASSUME NEW a \in Asks, NEW cur \in Nat
    PROVE  WantMax(a) \in Nat /\ WantMin(a) \in Nat /\ Released(a, cur) \in Nat
<1>1. BandTop(a) \in Int /\ BandBottom(a) \in Int
  BY AskNat, BandAssumption DEF BandTop, BandBottom, Larger, Smaller
<1>2. WantMax(a) \in Nat
  BY <1>1, Rounding DEF WantMax
<1>3. WantMin(a) \in Nat
  BY <1>1, <1>2, Rounding DEF WantMin, Smaller
<1>4. ReleaseStep(a) \in Int
  BY StepNat
<1>5. Larger(cur - ReleaseStep(a), WantMax(a)) \in Int
  BY <1>2, <1>4 DEF Larger
<1>6. RoundDown(Larger(cur - ReleaseStep(a), WantMax(a))) \in Nat
  BY <1>5, Rounding
<1>7. Released(a, cur) \in Nat
  BY <1>2, <1>6 DEF Released, Larger, Smaller
<1>8. QED
  BY <1>2, <1>3, <1>7

\* The head of enforce_band_with_yield yields a band.
LEMMA ClampBand ==
    ASSUME NEW a \in Asks, NEW lo \in Nat, NEW hi \in Nat
    PROVE  Clamp(a, lo, hi) \in Bands
<1> DEFINE l == Larger(lo, Larger(a.fmin, HwMin))
           h == Smaller(hi, Smaller(a.fmax, HwMax))
<1>1. l \in Nat /\ h \in Nat
  BY AskNat, BandAssumption DEF Larger, Smaller
<1>2. Larger(h, l) \in Nat /\ l <= Larger(h, l)
  BY <1>1 DEF Larger
<1> HIDE DEF l, h
<1>3. Band(l, Larger(h, l)) \in Bands
  BY <1>1, <1>2 DEF Band, Bands
<1>4. QED
  BY <1>3 DEF Clamp, l, h

\* The kernel keeps the files in order, and takes a band the driver lets through
\* from wherever they are.
LEMMA PutBandWorks ==
    ASSUME NEW b \in Bands, NEW w \in Bands, NEW cap \in Nat
    PROVE  /\ PutBand(b, cap, w) \in Bands
           /\ w.hi <= cap => PutBand(b, cap, w) = w
<1>1. /\ b.lo \in Nat /\ b.hi \in Nat /\ b.lo <= b.hi /\ b = [lo |-> b.lo, hi |-> b.hi]
      /\ w.lo \in Nat /\ w.hi \in Nat /\ w.lo <= w.hi /\ w = [lo |-> w.lo, hi |-> w.hi]
  BY DEF Bands
<1>2. ASSUME NEW c \in Bands, NEW f \in Nat
      PROVE  PutMax(c, cap, f) \in Bands /\ PutMin(c, f) \in Bands
  BY <1>2 DEF PutMax, PutMin, Bands, Smaller
<1>3. PutBand(b, cap, w) \in Bands
  BY <1>1, <1>2 DEF PutBand
<1>4. ASSUME w.hi <= cap PROVE PutBand(b, cap, w) = w
  <2>1. CASE w.hi < b.lo
    <3>1. PutMin(b, w.lo) = [lo |-> w.lo, hi |-> b.hi]
      BY <1>1, <2>1 DEF PutMin
    <3>2. PutMax([lo |-> w.lo, hi |-> b.hi], cap, w.hi) = w
      BY <1>1, <1>4 DEF PutMax, Smaller
    <3>3. QED
      BY <2>1, <3>1, <3>2 DEF PutBand
  <2>2. CASE ~(w.hi < b.lo)
    <3>1. PutMax(b, cap, w.hi) = [lo |-> b.lo, hi |-> w.hi]
      BY <1>1, <1>4, <2>2 DEF PutMax, Smaller
    <3>2. PutMin([lo |-> b.lo, hi |-> w.hi], w.lo) = w
      BY <1>1 DEF PutMin
    <3>3. QED
      BY <2>2, <3>1, <3>2 DEF PutBand
  <2>3. QED
    BY <2>1, <2>2
<1>5. QED
  BY <1>3, <1>4

LEMMA CutBand ==
    ASSUME NEW b \in Bands, NEW cap \in Nat
    PROVE  Cut(b, cap) \in Bands
<1>1. b.lo \in Nat /\ b.hi \in Nat /\ b.lo <= b.hi
  BY DEF Bands
<1>2. /\ Smaller(b.lo, cap) \in Nat /\ Smaller(b.hi, cap) \in Nat
      /\ Smaller(b.lo, cap) <= Smaller(b.hi, cap)
  BY <1>1 DEF Smaller
<1>3. QED
  BY <1>2 DEF Cut, Band, Bands

\* An age stays within its bound, and grows by no more than the time that passed.
LEMMA AgedBound ==
    ASSUME NEW top \in Nat, NEW age \in Ages(top), NEW d \in Nat \ {0}
    PROVE  /\ Aged(age, d, top) \in Ages(top)
           /\ Aged(age, d, top) = None <=> age = None
           /\ age # None => Aged(age, d, top) = IF age + d <= top THEN age + d ELSE top
  BY DEF Aged, Ages, None, Smaller

\* The constants the ages are bounded by, and the time between two passes.
LEMMA Milliseconds ==
    /\ VerifyMs \in Nat \ {0} /\ YieldMs \in Nat \ {0}
    /\ RaiseHoldMs \in Nat \ {0} /\ ReleaseHoldMs \in Nat \ {0} /\ MaxTick \in Nat \ {0}
    /\ HoldMs \in Nat /\ RaiseHoldMs <= HoldMs /\ ReleaseHoldMs <= HoldMs
    /\ OverrideBound \in Nat /\ OverrideBound = VerifyMs + HoldMs + MaxTick
    /\ \A d \in TickSteps : d \in Nat \ {0} /\ d <= MaxTick
<1>1. /\ VerifyMs \in Nat \ {0} /\ YieldMs \in Nat \ {0}
      /\ RaiseHoldMs \in Nat \ {0} /\ ReleaseHoldMs \in Nat \ {0}
  BY BandAssumption
<1>2. MaxTick \in Nat \ {0} /\ \A d \in TickSteps : d \in Nat \ {0} /\ d <= MaxTick
  BY BandAssumption
<1>3. HoldMs \in Nat /\ RaiseHoldMs <= HoldMs /\ ReleaseHoldMs <= HoldMs
  BY <1>1 DEF HoldMs, Larger
<1>4. QED
  BY <1>1, <1>2, <1>3 DEF OverrideBound

-----------------------------------------------------------------------------
(* Types.                                                                   *)

\* Looking at the files keeps the types, whatever band the pass wants.
LEMMA LookTypes ==
    ASSUME TypeOK, NEW w \in Bands, Look(w)
    PROVE  /\ pc' \in PcType /\ want' \in Bands /\ actual' \in Bands
           /\ yielded' \in Ages(YieldMs) /\ overridden' \in Ages(OverrideBound + 1)
  BY Milliseconds DEF TypeOK, Look, PcType, YieldStamp, Ages

LEMMA TypeStep == TypeOK /\ [Next]_vars => TypeOK'
<1> SUFFICES ASSUME TypeOK, [Next]_vars PROVE TypeOK'
  OBVIOUS
<1>0. limit \in Nat /\ HwMax \in Nat /\ ProfileMin \in Nat /\ ask \in Asks
  BY BandAssumption DEF TypeOK
<1>1. CASE VendorWrites
  <2>1. PICK b \in VendorBands : node' = Cut(b, limit)
    BY <1>1 DEF VendorWrites
  <2>2. node' \in Bands
    BY <1>0, <2>1, CutBand, BandAssumption
  <2>3. QED
    BY <1>1, <2>2 DEF VendorWrites, TypeOK, pass, cache, history
<1>2. CASE ThermalLimit
  <2>1. PICK l \in Limits : limit' = l /\ node' = Cut(node, l)
    BY <1>2 DEF ThermalLimit
  <2>2. node' \in Bands
    BY <2>1, CutBand, BandAssumption DEF TypeOK
  <2>3. QED
    BY <1>2, <2>1, <2>2 DEF ThermalLimit, TypeOK, pass, cache, history
<1>3. CASE AskChanges
  <2>1. /\ ask' \in Asks /\ overridden' = None
        /\ run' \in {run, FALSE} /\ moved' \in {moved, None}
    BY <1>3 DEF AskChanges
  <2>2. QED
    BY <1>3, <2>1 DEF AskChanges, TypeOK, pass, cache, Ages
<1>4. CASE Activate
  <2>1. PutMax(node, limit, HwMax) \in Bands
    BY <1>0 DEF TypeOK, PutMax, Bands, Smaller
  <2>2. PutMin(PutMax(node, limit, HwMax), ProfileMin) \in Bands
    BY <1>0, <2>1 DEF PutMin, Bands
  <2>3. QED
    BY <1>4, <2>2 DEF Activate, TypeOK, cache, Ages
<1>5. CASE Wait
  <2>1. PICK d \in TickSteps :
          /\ raised' = Aged(raised, d, RaiseHoldMs)
          /\ released' = Aged(released, d, ReleaseHoldMs)
          /\ yielded' = Aged(yielded, d, YieldMs)
          /\ verified' = Aged(verified, d, VerifyMs)
          /\ overridden' = Aged(overridden, d, OverrideBound + 1)
          /\ moved' = Aged(moved, d, HoldMs)
    BY <1>5 DEF Wait
  <2>2. /\ raised' \in Ages(RaiseHoldMs) /\ released' \in Ages(ReleaseHoldMs)
        /\ yielded' \in Ages(YieldMs) /\ verified' \in Ages(VerifyMs)
        /\ overridden' \in Ages(OverrideBound + 1) /\ moved' \in Ages(HoldMs)
    BY <2>1, AgedBound, Milliseconds DEF TypeOK
  <2>3. QED
    BY <1>5, <2>2 DEF Wait, TypeOK, PcType
<1>6. CASE LoadPass
  <2>1. PICK w \in {Clamp(ask, ask.lo, ask.hi)} : Look(w)
    BY <1>6 DEF LoadPass
  <2>2. w \in Bands /\ ask.hi \in Nat
    BY <1>0, ClampBand, AskNat
  <2>3. QED
    BY <1>6, <2>1, <2>2, LookTypes DEF LoadPass, TypeOK, cache, Ages
<1>7. CASE HeldPass
  BY <1>7 DEF HeldPass, TypeOK, PcType, pass, cache, history
<1>8. CASE FasPass
  <2>1. PICK top \in {Applied} :
          /\ \E w \in {Clamp(ask, WantMin(ask), top)} : Look(w)
          /\ last' = top
    BY <1>8 DEF FasPass
  <2>2. Current \in Nat
    BY <1>0, WantNat DEF Current, TypeOK
  <2>3. top \in Nat
    BY <1>0, <2>1, <2>2, WantNat DEF Applied, Larger
  <2>4. PICK w \in {Clamp(ask, WantMin(ask), top)} : Look(w)
    BY <2>1
  <2>5. w \in Bands
    BY <1>0, <2>2, <2>3, <2>4, WantNat, ClampBand
  <2>6. /\ pc' \in PcType /\ want' \in Bands /\ actual' \in Bands
        /\ yielded' \in Ages(YieldMs) /\ overridden' \in Ages(OverrideBound + 1)
    BY <2>4, <2>5, LookTypes
  <2>7. released' \in Ages(ReleaseHoldMs) /\ raised' \in Ages(RaiseHoldMs)
        /\ moved' \in Ages(HoldMs)
    BY <1>8, Milliseconds DEF FasPass, TypeOK, Ages
  <2>8. QED
    BY <1>8, <2>1, <2>3, <2>6, <2>7 DEF FasPass, TypeOK, cache
<1>9. CASE Skip
  BY <1>9 DEF Skip, TypeOK, PcType, pass, cache, history
<1>10. CASE Write
  <2>1. node' \in Bands
    BY <1>0, <1>10, PutBandWorks DEF Write, TypeOK
  <2>2. overridden' \in Ages(OverrideBound + 1) /\ verified' \in Ages(VerifyMs)
    BY <1>10, Milliseconds DEF Write, TypeOK, Ages
  <2>3. QED
    BY <1>10, <2>1, <2>2 DEF Write, TypeOK, PcType, pass
<1>11. CASE Confirm
  BY <1>11 DEF Confirm, TypeOK, PcType, cache, history
<1>12. CASE UNCHANGED vars
  BY <1>12 DEF vars, TypeOK, pass, cache, history
<1>13. QED
  BY <1>1, <1>2, <1>3, <1>4, <1>5, <1>6, <1>7, <1>8, <1>9, <1>10, <1>11, <1>12
     DEF Next, Others, MainLoop

-----------------------------------------------------------------------------
(* How long the vendor's band lasts.                                        *)

\* The passes have seen the files differ for no longer than the daemon has
\* trusted its last write of the band.
Fresh == verified # None /\ verified < VerifyMs /\ overridden <= verified

\* A hold began when they had differed for at most that time, and not been
\* looked at since.
SinceHold ==
    /\ raised # None /\ raised < RaiseHoldMs => overridden <= VerifyMs + raised
    /\ released # None /\ released < ReleaseHoldMs => overridden <= VerifyMs + released

\* The strengthening of OverriddenBriefly that every step preserves: files that
\* differ longer than the trust lasts are waiting for the end of a hold, or this
\* very pass looks at them and writes.
Overridden == overridden # None =>
    /\ Fresh \/ Past(verified, VerifyMs)
    /\ overridden <= OverrideBound
    /\ pc \in {"wait", "look"} => SinceHold
    /\ pc = "wait" => Fresh \/ Held
    /\ pc = "confirm" => Fresh

IInv == TypeOK /\ Overridden

LEMMA FreshSinceHold == ASSUME TypeOK, Fresh PROVE SinceHold /\ overridden <= OverrideBound
  BY Milliseconds DEF TypeOK, Fresh, SinceHold, Ages, None

LEMMA LookOverridden ==
    ASSUME IInv, TypeOK', pc = "look", NEW w, Look(w), verified' = verified
    PROVE  Overridden'
<1>1. CASE overridden' = None
  BY <1>1 DEF Overridden
<1>2. CASE overridden' # None
  <2>1. pc' = "write" /\ overridden' = (IF overridden = None THEN 0 ELSE overridden)
    BY <1>2 DEF Look
  <2>2. overridden' <= OverrideBound
    <3>1. overridden # None => overridden <= OverrideBound
      BY DEF IInv, Overridden
    <3>2. 0 <= OverrideBound
      BY Milliseconds
    <3>3. QED
      BY <2>1, <3>1, <3>2
  <2>3. Fresh' \/ Past(verified', VerifyMs)
    BY <2>1, Milliseconds DEF IInv, Overridden, Fresh, Past, TypeOK, Ages, None
  <2>4. QED
    BY <2>1, <2>2, <2>3 DEF Overridden, Past
<1>3. QED
  BY <1>1, <1>2

LEMMA OverriddenStep == IInv /\ TypeOK' /\ [Next]_vars => Overridden'
<1> SUFFICES ASSUME IInv, TypeOK', [Next]_vars PROVE Overridden'
  OBVIOUS
<1>1. ASSUME UNCHANGED <<pc, raised, released, verified, overridden>> PROVE Overridden'
  BY <1>1 DEF IInv, Overridden, Fresh, SinceHold, Held, Past
<1>2. CASE VendorWrites \/ ThermalLimit \/ Activate
  BY <1>1, <1>2 DEF VendorWrites, ThermalLimit, Activate, pass, cache, history
<1>3. CASE AskChanges
  BY <1>3 DEF AskChanges, Overridden
<1>4. CASE Wait
  <2>1. PICK d \in TickSteps :
          /\ raised' = Aged(raised, d, RaiseHoldMs)
          /\ released' = Aged(released, d, ReleaseHoldMs)
          /\ verified' = Aged(verified, d, VerifyMs)
          /\ overridden' = Aged(overridden, d, OverrideBound + 1)
    BY <1>4 DEF Wait
  <2>2. d \in Nat \ {0} /\ d <= MaxTick
    BY Milliseconds
  <2>3. pc = "wait" /\ pc' = "look"
    BY <1>4 DEF Wait
  <2> SUFFICES ASSUME overridden' # None PROVE Overridden'
    BY DEF Overridden
  <2>4. overridden # None /\ overridden \in Nat
    <3>1. overridden \in Ages(OverrideBound + 1)
      BY DEF IInv, TypeOK
    <3>2. overridden # None
      BY <2>1 DEF Aged
    <3>3. QED
      BY <3>1, <3>2, Milliseconds DEF Ages
  <2>5. overridden' <= overridden + d
    BY <2>1, <2>2, <2>4, Milliseconds DEF Aged, Smaller
  <2>6. /\ raised # None /\ raised' < RaiseHoldMs => raised' = raised + d
        /\ released # None /\ released' < ReleaseHoldMs => released' = released + d
        /\ raised = None => raised' = None
        /\ released = None => released' = None
    BY <2>1, <2>2, Milliseconds DEF IInv, TypeOK, Ages, Aged, Smaller, None
  <2>7. overridden <= VerifyMs + HoldMs /\ SinceHold'
    <3>1. SinceHold /\ (Fresh \/ Held)
      BY <2>3, <2>4 DEF IInv, Overridden
    <3>2. overridden <= VerifyMs + HoldMs
      BY <2>4, <3>1, Milliseconds DEF IInv, TypeOK, Ages, SinceHold, Fresh, Held, Past, None
    <3>3. SinceHold'
      <4>1. /\ raised \in Int /\ raised' \in Int /\ released \in Int /\ released' \in Int
            /\ overridden' \in Int /\ VerifyMs \in Int
            /\ RaiseHoldMs \in Int /\ ReleaseHoldMs \in Int
        BY Milliseconds DEF IInv, TypeOK, Ages, None
      <4>2. ASSUME raised' # None, raised' < RaiseHoldMs PROVE overridden' <= VerifyMs + raised'
        <5>1. raised # None /\ raised' = raised + d
          BY <2>6, <4>2
        <5>2. overridden <= VerifyMs + raised
          BY <2>2, <3>1, <4>1, <4>2, <5>1 DEF SinceHold
        <5>3. QED
          BY <2>2, <2>4, <2>5, <4>1, <5>1, <5>2
      <4>3. ASSUME released' # None, released' < ReleaseHoldMs
            PROVE  overridden' <= VerifyMs + released'
        <5>1. released # None /\ released' = released + d
          BY <2>6, <4>3
        <5>2. overridden <= VerifyMs + released
          BY <2>2, <3>1, <4>1, <4>3, <5>1 DEF SinceHold
        <5>3. QED
          BY <2>2, <2>4, <2>5, <4>1, <5>1, <5>2
      <4>4. QED
        BY <4>2, <4>3 DEF SinceHold
    <3>4. QED
      BY <3>2, <3>3
  <2>8. overridden' <= OverrideBound
    BY <2>2, <2>4, <2>5, <2>7, Milliseconds DEF TypeOK, IInv, Ages, None
  <2>9. Fresh' \/ Past(verified', VerifyMs)
    <3>1. CASE Fresh
      <4>1. verified' = IF verified + d <= VerifyMs THEN verified + d ELSE VerifyMs
        BY <2>1, <2>2, <3>1, AgedBound, Milliseconds DEF IInv, TypeOK, Fresh
      <4>2. QED
        BY <2>2, <2>4, <2>5, <3>1, <4>1, Milliseconds
           DEF IInv, TypeOK, Ages, Fresh, Past, None
    <3>2. CASE Past(verified, VerifyMs)
      BY <2>1, <2>2, <3>2, Milliseconds DEF IInv, TypeOK, Ages, Past, Aged, Smaller, None
    <3>3. QED
      BY <2>4, <3>1, <3>2 DEF IInv, Overridden
  <2>10. QED
    BY <2>3, <2>7, <2>8, <2>9 DEF Overridden, Past
<1>5. CASE LoadPass
  BY <1>5, LookOverridden DEF LoadPass, cache
<1>6. CASE HeldPass
  BY <1>6 DEF HeldPass, IInv, Overridden, Fresh, SinceHold, Held, Past, pass, cache, history
<1>7. CASE FasPass
  <2>1. \E top \in {Applied} : \E w \in {Clamp(ask, WantMin(ask), top)} : Look(w)
    BY <1>7 DEF FasPass
  <2>2. pc = "look" /\ verified' = verified
    BY <1>7 DEF FasPass, cache
  <2>3. QED
    BY <2>1, <2>2, LookOverridden
<1>8. CASE Skip
  BY <1>8 DEF Skip, IInv, Overridden, Fresh, Past, pass, cache, history
<1>9. CASE Write
  <2>1. limit \in Nat /\ node \in Bands /\ want \in Bands
    BY BandAssumption DEF IInv, TypeOK
  <2>2. node' = want \/ limit < want.hi
    <3>1. want.hi <= limit => PutBand(node, limit, want) = want
      BY <2>1, PutBandWorks
    <3>2. want.hi \in Nat
      BY <2>1 DEF Bands
    <3>3. QED
      BY <1>9, <2>1, <3>1, <3>2 DEF Write
  <2>3. QED
    BY <1>9, <2>2 DEF Write, Overridden
<1>10. CASE Confirm
  <2>1. overridden # None => Fresh
    BY <1>10 DEF Confirm, IInv, Overridden
  <2>2. Fresh => SinceHold /\ overridden <= OverrideBound
    BY FreshSinceHold DEF IInv
  <2>3. QED
    BY <1>10, <2>1, <2>2 DEF Confirm, Overridden, Fresh, SinceHold, Past, cache, history
<1>11. CASE UNCHANGED vars
  BY <1>1, <1>11 DEF vars, pass, cache, history
<1>12. QED
  BY <1>2, <1>3, <1>4, <1>5, <1>6, <1>7, <1>8, <1>9, <1>10, <1>11 DEF Next, Others, MainLoop

-----------------------------------------------------------------------------
\* The invariant of the band: the types, and when the files may differ from the
\* band the passes want.
THEOREM BandInvariant == Spec => []IInv
<1>1. Init => IInv
  <2> SUFFICES ASSUME Init PROVE TypeOK /\ Overridden
    BY DEF IInv
  <2>1. NoBand \in Bands /\ node \in Bands
    BY BandAssumption DEF Init, NoBand, Band, Bands
  <2>2. TypeOK
    BY <2>1 DEF Init, TypeOK, PcType, Ages
  <2>3. QED
    BY <2>2 DEF Init, Overridden
<1>2. IInv /\ [Next]_vars => IInv'
  BY TypeStep, OverriddenStep DEF IInv
<1>3. QED
  BY <1>1, <1>2, PTL DEF Spec

\* Every variable has its type: the band the passes want and the one the files
\* show are never crossed, whatever corridor the configuration gives.
THEOREM TypeCorrect == Spec => []TypeOK
<1>1. IInv => TypeOK
  BY DEF IInv
<1>2. QED
  BY <1>1, BandInvariant, PTL

\* A band the vendor has overwritten is back after the time the daemon trusts its
\* last write, a hold and a tick, for every table, corridor, vendor and pace.
THEOREM OverrideBounded == Spec => []OverriddenBriefly
<1>1. IInv => OverriddenBriefly
  BY Milliseconds DEF IInv, Overridden, OverriddenBriefly, None
<1>2. QED
  BY <1>1, BandInvariant, PTL
-----------------------------------------------------------------------------
(* How the wanted ceiling falls.                                            *)

Corridor(a) == Smaller(a.fmax, HwMax)

\* The ceiling a frame-aware pass wants when it has applied top.
Shown(a, top) == Larger(Smaller(top, Corridor(a)), Larger(Lowest, Larger(a.fmin, HwMin)))

\* In a run of frame-aware passes the wanted ceiling is what the ceiling applied
\* last comes to in their corridor.
Steady == run => ask.fas /\ last >= Lowest /\ want.hi = Shown(ask, last)

\* A move of the wanted ceiling was a raise or a fall, which has its time stamp.
MovedSince ==
    moved # None => \/ raised # None /\ raised <= moved
                    \/ released # None /\ released <= moved

RunInv == IInv /\ Steady /\ MovedSince

\* The wanted ends are frequencies of the table, in order, and the upper one within
\* the corridor unless that lies below the table.
LEMMA WantedEnds ==
    ASSUME NEW a \in Asks
    PROVE  /\ WantMax(a) \in Freqs /\ WantMin(a) \in Freqs /\ WantMin(a) <= WantMax(a)
           /\ WantMax(a) <= Corridor(a) \/ WantMax(a) = Lowest
<1> DEFINE top == BandTop(a)
           down == RoundDown(top)
           up == RoundUp(BandBottom(a))
<1>1. top \in Int /\ BandBottom(a) \in Int /\ Corridor(a) \in Int /\ top <= Corridor(a)
  BY AskNat, BandAssumption DEF BandTop, BandBottom, Corridor, Larger, Smaller
<1>2. down \in Freqs /\ up \in Freqs /\ (down <= top \/ down = Lowest)
  <2> HIDE DEF top
  <2>1. QED
    BY <1>1, RoundsDown, RoundsUp
<1>3. WantMax(a) = down /\ WantMin(a) = Smaller(up, down)
  BY DEF WantMin, WantMax
<1> HIDE DEF top, down, up
<1>4. down \in Int /\ up \in Int
  BY <1>2, Table
<1>5. QED
  BY <1>1, <1>2, <1>3, <1>4 DEF Smaller

\* Clamping does not let the lower end lift the ceiling.
LEMMA ClampShown ==
    ASSUME NEW a \in Asks, NEW top \in Nat, WantMin(a) <= top
    PROVE  Clamp(a, WantMin(a), top).hi = Shown(a, top)
<1> DEFINE c == Corridor(a)
           m == Larger(a.fmin, HwMin)
           lo == WantMin(a)
<1>1. c \in Nat /\ m \in Nat /\ Lowest \in Nat /\ lo \in Nat
  BY AskNat, BandAssumption, Table, WantedEnds DEF Corridor, Larger, Smaller
<1>2. Lowest <= lo /\ lo <= top /\ (lo <= c \/ lo = Lowest)
  <2>1. /\ WantMax(a) \in Freqs /\ lo \in Freqs /\ lo <= WantMax(a)
        /\ WantMax(a) <= c \/ WantMax(a) = Lowest
    BY WantedEnds
  <2>2. WantMax(a) \in Nat /\ Lowest <= lo
    BY <2>1, Table
  <2> HIDE DEF c, lo
  <2>3. lo <= c \/ lo = Lowest
    BY <1>1, <2>1, <2>2
  <2>4. QED
    BY <2>2, <2>3 DEF lo
<1>3. Clamp(a, lo, top).hi = Larger(Smaller(top, c), Larger(lo, m))
  BY DEF Clamp, Band, Corridor
<1>4. Shown(a, top) = Larger(Smaller(top, c), Larger(Lowest, m))
  BY DEF Shown
<1> HIDE DEF c, m, lo
<1>5. Larger(Smaller(top, c), Larger(lo, m)) = Larger(Smaller(top, c), Larger(Lowest, m))
  BY <1>1, <1>2 DEF Larger, Smaller
<1>6. QED
  BY <1>3, <1>4, <1>5 DEF lo

\* A lower wanted ceiling means a lower applied one, and one that is lower by no
\* more than a step is wanted lower by no more than a step.
LEMMA ShownFalls ==
    ASSUME NEW a \in Asks, NEW old \in Nat, old >= Lowest, NEW top \in Nat,
           Shown(a, top) < Shown(a, old)
    PROVE  /\ top < old
           /\ top >= Smaller(RoundDown(old - ReleaseStep(a)), old)
                => Shown(a, top) >= RoundDown(Shown(a, old) - ReleaseStep(a))
<1> DEFINE c == Corridor(a)
           l == Larger(Lowest, Larger(a.fmin, HwMin))
           s == ReleaseStep(a)
           x == Shown(a, old) - s
<1>1. c \in Nat /\ l \in Nat /\ Lowest \in Nat /\ Lowest <= l /\ s \in Nat
  BY AskNat, BandAssumption, Table, StepNat DEF Corridor, Larger, Smaller
<1>2. Shown(a, old) = Larger(Smaller(old, c), l) /\ Shown(a, top) = Larger(Smaller(top, c), l)
  BY DEF Shown
<1> HIDE DEF c, l, s
<1>3. top < old /\ Shown(a, old) = Smaller(old, c) /\ Shown(a, old) \in Nat /\ Shown(a, top) \in Nat
  BY <1>1, <1>2 DEF Larger, Smaller
<1>4. x \in Int /\ old - s \in Int /\ x <= old - s /\ x <= c
  BY <1>1, <1>3 DEF Smaller
<1>5. ASSUME top >= Smaller(RoundDown(old - s), old)
      PROVE  Shown(a, top) >= RoundDown(x)
  <2>1. RoundDown(x) <= RoundDown(old - s)
    <3> HIDE DEF x
    <3>1. QED
      BY <1>4, RoundDownMonotone
  <2>2. /\ RoundDown(x) \in Freqs /\ RoundDown(old - s) \in Freqs
        /\ RoundDown(x) <= x \/ RoundDown(x) = Lowest
    <3> HIDE DEF x
    <3>1. QED
      BY <1>4, RoundsDown
  <2> DEFINE d == RoundDown(x)
             e == RoundDown(old - s)
  <2>3. d \in Nat /\ e \in Nat /\ d <= e /\ (d <= x \/ d = Lowest) /\ top >= Smaller(e, old)
    BY <1>5, <2>1, <2>2, Table
  <2> HIDE DEF d, e, x
  <2>4. d <= old
    BY <1>1, <1>4, <2>3
  <2>5. d <= top
    BY <2>3, <2>4 DEF Smaller
  <2>6. d <= c \/ d <= l
    BY <1>1, <1>4, <2>3
  <2>7. Larger(Smaller(top, c), l) >= d
    BY <1>1, <2>3, <2>5, <2>6 DEF Larger, Smaller
  <2>8. QED
    BY <1>2, <2>7 DEF d
<1>6. QED
  BY <1>3, <1>5 DEF x, s

\* What a frame-aware pass applies: a raise in full, a fall by no more than a step.
LEMMA AppliedMoves ==
    ASSUME NEW a \in Asks, ask = a, Current \in Nat
    PROVE  /\ Applied \in Nat /\ WantMin(a) <= Applied /\ Lowest <= Applied
           /\ WantMax(a) >= Current => Applied = WantMax(a)
           /\ Applied >= Smaller(RoundDown(Current - ReleaseStep(a)), Current)
<1> DEFINE hi == WantMax(a)
           lo == WantMin(a)
           cur == Current
           n == Larger(cur - ReleaseStep(a), hi)
           d == RoundDown(n)
           e == RoundDown(cur - ReleaseStep(a))
           r == Released(a, cur)
<1>1. hi \in Nat /\ lo \in Nat /\ lo <= hi /\ Lowest \in Nat /\ Lowest <= lo
  BY WantedEnds, Table
<1>2. r = Larger(Smaller(d, cur), hi)
  BY DEF Released
<1>3. Applied = Larger(lo, IF hi < cur THEN r ELSE hi)
  BY DEF Applied
<1>4. cur - ReleaseStep(a) \in Int /\ n \in Int /\ cur - ReleaseStep(a) <= n
  BY <1>1, StepNat DEF Larger
<1>5. d \in Nat /\ e \in Nat /\ e <= d
  <2>1. RoundDown(cur - ReleaseStep(a)) <= d /\ d \in Freqs /\ RoundDown(cur - ReleaseStep(a)) \in Freqs
    <3> HIDE DEF n, cur
    <3>1. QED
      BY <1>4, RoundDownMonotone, RoundsDown
  <2>2. QED
    BY <2>1, Table
<1>6. cur \in Nat
  OBVIOUS
<1> HIDE DEF hi, lo, cur, n, d, e, r
<1>7. r \in Nat /\ r >= hi /\ r >= Smaller(e, cur)
  BY <1>1, <1>2, <1>5, <1>6 DEF Larger, Smaller
<1>8. /\ Applied \in Nat /\ lo <= Applied /\ Lowest <= Applied
      /\ hi >= cur => Applied = hi
      /\ Applied >= Smaller(e, cur)
  BY <1>1, <1>3, <1>5, <1>6, <1>7 DEF Larger, Smaller
<1>9. QED
  BY <1>8 DEF hi, lo, cur, e

LEMMA SteadyCurrent ==
    ASSUME TypeOK, Steady
    PROVE  ask \in Asks /\ Current \in Nat /\ (run => Current = last)
<1>1. ask \in Asks /\ last \in Nat
  BY DEF TypeOK
<1>2. WantMax(ask) \in Nat /\ Lowest \in Nat \ {0}
  BY <1>1, WantedEnds, Table
<1>3. QED
  BY <1>1, <1>2 DEF Current, Steady

\* A frame-aware pass: what it applies, what it wants, and its time stamps.
LEMMA FasPassMoves ==
    ASSUME TypeOK, Steady, FasPass
    PROVE  /\ last' \in Nat /\ last' >= Lowest /\ want'.hi = Shown(ask, last')
           /\ ask.fas /\ ask' = ask /\ run' = TRUE
           /\ last' >= Smaller(RoundDown(Current - ReleaseStep(ask)), Current)
           /\ WantMax(ask) < Current => ~Held /\ released' = 0
           /\ WantMax(ask) > Current => raised' = 0
           /\ WantMax(ask) >= Current => last' >= Current
           /\ WantMax(ask) = Current => last' = Current
           /\ raised' \in {raised, 0} /\ released' \in {released, 0}
           /\ moved' = IF run /\ want'.hi # want.hi THEN 0 ELSE moved
<1>1. ask \in Asks /\ Current \in Nat
  BY SteadyCurrent
<1>2. /\ Applied \in Nat /\ WantMin(ask) <= Applied /\ Lowest <= Applied
      /\ WantMax(ask) >= Current => Applied = WantMax(ask)
      /\ Applied >= Smaller(RoundDown(Current - ReleaseStep(ask)), Current)
  BY <1>1, AppliedMoves
<1>3. last' = Applied /\ want' = Clamp(ask, WantMin(ask), Applied)
  BY DEF FasPass, Look
<1>4. want'.hi = Shown(ask, last')
  BY <1>1, <1>2, <1>3, ClampShown
<1>5. /\ ask.fas /\ ask' = ask /\ run' = TRUE
      /\ WantMax(ask) < Current => ~Held
      /\ released' = IF WantMax(ask) < Current THEN 0 ELSE released
      /\ raised' = IF WantMax(ask) > Current THEN 0 ELSE raised
      /\ moved' = IF run /\ want'.hi # want.hi THEN 0 ELSE moved
  BY DEF FasPass
<1>6. WantMax(ask) \in Nat
  BY <1>1, WantedEnds, Table
<1>7. /\ WantMax(ask) >= Current => last' >= Current
      /\ WantMax(ask) = Current => last' = Current
  BY <1>1, <1>2, <1>3, <1>6
<1>8. last' \in Nat /\ last' >= Lowest
      /\ last' >= Smaller(RoundDown(Current - ReleaseStep(ask)), Current)
  BY <1>2, <1>3, Table
<1>9. QED
  BY <1>4, <1>5, <1>7, <1>8

LEMMA SteadyStep == IInv /\ Steady /\ [Next]_vars => Steady'
<1> SUFFICES ASSUME IInv, Steady, [Next]_vars PROVE Steady'
  OBVIOUS
<1>1. ASSUME UNCHANGED <<run, ask, last, want>> PROVE Steady'
  BY <1>1 DEF Steady, Shown, Corridor
<1>2. ASSUME run' = FALSE PROVE Steady'
  BY <1>2 DEF Steady
<1>3. CASE VendorWrites \/ ThermalLimit \/ Wait \/ HeldPass \/ Skip \/ Write \/ Confirm
  BY <1>1, <1>3 DEF VendorWrites, ThermalLimit, Wait, HeldPass, Skip, Write, Confirm,
                    pass, cache, history
<1>4. CASE AskChanges
  <2>1. CASE run' = FALSE
    BY <1>2, <2>1
  <2>2. CASE run' # FALSE
    <3>1. ask'.fas /\ ask'.fmin = ask.fmin /\ ask'.fmax = ask.fmax
          /\ run' = run /\ last' = last /\ want' = want
      BY <1>4, <2>2 DEF AskChanges, pass
    <3>2. Shown(ask', last') = Shown(ask, last)
      BY <3>1 DEF Shown, Corridor
    <3>3. QED
      BY <3>1, <3>2 DEF Steady
  <2>3. QED
    BY <2>1, <2>2
<1>5. CASE Activate \/ LoadPass
  BY <1>2, <1>5 DEF Activate, LoadPass
<1>6. CASE FasPass
  BY <1>6, FasPassMoves DEF IInv, Steady
<1>7. CASE UNCHANGED vars
  BY <1>1, <1>7 DEF vars, pass, history
<1>8. QED
  BY <1>3, <1>4, <1>5, <1>6, <1>7 DEF Next, Others, MainLoop

LEMMA MovedStep == RunInv /\ [Next]_vars => MovedSince'
<1> SUFFICES ASSUME RunInv, [Next]_vars PROVE MovedSince'
  OBVIOUS
<1>t. /\ moved \in Ages(HoldMs)
      /\ raised \in Ages(RaiseHoldMs) /\ released \in Ages(ReleaseHoldMs)
  BY DEF RunInv, IInv, TypeOK
<1>1. ASSUME UNCHANGED <<raised, released, moved>> PROVE MovedSince'
  BY <1>1 DEF RunInv, MovedSince
<1>2. ASSUME moved' = None PROVE MovedSince'
  BY <1>2 DEF MovedSince
<1>3. CASE VendorWrites \/ ThermalLimit \/ HeldPass \/ Skip \/ Write \/ Confirm
  BY <1>1, <1>3 DEF VendorWrites, ThermalLimit, HeldPass, Skip, Write, Confirm,
                    pass, cache, history
<1>4. CASE AskChanges
  BY <1>1, <1>2, <1>4 DEF AskChanges, pass
<1>5. CASE Activate \/ LoadPass
  BY <1>2, <1>5 DEF Activate, LoadPass
<1>6. CASE Wait
  <2>1. PICK d \in TickSteps :
          /\ raised' = Aged(raised, d, RaiseHoldMs)
          /\ released' = Aged(released, d, ReleaseHoldMs)
          /\ moved' = Aged(moved, d, HoldMs)
    BY <1>6 DEF Wait
  <2>2. d \in Nat \ {0}
    BY Milliseconds
  <2>3. ASSUME NEW top \in Nat, NEW age \in Ages(top), top <= HoldMs,
               age # None, moved # None, age <= moved
        PROVE  Aged(age, d, top) # None /\ Aged(age, d, top) <= Aged(moved, d, HoldMs)
    <3>1. age \in Nat /\ moved \in Nat /\ HoldMs \in Nat
      BY <1>t, <2>3, Milliseconds DEF Ages
    <3>2. QED
      BY <2>2, <2>3, <3>1 DEF Aged, Smaller, None
  <2>4. moved' # None => moved # None
    BY <2>1 DEF Aged
  <2>5. QED
    BY <1>t, <2>1, <2>3, <2>4, Milliseconds DEF RunInv, MovedSince
<1>7. CASE FasPass
  <2>1. TypeOK /\ Steady
    BY DEF RunInv, IInv
  <2>2. /\ WantMax(ask) < Current => released' = 0
        /\ WantMax(ask) > Current => raised' = 0
        /\ WantMax(ask) = Current => last' = Current
        /\ raised' \in {raised, 0} /\ released' \in {released, 0}
        /\ moved' = IF run /\ want'.hi # want.hi THEN 0 ELSE moved
        /\ want'.hi = Shown(ask, last')
    BY <1>7, <2>1, FasPassMoves
  <2>3. CASE run /\ want'.hi # want.hi
    <3>1. Current = last /\ want.hi = Shown(ask, last) /\ last \in Nat /\ WantMax(ask) \in Nat
      BY <2>1, <2>3, SteadyCurrent, WantedEnds, Table DEF Steady
    <3>2. WantMax(ask) # Current
      BY <2>2, <2>3, <3>1
    <3>3. released' = 0 \/ raised' = 0
      BY <2>2, <3>1, <3>2
    <3>4. QED
      BY <2>2, <2>3, <3>3 DEF MovedSince, None
  <2>4. CASE ~(run /\ want'.hi # want.hi)
    <3>1. moved' = moved
      BY <2>2, <2>4
    <3>2. ASSUME moved # None PROVE 0 <= moved /\ 0 # None
      BY <1>t, <3>2, Milliseconds DEF Ages, None
    <3>3. QED
      BY <2>2, <3>1, <3>2 DEF RunInv, MovedSince
  <2>5. QED
    BY <2>3, <2>4
<1>8. CASE UNCHANGED vars
  BY <1>1, <1>8 DEF vars, pass, history
<1>9. QED
  BY <1>3, <1>4, <1>5, <1>6, <1>7, <1>8 DEF Next, Others, MainLoop

\* Only a frame-aware pass continues a run with another wanted band.
LEMMA RunContinues ==
    ASSUME [Next]_vars, pc = "look", run, run', want' # want
    PROVE  FasPass
  BY DEF Next, Others, MainLoop, VendorWrites, ThermalLimit, AskChanges, Activate, Wait, LoadPass,
         HeldPass, Skip, Write, Confirm, vars, pass, cache, history

LEMMA FallStep ==
    ASSUME RunInv, [Next]_vars, pc = "look", run, run', want'.hi < want.hi
    PROVE  /\ moved = None \/ moved >= Smaller(RaiseHoldMs, ReleaseHoldMs)
           /\ want'.hi >= RoundDown(want.hi - ReleaseStep(ask))
<1>1. TypeOK /\ Steady /\ MovedSince
  BY DEF RunInv, IInv
<1>2. want.hi \in Nat /\ ask \in Asks /\ last \in Nat
  BY <1>1 DEF TypeOK, Bands
<1>3. FasPass
  <2>1. want' # want
    BY <1>2
  <2>2. QED
    BY <2>1, RunContinues
<1>4. /\ want.hi = Shown(ask, last) /\ last >= Lowest
      /\ Current = last /\ WantMax(ask) \in Nat
  BY <1>1, <1>2, SteadyCurrent, WantedEnds, Table DEF Steady
<1>5. /\ last' \in Nat /\ want'.hi = Shown(ask, last')
      /\ last' >= Smaller(RoundDown(last - ReleaseStep(ask)), last)
      /\ WantMax(ask) < last => ~Held
      /\ WantMax(ask) >= last => last' >= last
  BY <1>1, <1>3, <1>4, FasPassMoves
<1>6. last' < last /\ want'.hi >= RoundDown(want.hi - ReleaseStep(ask))
  BY <1>2, <1>4, <1>5, ShownFalls
<1>7. Past(raised, RaiseHoldMs) /\ Past(released, ReleaseHoldMs)
  BY <1>2, <1>4, <1>5, <1>6 DEF Held
<1>8. moved = None \/ moved >= Smaller(RaiseHoldMs, ReleaseHoldMs)
  <2>1. /\ moved \in Int /\ raised \in Int /\ released \in Int
        /\ RaiseHoldMs \in Int /\ ReleaseHoldMs \in Int
    BY <1>1, Milliseconds DEF TypeOK, Ages, None
  <2>2. QED
    BY <1>1, <1>7, <2>1 DEF MovedSince, Past, Smaller
<1>9. QED
  BY <1>6, <1>8

\* In a run of frame-aware passes under one corridor the wanted ceiling falls by one
\* step at a time and not within the hold of its last move, for every table,
\* corridor, step and pace.
THEOREM FallIsGradual == Spec => FallsGradually
<1> DEFINE Gradual ==
      pc = "look" /\ run /\ run' /\ want'.hi < want.hi
        => /\ moved = None \/ moved >= Smaller(RaiseHoldMs, ReleaseHoldMs)
           /\ want'.hi >= RoundDown(want.hi - ReleaseStep(ask))
<1>1. Init => Steady /\ MovedSince
  BY DEF Init, Steady, MovedSince
<1>2. RunInv /\ [Next]_vars => (Steady /\ MovedSince)'
  BY SteadyStep, MovedStep DEF RunInv
<1>3. IInv /\ Steady /\ MovedSince => RunInv
  BY DEF RunInv
<1>4. RunInv /\ [Next]_vars => [Gradual]_vars
  BY FallStep
<1>5. Spec => [][Gradual]_vars
  BY <1>1, <1>2, <1>3, <1>4, BandInvariant, PTL DEF Spec
<1>6. QED
  BY <1>5 DEF FallsGradually

=============================================================================
