------------------------------- MODULE FreqBand -------------------------------
(***************************************************************************)
(* The frequency band of one CPU cluster: how the main loop keeps          *)
(* scaling_min_freq and scaling_max_freq at the band it wants although the *)
(* vendor's services and the thermal driver write the same two files       *)
(* (activity_dynamic_tuning.inc, update_cluster_freq).                     *)
(*                                                                         *)
(* A pass of handle_dynamic_tuning computes the corridor [fmin, fmax] of   *)
(* the cluster and, inside it, the band it asks for: from the frame-aware  *)
(* engine (fas) or from the load of the cluster.  What it asks for is an   *)
(* input here.  The pass then looks at the files, writes them and reads    *)
(* them back; the vendor may write between any two of these steps.         *)
(*                                                                         *)
(* Time stamps are modelled by their age, as in FasEngine.                 *)
(***************************************************************************)
EXTENDS Integers

CONSTANTS
    Freqs,          \* the frequency table of the cluster
    HwMin, HwMax,   \* hw_min_freq and max_freq of its policy
    ProfileMin,     \* min_freq of its policy, what apply_settings writes
    Asks,           \* what a pass may ask for
    VendorBands,    \* bands the vendor writes
    Limits,         \* the highest frequency the thermal driver lets through
    TickSteps,      \* the time between two passes
    MaxTick,        \* the longest of them
    YieldMs,        \* kPlatformYieldMs
    VerifyMs,       \* how long update_cluster_freq trusts its last write
    RaiseHoldMs,    \* no fall so soon after a raise
    ReleaseHoldMs,  \* release_hold_ms, no fall so soon after a fall
    StepPermille,   \* release_step_permille
    MinStep         \* the smallest step of a fall

Bands == {b \in [lo : Nat, hi : Nat] : b.lo <= b.hi}
AskType == [fas : BOOLEAN, game : BOOLEAN, fmin : Nat, fmax : Nat, lo : Nat, hi : Nat]

\* The table is finite: every part of it has a lowest and a highest frequency.
ASSUME TableAssumption == \A S \in SUBSET Freqs : S # {} =>
    /\ \E f \in S : \A g \in S : f <= g
    /\ \E f \in S : \A g \in S : g <= f

ASSUME BandAssumption ==
    /\ Freqs \subseteq Nat \ {0} /\ Freqs # {}
    /\ HwMin \in Nat /\ HwMax \in Nat /\ ProfileMin \in Nat
    /\ Asks \subseteq AskType /\ Asks # {}
    /\ \A a \in Asks : a.fmin <= a.fmax /\ (a.fas => a.game)
    /\ VendorBands \subseteq Bands
    /\ Limits \subseteq Nat
    /\ MaxTick \in TickSteps /\ TickSteps \subseteq 1..MaxTick
    /\ {YieldMs, VerifyMs, RaiseHoldMs, ReleaseHoldMs, StepPermille, MinStep} \subseteq Nat \ {0}

-----------------------------------------------------------------------------
None == -1
Larger(a, b) == IF a >= b THEN a ELSE b
Smaller(a, b) == IF a <= b THEN a ELSE b

Band(lo, hi) == [lo |-> lo, hi |-> hi]
NoBand == Band(0, 0)

\* The age of a time stamp d later; it saturates at the bound it is compared with.
Aged(age, d, top) == IF age = None THEN None ELSE Smaller(age + d, top)
Ages(top) == 0..top \cup {None}
HoldMs == Larger(RaiseHoldMs, ReleaseHoldMs)
OverrideBound == VerifyMs + HoldMs + MaxTick

\* x milliseconds have passed since a time stamp that starts at 0.
Past(age, ms) == age = None \/ age >= ms

Lowest == CHOOSE f \in Freqs : \A g \in Freqs : f <= g
Highest == CHOOSE f \in Freqs : \A g \in Freqs : g <= f

\* round_freq_down_to_table and round_freq_up_to_table
RoundDown(x) ==
    IF \E f \in Freqs : f <= x
    THEN CHOOSE f \in Freqs : f <= x /\ \A g \in Freqs : g <= x => g <= f
    ELSE Lowest
RoundUp(x) ==
    IF \E f \in Freqs : x <= f
    THEN CHOOSE f \in Freqs : x <= f /\ \A g \in Freqs : x <= g => f <= g
    ELSE Highest

-----------------------------------------------------------------------------
(* apply_render_band: from the band of a frame-aware pass to a wanted band. *)

BandTop(a) == Smaller(a.hi, Smaller(a.fmax, HwMax))
BandBottom(a) == Smaller(Larger(a.lo, Larger(a.fmin, HwMin)), BandTop(a))
WantMax(a) == RoundDown(BandTop(a))
WantMin(a) == Smaller(RoundUp(BandBottom(a)), WantMax(a))

ReleaseStep(a) ==
    Larger((Larger(1, a.fmax - a.fmin) * StepPermille) \div 1000, MinStep)

\* One step down from the ceiling cur, not below the wanted one.
Released(a, cur) ==
    LET next == Larger(cur - ReleaseStep(a), WantMax(a))
    IN  Larger(Smaller(RoundDown(next), cur), WantMax(a))

\* The head of enforce_band_with_yield.
Clamp(a, lo, hi) ==
    LET l == Larger(lo, Larger(a.fmin, HwMin))
        h == Smaller(hi, Smaller(a.fmax, HwMax))
    IN  Band(l, Larger(h, l))

-----------------------------------------------------------------------------
(* The two files.                                                           *)

\* The kernel refuses a band whose ends are in the wrong order.
PutMax(b, cap, f) ==
    LET m == Smaller(f, cap) IN IF m < b.lo THEN b ELSE [b EXCEPT !.hi = m]
PutMin(b, f) == IF f > b.hi THEN b ELSE [b EXCEPT !.lo = f]

\* The order of the two writes of update_cluster_freq.
PutBand(b, cap, w) ==
    IF w.hi < b.lo THEN PutMax(PutMin(b, w.lo), cap, w.hi)
    ELSE PutMin(PutMax(b, cap, w.hi), w.lo)

Cut(b, cap) == Band(Smaller(b.lo, cap), Smaller(b.hi, cap))

-----------------------------------------------------------------------------
VARIABLES
    node,       \* the band the two files show
    limit,      \* what the thermal driver lets through
    ask,        \* what the passes ask for
    pc,         \* where the pass is
    want,       \* the band this pass wants written
    last,       \* the ceiling applied last, 0 for none
    raised,     \* age of g_render_band_raise_ms
    released,   \* age of g_render_band_release_ms
    actual,     \* g_band_actual_min and _max, what the last pass read
    yielded,    \* age of the start of the yield, None if there was none
    cached,     \* last_min and last_max of update_cluster_freq
    verified,   \* age of last_verify_ms
    overridden, \* history: how long the passes have seen the files differ from
                \* the wanted band
    run,        \* history: the last pass, if it was a frame-aware one
    moved       \* history: age of the last change of the wanted ceiling in the
                \* run of frame-aware passes under one corridor, None for none

pass == <<want, last, raised, released, actual, yielded>>
cache == <<cached, verified>>
history == <<overridden, run, moved>>
vars == <<node, limit, ask, pc, pass, cache, history>>

Init ==
    /\ node \in VendorBands /\ limit = HwMax
    /\ ask \in Asks
    /\ pc = "wait"
    /\ want = NoBand /\ last = 0 /\ raised = None /\ released = None
    /\ actual = NoBand /\ yielded = None
    /\ cached = NoBand /\ verified = None
    /\ overridden = None /\ run = FALSE /\ moved = None

-----------------------------------------------------------------------------
(* The vendor, and what the rest of the main loop decides.                  *)

VendorWrites == \E b \in VendorBands :
    /\ node' = Cut(b, limit)
    /\ UNCHANGED <<limit, ask, pc, pass, cache, history>>

ThermalLimit == \E l \in Limits :
    /\ limit' = l /\ node' = Cut(node, l)
    /\ UNCHANGED <<ask, pc, pass, cache, history>>

AskChanges == \E a \in Asks :
    /\ pc = "wait"
    /\ ask' = a
    /\ overridden' = None
    /\ IF a.fas /\ a.fmin = ask.fmin /\ a.fmax = ask.fmax
       THEN UNCHANGED <<run, moved>> ELSE run' = FALSE /\ moved' = None
    /\ UNCHANGED <<node, limit, pc, pass, cache>>

\* Tuning comes back after a pause: apply_settings writes the profile's band and
\* the ceiling applied last is forgotten.
Activate ==
    /\ pc = "look"
    /\ node' = PutMin(PutMax(node, limit, HwMax), ProfileMin)
    /\ last' = 0
    /\ run' = FALSE /\ moved' = None
    /\ UNCHANGED <<limit, ask, pc, want, raised, released, actual, yielded, cache, overridden>>

-----------------------------------------------------------------------------
\* The main loop waits for the next tick.
Wait == \E d \in TickSteps :
    /\ pc = "wait" /\ pc' = "look"
    /\ raised' = Aged(raised, d, RaiseHoldMs)
    /\ released' = Aged(released, d, ReleaseHoldMs)
    /\ yielded' = Aged(yielded, d, YieldMs)
    /\ verified' = Aged(verified, d, VerifyMs)
    /\ overridden' = Aged(overridden, d, OverrideBound + 1)
    /\ moved' = Aged(moved, d, HoldMs)
    /\ UNCHANGED <<node, limit, ask, want, last, actual, cached, run>>

\* The files changed since the last pass read them, and nobody plays.
Yields == actual # NoBand /\ node # actual /\ ~ask.game
Yielding == yielded # None /\ yielded < YieldMs /\ ~ask.game

\* Mutant: waiting prolongs the wait.
YieldStampProlongs == IF Yields \/ Yielding THEN 0 ELSE yielded

YieldStamp == IF Yields THEN 0 ELSE yielded

\* enforce_band_with_yield up to its write.
Look(w) ==
    LET leave == Yields \/ Yielding \/ node = w IN
    /\ want' = w
    /\ actual' = node
    /\ yielded' = YieldStamp
    /\ pc' = IF leave THEN "wait" ELSE "write"
    /\ overridden' = IF leave THEN None ELSE IF overridden = None THEN 0 ELSE overridden

\* A pass on the load of the cluster.
LoadPass ==
    /\ pc = "look" /\ ~ask.fas
    /\ \E w \in {Clamp(ask, ask.lo, ask.hi)} : Look(w)
    /\ last' = ask.hi
    /\ run' = FALSE /\ moved' = None
    /\ UNCHANGED <<node, limit, ask, raised, released, cache>>

Current == IF last > 0 THEN last ELSE WantMax(ask)

\* Mutant: a fall does not wait for the last one.
HeldAfterRaiseOnly == ~Past(raised, RaiseHoldMs)

Held == ~Past(raised, RaiseHoldMs) \/ ~Past(released, ReleaseHoldMs)

\* A frame-aware pass that may not lower the ceiling yet leaves everything alone.
HeldPass ==
    /\ pc = "look" /\ ask.fas
    /\ WantMax(ask) < Current /\ Held
    /\ pc' = "wait"
    /\ UNCHANGED <<node, limit, ask, pass, cache, history>>

\* The ceiling this pass applies: a raise at once, a fall by one step.
Applied ==
    Larger(WantMin(ask),
           IF WantMax(ask) < Current THEN Released(ask, Current) ELSE WantMax(ask))

FasPass ==
    /\ pc = "look" /\ ask.fas
    /\ WantMax(ask) < Current => ~Held
    /\ \E top \in {Applied} :
          /\ \E w \in {Clamp(ask, WantMin(ask), top)} : Look(w)
          /\ last' = top
    /\ released' = IF WantMax(ask) < Current THEN 0 ELSE released
    /\ raised' = IF WantMax(ask) > Current THEN 0 ELSE raised
    /\ run' = TRUE
    /\ moved' = IF run /\ want'.hi # want.hi THEN 0 ELSE moved
    /\ UNCHANGED <<node, limit, ask, cache>>

\* Mutant: the time stamp is renewed by every call.
SkipRestamps ==
    /\ pc = "write" /\ pc' = "confirm"
    /\ want = cached /\ ~Past(verified, VerifyMs)
    /\ verified' = 0
    /\ UNCHANGED <<node, limit, ask, pass, cached, history>>

\* update_cluster_freq trusts its last write of the same band for VerifyMs.
Skip ==
    /\ pc = "write" /\ pc' = "confirm"
    /\ want = cached /\ ~Past(verified, VerifyMs)
    /\ UNCHANGED <<node, limit, ask, pass, cache, history>>

Write ==
    /\ pc = "write" /\ pc' = "confirm"
    /\ want # cached \/ Past(verified, VerifyMs)
    /\ node' = IF node = want THEN node ELSE PutBand(node, limit, want)
    /\ cached' = want /\ verified' = 0
    /\ overridden' = IF node' = want \/ limit < want.hi THEN None ELSE overridden
    /\ UNCHANGED <<limit, ask, pass, run, moved>>

\* The read-back after the write.
Confirm ==
    /\ pc = "confirm" /\ pc' = "wait"
    /\ actual' = node
    /\ UNCHANGED <<node, limit, ask, want, last, raised, released, yielded, cache, history>>

-----------------------------------------------------------------------------
Others == VendorWrites \/ ThermalLimit \/ AskChanges \/ Activate
MainLoop == Wait \/ LoadPass \/ HeldPass \/ FasPass \/ Skip \/ Write \/ Confirm

Next == Others \/ MainLoop

\* The main loop runs for ever.
Spec == Init /\ [][Next]_vars /\ WF_vars(MainLoop)

-----------------------------------------------------------------------------
PcType == {"wait", "look", "write", "confirm"}

TypeOK ==
    /\ node \in Bands /\ limit \in Limits \cup {HwMax} /\ ask \in Asks
    /\ pc \in PcType /\ want \in Bands /\ last \in Nat
    /\ raised \in Ages(RaiseHoldMs) /\ released \in Ages(ReleaseHoldMs)
    /\ yielded \in Ages(YieldMs) /\ verified \in Ages(VerifyMs)
    /\ overridden \in Ages(OverrideBound + 1) /\ moved \in Ages(HoldMs)
    /\ actual \in Bands /\ cached \in Bands /\ run \in BOOLEAN

\* A band the vendor has overwritten is back after at most the second that
\* update_cluster_freq trusts its last write (activity_scheduler_internal.inc:5974),
\* a hold in which the pass does not look, and a tick, unless the thermal driver
\* does not let it through.
OverriddenBriefly == overridden <= OverrideBound

\* While frame-aware passes follow one another under one corridor, the wanted
\* ceiling falls by one step at a time (rounded to the table), and not within
\* the hold of its last move (activity_dynamic_tuning.inc:173).
FallsGradually == [][
    pc = "look" /\ run /\ run' /\ want'.hi < want.hi
        => /\ moved = None \/ moved >= Smaller(RaiseHoldMs, ReleaseHoldMs)
           /\ want'.hi >= RoundDown(want.hi - ReleaseStep(ask))]_vars

\* The band the passes are heading for.
Goal == IF ask.fas THEN Clamp(ask, WantMin(ask), WantMax(ask)) ELSE Clamp(ask, ask.lo, ask.hi)

\* Once the others leave the files alone, they show the band the passes ask for,
\* whatever was clamped, yielded to or skipped before: the ceiling stuck for a
\* whole game (activity_dynamic_tuning.inc:141) cannot come back.  Only the steps of
\* the main loop change pc.
Regains == <>[][pc' # pc]_vars => <>[](node = Goal \/ limit < Goal.hi)

-----------------------------------------------------------------------------
(* A statement of a comment the code does not keep.                         *)

\* activity_dynamic_tuning.inc:78: in a game whatever the vendor writes is taken
\* back at once.  update_cluster_freq skips a write of the same band for a second.
ReclaimsAtOnce == [][
    pc = "write" /\ pc' = "confirm" /\ ask.game => node' = want \/ limit < want.hi]_vars
=============================================================================
