------------------------------ MODULE FasPhases ------------------------------
(***************************************************************************)
(* What the executor may rely on of the frame-aware engine: its phases,    *)
(* the order they come in and what each of them asks for.  FasEngine       *)
(* implements it (FasEngine!ImplementsPhases), FasPipeline is built on it. *)
(***************************************************************************)
EXTENDS Integers

CONSTANTS
    Apps,       \* packages that may come to the foreground
    NoApp,      \* the empty package name
    QuickDrop,  \* config.quick_drop
    Occupancy,  \* the occupancy of the game's threads may trigger a raise
    Raises      \* the scales DEGRADED may ask for, in permille

ASSUME PhasesAssumption ==
    /\ NoApp \notin Apps
    /\ QuickDrop \in BOOLEAN /\ Occupancy \in BOOLEAN
    /\ Raises \subseteq Nat /\ \A s \in Raises : s > 1000

-----------------------------------------------------------------------------
Phases == {"UNKNOWN", "CALIBRATING", "STABLE", "DEGRADED"}

\* FasOutput, the fields the executor acts on; scale is freq_scale in permille.
Outputs == [phase : Phases, usable : BOOLEAN, hold_sweetspot : BOOLEAN,
            drop_to_floor : BOOLEAN, scale : Nat]
Idle == [phase |-> "UNKNOWN", usable |-> FALSE, hold_sweetspot |-> FALSE,
         drop_to_floor |-> FALSE, scale |-> 1000]
Sweetspot == [phase |-> "CALIBRATING", usable |-> TRUE, hold_sweetspot |-> TRUE,
              drop_to_floor |-> FALSE, scale |-> 1000]
Ask(ph, floor, s) == [phase |-> ph, usable |-> TRUE, hold_sweetspot |-> FALSE,
                      drop_to_floor |-> floor, scale |-> s]

SlowDropScale == 920
OccupancyScale == 1150

\* What STABLE may ask for: keep, the slow drop, the raise by occupancy.
SteadyScales == {1000} \cup (IF QuickDrop THEN {} ELSE {SlowDropScale})
                       \cup (IF Occupancy THEN {OccupancyScale} ELSE {})

Keeps == {Ask("STABLE", QuickDrop, s) : s \in SteadyScales}
Lifts == {Ask("DEGRADED", FALSE, s) : s \in Raises}

VARIABLES
    app,    \* the package the engine was last told of
    fresh,  \* it was told so since the last tick
    phase,
    out     \* what the last tick returned

pvars == <<app, fresh, phase, out>>

Init == app = NoApp /\ fresh = FALSE /\ phase = "UNKNOWN" /\ out = Idle

\* A package is announced, the same one again after a pause: all is forgotten.
Announce(a) ==
    /\ app' = a /\ fresh' = TRUE
    /\ phase' = "UNKNOWN"
    /\ UNCHANGED out

\* No steady frames: nothing is asked for, and the base may be lost.
Rest ==
    /\ phase' \in {phase, "UNKNOWN"}
    /\ out' = Idle
    /\ UNCHANGED app

\* A base is measured at the sweet spot, in at least two ticks; the first tick for
\* a package finds no steady frames.
Calibrate ==
    /\ app # NoApp /\ ~fresh
    /\ \/ phase = "UNKNOWN" /\ phase' = "CALIBRATING"
       \/ phase = "CALIBRATING" /\ phase' \in {"CALIBRATING", "STABLE"}
    /\ out' = Sweetspot
    /\ UNCHANGED app

Hold ==
    /\ phase = "STABLE"
    /\ out' \in Keeps
    /\ UNCHANGED <<app, phase>>

\* The loss has lasted; the same tick asks for the raise.
Degrade ==
    /\ phase \in {"STABLE", "DEGRADED"}
    /\ phase' = "DEGRADED"
    /\ out' \in Lifts
    /\ UNCHANGED app

\* The rate is back, or the base was lowered to the rate there is.
Recover ==
    /\ phase = "DEGRADED"
    /\ phase' = "STABLE"
    /\ out' = Ask("STABLE", FALSE, 1000)
    /\ UNCHANGED app

TickStep == fresh' = FALSE /\ (Rest \/ Calibrate \/ Hold \/ Degrade \/ Recover)

Next == (\E a \in Apps : Announce(a)) \/ TickStep

Spec == Init /\ [][Next]_pvars
=============================================================================
