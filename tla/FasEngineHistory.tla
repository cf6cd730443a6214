-------------------------- MODULE FasEngineHistory --------------------------
(***************************************************************************)
(* The engine with a history kept beside it, for the statements that       *)
(* relate a step to the readings before it.  No action of the engine       *)
(* depends on the history.                                                 *)
(***************************************************************************)
EXTENDS FasEngine

VARIABLES
    since_usable,   \* age of the last usable reading since the application came up
    low,            \* age of the first of the latest readings that were all below
                    \* the tolerance in STABLE, None if the last one was not
    sampled,        \* applications the samples of the window were taken from
    measured        \* applications the base was measured on

history == <<since_usable, low, sampled, measured>>
hvars == <<vars, history>>

HInit ==
    /\ Init
    /\ since_usable = None /\ low = None
    /\ sampled = {} /\ measured = {}

HSleep == \E d \in SleepSteps :
    /\ SleepFor(d)
    /\ since_usable' = Aged(since_usable, d)
    /\ low' = Aged(low, d)
    /\ UNCHANGED <<sampled, measured>>

HAppChange ==
    /\ OnAppChange
    /\ since_usable' = None /\ low' = None
    /\ sampled' = IF calib_samples' = {} THEN {} ELSE sampled
    /\ measured' = IF base_interval' = 0 THEN {} ELSE measured

HSilence ==
    /\ EmptyTick \/ ShortSilence \/ LongSilence
    /\ sampled' = IF calib_samples' = {} THEN {} ELSE sampled
    /\ measured' = IF base_interval' = 0 THEN {} ELSE measured
    /\ UNCHANGED <<since_usable, low>>

\* The samples a tick leaves in the window come from its own application and, if
\* it did not start the window, from those the window had.
HUsable ==
    LET below == phase = "STABLE" /\ BelowTolerance(reading'.fps, stable_fps)
        window == {app} \cup IF phase = "UNKNOWN" THEN {} ELSE sampled
    IN  /\ UsableTick
        /\ since_usable' = 0
        /\ low' = IF below THEN Started(low) ELSE None
        /\ sampled' = IF calib_samples' = {} THEN {}
                      ELSE IF phase' = "CALIBRATING" THEN window ELSE sampled
        /\ measured' = IF base_interval' = base_interval THEN measured ELSE window

HNext == HSleep \/ HAppChange \/ HSilence \/ HUsable

HSpec == HInit /\ [][HNext]_hvars

-----------------------------------------------------------------------------
\* A base is never used for another game than the one it was measured on
\* (fas_engine.cpp:182): the base in use comes from samples of the current
\* package only, through the calibration and the upshift that reuses its window.
NoCrossGameBase == measured \cup sampled \subseteq {app}

\* A short silence keeps the base (fas_engine.cpp:266): a tick loses the base only
\* when no usable reading came for UnusableResetMs.
SilenceKeepsBase == [][
    base_interval # 0 /\ base_interval' = 0 /\ awake /\ ~awake'
        => since_usable >= UnusableResetMs]_hvars

\* Scattered dips do not end STABLE: every reading of a stretch at least as long
\* as the hold was below the tolerance.
DegradeSustained == [][
    phase = "STABLE" /\ phase' = "DEGRADED" => low' >= DegradeHold]_hvars

=============================================================================
