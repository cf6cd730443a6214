----------------------------- MODULE FasPipeline -----------------------------
(***************************************************************************)
(* From the engine to the bands of the clusters: the FAS prediction thread *)
(* publishes what the engine returned in atomics, one store at a time, and *)
(* the executor, handle_dynamic_tuning in the main loop, reads them, some  *)
(* once per pass and some once per cluster, with no lock between the two.  *)
(* The main loop also detects the package in front and the process that    *)
(* pauses the daemon; it clears the atomics in every pass that does not    *)
(* use them.  The engine is the one of FasPhases.                          *)
(*                                                                         *)
(* The bounds of a cluster (mode, corridor, scene, overrides) and the      *)
(* headroom, which is published like the other fields, are constant here,  *)
(* the load table of ordinary applications is one band, DailyBand, and the *)
(* limiter is off.                                                         *)
(***************************************************************************)
EXTENDS FasPhases, Sequences, FiniteSets

CONSTANTS
    FasApps,        \* packages with the frame-aware engine enabled
    TunedApps,      \* packages with the load table enabled
    Clusters,       \* the clusters are 1..Clusters
    Low, Sweet, Cap,\* fas_low, sweet and fmax of every cluster, in MHz
    Headroom,       \* stable_headroom_permille, the same when published and when cleared
    DailyBand       \* the band of the load table

ASSUME PipelineAssumption ==
    /\ FasApps \subseteq Apps /\ TunedApps \subseteq Apps
    /\ Clusters \in Nat \ {0} /\ Headroom \in Nat
    /\ {Low, Sweet, Cap} \subseteq Nat \ {0} /\ Low <= Cap /\ Sweet <= Cap
    /\ DailyBand \in (0..Cap) \X (0..Cap)

-----------------------------------------------------------------------------
\* The order in which the prediction thread stores the fields.
StoreOrder == <<"phase", "scale", "hold_sweetspot", "drop_to_floor", "usable">>
\* The order of reset_fas_prediction_cache.
ClearOrder == <<"usable", "phase", "scale", "hold_sweetspot", "drop_to_floor">>

\* The band of apply_settings.
ModeBand == <<Low, Cap>>

VARIABLES
    paused,     \* g_scheduler_skip_process_active
    fg,         \* g_current_foreground_app
    cells,      \* the published atomics
    doing,      \* where the prediction thread is
    announced,  \* last_engine_app
    stored,     \* how many fields of out it has stored
    at,         \* where the main loop is
    cleared,    \* how many fields it has cleared
    active,     \* g_dynamic_tuning_active
    cluster,    \* the cluster the pass is at
    seen,       \* what the pass has read
    target,     \* last_fas_target
    band,       \* the band asked for per cluster
    rested,     \* a pass that saw this calibration: "no", "begun" or "done"
    owner,      \* history: the package whose output gave the published scale
    scaled_by,  \* history: the same for the scale the pass has read
    origin,     \* history: the package whose output target was last set by
    applied     \* history: the clusters the published scale has been applied to

predictor == <<doing, announced, stored>>
pass == <<active, cluster, seen, target, band, scaled_by, origin>>
world == <<paused, fg>>
vars == <<pvars, world, cells, predictor, at, cleared, pass, rested, owner, applied>>

PipelineInit ==
    /\ Init
    /\ paused = FALSE /\ fg = NoApp
    /\ cells = Idle
    /\ doing = "asleep" /\ announced = NoApp /\ stored = 0
    /\ at = "loop" /\ cleared = 0 /\ active = FALSE /\ cluster = 1 /\ seen = Idle
    /\ target = [c \in 1..Clusters |-> 0]
    /\ band = [c \in 1..Clusters |-> ModeBand]
    /\ rested = "done" /\ owner = NoApp /\ scaled_by = NoApp
    /\ origin = [c \in 1..Clusters |-> NoApp] /\ applied = {}

-----------------------------------------------------------------------------
(* The prediction thread.                                                   *)

\* In a pause it forgets the package and sleeps for a second.
Nap ==
    /\ doing = "asleep" /\ paused
    /\ announced' = NoApp
    /\ UNCHANGED <<pvars, doing, stored, cells, rested, owner, applied>>

\* It copies the package in front and announces it if it is another than before.
Wake ==
    /\ doing = "asleep" /\ ~paused /\ fg # NoApp
    /\ doing' = "ticking"
    /\ announced' = fg
    /\ IF fg # announced THEN Announce(fg) ELSE UNCHANGED pvars
    /\ UNCHANGED <<stored, cells, rested, owner, applied>>

\* The calibration outlasts a pass that sees it: kCalibMs is 2.5 s, the output is
\* published every 100 ms and a pass comes every 30 ms.
CalibrationSeen ==
    /\ phase = "CALIBRATING" /\ phase' = "STABLE" => rested = "done"
    /\ rested' = IF phase = "UNKNOWN" /\ phase' = "CALIBRATING" THEN "no" ELSE rested

\* Frames are only counted for a package with the engine enabled: the uprobe is
\* detached for any other, and its frame buffer stays empty.
FramesArrive == app \in FasApps

Tick ==
    /\ doing = "ticking"
    /\ TickStep /\ CalibrationSeen
    /\ ~FramesArrive => out' = Idle
    /\ doing' = "storing"
    /\ UNCHANGED <<announced, stored, cells, owner, applied>>

\* After the last store the thread sleeps again.
Store ==
    LET f == StoreOrder[stored + 1]
        last == stored + 1 = Len(StoreOrder) IN
    /\ doing = "storing"
    /\ cells' = [cells EXCEPT ![f] = out[f]]
    /\ stored' = IF last THEN 0 ELSE stored + 1
    /\ doing' = IF last THEN "asleep" ELSE doing
    /\ owner' = IF f = "scale" THEN app ELSE owner
    /\ applied' = IF f = "scale" THEN {} ELSE applied
    /\ UNCHANGED <<pvars, announced, rested>>

PredictorStep ==
    /\ Nap \/ Wake \/ Tick \/ Store
    /\ UNCHANGED <<world, at, cleared, pass>>

-----------------------------------------------------------------------------
(* The main loop: the checks of every 500 ms, which end by clearing the      *)
(* atomics, and the pass of the executor.                                    *)

\* Between two checks the prediction thread, which wakes every 100 ms at the latest
\* (after a pause every second, and then it announces the package anew), has looked.
Looked == announced \in IF paused THEN {NoApp} ELSE {NoApp, fg}

StartClearing == at = "loop" /\ at' = "clearing" /\ UNCHANGED cleared

\* apply_settings, which does nothing in a pause.
ApplySettings(p) == IF p THEN band ELSE [c \in 1..Clusters |-> ModeBand]

\* Mutant: the transition leaves the atomics as they are.
StartTogglePauseKeepsCells ==
    /\ at = "loop" /\ Looked
    /\ paused' = ~paused
    /\ UNCHANGED <<at, cleared, fg>>

\* A process of the skip list starts or ends: refresh_scheduler_skip_process_state and
\* handle_scheduler_skip_process_transition.
StartTogglePause ==
    /\ StartClearing /\ Looked
    /\ paused' = ~paused
    /\ UNCHANGED fg

\* Another package comes to the front: process_foreground_app.
StartSwitch ==
    /\ StartClearing /\ Looked
    /\ fg' \in Apps \ {fg}
    /\ UNCHANGED paused

Check ==
    /\ StartTogglePause \/ StartSwitch
    /\ active' = FALSE
    /\ band' = ApplySettings(paused')
    /\ UNCHANGED <<pvars, cells, predictor, cluster, seen, target, scaled_by, origin, rested, owner,
                   applied>>

FasOn == fg \in FasApps
Tuned == ~paused /\ (FasOn \/ fg \in TunedApps)

\* Mutant: a paused pass leaves the atomics to the transition.
PassClearsWhenRunning ==
    /\ StartClearing /\ ~Tuned /\ ~paused
    /\ active' = FALSE
    /\ band' = IF active THEN ApplySettings(paused) ELSE band
    /\ UNCHANGED <<cells, cluster, seen, target, rested, scaled_by, origin, applied>>

\* A pass of a paused daemon, or for a package with nothing enabled.
PassClears ==
    /\ StartClearing /\ ~Tuned
    /\ active' = FALSE
    /\ band' = IF active THEN ApplySettings(paused) ELSE band
    /\ UNCHANGED <<cells, cluster, seen, target, rested, scaled_by, origin, applied>>

\* reset_fas_prediction_cache, store by store.
Clear ==
    LET f == ClearOrder[cleared + 1]
        last == cleared + 1 = Len(ClearOrder) IN
    /\ at = "clearing"
    /\ cells' = [cells EXCEPT ![f] = Idle[f]]
    /\ cleared' = IF last THEN 0 ELSE cleared + 1
    /\ at' = IF last THEN "loop" ELSE at
    /\ UNCHANGED <<pass, rested, applied>>

\* A pass of the executor reads whether the output is usable, then the phase.
PassBegins ==
    /\ at = "loop" /\ Tuned
    /\ at' = "phase"
    /\ seen' = [Idle EXCEPT !.usable = cells.usable]
    /\ rested' = IF rested = "no" /\ FasOn /\ cells = Sweetspot THEN "begun" ELSE rested
    /\ UNCHANGED <<cells, cleared, active, cluster, target, band, scaled_by, origin, applied>>

\* An inactive executor applies the band of the mode before it starts.
ReadPhase ==
    /\ at = "phase"
    /\ at' = "cluster"
    /\ seen' = [seen EXCEPT !.phase = cells.phase]
    /\ band' = IF active THEN band ELSE ApplySettings(paused)
    /\ active' = TRUE
    /\ UNCHANGED <<cells, cleared, cluster, target, scaled_by, origin, rested, applied>>

FasPath == FasOn /\ seen.usable /\ seen.phase # "UNKNOWN"

\* The pass goes on with the next cluster, or is over.
NextCluster ==
    LET last == cluster = Clusters IN
    /\ cluster' = IF last THEN 1 ELSE cluster + 1
    /\ at' = IF last THEN "loop" ELSE "cluster"
    /\ rested' = IF rested # "begun" THEN rested
                 ELSE IF ~seen.hold_sweetspot THEN "no"
                 ELSE IF last THEN "done" ELSE rested
    /\ seen' = IF last THEN Idle ELSE seen
    /\ scaled_by' = IF last THEN NoApp ELSE scaled_by
    /\ UNCHANGED <<cells, cleared, active>>

DailyCluster ==
    /\ at = "cluster" /\ ~FasPath
    /\ band' = [band EXCEPT ![cluster] = DailyBand]
    /\ NextCluster
    /\ UNCHANGED <<target, origin, applied>>

\* Per cluster it reads the scale, whether to hold and whether to drop, and acts.
ReadScale ==
    /\ at = "cluster" /\ FasPath
    /\ at' = "hold"
    /\ seen' = [seen EXCEPT !.scale = cells.scale]
    /\ scaled_by' = owner
    /\ UNCHANGED <<cells, cleared, active, cluster, target, band, origin, rested, applied>>

ReadHold ==
    /\ at = "hold"
    /\ at' = "drop"
    /\ seen' = [seen EXCEPT !.hold_sweetspot = cells.hold_sweetspot]
    /\ UNCHANGED <<cells, cleared, active, cluster, target, band, scaled_by, origin, rested, applied>>

\* Mutant: the scale is applied to the sweet spot every time.
ScaledFromSweet(last, scale) ==
    LET f == (2 * Sweet * scale + 1000) \div 2000
    IN  IF f < Low THEN Low ELSE IF f > Cap THEN Cap ELSE f

\* Mutant: no upper bound.
ScaledUncapped(last, scale) ==
    LET from == IF last > 0 THEN last ELSE Sweet
        f == (2 * from * scale + 1000) \div 2000
    IN  IF f < Low THEN Low ELSE f

\* target = last target * scale, rounded and kept within the bounds.
Scaled(last, scale) ==
    LET from == IF last > 0 THEN last ELSE Sweet
        f == (2 * from * scale + 1000) \div 2000
    IN  IF f < Low THEN Low ELSE IF f > Cap THEN Cap ELSE f

\* The ceiling follows the floor unless the engine calibrates or fights a loss.
Ceiling(floor, hold, ph) ==
    LET room == (floor * Headroom) \div 1000 IN
    IF hold \/ ph = "DEGRADED" \/ room >= Cap THEN Cap ELSE IF room < floor THEN floor ELSE room

\* Mutant: the held floor is not remembered as the last target.
RememberedScaledOnly(t) ==
    IF seen.hold_sweetspot THEN UNCHANGED <<target, origin>>
    ELSE target' = [target EXCEPT ![cluster] = t] /\ UNCHANGED origin

Remembered(t) ==
    /\ target' = [target EXCEPT ![cluster] = t]
    /\ origin' = IF seen.hold_sweetspot \/ cells.drop_to_floor \/ target[cluster] = 0
                 THEN [origin EXCEPT ![cluster] = scaled_by] ELSE origin

Act ==
    /\ at = "drop"
    /\ LET t == IF seen.hold_sweetspot THEN Sweet
                ELSE IF cells.drop_to_floor THEN Low
                ELSE Scaled(target[cluster], seen.scale)
       IN  /\ Remembered(t)
           /\ band' = [band EXCEPT ![cluster] = <<t, Ceiling(t, seen.hold_sweetspot, seen.phase)>>]
    /\ applied' = IF seen.hold_sweetspot \/ cells.drop_to_floor THEN applied
                  ELSE applied \cup {cluster}
    /\ NextCluster

Pass ==
    /\ PassClears \/ Clear \/ PassBegins \/ ReadPhase \/ DailyCluster \/ ReadScale \/ ReadHold \/ Act
    /\ UNCHANGED <<pvars, world, predictor, owner>>

PipelineNext == PredictorStep \/ Check \/ Pass

\* Both threads run for ever.
PipelineSpec ==
    /\ PipelineInit /\ [][PipelineNext]_vars
    /\ WF_vars(PredictorStep) /\ WF_vars(Pass)

-----------------------------------------------------------------------------
TypeOK ==
    /\ app \in Apps \cup {NoApp} /\ phase \in Phases /\ out \in Outputs /\ fresh \in BOOLEAN
    /\ paused \in BOOLEAN /\ fg \in Apps \cup {NoApp}
    /\ cells \in Outputs /\ seen \in Outputs
    /\ doing \in {"asleep", "ticking", "storing"}
    /\ announced \in Apps \cup {NoApp} /\ stored \in 0..Len(StoreOrder) - 1
    /\ at \in {"loop", "clearing", "phase", "cluster", "hold", "drop"}
    /\ cleared \in 0..Len(ClearOrder) - 1
    /\ active \in BOOLEAN /\ cluster \in 1..Clusters
    /\ target \in [1..Clusters -> Low..Cap \cup {0, Sweet}]
    /\ band \in [1..Clusters -> (0..Cap) \X (0..Cap)]
    /\ rested \in {"no", "begun", "done"}
    /\ {owner, scaled_by} \subseteq Apps \cup {NoApp}
    /\ origin \in [1..Clusters -> Apps \cup {NoApp}]
    /\ applied \subseteq 1..Clusters

\* After a pause nothing is left of before it: as long as the prediction thread has
\* not announced a package again, no output is published.  A publication that was
\* under way when the pause began is cleared by the transition that ends it.
ResumesClean ==
    ~paused /\ announced = NoApp /\ doing = "asleep" /\ at # "clearing" => ~cells.usable

\* A cluster's target is only scaled by an output for the game it was set for: the
\* executor never sees a rate of one game and a target of another, since every game
\* starts in the calibration, which sets the target of every cluster.
TargetsAreOwn == [][
    at = "drop" /\ at' # "drop" /\ ~seen.hold_sweetspot /\ ~cells.drop_to_floor
        /\ seen.scale # 1000 /\ target[cluster] # 0
        => origin[cluster] = scaled_by]_vars

\* What the engine keeps asking for takes effect, whatever was read torn before: a
\* loss lifts every cluster to its cap, a stable game with quick_drop puts it on the
\* floor, a calibration at the sweet spot.
Resting(o) == out = o /\ ~paused /\ fg = app /\ FasOn
Takes(o, b) == <>[]Resting(o) => <>[](\A c \in 1..Clusters : band[c] = b)

DecisionTakesEffect ==
    /\ \A o \in Lifts : Takes(o, <<Cap, Cap>>)
    /\ Takes(Sweetspot, <<Sweet, Cap>>)
    /\ \A s \in {1000, OccupancyScale} :
        QuickDrop => Takes(Ask("STABLE", TRUE, s), <<Low, Ceiling(Low, FALSE, "STABLE")>>)
    /\ Takes(Idle, DailyBand)

\* In a pause that lasts the atomics end up cleared for good, although the
\* prediction thread may be in the middle of a publication when it begins.
PauseClears == <>[]paused => <>[](cells = Idle)

-----------------------------------------------------------------------------
(* A statement of a comment the code does not keep.                         *)

\* fas_engine.cpp:27 says of STABLE without quick_drop: 8 % every 200 ms.  One output with the slow
\* drop is applied again by every pass until the next one is published.
OneDropPerOutput == [][
    at = "drop" /\ at' # "drop" /\ ~seen.hold_sweetspot /\ ~cells.drop_to_floor
        /\ seen.scale = SlowDropScale
        => cluster \notin applied]_vars
=============================================================================
