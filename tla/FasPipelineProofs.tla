-------------------------- MODULE FasPipelineProofs --------------------------
(***************************************************************************)
(* The pipeline from the engine to the bands, for every value of the       *)
(* constants: any packages, any number of clusters, any frequencies.       *)
(*                                                                         *)
(* That a pause leaves nothing behind is a matter of the order of the      *)
(* steps of the two threads (Turn, Cleared).  That a target is only scaled *)
(* for the game it was set for needs to know whose the published scale is  *)
(* (OwnerKnown), that the calibration put every cluster on the sweet spot  *)
(* of the game before the engine may ask for another scale (Measured), and *)
(* that this is still so when the scale is published (ScaleIsOwners) and   *)
(* when a pass has read it (ReadIsOwn).                                    *)
(***************************************************************************)
EXTENDS FasPipeline, TLAPS

\* Where the threads are goes with how far they have come.
Turn ==
    /\ doing # "storing" => stored = 0
    /\ doing # "asleep" => announced # NoApp
    /\ at # "clearing" => cleared = 0
    /\ at \in {"loop", "clearing", "phase"} => cluster = 1

\* ResumesClean from the first store of the clearing on.
Cleared ==
    ~paused /\ announced = NoApp /\ doing = "asleep" /\ (at # "clearing" \/ cleared >= 1)
        => ~cells.usable

Acting == at \in {"hold", "drop"}

\* A pass acts, and has read that it is to hold, on the path of the engine only.
PassKnown ==
    /\ at = "phase" => ~seen.hold_sweetspot
    /\ Acting \/ (at = "cluster" /\ seen.hold_sweetspot) => FasPath

\* The published scale is of the package the engine was last told of once the tick
\* after the announcement is stored.
OwnerKnown ==
    /\ phase # "UNKNOWN" => ~fresh /\ owner = app
    /\ ~fresh /\ (doing # "storing" \/ stored >= 2) => owner = app
    /\ doing = "storing" /\ out.scale # 1000 => phase \in {"STABLE", "DEGRADED"}
    /\ phase \in {"STABLE", "DEGRADED"} => rested = "done"

TargetIsOf(c, a) == target[c] = 0 \/ origin[c] = a

\* A pass that saw the calibration has set the targets it came by, and one that saw
\* it to its end all of them.
Measured ==
    phase # "UNKNOWN" =>
        /\ rested # "no" /\ Acting => scaled_by = app
        /\ rested = "begun" =>
            /\ at \in {"phase", "cluster", "hold", "drop"}
            /\ \A c \in 1..cluster - 1 : TargetIsOf(c, app)
        /\ rested = "done" => \A c \in 1..Clusters : TargetIsOf(c, app)

\* A published scale other than 1 is of the package all targets were set for.
ScaleIsOwners ==
    cells.scale # 1000 =>
        /\ \A c \in 1..Clusters : TargetIsOf(c, owner)
        /\ Acting => scaled_by = owner

\* So is the scale a pass has read.
ReadIsOwn == Acting /\ seen.scale # 1000 => TargetIsOf(cluster, scaled_by)

PInv ==
    /\ TypeOK /\ Turn /\ Cleared
    /\ PassKnown /\ OwnerKnown /\ Measured /\ ScaleIsOwners /\ ReadIsOwn

-----------------------------------------------------------------------------
(* The helpers. *)

Fields == {"phase", "scale", "hold_sweetspot", "drop_to_floor", "usable"}

\* Both orders are of all the fields; the scale is the second the thread stores,
\* whether the output is usable the first the clearing clears.
LEMMA Orders ==
    /\ Len(StoreOrder) = 5 /\ Len(ClearOrder) = 5
    /\ \A i \in 1..5 : StoreOrder[i] \in Fields /\ ClearOrder[i] \in Fields
    /\ \A i \in 1..5 : StoreOrder[i] = "scale" <=> i = 2
    /\ ClearOrder[1] = "usable"
BY DEF StoreOrder, ClearOrder, Fields

\* What one store leaves of a published output.
LEMMA OneStore ==
    ASSUME NEW o \in Outputs, NEW p \in Outputs, NEW f \in Fields
    PROVE  /\ [o EXCEPT ![f] = p[f]] \in Outputs
           /\ [o EXCEPT ![f] = p[f]].scale = IF f = "scale" THEN p.scale ELSE o.scale
           /\ [o EXCEPT ![f] = p[f]].usable = IF f = "usable" THEN p.usable ELSE o.usable
<1>1. CASE f = "phase"
  BY <1>1 DEF Outputs
<1>2. CASE f = "scale"
  BY <1>2 DEF Outputs
<1>3. CASE f = "hold_sweetspot"
  BY <1>3 DEF Outputs
<1>4. CASE f = "drop_to_floor"
  BY <1>4 DEF Outputs
<1>5. CASE f = "usable"
  BY <1>5 DEF Outputs
<1>6. QED
  BY <1>1, <1>2, <1>3, <1>4, <1>5 DEF Fields

\* What the engine returns is an output.
LEMMA OutputTypes ==
    /\ Idle \in Outputs /\ Sweetspot \in Outputs
    /\ Keeps \subseteq Outputs /\ Lifts \subseteq Outputs
    /\ Ask("STABLE", FALSE, 1000) \in Outputs
<1>1. \A p \in Phases, b \in BOOLEAN, s \in Nat : Ask(p, b, s) \in Outputs
  BY DEF Ask, Outputs
<1>2. /\ \A s \in SteadyScales : s \in Nat
      /\ SteadyScales \subseteq Nat /\ "STABLE" \in Phases /\ "DEGRADED" \in Phases
      /\ FALSE \in BOOLEAN /\ 1000 \in Nat
  BY DEF SteadyScales, SlowDropScale, OccupancyScale, Phases
<1>3. Keeps \subseteq Outputs
  <2> SUFFICES ASSUME NEW s \in SteadyScales PROVE Ask("STABLE", QuickDrop, s) \in Outputs
    BY DEF Keeps
  <2>1. QED
    BY <1>1, <1>2, PhasesAssumption
<1>4. Lifts \subseteq Outputs
  <2> SUFFICES ASSUME NEW s \in Raises PROVE Ask("DEGRADED", FALSE, s) \in Outputs
    BY DEF Lifts
  <2>1. s \in Nat
    BY PhasesAssumption
  <2>2. QED
    BY <1>1, <1>2, <2>1
<1>5. Idle \in Outputs /\ Sweetspot \in Outputs
  BY DEF Idle, Sweetspot, Outputs, Phases
<1>6. Ask("STABLE", FALSE, 1000) \in Outputs
  BY DEF Ask, Outputs, Phases
<1>7. QED
  BY <1>3, <1>4, <1>5, <1>6

\* A scaled target is within the bounds of the cluster, whatever it is scaled by.
LEMMA ScaledBounds ==
    ASSUME NEW last \in Nat, NEW scale \in Nat
    PROVE  Scaled(last, scale) \in Low..Cap
<1> DEFINE from == IF last > 0 THEN last ELSE Sweet
           product == 2 * from * scale
           f == (product + 1000) \div 2000
           clamped == IF f < Low THEN Low ELSE IF f > Cap THEN Cap ELSE f
<1>0. Scaled(last, scale) = clamped
  BY Zenon DEF Scaled
<1>1. product \in Int
  BY PipelineAssumption
<1>2. \A x \in Int : (x + 1000) \div 2000 \in Int
  OBVIOUS
<1> HIDE DEF product
<1>3. f \in Int
  BY <1>1, <1>2
<1> HIDE DEF f
<1>4. clamped \in Low..Cap
  BY <1>3, PipelineAssumption
<1>5. QED
  BY <1>0, <1>4

\* The ceiling is between the floor and the frequency bound.
LEMMA CeilingBounds ==
    ASSUME NEW floor \in 0..Cap, NEW hold \in BOOLEAN, NEW ph
    PROVE  Ceiling(floor, hold, ph) \in floor..Cap
<1> DEFINE product == floor * Headroom
           room == product \div 1000
<1>1. product \in Int
  BY PipelineAssumption
<1>2. \A x \in Int : x \div 1000 \in Int
  OBVIOUS
<1> HIDE DEF product
<1>3. room \in Int
  BY <1>1, <1>2
<1> HIDE DEF room
<1>4. (IF hold \/ ph = "DEGRADED" \/ room >= Cap THEN Cap
       ELSE IF room < floor THEN floor ELSE room) \in floor..Cap
  BY <1>3, PipelineAssumption
<1>5. QED
  BY <1>4 DEF Ceiling, room, product

LEMMA ModeBandType == ModeBand \in (0..Cap) \X (0..Cap)
BY PipelineAssumption DEF ModeBand

LEMMA ApplySettingsType ==
    ASSUME TypeOK, NEW p
    PROVE  ApplySettings(p) \in [1..Clusters -> (0..Cap) \X (0..Cap)]
BY ModeBandType DEF TypeOK, ApplySettings

-----------------------------------------------------------------------------
(* The initial state. *)

LEMMA InitPInv == PipelineInit => PInv
<1> SUFFICES ASSUME PipelineInit PROVE PInv
  OBVIOUS
<1>1. TypeOK
  <2>1. Clusters \in Nat \ {0} /\ 1 \in 1..Clusters /\ 0 \in 0..Len(StoreOrder) - 1
        /\ 0 \in 0..Len(ClearOrder) - 1
    BY Orders, PipelineAssumption
  <2>2. target \in [1..Clusters -> Low..Cap \cup {0, Sweet}]
    BY DEF PipelineInit
  <2>3. band \in [1..Clusters -> (0..Cap) \X (0..Cap)]
    BY ModeBandType DEF PipelineInit
  <2>4. cells \in Outputs /\ seen \in Outputs /\ out \in Outputs /\ phase \in Phases
    BY OutputTypes DEF PipelineInit, Init, Phases
  <2>5. {owner, scaled_by} \subseteq Apps \cup {NoApp} /\ origin \in [1..Clusters -> Apps \cup {NoApp}]
    BY DEF PipelineInit
  <2>6. QED
    BY <2>1, <2>2, <2>3, <2>4, <2>5 DEF PipelineInit, Init, TypeOK
<1>2. Turn /\ Cleared
  BY DEF PipelineInit, Turn, Cleared, Idle
<1>3. PassKnown /\ ReadIsOwn
  BY DEF PipelineInit, PassKnown, ReadIsOwn, Acting
<1>4. OwnerKnown /\ Measured /\ ScaleIsOwners
  BY DEF PipelineInit, Init, OwnerKnown, Measured, ScaleIsOwners, Idle
<1>5. QED
  BY <1>1, <1>2, <1>3, <1>4 DEF PInv

-----------------------------------------------------------------------------
(* The steps of the prediction thread. *)

\* What a tick may do to the phase and return.
LEMMA TickResult ==
    ASSUME TypeOK, TickStep
    PROVE  /\ app' = app /\ fresh' = FALSE /\ phase' \in Phases /\ out' \in Outputs
           /\ phase' # "UNKNOWN" => phase' = phase \/ phase # "UNKNOWN" \/ ~fresh
           /\ out'.scale # 1000 => phase' \in {"STABLE", "DEGRADED"}
           /\ phase' \in {"STABLE", "DEGRADED"} => phase \in {"CALIBRATING", "STABLE", "DEGRADED"}
           /\ phase = "UNKNOWN" => phase' \in {"UNKNOWN", "CALIBRATING"}
<1>1. CASE Rest
  <2>1. out'.scale = 1000 /\ out' \in Outputs
    BY <1>1, OutputTypes DEF Rest, Idle
  <2>2. QED
    BY <1>1, <2>1 DEF TickStep, Rest, TypeOK, Phases
<1>2. CASE Calibrate
  <2>1. out'.scale = 1000 /\ out' \in Outputs
    BY <1>2, OutputTypes DEF Calibrate, Sweetspot
  <2>2. QED
    BY <1>2, <2>1 DEF TickStep, Calibrate, Phases
<1>3. CASE Hold
  BY <1>3, OutputTypes DEF TickStep, Hold, Phases
<1>4. CASE Degrade
  BY <1>4, OutputTypes DEF TickStep, Degrade, Phases
<1>5. CASE Recover
  BY <1>5, OutputTypes DEF TickStep, Recover, Phases
<1>6. QED
  BY <1>1, <1>2, <1>3, <1>4, <1>5 DEF TickStep

LEMMA NapPInv ==
    ASSUME PInv, Nap, UNCHANGED <<world, at, cleared, pass>>
    PROVE  PInv'
<1>1. TypeOK'
  BY DEF PInv, TypeOK, Nap, pvars, world, pass
<1>2. Turn' /\ Cleared'
  BY DEF PInv, Turn, Cleared, Nap, world, pass
<1>3. PassKnown' /\ OwnerKnown'
  BY DEF PInv, PassKnown, OwnerKnown, Acting, FasPath, FasOn, Nap, pvars, world, pass
<1>4. Measured' /\ ScaleIsOwners' /\ ReadIsOwn'
  BY DEF PInv, Measured, ScaleIsOwners, ReadIsOwn, TargetIsOf, Acting, Nap, pvars, pass
<1>5. QED
  BY <1>1, <1>2, <1>3, <1>4 DEF PInv

LEMMA WakePInv ==
    ASSUME PInv, Wake, UNCHANGED <<world, at, cleared, pass>>
    PROVE  PInv'
<1>1. \/ UNCHANGED pvars
      \/ app' = fg /\ fresh' = TRUE /\ phase' = "UNKNOWN" /\ out' = out
  BY DEF Wake, Announce
<1>2. TypeOK'
  BY <1>1 DEF PInv, TypeOK, Wake, pvars, world, pass, Phases
<1>3. Turn' /\ Cleared'
  BY DEF PInv, Turn, Cleared, Wake, world, pass
<1>4. PassKnown'
  BY DEF PInv, PassKnown, Acting, FasPath, FasOn, Wake, world, pass
<1>5. OwnerKnown'
  BY <1>1 DEF PInv, OwnerKnown, Wake, pvars
<1>6. Measured'
  BY <1>1 DEF PInv, Measured, TargetIsOf, Acting, Wake, pvars, pass
<1>7. ScaleIsOwners' /\ ReadIsOwn'
  BY DEF PInv, ScaleIsOwners, ReadIsOwn, TargetIsOf, Acting, Wake, pass
<1>8. QED
  BY <1>2, <1>3, <1>4, <1>5, <1>6, <1>7 DEF PInv

LEMMA TickPInv ==
    ASSUME PInv, Tick, UNCHANGED <<world, at, cleared, pass>>
    PROVE  PInv'
<1>1. /\ app' = app /\ fresh' = FALSE /\ phase' \in Phases /\ out' \in Outputs
      /\ phase' # "UNKNOWN" => phase' = phase \/ phase # "UNKNOWN" \/ ~fresh
      /\ out'.scale # 1000 => phase' \in {"STABLE", "DEGRADED"}
      /\ phase' \in {"STABLE", "DEGRADED"} => phase \in {"CALIBRATING", "STABLE", "DEGRADED"}
      /\ phase = "UNKNOWN" => phase' \in {"UNKNOWN", "CALIBRATING"}
  BY TickResult DEF PInv, Tick
<1>2. /\ phase = "CALIBRATING" /\ phase' = "STABLE" => rested = "done"
      /\ rested' = IF phase = "UNKNOWN" /\ phase' = "CALIBRATING" THEN "no" ELSE rested
  BY DEF Tick, CalibrationSeen
<1>3. /\ doing = "ticking" /\ doing' = "storing" /\ UNCHANGED <<announced, stored, cells, owner>>
      /\ stored = 0
  BY DEF Tick, PInv, Turn
<1>4. phase = "CALIBRATING" => phase' # "DEGRADED"
  BY DEF Tick, TickStep, Rest, Calibrate, Hold, Degrade, Recover
<1>5. TypeOK'
  <2>1. rested' \in {"no", "begun", "done"} /\ app' \in Apps \cup {NoApp}
    BY <1>1, <1>2 DEF PInv, TypeOK
  <2>2. applied' = applied
    BY DEF Tick
  <2>3. QED
    BY <1>1, <1>3, <2>1, <2>2 DEF PInv, TypeOK, world, pass
<1>6. Turn' /\ Cleared'
  BY <1>3 DEF PInv, Turn, Cleared, pass
<1>7. PassKnown' /\ ScaleIsOwners' /\ ReadIsOwn'
  BY <1>3 DEF PInv, PassKnown, ScaleIsOwners, ReadIsOwn, TargetIsOf, Acting, FasPath, FasOn, world,
      pass
<1>8. OwnerKnown'
  <2>1. phase' # "UNKNOWN" => owner = app
    BY <1>1, <1>3 DEF PInv, OwnerKnown
  <2>2. phase' \in {"STABLE", "DEGRADED"} => rested' = "done"
    BY <1>1, <1>2, <1>4 DEF PInv, OwnerKnown
  <2>3. QED
    BY <1>1, <1>3, <2>1, <2>2 DEF OwnerKnown
<1>9. Measured'
  <2>1. CASE phase = "UNKNOWN"
    BY <1>1, <1>2, <2>1 DEF Measured
  <2>2. CASE phase # "UNKNOWN"
    BY <1>1, <1>2, <2>2 DEF PInv, Measured, TargetIsOf, Acting, pass
  <2>3. QED
    BY <2>1, <2>2
<1>10. QED
  BY <1>5, <1>6, <1>7, <1>8, <1>9 DEF PInv

LEMMA StorePInv ==
    ASSUME PInv, Store, UNCHANGED <<world, at, cleared, pass>>
    PROVE  PInv'
<1> DEFINE f == StoreOrder[stored + 1]
           last == stored + 1 = 5
<1>1. /\ doing = "storing"
      /\ cells' = [cells EXCEPT ![f] = out[f]]
      /\ stored' = (IF last THEN 0 ELSE stored + 1)
      /\ doing' = (IF last THEN "asleep" ELSE doing)
      /\ owner' = (IF f = "scale" THEN app ELSE owner)
      /\ UNCHANGED <<pvars, announced, rested>>
      /\ applied' \in {applied, {}}
  BY Orders DEF Store
<1>2. stored \in 0..4 /\ stored + 1 \in 1..5
  BY Orders DEF PInv, TypeOK
<1>3. f \in Fields /\ (f = "scale" <=> stored = 1)
  BY <1>2, Orders
<1>4. cells' \in Outputs /\ cells'.scale = IF f = "scale" THEN out.scale ELSE cells.scale
  <2>1. cells \in Outputs /\ out \in Outputs
    BY DEF PInv, TypeOK
  <2> HIDE DEF f
  <2>2. /\ [cells EXCEPT ![f] = out[f]] \in Outputs
        /\ [cells EXCEPT ![f] = out[f]].scale = IF f = "scale" THEN out.scale ELSE cells.scale
    BY <1>3, <2>1, OneStore
  <2>3. QED
    BY <1>1, <2>2, Zenon
<1> HIDE DEF f
<1>5. TypeOK'
  BY <1>1, <1>2, <1>4, Orders DEF PInv, TypeOK, pvars, world, pass
<1>6. Turn' /\ Cleared'
  BY <1>1 DEF PInv, Turn, Cleared, pass
<1>7. PassKnown' /\ ReadIsOwn'
  BY DEF PInv, PassKnown, ReadIsOwn, TargetIsOf, Acting, FasPath, FasOn, world, pass
<1>8. OwnerKnown'
  BY <1>1, <1>2, <1>3 DEF PInv, OwnerKnown, pvars
<1>9. Measured'
  BY <1>1 DEF PInv, Measured, TargetIsOf, Acting, pvars, pass
<1>10. ScaleIsOwners'
  <2>1. CASE f = "scale" /\ out.scale # 1000
    <3>1. phase # "UNKNOWN" /\ rested = "done" /\ owner' = app
      BY <1>1, <2>1 DEF PInv, OwnerKnown
    <3>2. /\ \A c \in 1..Clusters : TargetIsOf(c, app)
          /\ Acting => scaled_by = app
      BY <3>1 DEF PInv, Measured
    <3>3. QED
      BY <3>1, <3>2 DEF ScaleIsOwners, TargetIsOf, Acting, pass
  <2>2. CASE f = "scale" /\ out.scale = 1000
    BY <1>4, <2>2 DEF ScaleIsOwners
  <2>3. CASE f # "scale"
    BY <1>1, <1>4, <2>3 DEF PInv, ScaleIsOwners, TargetIsOf, Acting, pass
  <2>4. QED
    BY <2>1, <2>2, <2>3
<1>11. QED
  BY <1>5, <1>6, <1>7, <1>8, <1>9, <1>10 DEF PInv

-----------------------------------------------------------------------------
(* The steps of the main loop. *)

LEMMA CheckPInv ==
    ASSUME PInv, Check
    PROVE  PInv'
<1>1. /\ at = "loop" /\ at' = "clearing" /\ cleared' = cleared /\ cleared = 0
      /\ fg' \in Apps \cup {NoApp} /\ paused' \in BOOLEAN
      /\ UNCHANGED <<pvars, cells, predictor, cluster, seen, target, scaled_by, origin, rested,
                     owner, applied>>
      /\ active' = FALSE /\ band' = ApplySettings(paused')
  BY DEF PInv, TypeOK, Turn, Check, StartTogglePause, StartSwitch, StartClearing
<1>2. TypeOK'
  <2>1. band' \in [1..Clusters -> (0..Cap) \X (0..Cap)]
    BY <1>1, ApplySettingsType DEF PInv
  <2>2. QED
    BY <1>1, <2>1 DEF PInv, TypeOK, pvars, predictor
<1>3. Turn' /\ Cleared' /\ PassKnown' /\ ReadIsOwn'
  BY <1>1 DEF PInv, Turn, Cleared, PassKnown, ReadIsOwn, Acting, predictor
<1>4. OwnerKnown'
  BY <1>1 DEF PInv, OwnerKnown, pvars, predictor
<1>5. Measured' /\ ScaleIsOwners'
  BY <1>1 DEF PInv, Measured, ScaleIsOwners, TargetIsOf, Acting, pvars
<1>6. QED
  BY <1>2, <1>3, <1>4, <1>5 DEF PInv

\* What a pass leaves alone, and that it never forgets a calibration it saw.
PassKeeps ==
    /\ UNCHANGED <<pvars, world, predictor, owner>>
    /\ rested = "done" => rested' = "done"

LEMMA PassOwner == ASSUME OwnerKnown, PassKeeps PROVE OwnerKnown'
BY DEF OwnerKnown, PassKeeps, pvars, predictor

LEMMA PassClearsPInv ==
    ASSUME PInv, PassClears, PassKeeps
    PROVE  PInv'
<1>1. /\ at = "loop" /\ at' = "clearing" /\ cleared' = cleared /\ cleared = 0
      /\ UNCHANGED <<cells, cluster, seen, target, rested, scaled_by, origin, applied>>
      /\ active' = FALSE /\ band' = IF active THEN ApplySettings(paused) ELSE band
  BY DEF PInv, Turn, PassClears, StartClearing
<1>2. TypeOK'
  <2>1. band' \in [1..Clusters -> (0..Cap) \X (0..Cap)]
    BY <1>1, ApplySettingsType DEF PInv, TypeOK
  <2>2. QED
    BY <1>1, <2>1 DEF PInv, TypeOK, PassKeeps, pvars, predictor, world
<1>3. Turn' /\ Cleared' /\ PassKnown' /\ ReadIsOwn'
  BY <1>1 DEF PInv, Turn, Cleared, PassKnown, ReadIsOwn, Acting, PassKeeps, predictor
<1>4. OwnerKnown'
  BY PassOwner DEF PInv
<1>5. Measured' /\ ScaleIsOwners'
  BY <1>1 DEF PInv, Measured, ScaleIsOwners, TargetIsOf, Acting, PassKeeps, pvars
<1>6. QED
  BY <1>2, <1>3, <1>4, <1>5 DEF PInv

LEMMA ClearPInv ==
    ASSUME PInv, Clear, PassKeeps
    PROVE  PInv'
<1> DEFINE f == ClearOrder[cleared + 1]
           last == cleared + 1 = 5
<1>1. /\ at = "clearing"
      /\ cells' = [cells EXCEPT ![f] = Idle[f]]
      /\ cleared' = (IF last THEN 0 ELSE cleared + 1)
      /\ at' = (IF last THEN "loop" ELSE at)
      /\ UNCHANGED <<pass, rested, applied>>
  BY Orders DEF Clear
<1>2. cleared \in 0..4 /\ cleared + 1 \in 1..5
  BY Orders DEF PInv, TypeOK
<1>3. f \in Fields /\ (cleared = 0 => f = "usable")
  BY <1>2, Orders
<1>4. /\ cells' \in Outputs
      /\ cells'.scale \in {1000, cells.scale}
      /\ cleared = 0 \/ ~cells.usable => ~cells'.usable
  <2>1. cells \in Outputs /\ Idle \in Outputs /\ Idle.scale = 1000 /\ Idle.usable = FALSE
    BY OutputTypes DEF PInv, TypeOK, Idle
  <2> HIDE DEF f
  <2>2. /\ [cells EXCEPT ![f] = Idle[f]] \in Outputs
        /\ [cells EXCEPT ![f] = Idle[f]].scale = IF f = "scale" THEN Idle.scale ELSE cells.scale
        /\ [cells EXCEPT ![f] = Idle[f]].usable = IF f = "usable" THEN Idle.usable ELSE cells.usable
    BY <1>3, <2>1, OneStore
  <2>3. /\ cells' \in Outputs
        /\ cells'.scale = IF f = "scale" THEN Idle.scale ELSE cells.scale
        /\ cells'.usable = IF f = "usable" THEN Idle.usable ELSE cells.usable
    BY <1>1, <2>2, Zenon
  <2>4. QED
    BY <1>3, <2>1, <2>3
<1> HIDE DEF f
<1>5. TypeOK'
  BY <1>1, <1>2, <1>4, Orders DEF PInv, TypeOK, PassKeeps, pvars, predictor, world, pass
<1>6. Turn'
  BY <1>1 DEF PInv, Turn, PassKeeps, predictor, pass
<1>7. Cleared'
  BY <1>1, <1>2, <1>4 DEF PInv, Cleared, PassKeeps, predictor, world
<1>8. PassKnown' /\ ReadIsOwn'
  BY <1>1 DEF PInv, PassKnown, ReadIsOwn, Acting
<1>9. OwnerKnown'
  BY PassOwner DEF PInv
<1>10. Measured' /\ ScaleIsOwners'
  BY <1>1, <1>4 DEF PInv, Measured, ScaleIsOwners, TargetIsOf, Acting, PassKeeps, pvars, pass
<1>11. QED
  BY <1>5, <1>6, <1>7, <1>8, <1>9, <1>10 DEF PInv

\* Changing one field of what the pass has read.
LEMMA SeenTypes ==
    ASSUME TypeOK
    PROVE  /\ [Idle EXCEPT !.usable = cells.usable] \in Outputs
           /\ [seen EXCEPT !.phase = cells.phase] \in Outputs
           /\ [seen EXCEPT !.scale = cells.scale] \in Outputs
           /\ [seen EXCEPT !.hold_sweetspot = cells.hold_sweetspot] \in Outputs
           /\ seen.hold_sweetspot \in BOOLEAN
<1>1. cells \in Outputs /\ seen \in Outputs /\ Idle \in Outputs
  BY OutputTypes DEF TypeOK
<1>2. QED
  BY <1>1 DEF Outputs

\* A step that only reads keeps the types when what it has read has its type.
LEMMA ReadTypes ==
    ASSUME TypeOK, PassKeeps, seen' \in Outputs,
           at' \in {"loop", "phase", "cluster", "hold", "drop"},
           active' \in BOOLEAN, band' \in [1..Clusters -> (0..Cap) \X (0..Cap)],
           rested' \in {"no", "begun", "done"}, scaled_by' \in Apps \cup {NoApp},
           UNCHANGED <<cells, cleared, cluster, target, origin, applied>>
    PROVE  TypeOK'
BY DEF TypeOK, PassKeeps, pvars, predictor, world

LEMMA PassBeginsPInv ==
    ASSUME PInv, PassBegins, PassKeeps
    PROVE  PInv'
<1>1. /\ at = "loop" /\ at' = "phase" /\ cluster = 1
      /\ seen' = [Idle EXCEPT !.usable = cells.usable]
      /\ rested' \in {rested, "begun"}
      /\ UNCHANGED <<cells, cleared, active, cluster, target, band, scaled_by, origin, applied>>
  BY DEF PInv, Turn, PassBegins
<1>2. TypeOK'
  <2>1. seen' \in Outputs
    BY <1>1, SeenTypes DEF PInv
  <2>2. TypeOK /\ scaled_by' \in Apps \cup {NoApp}
    BY <1>1 DEF PInv, TypeOK
  <2>3. /\ active' \in BOOLEAN /\ rested' \in {"no", "begun", "done"}
        /\ band' \in [1..Clusters -> (0..Cap) \X (0..Cap)]
    BY <1>1, <2>2 DEF TypeOK
  <2>4. QED
    BY <1>1, <2>1, <2>2, <2>3, ReadTypes
<1>3. Turn' /\ Cleared'
  BY <1>1 DEF PInv, Turn, Cleared, PassKeeps, predictor, world
<1>4. PassKnown' /\ ReadIsOwn'
  BY <1>1 DEF PassKnown, ReadIsOwn, Acting, Idle
<1>5. OwnerKnown'
  BY PassOwner DEF PInv
<1>6. Measured' /\ ScaleIsOwners'
  BY <1>1 DEF PInv, Measured, ScaleIsOwners, TargetIsOf, Acting, PassKeeps, pvars
<1>7. QED
  BY <1>2, <1>3, <1>4, <1>5, <1>6 DEF PInv

LEMMA ReadPhasePInv ==
    ASSUME PInv, ReadPhase, PassKeeps
    PROVE  PInv'
<1>1. /\ at = "phase" /\ at' = "cluster"
      /\ seen' = [seen EXCEPT !.phase = cells.phase]
      /\ active' = TRUE /\ band' = IF active THEN band ELSE ApplySettings(paused)
      /\ UNCHANGED <<cells, cleared, cluster, target, scaled_by, origin, rested, applied>>
  BY DEF ReadPhase
<1>2. seen'.hold_sweetspot = FALSE
  BY <1>1, SeenTypes DEF PInv, PassKnown, TypeOK, Outputs
<1>3. TypeOK'
  <2>1. band' \in [1..Clusters -> (0..Cap) \X (0..Cap)]
    BY <1>1, ApplySettingsType DEF PInv, TypeOK
  <2>2. seen' \in Outputs
    BY <1>1, SeenTypes DEF PInv
  <2>3. /\ TypeOK /\ active' \in BOOLEAN
        /\ rested' \in {"no", "begun", "done"} /\ scaled_by' \in Apps \cup {NoApp}
    BY <1>1 DEF PInv, TypeOK
  <2>4. QED
    BY <1>1, <2>1, <2>2, <2>3, ReadTypes
<1>4. Turn' /\ Cleared'
  BY <1>1 DEF PInv, Turn, Cleared, PassKeeps, predictor, world
<1>5. PassKnown' /\ ReadIsOwn'
  BY <1>1, <1>2 DEF PassKnown, ReadIsOwn, Acting
<1>6. OwnerKnown'
  BY PassOwner DEF PInv
<1>7. Measured' /\ ScaleIsOwners'
  BY <1>1 DEF PInv, Measured, ScaleIsOwners, TargetIsOf, Acting, PassKeeps, pvars
<1>8. QED
  BY <1>3, <1>4, <1>5, <1>6, <1>7 DEF PInv

LEMMA ReadScalePInv ==
    ASSUME PInv, ReadScale, PassKeeps
    PROVE  PInv'
<1>1. /\ at = "cluster" /\ at' = "hold" /\ FasPath
      /\ seen' = [seen EXCEPT !.scale = cells.scale]
      /\ scaled_by' = owner
      /\ UNCHANGED <<cells, cleared, active, cluster, target, band, origin, rested, applied>>
  BY DEF ReadScale
<1>2. seen'.scale = cells.scale /\ seen'.usable = seen.usable /\ seen'.phase = seen.phase
  BY <1>1 DEF PInv, TypeOK, Outputs
<1>3. TypeOK'
  <2>1. seen' \in Outputs
    BY <1>1, SeenTypes DEF PInv
  <2>2. TypeOK /\ scaled_by' \in Apps \cup {NoApp}
    BY <1>1 DEF PInv, TypeOK
  <2>3. /\ active' \in BOOLEAN /\ rested' \in {"no", "begun", "done"}
        /\ band' \in [1..Clusters -> (0..Cap) \X (0..Cap)]
    BY <1>1, <2>2 DEF TypeOK
  <2>4. QED
    BY <1>1, <2>1, <2>2, <2>3, ReadTypes
<1>4. Turn' /\ Cleared'
  BY <1>1 DEF PInv, Turn, Cleared, PassKeeps, predictor, world
<1>5. PassKnown'
  BY <1>1, <1>2 DEF PassKnown, Acting, FasPath, FasOn, PassKeeps, world
<1>6. OwnerKnown'
  BY PassOwner DEF PInv
<1>7. Measured'
  BY <1>1 DEF PInv, OwnerKnown, Measured, TargetIsOf, Acting, PassKeeps, pvars
<1>8. ScaleIsOwners' /\ ReadIsOwn'
  BY <1>1, <1>2 DEF PInv, TypeOK, ScaleIsOwners, ReadIsOwn, TargetIsOf, Acting, PassKeeps
<1>9. QED
  BY <1>3, <1>4, <1>5, <1>6, <1>7, <1>8 DEF PInv

LEMMA ReadHoldPInv ==
    ASSUME PInv, ReadHold, PassKeeps
    PROVE  PInv'
<1>1. /\ at = "hold" /\ at' = "drop"
      /\ seen' = [seen EXCEPT !.hold_sweetspot = cells.hold_sweetspot]
      /\ UNCHANGED <<cells, cleared, active, cluster, target, band, scaled_by, origin, rested,
                     applied>>
  BY DEF ReadHold
<1>2. seen'.scale = seen.scale /\ seen'.usable = seen.usable /\ seen'.phase = seen.phase
  BY <1>1 DEF PInv, TypeOK, Outputs
<1>3. TypeOK'
  <2>1. seen' \in Outputs
    BY <1>1, SeenTypes DEF PInv
  <2>2. TypeOK /\ scaled_by' \in Apps \cup {NoApp}
    BY <1>1 DEF PInv, TypeOK
  <2>3. /\ active' \in BOOLEAN /\ rested' \in {"no", "begun", "done"}
        /\ band' \in [1..Clusters -> (0..Cap) \X (0..Cap)]
    BY <1>1, <2>2 DEF TypeOK
  <2>4. QED
    BY <1>1, <2>1, <2>2, <2>3, ReadTypes
<1>4. Turn' /\ Cleared'
  BY <1>1 DEF PInv, Turn, Cleared, PassKeeps, predictor, world
<1>5. PassKnown'
  BY <1>1, <1>2 DEF PInv, PassKnown, Acting, FasPath, FasOn, PassKeeps, world
<1>6. OwnerKnown'
  BY PassOwner DEF PInv
<1>7. Measured' /\ ScaleIsOwners' /\ ReadIsOwn'
  BY <1>1, <1>2 DEF PInv, Measured, ScaleIsOwners, ReadIsOwn, TargetIsOf, Acting, PassKeeps, pvars
<1>8. QED
  BY <1>3, <1>4, <1>5, <1>6, <1>7 DEF PInv

\* Going on to the next cluster: the next one of the same pass or the end of it, which
\* ends the calibration for a pass that held to the end.
LEMMA NextClusterMoves ==
    ASSUME PInv, NextCluster
    PROVE  /\ \/ /\ cluster = Clusters /\ cluster' = 1 /\ at' = "loop"
                 /\ seen' = Idle /\ scaled_by' = NoApp
              \/ /\ cluster \in 1..Clusters - 1 /\ cluster' = cluster + 1 /\ at' = "cluster"
                 /\ seen' = seen /\ scaled_by' = scaled_by
           /\ cluster' \in 1..Clusters /\ rested' \in {"no", "begun", "done"}
           /\ rested # "begun" => rested' = rested
           /\ rested' # "no" /\ rested = "begun" =>
                /\ seen.hold_sweetspot
                /\ cluster = Clusters <=> rested' = "done"
           /\ UNCHANGED <<cells, cleared, active>>
<1>1. cluster \in 1..Clusters /\ Clusters \in Nat \ {0} /\ rested \in {"no", "begun", "done"}
  BY PipelineAssumption DEF PInv, TypeOK
<1>2. QED
  BY <1>1 DEF NextCluster

LEMMA DailyClusterPInv ==
    ASSUME PInv, DailyCluster, PassKeeps
    PROVE  PInv'
<1>1. /\ at = "cluster" /\ ~FasPath /\ band' = [band EXCEPT ![cluster] = DailyBand]
      /\ NextCluster
      /\ UNCHANGED <<target, origin, applied>>
  BY DEF DailyCluster
<1>2. ~seen.hold_sweetspot
  BY <1>1 DEF PInv, PassKnown
<1>3. rested' # "begun"
  BY <1>1, <1>2, NextClusterMoves
<1>4. TypeOK'
  <2>1. band' \in [1..Clusters -> (0..Cap) \X (0..Cap)]
    BY <1>1, PipelineAssumption DEF PInv, TypeOK
  <2>2. /\ seen' \in Outputs /\ scaled_by' \in Apps \cup {NoApp}
        /\ at' \in {"loop", "cluster"} /\ cluster' \in 1..Clusters
        /\ rested' \in {"no", "begun", "done"}
    BY <1>1, NextClusterMoves, OutputTypes DEF PInv, TypeOK
  <2>3. UNCHANGED <<cells, cleared, active>>
    BY <1>1, NextClusterMoves
  <2>4. QED
    BY <1>1, <2>1, <2>2, <2>3 DEF PInv, TypeOK, PassKeeps, pvars, predictor, world
<1>5. Turn' /\ Cleared'
  BY <1>1, NextClusterMoves DEF PInv, Turn, Cleared, PassKeeps, predictor, world
<1>6. PassKnown' /\ ReadIsOwn'
  BY <1>1, <1>2, NextClusterMoves DEF PassKnown, ReadIsOwn, Acting
<1>7. OwnerKnown'
  BY PassOwner DEF PInv
<1>8. Measured' /\ ScaleIsOwners'
  <2>1. /\ UNCHANGED <<phase, app, owner, cells, target, origin>>
        /\ at' \notin {"hold", "drop"}
        /\ rested' = "done" => rested = "done"
    BY <1>1, <1>2, NextClusterMoves DEF PassKeeps, pvars
  <2>2. QED
    BY <1>3, <2>1 DEF PInv, Measured, ScaleIsOwners, TargetIsOf, Acting
<1>9. QED
  BY <1>4, <1>5, <1>6, <1>7, <1>8 DEF PInv

\* What Act does to the targets: it only ever hands one over to the package of the
\* scale it has read, and does so whenever it holds the sweet spot.
LEMMA ActTargets ==
    ASSUME PInv, Act
    PROVE  /\ \A c \in 1..Clusters : \A a :
                TargetIsOf(c, a) /\ (c = cluster => scaled_by = a)
                    => target'[c] = 0 \/ origin'[c] = a
           /\ seen.hold_sweetspot => origin'[cluster] = scaled_by
<1>1. PICK t : Remembered(t)
  BY DEF Act
<1>2. cluster \in 1..Clusters /\ target \in [1..Clusters -> Low..Cap \cup {0, Sweet}]
  BY DEF PInv, TypeOK
<1>3. DOMAIN origin = 1..Clusters
  BY DEF PInv, TypeOK
<1>4. QED
  BY <1>1, <1>2, <1>3 DEF Remembered, TargetIsOf

\* What Act asks for is within the bounds.
LEMMA ActTypes ==
    ASSUME TypeOK, Act
    PROVE  /\ target' \in [1..Clusters -> Low..Cap \cup {0, Sweet}]
           /\ band' \in [1..Clusters -> (0..Cap) \X (0..Cap)]
           /\ origin' \in [1..Clusters -> Apps \cup {NoApp}]
           /\ applied' \subseteq 1..Clusters
<1> DEFINE t == IF seen.hold_sweetspot THEN Sweet
                ELSE IF cells.drop_to_floor THEN Low
                ELSE Scaled(target[cluster], seen.scale)
           c == Ceiling(t, seen.hold_sweetspot, seen.phase)
<1>1. /\ Remembered(t) /\ band' = [band EXCEPT ![cluster] = <<t, c>>]
      /\ applied' = IF seen.hold_sweetspot \/ cells.drop_to_floor THEN applied
                    ELSE applied \cup {cluster}
  BY DEF Act
<1>2. /\ cluster \in 1..Clusters /\ target \in [1..Clusters -> Low..Cap \cup {0, Sweet}]
      /\ band \in [1..Clusters -> (0..Cap) \X (0..Cap)]
      /\ origin \in [1..Clusters -> Apps \cup {NoApp}] /\ scaled_by \in Apps \cup {NoApp}
      /\ applied \subseteq 1..Clusters
  BY DEF TypeOK
<1>3. Low..Cap \subseteq 0..Cap /\ Low..Cap \cup {0, Sweet} \subseteq Nat /\ Low \in Low..Cap
      /\ Sweet \in 0..Cap /\ Cap \in Nat
  BY PipelineAssumption
<1>4. seen.scale \in Nat /\ seen.hold_sweetspot \in BOOLEAN
  BY DEF TypeOK, Outputs
<1>5. t \in Low..Cap \cup {Sweet}
  <2>1. Scaled(target[cluster], seen.scale) \in Low..Cap
    <3>1. target[cluster] \in Nat
      BY <1>2, <1>3
    <3>2. QED
      BY <1>4, <3>1, ScaledBounds
  <2>2. QED
    BY <1>3, <2>1
<1> HIDE DEF t
<1>6. t \in 0..Cap
  BY <1>3, <1>5
<1>7. c \in t..Cap
  BY <1>4, <1>6, CeilingBounds
<1> HIDE DEF c
<1>8. c \in 0..Cap
  BY <1>3, <1>6, <1>7
<1>9. target' \in [1..Clusters -> Low..Cap \cup {0, Sweet}]
  BY <1>1, <1>2, <1>5 DEF Remembered
<1>10. band' \in [1..Clusters -> (0..Cap) \X (0..Cap)]
  BY <1>1, <1>2, <1>6, <1>8
<1>11. origin' \in [1..Clusters -> Apps \cup {NoApp}]
  BY <1>1, <1>2 DEF Remembered
<1>12. QED
  BY <1>1, <1>2, <1>9, <1>10, <1>11

LEMMA ActPInv ==
    ASSUME PInv, Act, PassKeeps
    PROVE  PInv'
<1>1. at = "drop" /\ FasPath /\ NextCluster
  BY DEF Act, PInv, PassKnown, Acting
<1>2. at' \in {"loop", "cluster"} /\ cluster' \in 1..Clusters
      /\ rested' \in {"no", "begun", "done"} /\ UNCHANGED <<cells, cleared, active>>
  BY <1>1, NextClusterMoves
<1>3. cluster \in 1..Clusters /\ Clusters \in Nat \ {0}
  BY PipelineAssumption DEF PInv, TypeOK
<1>4. TypeOK'
  <2>1. seen' \in Outputs /\ scaled_by' \in Apps \cup {NoApp}
    BY <1>1, NextClusterMoves, OutputTypes DEF PInv, TypeOK
  <2>2. /\ target' \in [1..Clusters -> Low..Cap \cup {0, Sweet}]
        /\ band' \in [1..Clusters -> (0..Cap) \X (0..Cap)]
        /\ origin' \in [1..Clusters -> Apps \cup {NoApp}]
        /\ applied' \subseteq 1..Clusters
    BY ActTypes DEF PInv
  <2>3. QED
    BY <1>2, <2>1, <2>2 DEF PInv, TypeOK, PassKeeps, pvars, predictor, world
<1>5. Turn' /\ Cleared'
  BY <1>1, <1>2, NextClusterMoves DEF PInv, Turn, Cleared, PassKeeps, predictor, world
<1>6. PassKnown'
  <2>1. seen' = seen \/ at' = "loop"
    BY <1>1, NextClusterMoves
  <2>2. QED
    BY <1>1, <1>2, <2>1 DEF PassKnown, Acting, FasPath, FasOn, PassKeeps, world
<1>7. ReadIsOwn'
  BY <1>2 DEF ReadIsOwn, Acting
<1>8. OwnerKnown'
  BY PassOwner DEF PInv
<1>9. \A c \in 1..Clusters : \A a : TargetIsOf(c, a) /\ (c = cluster => scaled_by = a)
        => target'[c] = 0 \/ origin'[c] = a
  BY ActTargets
<1>10. ScaleIsOwners'
  <2> SUFFICES ASSUME cells.scale # 1000, NEW c \in 1..Clusters
               PROVE  target'[c] = 0 \/ origin'[c] = owner
    BY <1>2 DEF ScaleIsOwners, TargetIsOf, Acting, PassKeeps
  <2>1. TargetIsOf(c, owner) /\ scaled_by = owner
    BY <1>1 DEF PInv, ScaleIsOwners, Acting
  <2>2. QED
    BY <1>9, <2>1
<1>11. Measured'
  <2> SUFFICES ASSUME phase # "UNKNOWN"
               PROVE  /\ rested' = "begun" =>
                            /\ at' \in {"phase", "cluster", "hold", "drop"}
                            /\ \A c \in 1..cluster' - 1 : target'[c] = 0 \/ origin'[c] = app
                      /\ rested' = "done" =>
                            \A c \in 1..Clusters : target'[c] = 0 \/ origin'[c] = app
    BY <1>2 DEF Measured, TargetIsOf, Acting, PassKeeps, pvars
  <2>1. rested # "no" => scaled_by = app
    BY <1>1 DEF PInv, Measured, Acting
  <2>2. CASE rested = "no"
    BY <1>1, <2>2, NextClusterMoves
  <2>3. CASE rested = "done"
    <3>1. rested' = "done"
      BY <1>1, <2>3, NextClusterMoves
    <3>2. \A c \in 1..Clusters : TargetIsOf(c, app)
      BY <2>3 DEF PInv, Measured
    <3>3. QED
      BY <1>9, <2>1, <2>3, <3>1, <3>2
  <2>4. CASE rested = "begun" /\ rested' # "no"
    <3>1. seen.hold_sweetspot /\ (cluster = Clusters <=> rested' = "done")
      BY <1>1, <2>4, NextClusterMoves
    <3>2. \A c \in 1..cluster : target'[c] = 0 \/ origin'[c] = app
      <4> SUFFICES ASSUME NEW c \in 1..cluster PROVE target'[c] = 0 \/ origin'[c] = app
        OBVIOUS
      <4>1. CASE c = cluster
        BY <2>1, <2>4, <3>1, <4>1, ActTargets
      <4>2. CASE c # cluster
        <5>1. c \in 1..cluster - 1 /\ c \in 1..Clusters
          BY <1>3, <4>2
        <5>2. TargetIsOf(c, app)
          BY <2>4, <5>1 DEF PInv, Measured
        <5>3. QED
          BY <1>9, <4>2, <5>1, <5>2
      <4>3. QED
        BY <4>1, <4>2
    <3>3. CASE cluster = Clusters
      BY <3>1, <3>2, <3>3
    <3>4. CASE cluster # Clusters
      <4>1. cluster' = cluster + 1 /\ at' = "cluster"
        BY <1>1, <3>4, NextClusterMoves
      <4>2. cluster' - 1 = cluster
        BY <1>3, <4>1
      <4>3. QED
        BY <3>1, <3>2, <3>4, <4>1, <4>2
    <3>5. QED
      BY <3>3, <3>4
  <2>5. QED
    BY <2>2, <2>3, <2>4, <1>2 DEF PInv, TypeOK
<1>12. QED
  BY <1>4, <1>5, <1>6, <1>7, <1>8, <1>10, <1>11 DEF PInv

-----------------------------------------------------------------------------
LEMMA StutterPInv == PInv /\ UNCHANGED vars => PInv'
<1> SUFFICES ASSUME PInv, UNCHANGED vars PROVE PInv'
  OBVIOUS
<1>1. TypeOK'
  BY DEF PInv, TypeOK, vars, pvars, world, predictor, pass
<1>2. Turn' /\ Cleared' /\ PassKnown' /\ OwnerKnown'
  BY DEF PInv, Turn, Cleared, PassKnown, OwnerKnown, Acting, FasPath, FasOn, vars, pvars, world,
      predictor, pass
<1>3. Measured' /\ ScaleIsOwners' /\ ReadIsOwn'
  BY DEF PInv, Measured, ScaleIsOwners, ReadIsOwn, TargetIsOf, Acting, vars, pvars, predictor, pass
<1>4. QED
  BY <1>1, <1>2, <1>3 DEF PInv

LEMMA PassPInv ==
    ASSUME PInv, Pass
    PROVE  PInv'
<1>1. UNCHANGED <<pvars, world, predictor, owner>>
  BY DEF Pass
<1>2. rested = "done" => rested' = "done"
  <2>1. CASE PassClears \/ Clear \/ PassBegins \/ ReadPhase \/ ReadScale \/ ReadHold
    BY <2>1 DEF PassClears, Clear, PassBegins, ReadPhase, ReadScale, ReadHold
  <2>2. CASE DailyCluster \/ Act
    BY <2>2 DEF DailyCluster, Act, NextCluster
  <2>3. QED
    BY <2>1, <2>2 DEF Pass
<1>3. PassKeeps
  BY <1>1, <1>2 DEF PassKeeps
<1>4. QED
  BY <1>3, PassClearsPInv, ClearPInv, PassBeginsPInv, ReadPhasePInv, DailyClusterPInv,
     ReadScalePInv, ReadHoldPInv, ActPInv DEF Pass

LEMMA NextPInv == PInv /\ [PipelineNext]_vars => PInv'
<1>1. ASSUME PInv, PredictorStep PROVE PInv'
  BY <1>1, NapPInv, WakePInv, TickPInv, StorePInv DEF PredictorStep
<1>2. QED
  BY <1>1, CheckPInv, PassPInv, StutterPInv DEF PipelineNext

\* The inductive invariant holds in every reachable state of the pipeline.
THEOREM PipelineInvariant == PipelineSpec => []PInv
<1>1. PipelineInit => PInv
  BY InitPInv
<1>2. PInv /\ [PipelineNext]_vars => PInv'
  BY NextPInv
<1>3. QED
  BY <1>1, <1>2, PTL DEF PipelineSpec

\* Every variable keeps its type; in particular every band the executor asks for is
\* within the bounds of the cluster, whatever scale it has read, torn or not
\* (activity_dynamic_tuning.inc:899-932).
THEOREM PipelineTypeCorrect == PipelineSpec => []TypeOK
<1>1. PInv => TypeOK
  BY DEF PInv
<1>2. QED
  BY <1>1, PipelineInvariant, PTL

\* After a pause no output from before it is published (activity_skip_processes.inc:141-181),
\* wherever in its publication the pause found the prediction thread.
THEOREM PauseLeavesNothing == PipelineSpec => []ResumesClean
<1>1. PInv => ResumesClean
  BY DEF PInv, Cleared, ResumesClean
<1>2. QED
  BY <1>1, PipelineInvariant, PTL

\* A target is only scaled by an output for the game it was set for
\* (activity_dynamic_tuning.inc:893-915), for any number of clusters and of games that
\* follow each other, with or without the engine: a publication that comes late, after
\* the switch has cleared the atomics, scales no target of another game.
THEOREM NoCrossGameTarget == PipelineSpec => TargetsAreOwn
<1> DEFINE Scales == /\ at = "drop" /\ at' # "drop" /\ ~seen.hold_sweetspot
                     /\ ~cells.drop_to_floor /\ seen.scale # 1000 /\ target[cluster] # 0
           Own == origin[cluster] = scaled_by
<1>1. PInv => (Scales => Own)
  BY DEF PInv, ReadIsOwn, TargetIsOf, Acting
<1>2. PInv /\ [PipelineNext]_vars => [Scales => Own]_vars
  BY <1>1
<1>3. QED
  BY <1>2, PipelineInvariant, PTL DEF PipelineSpec, TargetsAreOwn
==============================================================================
