------------------------------ MODULE DdrLimits ------------------------------
(***************************************************************************)
(* The two limits the daemon writes into the DDR frequency nodes           *)
(* (src/bin/activity_gpu_ddr.inc): a floor asked for by the profile, and a *)
(* ceiling ("cap") that follows the frequency of the GPU.  The platform    *)
(* writes the same nodes whenever it likes.  Both limits must be taken     *)
(* back without disturbing what the platform wants, must be put back when  *)
(* the platform undoes them, and must be given up when it keeps undoing    *)
(* them.                                                                   *)
(*                                                                         *)
(* Everything here runs on the main loop.  Frequencies are levels of the   *)
(* frequency table.  What the code reads of a node and writes to it in one *)
(* go is one step; the platform moves between a write and its read-back.   *)
(* The minimum is read from the first of its paths only, so one node       *)
(* stands for it; the maximum has a node per path.                         *)
(***************************************************************************)
EXTENDS Naturals, FiniteSets

CONSTANTS
    Paths,      \* the max_freq nodes
    MaxLevel,   \* the highest level of the frequency table: hw_max
    Profiles,   \* the ranges [min, max] the profiles resolve to
    Curve,      \* Curve[g]: the level the cap's curve gives for GPU load g
    StartMin,   \* what the minimum node may hold when the daemon starts
    StartMax,   \* what the maximum nodes may hold when the daemon starts
    Limit,      \* kKernelOwnedWriteStreakLimit
    Budget,     \* bound on the platform's writes
    MaxEdits,   \* bound on the edits of the configuration file
    SameStamps  \* TRUE: an edit may keep the file's (mtime, size)

Levels == 1 .. MaxLevel
None == 0
Gpus == DOMAIN Curve
Unreadable == "unreadable"
Texts == {"on", "off", "missing"}

ASSUME DdrAssumption ==
    /\ MaxLevel \in Nat \ {0} /\ Limit \in Nat \ {0}
    /\ Budget \in Nat /\ MaxEdits \in Nat /\ SameStamps \in BOOLEAN
    /\ Profiles \subseteq {r \in [min : Levels, max : Levels] : r.min <= r.max}
    /\ StartMin \subseteq Levels /\ StartMax \subseteq Levels
    /\ Curve \in [Gpus -> Levels] /\ Unreadable \notin Gpus

VARIABLES
    minNode, maxNode,  \* what the nodes hold
    profile,           \* the range of the profile that is loaded
    gpu,               \* the GPU's load, as its frequency node shows it
    paused,            \* a process of the skip list runs
    file,              \* ddr_gpu_cap.conf: its text and its (mtime, size)
    conf,              \* what was last read of it: recorded stamp, enabled
    due,               \* five seconds have passed since it was last checked
    floor,             \* the floor's state, see FloorState
    cap,               \* the cap's state, see CapState
    pc,                \* where the main loop stands in a pass
    before, touched,   \* history: node values before the cap was taken, and
                       \* the paths the platform wrote since
    moves, edits       \* the platform's writes and the file's edits so far

nodes == <<minNode, maxNode>>
env == <<profile, gpu, paused, file>>
history == <<before, touched>>
vars == <<nodes, env, conf, due, floor, cap, pc, history, moves, edits>>

\* g_ddr_base_min_freq, g_ddr_floor_ours, g_ddr_ours_freq,
\* g_ddr_applied_min_freq and g_ddr_desired_max_freq, g_ddr_monitor_enabled,
\* g_ddr_write_fail_streak, g_ddr_node_write_disabled.
FloorState == [base : Levels \cup {None}, ours : BOOLEAN, freq : Levels \cup {None},
               applied : Profiles, monitor : BOOLEAN,
               streak : 0 .. Limit, disabled : BOOLEAN]

\* g_ddr_ours_max_freq, g_ddr_cap_base_max_freq, g_ddr_cap_write_fail_streak,
\* g_ddr_cap_write_disabled.
CapState == [ours : Levels \cup {None}, base : [Paths -> Levels \cup {None}],
             streak : 0 .. Limit, stopped : BOOLEAN]

NoBase == [p \in Paths |-> None]
Bigger(a, b) == IF a >= b THEN a ELSE b
Smaller(a, b) == IF a <= b THEN a ELSE b

-----------------------------------------------------------------------------
(* The floor *)

Narrow(r) == r.min > 1 \/ r.max < MaxLevel

\* apply_ddr_floor_freq: the base is what the node held the first time, ever.
FloorBase == IF floor.base = None /\ ~floor.ours THEN minNode ELSE floor.base
FloorReference == IF floor.ours THEN FloorBase ELSE minNode

Raise(want) ==
    /\ want > FloorReference
    /\ minNode' = want
    /\ floor' = [floor EXCEPT !.base = FloorBase, !.ours = TRUE, !.freq = want,
                              !.applied = profile', !.monitor = Narrow(profile')]

Release(want) ==
    /\ want <= FloorReference /\ floor.ours /\ want <= FloorBase
    /\ minNode' = IF minNode = floor.freq THEN FloorBase ELSE minNode
    /\ floor' = [floor EXCEPT !.base = FloorBase, !.ours = FALSE, !.freq = None,
                              !.applied = profile', !.monitor = Narrow(profile')]

Leave(want) ==
    /\ want <= FloorReference /\ ~(floor.ours /\ want <= FloorBase)
    /\ floor' = [floor EXCEPT !.base = FloorBase,
                              !.applied = profile', !.monitor = Narrow(profile')]
    /\ UNCHANGED minNode

\* apply_ddr_settings: nothing is written any more once writing is disabled.
ApplyFloor ==
    IF floor.disabled
    THEN /\ floor' = [floor EXCEPT !.applied = profile', !.monitor = Narrow(profile')]
         /\ UNCHANGED minNode
    ELSE \/ Raise(profile'.min)
         \/ Release(profile'.min)
         \/ Leave(profile'.min)

\* The floor's half of enforce_gpu_ddr_limits.  fas and outside stand for what
\* the engine publishes and for a DDR frequency outside the applied range.
FloorPass ==
    /\ pc \in {"idle", "forced"} /\ ~paused
    /\ UNCHANGED <<maxNode, env, conf, due, cap, history, moves, edits>>
    /\ \E fas, outside \in BOOLEAN :
        LET looks == ~floor.disabled /\ (floor.monitor \/ fas)
            undone == floor.ours /\ minNode < floor.applied.min
            again == looks /\ ( \/ pc = "forced" \/ outside \/ undone
                                \/ profile # floor.applied )
        IN  \/ /\ again
               /\ ApplyFloor
               /\ pc' = IF floor'.ours THEN "verify" ELSE "cap"
            \/ /\ ~again
               /\ pc' = "cap"
               /\ UNCHANGED <<minNode, floor>>

FloorVerify ==
    /\ pc = "verify"
    /\ pc' = "cap"
    /\ floor' = IF minNode < floor.applied.min
                THEN [floor EXCEPT !.streak = @ + 1,
                                   !.disabled = floor.streak + 1 >= Limit]
                ELSE [floor EXCEPT !.streak = 0]
    /\ UNCHANGED <<nodes, env, conf, due, cap, history, moves, edits>>

-----------------------------------------------------------------------------
(* The cap *)

\* ddr_gpu_cap_compute_khz and the clamps of ddr_gpu_cap_enforce: the curve,
\* not under the floor the profile asks for and not over its ceiling.
TargetIgnoresFloor(g) == Smaller(Curve[g], profile.max)

Target(g) ==
    Bigger(Smaller(Bigger(Curve[g], profile.min), profile.max), profile.min)

\* ddr_gpu_cap_restore_internal: only where the node still holds our value.
Restored(c) ==
    [p \in Paths |-> IF c.ours # None /\ maxNode[p] = c.ours /\ c.base[p] # None
                     THEN c.base[p] ELSE maxNode[p]]

Idle(c) == [c EXCEPT !.ours = None, !.base = NoBase,
                     !.streak = IF c.ours = None THEN c.streak ELSE 0]

GiveBack(c) ==
    /\ maxNode' = Restored(c)
    /\ cap' = Idle(c)
    /\ pc' = "idle"
    /\ UNCHANGED history

Keep(c) ==
    /\ cap' = c
    /\ pc' = "idle"
    /\ UNCHANGED <<maxNode, history>>

\* The write: every path, after the first value of each was put aside.
TakenAnew(c, target) == [c EXCEPT !.ours = target, !.base = maxNode]

Taken(c, target) ==
    [c EXCEPT !.ours = target, !.base = IF c.ours = None THEN maxNode ELSE c.base]

\* One path that does not hold the target is enough to write again.
DiffersAtFront(target) ==
    LET front == CHOOSE p \in Paths : TRUE IN maxNode[front] # target

Differs(target) == \E p \in Paths : maxNode[p] # target

Write(c, target) ==
    /\ maxNode' = [p \in Paths |-> target]
    /\ cap' = Taken(c, target)
    /\ before' = IF c.ours = None THEN maxNode ELSE before
    /\ touched' = IF c.ours = None THEN {} ELSE touched
    /\ pc' = "capVerify"

\* ddr_gpu_cap_enforce with the configuration and the state it works with.
EnforceCap(c, enabled) ==
    \/ /\ ~enabled \/ (~c.stopped /\ gpu = Unreadable)
       /\ GiveBack(c)
    \/ /\ enabled /\ c.stopped
       /\ Keep(c)
    \/ /\ enabled /\ ~c.stopped /\ gpu # Unreadable
       /\ LET target == Target(gpu)
              needed == target # c.ours \/ Differs(target)
          IN  \/ needed /\ Write(c, target)
              \/ ~needed /\ Keep(c)

\* ddr_gpu_cap_refresh_config: a file that changed is read again, and a cap
\* that had been given up gets another chance.  A missing file means the
\* defaults, and the default is enabled.
ChangedUnlessStopped == due /\ ~cap.stopped /\ file.stamp # conf.stamp

Changed == due /\ file.stamp # conf.stamp

ReadConf ==
    IF Changed THEN [stamp |-> file.stamp, enabled |-> file.text # "off"] ELSE conf

Revived == IF Changed THEN [cap EXCEPT !.streak = 0, !.stopped = FALSE] ELSE cap

CapPass ==
    /\ pc = "cap"
    /\ due' = FALSE
    /\ conf' = ReadConf
    /\ EnforceCap(Revived, ReadConf.enabled)
    /\ UNCHANGED <<minNode, env, floor, moves, edits>>

CapVerify ==
    /\ pc = "capVerify"
    /\ pc' = "idle"
    /\ cap' = IF Differs(cap.ours)
              THEN [cap EXCEPT !.streak = @ + 1, !.stopped = cap.streak + 1 >= Limit]
              ELSE [cap EXCEPT !.streak = 0]
    /\ UNCHANGED <<nodes, env, conf, due, floor, history, moves, edits>>

-----------------------------------------------------------------------------
(* What the rest of the daemon and the platform do *)

\* The first load of a profile, before the loop starts.
FirstLoad ==
    /\ pc = "load"
    /\ UNCHANGED profile
    /\ ApplyFloor
    /\ pc' = "forced"
    /\ UNCHANGED <<maxNode, gpu, paused, file, conf, due, cap, history, moves, edits>>

\* Loading a profile ends in apply_settings, which does nothing while the
\* daemon is paused; otherwise it applies the floor and forces a pass.
SwitchProfile ==
    /\ pc = "idle"
    /\ \E r \in Profiles \ {profile} : profile' = r
    /\ IF paused THEN UNCHANGED <<minNode, floor, pc>>
                 ELSE ApplyFloor /\ pc' = "forced"
    /\ UNCHANGED <<maxNode, gpu, paused, file, conf, due, cap, history, moves, edits>>

\* handle_scheduler_skip_process_transition.
Pause ==
    /\ pc = "idle" /\ ~paused
    /\ paused' = TRUE
    /\ UNCHANGED <<nodes, profile, gpu, file, conf, due, floor, cap, pc, history, moves, edits>>

Resume ==
    /\ pc = "idle" /\ paused
    /\ paused' = FALSE
    /\ UNCHANGED profile
    /\ ApplyFloor
    /\ pc' = "forced"
    /\ UNCHANGED <<maxNode, gpu, file, conf, due, cap, history, moves, edits>>

\* The loop has ended: main restores the cap, and the cap alone.
Exit ==
    /\ pc = "idle"
    /\ maxNode' = Restored(cap)
    /\ cap' = Idle(cap)
    /\ pc' = "gone"
    /\ UNCHANGED <<minNode, env, conf, due, floor, history, moves, edits>>

Elapse ==
    /\ ~due /\ pc # "gone"
    /\ due' = TRUE
    /\ UNCHANGED <<nodes, env, conf, floor, cap, pc, history, moves, edits>>

GpuChanges ==
    /\ pc # "gone"
    /\ \E g \in (Gpus \cup {Unreadable}) \ {gpu} : gpu' = g
    /\ UNCHANGED <<nodes, profile, paused, file, conf, due, floor, cap, pc, history, moves, edits>>

Edit ==
    /\ edits < MaxEdits /\ pc # "gone"
    /\ edits' = edits + 1
    /\ \E text \in Texts \ {file.text} :
        \E stamp \in {edits'} \cup IF SameStamps THEN {file.stamp} ELSE {} :
            file' = [text |-> text, stamp |-> stamp]
    /\ UNCHANGED <<nodes, profile, gpu, paused, conf, due, floor, cap, pc, history, moves>>

PlatformSetsMin ==
    /\ moves < Budget
    /\ moves' = moves + 1
    /\ \E v \in Levels \ {minNode} : minNode' = v
    /\ UNCHANGED <<maxNode, env, conf, due, floor, cap, pc, history, edits>>

PlatformSetsMax ==
    /\ moves < Budget
    /\ moves' = moves + 1
    /\ \E p \in Paths, v \in Levels :
        /\ v # maxNode[p]
        /\ maxNode' = [maxNode EXCEPT ![p] = v]
        /\ touched' = touched \cup {p}
    /\ UNCHANGED <<minNode, env, conf, due, floor, cap, pc, before, edits>>

-----------------------------------------------------------------------------
Init ==
    /\ minNode \in StartMin
    /\ maxNode \in [Paths -> StartMax]
    /\ profile \in Profiles
    /\ gpu \in Gpus
    /\ paused = FALSE
    /\ \E text \in Texts : file = [text |-> text, stamp |-> 0]
    /\ conf = [stamp |-> 0, enabled |-> file.text # "off"]
    /\ due = FALSE
    /\ floor = [base |-> None, ours |-> FALSE, freq |-> None, applied |-> profile,
                monitor |-> FALSE, streak |-> 0, disabled |-> FALSE]
    /\ cap = [ours |-> None, base |-> NoBase, streak |-> 0, stopped |-> FALSE]
    /\ pc = "load"
    /\ before = maxNode /\ touched = {}
    /\ moves = 0 /\ edits = 0

MainLoop == FirstLoad \/ FloorPass \/ FloorVerify \/ CapPass \/ CapVerify

Next ==
    \/ FirstLoad \/ FloorPass \/ FloorVerify \/ CapPass \/ CapVerify
    \/ SwitchProfile \/ Pause \/ Resume \/ Exit
    \/ Elapse \/ GpuChanges \/ Edit \/ PlatformSetsMin \/ PlatformSetsMax

\* The main loop comes round every 30 ms or so, and time passes.
Spec == Init /\ [][Next]_vars /\ WF_vars(MainLoop) /\ WF_vars(Elapse)

-----------------------------------------------------------------------------
(* Properties *)

\* The types, with the bounds of the streaks: neither counts past Limit.
TypeOK ==
    /\ minNode \in Levels /\ maxNode \in [Paths -> Levels]
    /\ profile \in Profiles /\ gpu \in Gpus \cup {Unreadable}
    /\ paused \in BOOLEAN /\ due \in BOOLEAN
    /\ file \in [text : Texts, stamp : 0 .. MaxEdits]
    /\ conf \in [stamp : 0 .. MaxEdits, enabled : BOOLEAN]
    /\ floor \in FloorState /\ cap \in CapState
    /\ (floor.streak = Limit) = floor.disabled
    /\ cap.streak = Limit => cap.stopped
    /\ pc \in {"load", "idle", "forced", "verify", "cap", "capVerify", "gone"}
    /\ before \in [Paths -> Levels] /\ touched \subseteq Paths
    /\ moves \in 0 .. Budget /\ edits \in 0 .. MaxEdits

\* When the cap is not ours, every path the platform left alone since we took
\* it holds what it held before, however often the target moved meanwhile
\* (ddr_gpu_cap_capture_bases, ddr_gpu_cap_restore_internal).
CapGivesBack ==
    cap.ours = None =>
        \A p \in Paths \ touched : maxNode[p] = before[p]

\* Between passes the ceiling we keep is not under the floor we keep: a
\* minimum over a maximum is what line 930's clamp is there to avoid.
CapAboveFloor ==
    ( /\ pc = "idle" /\ floor.ours /\ ~floor.disabled
      /\ cap.ours # None /\ ~cap.stopped )
        => cap.ours >= floor.freq

Quiet == ~paused /\ pc # "gone"

\* Once the GPU, the profile and the file stay put, all the paths come to hold
\* the target and keep it, or the cap has been given up
\* (ddr_gpu_cap_enforce rewrites what the platform changed on any path).
CapHolds ==
    \A g \in Gpus, r \in Profiles :
        <>[](Quiet /\ gpu = g /\ profile = r /\ file.text = "on")
            => <>[](cap.stopped \/ \A p \in Paths : maxNode[p] = Target(g))

\* A configuration that is switched off takes the cap back within one check of
\* the file, one that was given up included (CHANGELOG.md:42,
\* config/ddr_gpu_cap.conf).
TurnsOff ==
    <>[](Quiet /\ file.text = "off") => <>[](cap.ours = None)

\* A configuration that is deleted takes the cap back (CHANGELOG.md:42 and the
\* comment of ddr_gpu_cap_refresh_config).  The code reads a missing file as
\* the defaults, which enable the cap.
DeletedTurnsOff ==
    (file.text # "missing" /\ <>[](Quiet /\ file.text = "missing"))
        => <>[](cap.ours = None)

\* The floor is written only when ours is tighter than what stands there: a
\* value the platform put over ours is never lowered (lines 781 and 1345).
\* While the floor is ours the code compares with the base, not with the node.
FloorOnlyTightens ==
    [][(moves' = moves /\ minNode' # minNode /\ minNode # floor.freq)
            => minNode' > minNode]_vars
=============================================================================
