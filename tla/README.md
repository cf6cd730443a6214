# Specifications of the murong game scheduler

TLA+ models of the daemon `activity_diaodu`, the checks TLC makes on them and the
theorems TLAPS proves about them. Line numbers are those of the sources beside
this directory (`src/`); `internal.inc` stands for
`src/bin/activity_scheduler_internal.inc` and so on.

## The system

The daemon runs as root on an Android phone, watches which application is in
front and, for games, does two things: it binds the game's threads to CPUs, and
it keeps the frequency band of every CPU cluster between a floor and a ceiling
that follow the frame rate. Everything it touches is also touched by the kernel,
by the vendor's services and by Android, none of which ask it. Three threads run
for ever:

| thread | period | work |
|---|---|---|
| main loop (`run_main_loop`, main_loop.inc 254) | 30 ms | hot reload, foreground detection, skip list, dynamic tuning, GPU and DDR, platform limits, `run_scheduler_step` |
| FAS prediction thread (main_loop.inc 179) | 30–100 ms | takes frame samples, ticks the engine, publishes its output in some twenty atomics |
| runtime monitor (runtime.inc 75) | 100 ms | reads the eBPF rings, scans `/proc/<pid>/task`, keeps the thread records |

They share `g_mutex` (thread records and sessions), `g_frame_sample_mutex` (frame
samples), `g_app_mutex` (name of the package in front) and the published atomics.

### Inventory

| component | state | operations | what is hard | what makes it correct |
|---|---|---|---|---|
| FAS engine (`fas/fas_engine.cpp`, `fas_sampling.cpp`) | phase, base, calibration window, three candidate stamps, buffer state | application change, tick | hysteresis, stamps that outlive the phase they belong to, silence, switches | the base is this game's, is lost and lowered only for cause, no hold is cut short; a steady game settles |
| prediction thread and executor (`main_loop.inc`, `dynamic_tuning.inc` 686–940) | published atomics, last target per cluster | publish, read, pause reset | torn reads, two periods, switch and pause in between | a decision that lasts takes effect, a target is never scaled by another game's output, a pause leaves nothing behind |
| frame source (`fas_sampling.inc` 360–610, `main_loop.inc` 130–176) | surfaces with their samples, primary, index handed over | attach, signal, prune, select, hand over | a lossy ring, surfaces that come and go, three threads that notice a switch at different times | the engine hears its own game's frames, none twice, and all that are kept of the primary |
| thread ledger (`internal.inc`, `runtime.inc`, `monitor.bpf.c`) | records, mask ledger, group ledger, marks, event ring | event, scan, step, rename, release | lost and late events, thread ids reused, EINVAL, two threads alternating | every change can be undone, to what was there before |
| scheduler session (`internal.inc` 4924–5478) | phase, learned assignment, guard | begin, learn, lock, hold, resume, expire | background, pid changes, threads that die, masks rewritten by others | no background thread stays bound, a latch lasts as long as its thread, the lesson ends, the guard wins or yields |
| cluster band (`dynamic_tuning.inc`, `internal.inc` 5971) | applied ceiling, two holds, last seen and last written band | pass, write, read back, yield | other writers between any two steps, a kernel that refuses or cuts | the files converge to the wanted band, an override is short, the ceiling falls gently |
| load stages, limiter (`dynamic_tuning.inc` 232–685, 966–1085) | stages with hysteresis per cluster | pass | mode changes | no oscillation between stages |
| GPU and DDR (`gpu_ddr.inc`) | saved platform values, ours, failure streaks | floor, cap, restore, give up | the platform writes the same nodes | only what still is ours is restored, the cap never undercuts the floor, the cap ends when it is switched off |
| hot reload (`mode_watch.inc` 676–1213) | per file: dirty, stamps, hash, failures | mark, take, check, finish, poll | half-written files, lost inotify events, three readings of one file | no version is lost, the last one is in force in the end, mode and settings go together |
| foreground and scene (`scene_foreground.inc`, `scene_policy.inc`) | cached package and activity | detect | slow and stale answers | – |
| platform limits, hints, tweaks, official state | back-off counters | one-shot writes | other writers | – |
| configuration parsing, logging, sysfs helpers, loader tool, scripts | – | pure I/O | – | – |

`PROJECT.json` lists every component with its status, and under `hazards` the
places where the code is exposed to orders, losses and staleness that tests hardly
reach, each with the properties that would show it going wrong.

## Plan

1. `FasEngine`, then `FasEngineHistory` for statements about the past; proofs. *Done.*
2. `ThreadLedger` and its proofs. *Done.*
3. `FreqBand` and its proofs. *Done.*
4. `FasPhases`, what the executor may rely on of the engine, the refinement that
   shows that `FasEngine` implements it, and on top of it `FasPipeline`:
   publication by single atomics, executor, switch and pause; proofs. *Done.*
5. `ConfigReload`: two watched files with their writers, and the foreground check
   that follows one of them on its own; proofs. *Done.*
6. `DdrLimits`: floor and cap against the platform; proofs. *Done.* The GPU floor is left.
7. `SchedulerSession` with latches, snapshot, guard, scans and switches; proofs. *Done.*
8. `FrameSource`, from the probe to the engine; proofs. *Done.*
9. Left: the load stages and the limiter; the hold machine of `fas_target.cpp`, of
   which nothing reaches a node any more.

## Modules

| module | models | composed with |
|---|---|---|
| `FasPhases` | what `fas_engine_tick` promises: phases, their order, what each asks for | abstract specification |
| `FasEngine` | `fas_engine_on_app_change`, `fas_engine_tick`, the loop of the prediction thread | implements `FasPhases` |
| `FasEngineHistory` | the same, with a history of readings and packages beside it | extends `FasEngine` |
| `FasPipeline` | publication, `reset_fas_prediction_cache`, `handle_dynamic_tuning` with the engine on | extends `FasPhases` |
| `FrameSource` | the probe's ring, the cache of surfaces, what is handed to the engine | hands over what `FasEngine` reads |
| `FreqBand` | `apply_render_band`, `enforce_band_with_yield`, `update_cluster_freq` for one cluster | writes what `FasPipeline` asks for |
| `ThreadLedger` | events, scan, step, rename, binding, restore of the game's threads | – |
| `SchedulerSession` | learning, lock, snapshot, guard, hold, resume | binds through what `ThreadLedger` details |
| `ConfigReload` | `handle_inotify_events`, the reload entries, `process_foreground_app` | – |
| `DdrLimits` | the DDR floor and the DDR cap of `activity_gpu_ddr.inc` | – |

A module `MCx` instantiates `x` for TLC, a module `xProofs` holds the proofs about it.

### FasEngine, FasPhases

`Sleep` is the `usleep` at the end of the loop, `OnAppChange` the branch that finds
another package, and each other action one path through `fas_engine_tick`, named
for its branch: `EmptyTick`, `ShortSilence`, `LongSilence` on no steady frames,
`CalibrateSample`, `CalibrateRestart`, `CalibrateDone`, the `Stable...` and
`Upshift...` actions, `DegradedRecover`, `DegradedRaise`, `SceneHeavy`.

A time stamp is modelled by its age, saturating at the largest bound it is
compared with (`Horizon`), so time is unbounded and the state space finite. What
the sample buffer yields is a reading, a rate of the long window and an interval
of the short one, chosen freely at each tick: the two windows may disagree, as
they do in the code. The median of a window is any of `Intervals` between the
smallest and the largest sample, because the model keeps the set of the samples
and not their number. Two branches of the code cannot be reached and have no
action: the fallback for a lost base in STABLE and DEGRADED (`BaseKnown` shows
it), and a median of at most half a millisecond.

`FasPhases` keeps the package, the phase, the output and whether the package was
announced since the last tick. It says which phase may follow which and what each
may ask for: a calibration the sweet spot, STABLE the floor or one of three
scales, DEGRADED a raise, everything else nothing; and that a new package starts
over. `ImplementsPhases` is the instance of its `Spec` in `FasEngine`. A mistake
in a branch of the engine that leaves the phase of one game to the next breaks it.

### FasPipeline

The prediction thread stores the output field by field (`Store`, in the order of
main_loop.inc 222–235); the executor reads phase and `usable` once per pass
(`ReadPhase`), then the scale, `hold_sweetspot` and `drop_to_floor` for each
cluster (`ReadScale`, `ReadHold`, `Act`); every load and every store is a step of
its own, and the main loop's `Clear` stores field by field as well. What is
published is thus as torn as the code allows. The main loop notices a switch or a
pause between two passes.

Two assumptions on time stand in the module. `Looked`: the main loop, which looks
at the package in front every 30 ms and more often than the engine can finish a
calibration of seconds, notices a switch before the engine does so for the new
game. `CalibrationSeen`: a calibration lasts long enough for at least one pass to
read it. `FramesArrive`: for a package without the engine the probe is detached
(internal.inc:3693–3700), so its ticks find no frames and yield the idle output.

Bounds of clusters, scene, overrides and the headroom of the ceiling are constant, although
the headroom is published and cleared like the other fields (it has the default then); the
load table is one band and the limiter is off. The sweet spot may lie below the floor
`Low`, as a configured deep floor allows (dynamic_tuning.inc:872–877).

### FrameSource

The probe's `Queue` drops a record when the ring is full. The runtime monitor and the
main loop attach the probe (`Refresh`, `Notify`) and empty the ring under `g_mutex`; `Heard` puts the frame time in the
history of its surface, `Prune` forgets surfaces by age and number, `Observe`
chooses the primary one as the prediction thread asks for its frames, and `Sync`
hands over what is past the count it remembers for that surface. The three
threads learn of a switch of application at three different times.

Time is counted in units of 200 ms. A frame time is known by the record that
ended it, and the pace of a surface is left open, so whichever of two close ones
the code would prefer may win. A history begun anew under the address of an old
one loses as many frames as were counted before, and records queued before a
detachment are heard after the same process is attached again: both follow from
the code, and neither breaks a property.

### ThreadLedger

Per thread id the model keeps the kernel's view (alive, name, mask, group), the
record of `g_threads` (known, comm, assigned), and the two ledgers with their
marks. Two fields are history: `writer`, who set the mask, and `from`, what mask
the ledger captured. The daemon's helpers (`Capture`, `Bind`, `RestoreMask`,
`RestoreGroup`, `Seed`, `ClearInherited`, `Rebind`, `StepOn`) are functions from
a thread to a thread, one per function of the code; the actions apply them to one
thread (`HandleEvent`) or to all (`Scan`, `Step`, `ReleasePaused`, `SwitchAway`,
`SwitchBack`), since the code holds `g_mutex` for the whole pass.

The kernel is external: `sched_setaffinity` sets the mask to the part its group
allows and fails when that is empty; attaching a thread to a group gives it the
group's cpus; a child inherits name, mask and group; an id is reused once its old
events are gone from the ring. `Official` and `Move` are the vendor's scheduler and the activity
manager. The event ring drops what does not fit.

Abstracted: nice values, real-time policies and pipeline registration, which have
ledgers of the same shape; persistent background apps; rules with actions
but no cpus. A name without a rule is bound in every step to the cluster of its
class: such a thread is released with its tracking state at runtime.inc:348, which
resets the counters of the back-off at internal.inc:5078 before they can reach
their limit.

### SchedulerSession

The session of one game, from `Begin` over learning and the lock to the hold in the
background and its end. `StepStart` and `Step` are one `run_scheduler_step`: the
look at the pause is before the lock, so a pause may fall between them. `Scan`,
`ForkEvent`, `ExitEvent`, `RefreshPid` and `PausePass` are parts of the runtime
monitor's pass. `Resolve` is the cluster a locked session gives a thread, by latch
or by class; `Guard` puts it back, counts how often it had to, and yields.

A mask is one cluster or all cores. Stamps are flags: `recent` for the cool-down
of a binding, `guarded` for the guard's interval, and three ages of a lesson
(younger than its duration, between that and twice that, older). Whoever rewrites
a mask from outside widens it. Not modelled: rules per thread (they are in
`ThreadLedger`), the mode without dynamic scheduling, threads that a cpuset
limits, `frozen`, the cool-down of a reselection.

What the model shows beside its properties: while a session learns, every step
binds every thread without a rule anew, so no thread is ever past its cool-down and
neither the fast lock nor the stability test ever holds; the lesson ends by its
age (`LearningEnds`). A thread that was yielded keeps the last mask the daemon gave
it, although the log line says that it was handed back (internal.inc 5446–5451).

### FreqBand

One cluster, two files, one pass: `Wait` for the tick, `LoadPass`, `FasPass` or
`HeldPass` compute what is wanted and look at the files, `Skip` or `Write` is
`update_cluster_freq`, `Confirm` the read-back. Vendor (`VendorWrites`) and
thermal driver (`ThermalLimit`) act between any two of them. What a pass asks for
(corridor and band) is an input and changes at any tick. The kernel refuses a
band whose ends are in the wrong order and cuts a maximum to the thermal limit.
It does not restore a cut maximum when the limit is lifted, which is the weaker
of the two behaviours kernels have.

Abstracted: files that cannot be read, log throttling, and the path of
`run_scheduler_step` that writes bands while tuning is off.

### ConfigReload

Two entries, `mode.txt` and the CPU configuration, each in a directory of its own, of
which both, one or none can be watched (`Watch`). A writer replaces a file by a
rename, deletes it, or truncates, writes and closes it; each leaves events that may
overflow the queue. `Select` is `handle_inotify_events` or, where there is no
watch, the poll of the hashes; `Take` the choice of a due entry with its hash,
`ReadMode`, `CheckPasses`/`CheckFails` and `Load` the three readings that follow,
with writers at work in between; `Foreground` is `process_foreground_app`, which
reads `mode.txt` for itself. `Given` is what a CPU configuration has for a mode: the
mode's own settings, else those of balance, else nothing, and then `LoadSettings`, which
both use, has no effect although its caller commits the reload. What the loader takes from
the files beside the CPU configuration is left out. Debounce, cool-down and back-off are a wait of unknown
length (`Elapse`), so what holds does so for all of their values; the poll is
assumed to be rarer than the debounce, as its constants are.

`WritesAtStart` allows writes between the first load and the moment the hashes are
primed, `Reverts` allows a writer to bring an earlier content back. Both are FALSE in
the run and in the proofs: with either the properties fail (see below).

### DdrLimits

`FloorPass` and `FloorVerify` are the floor's half of a tick, `CapPass` and
`CapVerify` the cap's; what the code reads of a node and writes to it in one go is
one step, and the platform moves between a write and its read-back. `SwitchProfile` is
`apply_ddr_settings`, `Edit` changes `ddr_gpu_cap.conf`, `GpuChanges` the load
the cap follows. `before` is history: what a node held when the cap last took it.

`SameStamps` lets an edit keep the file's time and size, which the code would miss;
it is FALSE in the run. Not modelled: the GPU floor (794–817) and ceiling and the
boost vote (1291–1308). A pause leaves the cap in place (1321), and a daemon
killed by a signal gives nothing back.

## Runs

Times are below five minutes each on a two-core machine.

| run | states | what it asks |
|---|---|---|
| `fas_history` | 143 443 | is the base always the current game's, lost and lowered only for cause, is no hold cut short, does the engine implement `FasPhases` |
| `fas_live` | 28 313 | does DEGRADED end, does a steady game settle |
| `pipeline` | 413 676 | however torn the reads: does a lasting decision take effect, is a target only scaled by its own game's output, is a pause clean |
| `frames` | 1 067 106 (with symmetry) | does the engine get frames of its own game only, none twice, none left out |
| `ledger` | 65 309 | with a group that refuses masks, moves and a ring of two: can every binding be undone, is the baseline never ours, do threads end up with their masks |
| `ledger_open` | 228 915 | when no group refuses: does every bound thread have a record, does it get its mask back |
| `ledger_moves` | counterexample | a comment of the ledger |
| `session` | 137 306 | is no background thread bound, does a latch last exactly as long as its thread, does the lesson end, do guard and pause win |
| `session_resume` | counterexample | a comment of the guard |
| `band` | 137 652 | is an override short, does the ceiling fall gently, do the files converge |
| `reload` | 871 548 | is no version lost, are the settings in force those of the current file and mode, is the last version in force in the end |
| `gpu_ddr` | 397 530 | does the cap give back what it took, respect the floor, hold, and end |

The type invariants of `FasEngine`, `ThreadLedger`, `FreqBand`, `ConfigReload` and
`DdrLimits` are proved and not repeated in the runs.

**Bounds.** *Engine*: two packages; intervals of 17, 33 and 60 ms, that is a
rate above, at and below the 20 fps limit of the calibration; rates on both sides
of the two tolerances; bounds of 2 to 5 time units and sleeps of 1 or 2, so that a
stamp can be just short of, at and beyond each bound, and so that the order of the
bounds is that of the code. Time and the number of ticks are unbounded.
*Pipeline*: two games with the engine, so that one's output can meet the other's
target, and a package without it, for which the executor passes by; one cluster, one
raise; torn reads and writes are unbounded.
*Frames*: two processes of one game, so that it can restart, and one of another;
two surfaces with room for one in the cache (`Limit` 1; a run with room for two has
2 995 456 states and passes as well), a ring and a history of two, a clock of four
units, which is beyond the age at which a surface is stale, and two disturbances
(launch, pause, switch). The symmetry exchanges the surfaces and the processes of
one game; the run has no liveness property.
*Ledger*: two ids, of which either can be the parent of the other and be reused;
two names, with and without a rule; three CPUs and two Android groups, of which
one refuses the rule's mask in `ledger` and none does in `ledger_open`; four to
six steps of the environment, enough for fork, rename, exit, reuse and a switch
in one behaviour; steps of the daemon are unbounded.
*Session*: one process with three threads, two of which compete for one role, and
two disturbances; the guard yields after two repairs (five in the code); the
daemon's steps are unbounded. `session_resume` takes two threads and two
clusters.
*Band*: a table of four frequencies with uneven gaps; a frame-aware pass that asks
for little and one that asks for much, a load pass outside games, and a corridor
above the policy's maximum, which a configuration can produce; two vendor bands;
two thermal limits; holds of 2 and 3 ticks.
*Reload*: two files with two versions each beside missing and broken ones, two
packages, three modes; every entry is due after an unknown wait. The two CPU
configurations have settings for some of the modes, so that a load finds the mode, falls
back to balance, or finds neither.
*DDR*: two nodes, three levels, two profiles, giving up after two overwritten writes
(five in the code), two writes of the platform and one edit.

**Deadlock** is checked in `fas_history`, `fas_live`, `pipeline`, `ledger`,
`ledger_open`, `ledger_moves`, `band` and `reload`: the daemon never stops. The
other four switch it off: in `frames` the bounded clock ends, in `gpu_ddr` the
daemon may exit, and in the two runs of the session it has nothing to do once the
game is gone and the disturbances are used up.

**Fairness.** The engine's `Sleep` and `Tick`; the pipeline's `PredictorStep` and
`Pass`; the ledger's `HandleEvent`, `Scan` and `Step`; the session's step, the
monitor's `Pass` and the passing of time (`GuardDue`, `CoolDown`, `Ages`); the
band's `MainLoop`; the reload's `MainLoop` and `Elapse`; the limits' `MainLoop` and
`Elapse` are weakly fair: each is the body of a loop that runs while the daemon does
and waits for nothing but `usleep` and locks, or a wait that is over after its time.
The lock is assumed to be granted in the end: while the daemon is paused the monitor
sleeps with `g_mutex` held and takes it again at once (runtime.inc:86), and whether
the main loop gets it in between rests on the platform's mutex; `PauseReleases` needs
only the step that has begun to end. In the session the cool-down is fair only once
the session is locked, because until then each step renews it. No fairness is put on
the kernel, the vendor, the games, the writers or the events, and no property needs
one: the liveness properties have as a premise that these come to rest.

**Mutants.** Each property of a passing run has a mutant in the module it is
about, marked `Mutant:`: a change of one definition that a plausible mistake in
that code would make, under which the property fails.

## Disagreements with comments and documents

Where a comment or document promises more than the code does, the promise is stated
as a property at the end of its module and TLC refutes it. Two of them are runs:

- `MovesAreUndone` (`ledger_moves`): a thread moved into a dedicated group for the
  second time stays there.
- `LockedBinds` (`session_resume`): the threads of a locked game that returns from the
  background are tracked afresh, the guard passes over threads that were never
  assigned, and the assignment is skipped because the guard has run. The game stays
  unbound until its session ends.

The others are refuted under the constants of the passing runs unless noted:

| property | the promise | the code |
|---|---|---|
| `CalibrationDeadline` | fas_engine.cpp:62, a calibration is accepted after 20 s | the restart at 309–311 resets the stamp the 20 s are measured from |
| `SceneHeavyLowersBase` | fas_engine.cpp:33–34, a heavy scene lowers the base | 439–451 take the new base from the short window, which may be faster |
| `OneDropPerOutput` (`QuickDrop` FALSE) | fas_engine.cpp:27, 8 % every 200 ms | dynamic_tuning.inc:910 applies the published scale on every pass |
| `LedgerOfThisThread` | internal.inc:2226, an entry is dropped when its thread exits | 3912 drops only entries of threads with a record |
| `BaselineIsNotInherited` | internal.inc:2360, an inherited mask is never a baseline | a scan and a step before the fork event capture it (2232) |
| `ReclaimsAtOnce` | dynamic_tuning.inc:78, games take the band back at once | internal.inc:5971–5986 trust the last write for a second |
| `DeadLatchGoes` (`ExitEvents` FALSE) | internal.inc:214 and 4108, the scan does without events | 4834–4841 keep a latched thread that 832–851 believe alive because its record was kept |
| `DeletedTurnsOff` | CHANGELOG.md:42 and gpu_ddr.inc:1034, a deleted configuration ends the cap | the defaults of a missing file enable it (851, 880–884) |
| `FloorOnlyTightens` | gpu_ddr.inc:781, the floor is only ever raised | 826–836 compare with the saved value, not with the node |
| `NoLostUpdate` (`WritesAtStart`) | CHANGELOG.md:47 | a write between the first load and the priming of the hashes is taken for loaded |
| `SettingsFollowMode`, `Converges` (`Reverts`) | the same | diaodu.cpp:1665–1670 make a mode current although mode_watch.inc:204–260 returned without loading it, and the hash of the file that comes back is the one committed |
| `LoadedOrPending` | mode_watch.inc:981–982, the check of the JSON decides whether a load can succeed, and an entry whose load cannot stays marked | a CPU configuration that parses but has neither the mode nor balance loads nothing (262–275) and is committed all the same (983–988, 1123–1131); `SettingsFollowMode` and `Converges` except it by name |
| `MissingFallsBack` | mode_watch.inc:978, without mode.txt the mode is balance | `get_mode_for_package` says powersave, and the foreground check wins |
| `DropsTheOldest` | fas_sampling.inc:425, a surface is forgotten when it is old | the age is an unsigned difference: a late signal makes every younger surface old |

Met while modelling and not stated as a property:

- With `quick_drop` the raise by occupancy (fas_engine.cpp:36–37) has no effect: the
  executor obeys `drop_to_floor` first (dynamic_tuning.inc:903).
- A reload of `mode.txt` applies the global line to an application that has a mode of its
  own, until the next foreground check.
- The watch mask (main_loop.inc:278–279) lacks the events mode_watch.inc:1153–1158
  waits for; deleting the other configurations does not fall back to defaults although
  the comments at mode_watch.inc:1166 and main_loop.inc:272 say so.
- The DDR floor's base is captured once (gpu_ddr.inc:822–828) and not written back at
  exit, nor once the node was given up.

## Proofs

Every safety invariant and every action property a passing run checks is a theorem, for
every value of the constants that satisfies the named assumptions (`FasAssumption`,
`PhasesAssumption`, `PipelineAssumption`, `LedgerAssumption`, `TableAssumption`,
`BandAssumption`, `ReloadAssumption`, `DdrAssumption`, `SourceAssumption`,
`SessionAssumption`): bounds are
positive, tables are not empty and have a highest and a lowest entry, rules and groups
are over the cpus there are. Some theorems on the ledger and on the reload have a further
hypothesis, named below. TLC evaluates the assumptions in every run.

**FasEngine** (`EngineInvariant`, `EngineImplementsPhases`). The inductive invariant is
`TypeOK /\ BaseKnown /\ CandidatesOfThisStay`. The candidates need the types (ages
saturate at the same horizon) and the base needs the phase; nothing else is
needed. `BaseFallsOnlyWhenHeavy` follows action by action: only `UpshiftAccept`
and `SceneHeavy` replace a known base, and the first raises it by its guard. The
refinement maps each action to a step of `FasPhases` or a stutter, again action by
action; `RaisesAreRaises` shows that the scales the engine computes for DEGRADED are
raises, which is what `FasPhases` assumes of its constants.

Three properties speak of the past: `BaseIsOfThisGame`, `ShortSilencesKeepBase` and
`OnlySustainedLossDegrades`. They are proved of `FasEngineHistory`, each of whose
behaviours is one of the engine (`HistoryAddsNothing`), from the engine's invariant
and `HInv`: the base and its window are of the package in front; with a base known there
has been a usable reading, and the silence that is timed is no longer than the time since
it; and in STABLE the hold that runs is no longer than the stretch of low readings. Both
times count in step, which is why one bounds the other.

**FasPipeline** (`PipelineInvariant`, `PipelineTypeCorrect`, `PauseLeavesNothing`,
`NoCrossGameTarget`). That a pause leaves nothing behind is a matter of how far the two
threads have come (`Turn`): a prediction thread that has announced nothing is asleep and
publishes nothing, so that from the first store of the transition that ends the pause on
nothing usable stands (`Cleared`). That a target is scaled for
its own game needs a chain: the scale published after an announcement is the announced
package's (`OwnerKnown`); the engine only asks for another scale than 1 after a
calibration, during which a pass has set every target (`Measured`); so such a scale meets
only targets of its owner when it is published (`ScaleIsOwners`), and still when a pass that
read it acts on it (`ReadIsOwn`), for a switch clears targets and cells before the next
pass. It needs that the engine asks for
nothing while a package without it is in front (`FramesArrive`), since then no pass sets the
targets. The theorem is about any number of clusters, of which the run has one.

**ThreadLedger** (`LedgerInvariant`). The invariant is one predicate on a single
thread, `Sound`: a live thread has a mask and a group, a mark implies an entry, a
mask of ours implies a mark, and the captured mask was not ours. The
last two need each other: `Capture` takes the current mask only when the ledger has
no entry, and then, since a mask of ours would be marked and a mark implies an
entry, the current mask is not ours. `Preserved` gathers the lemmas, one per
helper, that a sound thread stays sound; the step of the specification follows
thread by thread.

`NothingOrphaned` and `MasksAreGivenBack` need that the kernel refuses no mask, since with
a refusal the code does lose threads. `NoneRefused` says this of the constants: every mask
that a rule, a class or the vendor asks for has a CPU that all groups allow. `ledger_open`
has such constants, `ledger` has not: its background group refuses the mask of a rule. The
invariant is again one predicate on a thread, `Fitting`: its mask and the one on record can
be set in any group, it was never moved by the daemon, and with a mask of ours it has a
record. Under it each call of the helpers succeeds, so the release sets what is on record.

**FreqBand** (`BandInvariant`, `OverrideBounded`). That an override is short is not
inductive: it rests on what the time stamps say of one another. `Overridden`
adds that files that differ are either covered by the trust in the last write
(`Fresh`), or waiting for the end of a hold that began soon enough (`SinceHold`),
or about to be looked at by this very pass. `Rounding`, `WantNat`, `ClampBand` and
`PutBandWorks` state what the helpers on the table and on the two files return;
`PutBandWorks` is where the order of the two writes matters.

`FallIsGradual` compares the ceilings of two passes of a run. In a run the wanted ceiling
is what the last one applied comes to under the present request (`Steady`), and a move
of it has its time stamp, as a raise or as a fall (`MovedSince`); then a fall of the ceiling is a
fall of what is applied, by one step and after one of the two holds (`FasPassMoves`), and rounding
to the table is monotone (`RoundDownMonotone`), so it keeps the step.

**SchedulerSession** (`SessionInvariant`, `BackgroundIsFree`, `LatchesLast`). That nothing
of a background game is bound rests on where the living threads belong (`Living`: to the
process that runs, and a thread yet to be born has no mask of ours waiting for it), on
the process in front being cleared at a switch (`NoFront`), and on what a session may
hold (`Good`: its latches are threads of its own process, an idle one has none), for the
guard writes by the session's word. `Yielding` is what bounds the streak. The lemmas
first say what each helper does to a session (`UnlatchGood` up to `UpdatedGood`), then
the step is taken concern by concern: the session (`SessionNext`, which is also
`LatchKept`), the books (`BooksNext`), the masks (`MasksNext`).

**ConfigReload** (`NothingLost`, `ModeNotForgotten`), for `Orderly` constants: nobody
writes before the watches are placed, nobody brings an earlier content back. Between
two visits the hash of an entry is that of its file unless something is pending; the
strengthening says what this becomes within a visit, when the hash is taken, the
content moves on and the event for it is unread, and what the foreground check may
assume of the settings it leaves alone: while what the file gives for the mode is not in
force (`NoMismatch` fails), its hash is not the one committed, or the mode's own attempt is
under way (`MismatchIsNew`). The proofs make no assumption on which modes a
configuration has (`SettingsOf`); `ModeNotForgotten` says nothing of a file that gives
nothing for the mode.

**DdrLimits** (`CapIsGivenBack`, `MaximumOverMinimum`). The invariant says for each
place in the tick what stands in the nodes: which of them were touched since the last
write (`Applied`, `ReadBack`), that a node the platform left alone holds ours while the
cap holds it (`Held`), and that every target is computed over the floor in force
(`FloorIsApplied`, `OverFloor`).

**FrameSource** (`FramesAreOwn`, `NoFrameTwice`, `EverythingKeptIsHandedOver`). Records
in the ring are in order and a history is the tail of what was heard (`RingOrder`, `Histories`); what the prediction thread
remembers of the last surface names the frames it has handed over (`Remembered`), so that
those past the count are new ones (`UnseenIsNew`); and the frames of a call, between
the choice of the surface and the hand-over, are the called package's (`FedIsOwn`,
`PassBegins`). That nothing is left out is the converse: as long as the history holds a
frame of the last pass, the frames counted are those that pass saw (`SeenIsMarked`). It
is no more than that because a history begun anew under the address of an old one starts its
count again, and its first frames are then indeed passed over.

**Only model-checked** is what is temporal beyond `[]`, for liveness under fairness and
`ENABLED` are out of the prover's reach: `DegradedEnds`, `Settles`, `DecisionTakesEffect`,
`PauseClears`, the two `Converges`, `Regains`, `LearningEnds`, `GuardRepairs`,
`PauseReleases`, `DeadLatchGoes`, `CapHolds` and `TurnsOff`. So are inductions over data and
recursive operators, of which the modules have none. `NothingOrphaned` and
`MasksAreGivenBack` hold under `NoneRefused` only, and the theorems on the reload for
`Orderly` constants only; without these hypotheses the properties fail, as the comments of
`ThreadLedger` and the table of disagreements say.

## Not modelled

Beside what the plan has left: parsing of configurations and of `dumpsys`, scene
categories, one-shot writes of vendor nodes, the GPU's floor and ceiling, logging, the
stand-alone loader, the installer's scripts and vendored code. They hold no state whose
order matters, or only hand their result to the parts that are modelled, or repeat the
pattern of one that is. Of the sources beside this directory more than nine tenths by line are the
kernel's types (`vmlinux.h`), the generated skeleton of the eBPF programs and a JSON
parser; the daemon itself is some 23 000 lines, a good part of them logging, parsing and
path tables.
