-------------------------- MODULE SchedulerSession --------------------------
(***************************************************************************)
(* The scheduler's session with a game: a learning time in which every     *)
(* thread is bound anew on each step, then a lock, a snapshot of one       *)
(* cluster per class of threads which a guard keeps in force, and a hold    *)
(* while another application is in front.  Three parties share it under     *)
(* g_mutex: the main loop (foreground changes and scheduler steps), the     *)
(* runtime monitor (process events, scans, the release while paused) and    *)
(* the game, whose threads come and go and whose masks others rewrite.      *)
(*                                                                         *)
(* Modelled is dynamic scheduling without thread rules, the one game of     *)
(* interest, an application that is no game, and a rival game that only     *)
(* takes the foreground.  A mask is a cluster or Full; whoever rewrites one *)
(* widens it.  Times are flags that GuardDue and CoolDown clear and the age  *)
(* of the lesson, which Ages advances.                                      *)
(***************************************************************************)
EXTENDS Integers, FiniteSets

CONSTANTS
    Pids,           \* the game runs as 1, then as 2 ... of 1..Pids
    Names, Leader,  \* the threads a process of it may have, and its first
    RoleOf,         \* the class each name gives (classify_thread_role_for_lock)
    Clusters, Full, \* the masks: one per cluster, and every core
    None,
    YieldStreak,    \* kGuardYieldStreak
    ExitEvents,     \* the kernel object reports the exits of threads
    Budget          \* the disturbances from outside

Roles == {"main", "render", "burst", "background"}
Primary == {"main", "render"}
Tids == (1..Pids) \X Names
PidOf(t) == t[1]
Role(t) == RoleOf[t[2]]

ASSUME SessionAssumption ==
    /\ Pids \in Nat \ {0} /\ YieldStreak \in Nat \ {0} /\ Budget \in Nat
    /\ Leader \in Names /\ RoleOf \in [Names -> Roles] /\ ExitEvents \in BOOLEAN
    /\ Full \notin Clusters /\ None \notin Clusters \cup Tids

VARIABLES
    fg,             \* g_foreground_package: game, rival or other
    running,        \* the game's process, 0 when there is none
    born, live,     \* its threads, and those still there
    mask,           \* the kernel's mask of each thread
    front_pid,      \* g_foreground_pid, 0 when it is not known
    known,          \* g_threads
    assigned,       \* assigned_cluster of each
    streak, yielded, \* guard_reapply_streak, guard_yielded
    recent,         \* threads whose last_migrate_ms is within the cool-down
    session,        \* g_scheduler_session
    paused,         \* should_pause_our_game_scheduler
    stepping,       \* a scheduler step is past its check of paused
    budget

game == <<fg, running, born, live>>
threads == <<known, assigned, streak, yielded, recent>>
vars == <<game, mask, front_pid, threads, session, paused, stepping, budget>>

Idle == [phase |-> "idle", pid |-> 0, locked |-> FALSE,
         latch |-> [r \in Primary |-> None],
         class |-> [r \in Roles |-> None], age |-> 0, guarded |-> FALSE]

\* The first foreground check after the start is made.
Init ==
    /\ fg \in {"game", "other"} /\ running = 0 /\ born = {} /\ live = {}
    /\ mask = [t \in Tids |-> Full] /\ front_pid = 0
    /\ known = {} /\ assigned = [t \in Tids |-> None]
    /\ streak = [t \in Tids |-> 0] /\ yielded = {} /\ recent = {}
    /\ session = Idle /\ paused = FALSE /\ stepping = FALSE /\ budget = Budget

(***************************************************************************)
(* The latched threads and the assignment of a thread.                     *)
(***************************************************************************)
\* Mutant: a thread that is not in the books is gone.
AliveIfKnown(s, t) == PidOf(t) = s.pid /\ t \in known

Alive(s, t) == PidOf(t) = s.pid /\ t \in known \cup live

\* The session without the latches of a set of threads, their classes invalid
\* and the guard due.
Unlatch(s, ts) ==
    IF \A r \in Primary : s.latch[r] \notin ts THEN s
    ELSE [s EXCEPT !.latch = [r \in Primary |-> IF @[r] \in ts THEN None ELSE @[r]],
                   !.class = [r \in Roles |-> IF r \in Primary /\ s.latch[r] \in ts
                                              THEN None ELSE @[r]],
                   !.guarded = FALSE]
ClearInvalid(s) == Unlatch(s, {t \in Tids : ~Alive(s, t)})

\* The cluster the lock gives a thread: that of its role, or else the
\* background's; none if another thread is latched for its role.
Resolve(s, t) ==
    LET role == Role(t)
    IN  IF role \in Primary /\ s.latch[role] \notin {None, t} THEN None
        ELSE IF s.class[role] # None THEN s.class[role]
        ELSE s.class["background"]

\* Whom a snapshot may take for a role: the busiest of its threads that have a
\* cluster, which may be any of them, or the latched one if that has a cluster.
Candidates(s, r) ==
    LET named == {t \in known : PidOf(t) = s.pid /\ assigned[t] # None /\ Role(t) = r}
        pinned == {t \in named : r \in Primary /\ s.latch[r] = t}
    IN  IF pinned # {} THEN pinned ELSE named
Picks(s) ==
    LET roles == {r \in Roles : Candidates(s, r) # {}}
    IN  {best \in [roles -> known] : \A r \in roles : best[r] \in Candidates(s, r)}
Snapshot(s, best) ==
    LET picked == DOMAIN best
    IN  [s EXCEPT
            !.class = [r \in Roles |-> IF r \in picked THEN assigned[best[r]] ELSE None],
            !.latch = [r \in Primary |-> IF @[r] = None /\ r \in picked THEN best[r] ELSE @[r]],
            !.phase = IF picked = {} THEN @ ELSE "locked",
            !.locked = @ \/ picked # {},
            !.guarded = @ /\ picked = {}]
Snapshots(s) == {Snapshot(ClearInvalid(s), best) : best \in Picks(ClearInvalid(s))}

(***************************************************************************)
(* What a step does to the session before it touches a thread.             *)
(***************************************************************************)
Begin == {[Idle EXCEPT !.phase = "learning", !.pid = front_pid]}
Resume(s) == {[s EXCEPT !.phase = IF s.locked THEN "locked" ELSE "learning"]}

\* A latch is lost and a thread with a cluster could have it.
Reselect(s) == \E r \in Primary : s.latch[r] = None /\ Candidates(s, r) # {}
KeepLock(s) == LET v == ClearInvalid(s) IN IF Reselect(v) THEN Snapshots(v) ELSE {v}

\* No write of late, and for the fast lock also two roles, a primary one among
\* them, whose threads have the masks they were given.
Stable(s) == \A t \in known : PidOf(t) = s.pid /\ assigned[t] # None => t \notin recent
FastPick(best) ==
    /\ DOMAIN best \cap Primary # {} /\ Cardinality(DOMAIN best) >= 2
    /\ \A r \in DOMAIN best : best[r] \notin recent /\ mask[best[r]] = assigned[best[r]]
\* Mutant: the lesson has no end of its own.
LockNowOnlyStable(s) ==
    \/ s.age >= 1 /\ \E best \in Picks(s) : FastPick(best)
    \/ s.age >= 2 /\ Stable(s)
LockNow(s) ==
    \/ s.age >= 1 /\ \E best \in Picks(s) : FastPick(best)
    \/ s.age = 2 /\ Stable(s)
    \/ s.age = 3
Learn(s) == IF LockNow(s) THEN Snapshots(s) ELSE {s}

Updated(s) ==
    IF fg # "game" \/ front_pid = 0 THEN {s}
    ELSE IF s.phase = "idle" \/ s.pid # front_pid THEN Begin
    ELSE IF s.phase = "hold" THEN Resume(s)
    ELSE IF s.phase = "locked" THEN KeepLock(s)
    ELSE Learn(s)

(***************************************************************************)
(* A scheduler step: the check of the session's process and of the pause,  *)
(* then, under the lock again, the guard of a lock or the binding of all.   *)
(***************************************************************************)
\* Mutant: the step does not ask whether it is paused.
StepStartUnchecked ==
    /\ ~stepping /\ stepping' = TRUE
    /\ session' = IF session.pid # 0 /\ session.pid # running THEN Idle ELSE session
    /\ UNCHANGED <<game, mask, front_pid, threads, paused, budget>>

StepStart ==
    /\ ~stepping
    /\ session' = IF session.pid # 0 /\ session.pid # running THEN Idle ELSE session
    /\ stepping' = ~paused
    /\ UNCHANGED <<game, mask, front_pid, threads, paused, budget>>

Guarding(s) == s.phase = "locked" /\ fg = "game" /\ s.pid = front_pid
Checked(s) == {t \in known : /\ PidOf(t) = s.pid /\ assigned[t] # None
                             /\ t \notin yielded /\ Resolve(s, t) # None}
\* Mutant: the guard looks at the books instead of the mask.
OffByBooks(s, t) == t \notin live \/ assigned[t] # Resolve(s, t)
Off(s, t) == t \notin live \/ mask[t] # Resolve(s, t)

\* guard_locked_assignments_locked; a thread that is rewritten too often in a
\* row is left to the other side.
Guard(s) ==
    LET due == IF s.guarded THEN {} ELSE Checked(s)
        again == {t \in due : Off(s, t) /\ t \notin recent /\ t \in live}
    IN  /\ session' = [s EXCEPT !.guarded = TRUE]
        /\ mask' = [t \in Tids |-> IF t \in again THEN Resolve(s, t) ELSE mask[t]]
        /\ assigned' = [t \in Tids |-> IF t \in again THEN Resolve(s, t) ELSE assigned[t]]
        /\ streak' = [t \in Tids |-> IF t \in again THEN streak[t] + 1
                                     ELSE IF t \in due /\ ~Off(s, t) THEN 0 ELSE streak[t]]
        /\ yielded' = yielded \cup {t \in again : streak[t] + 1 >= YieldStreak}
        /\ recent' = recent \cup again
        /\ UNCHANGED known

\* The primary threads a binding may latch for the roles without one.
Latches(s, bound) ==
    {l \in [Primary -> Tids \cup {None}] :
        \A r \in Primary :
            \/ l[r] = s.latch[r]
            \/ s.latch[r] = None /\ s.pid = front_pid /\ l[r] \in bound /\ Role(l[r]) = r}

\* Without a rule every thread is released first, its tracking with it, and
\* those of the foreground process get the cluster their class scores best on.
Bind(s) ==
    LET v == ClearInvalid(s)
        bound == {t \in known : PidOf(t) = front_pid /\ t \in live}
    IN  /\ \E target \in [bound -> Clusters] :
              /\ mask' = [t \in Tids |-> IF t \in bound THEN target[t]
                                         ELSE IF t \in known THEN Full ELSE mask[t]]
              /\ assigned' = [t \in Tids |-> IF t \in bound THEN target[t] ELSE None]
        /\ \E l \in Latches(v, bound) : session' = [v EXCEPT !.latch = l]
        /\ streak' = [t \in Tids |-> 0] /\ yielded' = {} /\ recent' = bound
        /\ UNCHANGED known

Step ==
    /\ stepping /\ stepping' = FALSE
    /\ \E s \in Updated(session) :
          \/ Guarding(s) /\ Guard(s)
          \/ ~Guarding(s) /\ Bind(s)
    /\ UNCHANGED <<game, front_pid, paused, budget>>

(***************************************************************************)
(* The runtime monitor and the foreground changes of the main loop.        *)
(***************************************************************************)
\* Mutant: the time of the last write outlives the record.
ForgetKeepsMigration(ts) ==
    /\ assigned' = [t \in Tids |-> IF t \in ts THEN None ELSE assigned[t]]
    /\ streak' = [t \in Tids |-> IF t \in ts THEN 0 ELSE streak[t]]
    /\ yielded' = yielded \ ts /\ UNCHANGED recent
\* The tracking of a set of threads as it is for one never seen before.
Forget(ts) ==
    /\ assigned' = [t \in Tids |-> IF t \in ts THEN None ELSE assigned[t]]
    /\ streak' = [t \in Tids |-> IF t \in ts THEN 0 ELSE streak[t]]
    /\ yielded' = yielded \ ts /\ recent' = recent \ ts
Restore(ts) == mask' = [t \in Tids |-> IF t \in ts THEN Full ELSE mask[t]]

\* The tail of notify_foreground_app_changed and refresh_bpf_targets_now.
Notified(s, next) ==
    IF s.phase = "idle" \/ next = "game" THEN s
    ELSE IF next = "rival" THEN Idle
    ELSE [s EXCEPT !.phase = "hold"]
\* Mutant: the books are cleared before the masks are given back.
ForegroundChangeClearsFirst(next) ==
    /\ ~stepping /\ next # fg /\ budget > 0
    /\ fg' = next /\ session' = Notified(session, next)
    /\ front_pid' = IF next = "game" /\ ~paused THEN running ELSE 0
    /\ known' = {t \in live : front_pid' # 0}
    /\ Restore(known') /\ Forget(Tids)
    /\ budget' = budget - 1
    /\ UNCHANGED <<running, born, live, paused, stepping>>
ForegroundChange(next) ==
    /\ ~stepping /\ next # fg /\ budget > 0
    /\ fg' = next /\ session' = Notified(session, next)
    /\ Restore(known) /\ Forget(Tids)
    /\ front_pid' = IF next = "game" /\ ~paused THEN running ELSE 0
    /\ known' = {t \in live : front_pid' # 0}
    /\ budget' = budget - 1
    /\ UNCHANGED <<running, born, live, paused, stepping>>

RefreshPid ==
    /\ ~paused /\ fg = "game" /\ front_pid # running
    /\ front_pid' = running
    /\ UNCHANGED <<game, mask, threads, session, paused, stepping, budget>>

\* collect_foreground_threads_locked; a latched thread that is still in the
\* books stays there whatever the scan has seen.
Seen == {t \in live : PidOf(t) = front_pid}
Kept(s) == {t \in known : PidOf(t) = s.pid /\ \E r \in Primary : s.latch[r] = t}
Scan ==
    /\ ~paused /\ fg = "game"
    /\ LET v == ClearInvalid(session)
           gone == IF Seen = {} THEN known ELSE known \ (Seen \cup Kept(v))
       IN  /\ known # Seen \/ session # v
           /\ session' = IF Seen = {} THEN session ELSE v
           /\ Restore(gone) /\ Forget(gone)
           /\ known' = (known \ gone) \cup Seen
    /\ UNCHANGED <<game, front_pid, paused, stepping, budget>>

ForkEvent(t) ==
    /\ ~paused /\ fg = "game" /\ t \in live \ known /\ PidOf(t) = front_pid
    /\ known' = known \cup {t}
    /\ UNCHANGED <<game, mask, front_pid, assigned, streak, yielded, recent,
                   session, paused, stepping, budget>>

\* Mutant: the event leaves the latched threads to the scan.
ExitEventKeepsLatched(t) ==
    /\ ExitEvents /\ ~paused /\ fg = "game" /\ t \in known \ (live \cup Kept(session))
    /\ known' = known \ {t} /\ Forget({t})
    /\ UNCHANGED <<game, mask, front_pid, session, paused, stepping, budget>>
ExitEvent(t) ==
    /\ ExitEvents /\ ~paused /\ fg = "game" /\ t \in known \ live
    /\ session' = Unlatch(session, {t})
    /\ known' = known \ {t} /\ Forget({t})
    /\ UNCHANGED <<game, mask, front_pid, paused, stepping, budget>>

\* sync_render_thread_targets_locked, whichever application is in front.
SyncTargets ==
    /\ ~paused /\ session # ClearInvalid(session)
    /\ session' = ClearInvalid(session)
    /\ UNCHANGED <<game, mask, front_pid, threads, paused, stepping, budget>>

\* The monitor's pass while paused, once a second.
PausePass ==
    /\ paused /\ \E t \in known : mask[t] # Full
    /\ Restore(known)
    /\ UNCHANGED <<game, front_pid, threads, session, paused, stepping, budget>>

(***************************************************************************)
(* Time, the game and the others.                                          *)
(***************************************************************************)
GuardDue ==
    /\ session.guarded /\ session' = [session EXCEPT !.guarded = FALSE]
    /\ UNCHANGED <<game, mask, front_pid, threads, paused, stepping, budget>>
CoolDown ==
    /\ recent # {} /\ recent' = {}
    /\ UNCHANGED <<game, mask, front_pid, known, assigned, streak, yielded,
                   session, paused, stepping, budget>>
Ages ==
    /\ session.phase \in {"learning", "hold"} /\ ~session.locked /\ session.age < 3
    /\ session' = [session EXCEPT !.age = @ + 1]
    /\ UNCHANGED <<game, mask, front_pid, threads, paused, stepping, budget>>

NextPid == Cardinality({PidOf(t) : t \in born}) + 1
Launch ==
    /\ running = 0 /\ NextPid <= Pids
    /\ running' = NextPid
    /\ live' = {<<NextPid, Leader>>} /\ born' = born \cup live'
    /\ UNCHANGED <<fg, mask, front_pid, threads, session, paused, stepping, budget>>
Spawn(t) ==
    /\ PidOf(t) = running /\ t \notin born
    /\ born' = born \cup {t} /\ live' = live \cup {t}
    /\ UNCHANGED <<fg, running, mask, front_pid, threads, session, paused, stepping, budget>>
Exit(ts) ==
    /\ live' = live \ ts /\ Restore(ts)
    /\ running' = IF live' = {} THEN 0 ELSE running
    /\ UNCHANGED <<fg, born, front_pid, threads, session, paused, stepping, budget>>

\* Somebody widens the mask of a thread.
Rewritten(t) ==
    /\ budget > 0 /\ t \in live /\ mask[t] # Full
    /\ Restore({t}) /\ budget' = budget - 1
    /\ UNCHANGED <<game, front_pid, threads, session, paused, stepping>>
Pause ==
    /\ budget > 0 /\ paused' = ~paused /\ budget' = budget - 1
    /\ UNCHANGED <<game, mask, front_pid, threads, session, stepping>>

Disturbance ==
    \/ \E next \in {"game", "rival", "other"} : ForegroundChange(next)
    \/ \E t \in Tids : Spawn(t) \/ Rewritten(t)
    \/ Launch \/ Pause
    \/ \E t \in live : t[2] # Leader /\ Exit({t})
    \/ running # 0 /\ Exit(live)
Pass == RefreshPid \/ Scan \/ PausePass \/ \E t \in Tids : ExitEvent(t)
Monitor == Pass \/ SyncTargets \/ \E t \in Tids : ForkEvent(t)
Time == GuardDue \/ CoolDown \/ Ages
Next == StepStart \/ Step \/ Monitor \/ Time \/ Disturbance

\* The main loop steps, time goes on and the monitor's thread makes its passes
\* as long as they find something to do.  The lesson ages, but as its every
\* step writes every thread anew the last writes need not cool down before it
\* ends.
Fairness ==
    /\ WF_vars(StepStart \/ Step)
    /\ WF_vars(Pass)
    /\ WF_vars(GuardDue) /\ WF_vars(session.phase = "locked" /\ CoolDown) /\ WF_vars(Ages)
Spec == Init /\ [][Next]_vars /\ Fairness

TypeOK ==
    /\ fg \in {"game", "rival", "other"} /\ running \in 0..Pids /\ front_pid \in 0..Pids
    /\ live \subseteq born /\ born \subseteq Tids /\ known \subseteq Tids
    /\ mask \in [Tids -> Clusters \cup {Full}]
    /\ assigned \in [Tids -> Clusters \cup {None}]
    /\ streak \in [Tids -> 0..YieldStreak]
    /\ yielded \subseteq known /\ recent \subseteq known
    /\ session \in [phase : {"idle", "learning", "locked", "hold"}, pid : 0..Pids,
                    locked : BOOLEAN, latch : [Primary -> Tids \cup {None}],
                    class : [Roles -> Clusters \cup {None}], age : 0..3, guarded : BOOLEAN]
    /\ paused \in BOOLEAN /\ stepping \in BOOLEAN /\ budget \in 0..Budget

\* No thread carries a cluster's mask that the books do not hold or whose
\* process is not the one in front: what was bound in the game is given back
\* before the books are cleared at a switch, and nothing binds it later.
OnlyForegroundBound ==
    \A t \in live : mask[t] \in Clusters => t \in known /\ PidOf(t) = front_pid /\ fg = "game"

\* The session does not change its mind: a thread latched for a role stays so
\* while it lives and the session lasts, through holds, pauses and scans.
LatchKept ==
    [][\A r \in Primary :
          LET t == session.latch[r]
          IN  t # None /\ session'.pid = session.pid /\ t \in live => session'.latch[r] = t]_vars

\* A game that stays in front with the scheduler at work is locked in the end,
\* however the masks are rewritten and the bindings keep the lesson unstable.
LearningEnds ==
    <>[](fg = "game" /\ running # 0 /\ ~paused) => <>[](session.phase = "locked")

\* A thread that has a cluster when its session is locked gets the lock's mask
\* back whatever took it (a rewrite from outside, the release of a pause), or
\* is yielded.
GuardRepairs ==
    \A t \in Tids :
        <>[](Guarding(session) /\ ~paused /\ t \in live /\ t \in Checked(session))
            => <>[](mask[t] = Resolve(session, t))

\* A pause that lasts leaves no mask of ours in place, not even that of a step
\* which had passed its check before the pause began.
PauseReleases == <>[]paused => <>[](\A t \in live : mask[t] = Full)

\* A thread that is gone loses its role, so that another may be latched.
DeadLatchGoes ==
    \A t \in Tids :
        <>[](fg = "game" /\ ~paused /\ t \notin live)
            => <>[](\A r \in Primary : session.latch[r] # t)

\* The comment in the guard says that once locked the closed loop takes each
\* thread's target from the snapshot: the thread a session is locked on has the
\* lock's mask whenever its game is in front, or is yielded.
LockedBinds ==
    \A t \in Tids :
        <>[](/\ Guarding(session) /\ ~paused /\ t \in live \ yielded
             /\ \E r \in Primary : session.latch[r] = t)
            => <>[](mask[t] = Resolve(session, t))
=============================================================================
