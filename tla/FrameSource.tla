----------------------------- MODULE FrameSource -----------------------------
(***************************************************************************)
(* Where the frame times of the engine come from.  A probe in the game's   *)
(* process reports every buffer it queues to a ring; the runtime monitor   *)
(* and the main loop attach the probe and empty the ring under g_mutex;    *)
(* the consumer keeps a history of frame times per surface under           *)
(* g_frame_sample_mutex; the prediction thread picks the primary surface   *)
(* and hands the engine what it has not handed over before.                *)
(*                                                                         *)
(* A frame time is known by the signal that ended it.  The pace of a       *)
(* surface (interval_ewma_ms) is left open: whichever of two close         *)
(* surfaces the code would call faster may win.                            *)
(***************************************************************************)
EXTENDS Integers, Sequences, SequencesExt, FiniteSets

CONSTANTS
    Apps, FasApps,  \* packages, and those with the engine enabled
    Procs, AppOf,   \* processes, and the package each is of
    Keys,           \* addresses of surfaces
    None,
    RingSize,       \* records in frame_signal_rb
    History,        \* frame times kept per surface (240)
    Limit,          \* kMaxTrackedSurfaces
    MinFrames,      \* kPrimaryMinFrames
    Slack,          \* a count is close to another within 1/Slack (4)
    MaxGap, Fresh, Stale, \* 200 ms, kPrimaryFreshMs, kStaleSurfaceNs
    MaxTime, Budget \* bounds: the clock, the disturbances from outside

ASSUME SourceAssumption ==
    /\ FasApps \subseteq Apps /\ AppOf \in [Procs -> FasApps]
    /\ None \notin Apps \cup Procs \cup Keys
    /\ {RingSize, History, Limit, MinFrames, Slack} \subseteq Nat \ {0}
    /\ {MaxGap, Fresh, Stale, MaxTime, Budget} \subseteq Nat

VARIABLES
    now,            \* the clock of the kernel and of the daemon
    up,             \* the running process of each package
    app,            \* g_current_foreground_app
    front, pid,     \* g_foreground_package, g_foreground_pid
    paused,         \* should_pause_our_game_scheduler
    main,           \* the main loop: idle, or what it has yet to do
    polling,        \* a ring_buffer__poll is under way, g_mutex held
    ring,           \* frame_signal_rb
    owner,          \* g_queuebuffer_pid, whose package is g_queuebuffer_package
    surf,           \* g_queuebuffer_surface_states, by surface_key
    primary,        \* g_queuebuffer_primary_key
    engine,         \* last_engine_app of the prediction thread
    hearing,        \* that thread is about to take samples
    lastKey,        \* last_fas_surface_key
    lastSeen,       \* last_queuebuffer_accepted_count
    fed,            \* the frame times it handed over in its last pass
    mark,           \* history: what was cached when it last had a primary
    budget

world == <<now, up, paused, budget>>
attachment == <<front, pid, main, polling>>
cache == <<owner, surf, primary>>
thread == <<engine, hearing, lastKey, lastSeen, fed, mark>>
vars == <<world, app, attachment, ring, cache, thread>>

New == [last |-> 0, wall |-> 0, count |-> 0, frames |-> <<>>]
NoSurfaces == [k \in {} |-> New]

Init ==
    /\ now = 1 /\ paused = FALSE
    /\ up \in {f \in [FasApps -> Procs \cup {None}] :
                  \A a \in FasApps : f[a] # None => AppOf[f[a]] = a}
    /\ app = None /\ front = None /\ pid = None
    /\ main = "idle" /\ polling = FALSE /\ ring = <<>>
    /\ owner = None /\ surf = NoSurfaces /\ primary = None
    /\ engine = None /\ hearing = FALSE /\ lastKey = None /\ lastSeen = 0
    /\ fed = <<>> /\ mark = {} /\ budget = Budget

-----------------------------------------------------------------------------
(* The world: the clock, processes, the probe.                              *)

Tick ==
    /\ now < MaxTime /\ now' = now + 1
    /\ UNCHANGED <<up, paused, budget, app, attachment, ring, cache, thread>>

\* A process of a package starts, in place of the one before it.
Launch(p) ==
    /\ budget > 0 /\ budget' = budget - 1
    /\ up[AppOf[p]] # p /\ up' = [up EXCEPT ![AppOf[p]] = p]
    /\ UNCHANGED <<now, paused, app, attachment, ring, cache, thread>>

TogglePause ==
    /\ budget > 0 /\ budget' = budget - 1
    /\ paused' = ~paused
    /\ UNCHANGED <<now, up, app, attachment, ring, cache, thread>>

Record(k) == [proc |-> owner, key |-> k, at |-> now]

\* The probe reserves a record and then reads the clock: a record of another
\* surface, reserved later, may hold an earlier time.  A full ring loses it.
\* (Bound: no two records of a surface at one time are pending.)
Queue(k) ==
    /\ owner # None /\ up[AppOf[owner]] = owner /\ Len(ring) < RingSize
    /\ Record(k) \notin ToSet(ring)
    /\ \/ ring' = Append(ring, Record(k))
       \/ /\ ring # <<>> /\ Last(ring).key # k
          /\ ring' = Append(Front(ring), Record(k)) \o <<Last(ring)>>
    /\ UNCHANGED <<world, app, attachment, cache, thread>>

-----------------------------------------------------------------------------
(* The main loop and the monitor: who is in front, and the probe.           *)

NoCache == /\ owner' = None /\ surf' = NoSurfaces /\ primary' = None

SetApp(a) ==
    /\ main = "idle" /\ budget > 0 /\ app # a
    /\ budget' = budget - 1 /\ app' = a /\ main' = "notify"
    /\ UNCHANGED <<now, up, paused, front, pid, polling, ring, cache, thread>>

\* notify_foreground_app_changed
Notify ==
    /\ main = "notify" /\ ~polling
    /\ main' = "refresh" /\ front' = app /\ pid' = None
    /\ NoCache
    /\ UNCHANGED <<world, app, polling, ring, thread>>

\* refresh_queuebuffer_attachment_locked with process p of the package in
\* front.  The probe may fail to attach.
Attach(p) ==
    IF p # None /\ p = owner
    THEN UNCHANGED cache
    ELSE /\ owner' \in {None, p} /\ surf' = NoSurfaces /\ primary' = None

InFront == IF front \in FasApps THEN up[front] ELSE None

\* A pass over the probe: what both the monitor and the main loop do.
RefreshFrom(lookups) ==
    /\ ~polling
    /\ IF paused
       THEN NoCache /\ UNCHANGED <<pid, polling>>
       ELSE /\ pid' \in lookups
            /\ IF front \in FasApps
               THEN Attach(pid') /\ polling' = TRUE
               ELSE NoCache /\ UNCHANGED polling

\* refresh_bpf_targets_now
Refresh ==
    /\ main = "refresh" /\ main' = "idle"
    /\ RefreshFrom({InFront})
    /\ UNCHANGED <<world, app, front, ring, thread>>

\* runtime_monitor_thread: it looks a known process up again every two seconds.
\* Without the engine enabled it may find nothing to do.
Monitor ==
    /\ RefreshFrom({InFront} \cup ({pid} \ {None}))
    /\ UNCHANGED <<world, app, front, main, ring, thread>>

PollEnds ==
    /\ polling /\ ring = <<>> /\ polling' = FALSE
    /\ UNCHANGED <<world, app, front, pid, main, ring, cache, thread>>

-----------------------------------------------------------------------------
(* handle_queuebuffer_frame_signal                                          *)

\* Mutant: any process is listened to.
OwnAny(r) == owner # None
Own(r) == owner # None /\ r.proc = owner

\* The surface after a signal of it.
Heard(s, r) ==
    LET gap == r.at - s.last
        kept == IF Len(s.frames) >= History THEN Tail(s.frames) ELSE s.frames
    IN IF s.last > 0 /\ gap > 0 /\ gap <= MaxGap
       THEN [last |-> r.at, wall |-> now, count |-> s.count + 1,
             frames |-> Append(kept, r)]
       ELSE [s EXCEPT !.last = r.at]

\* The subtraction is unsigned: a surface with a later signal than the latest
\* is overdue.
Overdue(s, latest) == s.last > latest \/ latest - s.last > Stale

\* Mutant: nothing is cut off when too many surfaces are in use.
PruneOverdueOnly(f, latest) ==
    IF Cardinality(DOMAIN f) <= Limit THEN {DOMAIN f}
    ELSE {{k \in DOMAIN f : ~Overdue(f[k], latest)}}

\* What may remain of the surfaces: the latest Limit of those not overdue.
Prune(f, latest) ==
    LET keep == {k \in DOMAIN f : ~Overdue(f[k], latest)}
        Latest(ks) == \A k \in ks, l \in keep \ ks : f[k].last >= f[l].last
    IN IF Cardinality(DOMAIN f) <= Limit THEN {DOMAIN f}
       ELSE IF Cardinality(keep) <= Limit THEN {keep}
       ELSE {ks \in SUBSET keep : Cardinality(ks) = Limit /\ Latest(ks)}

Consume ==
    /\ polling /\ ring # <<>> /\ ring' = Tail(ring)
    /\ LET r == Head(ring)
           old == IF r.key \in DOMAIN surf THEN surf[r.key] ELSE New
           heard == [k \in DOMAIN surf \cup {r.key} |->
                        IF k = r.key THEN Heard(old, r) ELSE surf[k]]
       IN IF Own(r)
          THEN \E ks \in Prune(heard, r.at) : surf' = [k \in ks |-> heard[k]]
          ELSE UNCHANGED surf
    /\ UNCHANGED <<world, app, attachment, owner, primary, thread>>

-----------------------------------------------------------------------------
(* select_primary_queuebuffer_surface_locked                                *)

Eligible ==
    {k \in DOMAIN surf : /\ surf[k].count >= MinFrames
                         /\ now - surf[k].wall <= Fresh}

Near(k, l) == surf[k].count + surf[k].count \div Slack >= surf[l].count

\* The surfaces the scan may end with: one with the most frames, or one that
\* close counts lead down to.
Leaders ==
    {k \in Eligible : \A l \in Eligible : surf[l].count > surf[k].count =>
        \E m \in Eligible : /\ surf[k].count <= surf[m].count
                            /\ surf[m].count < surf[l].count
                            /\ Near(m, l)}

\* The surface in use is kept while it is eligible and not far behind.
Chosen ==
    IF Eligible = {} THEN {None}
    ELSE {IF primary \in Eligible /\ Near(primary, k) THEN primary ELSE k :
             k \in Leaders}

\* The log and the sampling of the executor select as well.
Observe ==
    /\ primary' \in Chosen
    /\ UNCHANGED <<world, app, attachment, ring, owner, surf, thread>>

-----------------------------------------------------------------------------
(* The prediction thread.                                                   *)

Nap ==
    /\ ~hearing /\ paused
    /\ engine' = None /\ lastKey' = None /\ lastSeen' = 0 /\ fed' = <<>>
    /\ UNCHANGED <<world, app, attachment, ring, cache, hearing, mark>>

Wake ==
    /\ ~hearing /\ ~paused /\ app # None
    /\ hearing' = TRUE /\ engine' = app /\ fed' = <<>>
    /\ IF engine = app THEN UNCHANGED <<lastKey, lastSeen>>
                       ELSE lastKey' = None /\ lastSeen' = 0
    /\ UNCHANGED <<world, app, attachment, ring, cache, mark>>

Cached == UNION {ToSet(surf[k].frames) : k \in DOMAIN surf}

OfEngine == owner # None /\ AppOf[owner] = engine

\* Mutant: the history of a surface is handed over when it is chosen.
StartFromZero(k) == 0
Start(k) == surf[k].count

\* Mutant: an index into the history is taken for a count of frames.
UnseenUnshifted(k) ==
    SubSeq(surf[k].frames, lastSeen + 1, Len(surf[k].frames))

\* The frames of surface k past the first lastSeen ones it ever had.
Unseen(k) ==
    LET size == Len(surf[k].frames)
        first == surf[k].count - size
    IN SubSeq(surf[k].frames, IF lastSeen < first THEN 1 ELSE lastSeen - first + 1, size)

\* sync_fas_engine_queuebuffer_samples
Sync ==
    /\ hearing /\ hearing' = FALSE
    /\ IF ~OfEngine
       THEN UNCHANGED <<primary, lastKey, lastSeen, fed, mark>>
       ELSE /\ primary' \in Chosen
            /\ CASE primary' = None -> UNCHANGED <<lastKey, lastSeen, fed, mark>>
                 [] primary' # None /\ primary' # lastKey ->
                      /\ lastKey' = primary' /\ lastSeen' = Start(primary')
                      /\ mark' = Cached /\ UNCHANGED fed
                 [] primary' # None /\ primary' = lastKey ->
                      /\ fed' = Unseen(lastKey) /\ lastSeen' = surf[lastKey].count
                      /\ mark' = Cached /\ UNCHANGED lastKey
    /\ UNCHANGED <<world, app, attachment, ring, owner, surf, engine>>

-----------------------------------------------------------------------------
Next ==
    \/ Tick \/ TogglePause \/ Notify \/ Refresh \/ Monitor \/ PollEnds
    \/ Consume \/ Observe \/ Nap \/ Wake \/ Sync
    \/ \E p \in Procs : Launch(p)
    \/ \E k \in Keys : Queue(k)
    \/ \E a \in Apps : SetApp(a)

Spec == Init /\ [][Next]_vars

-----------------------------------------------------------------------------
Frames == [proc : Procs, key : Keys, at : Nat]
Surface == [last : Nat, wall : Nat, count : Nat, frames : Seq(Frames)]

\* Every variable has its type, no more surfaces are kept than the limit, and
\* the counts of a surface cover its history, which is bounded: what the
\* indices of Unseen rest on.
TypeOK ==
    /\ now \in Nat /\ up \in [FasApps -> Procs \cup {None}] /\ budget \in Nat
    /\ {app, front, engine} \subseteq Apps \cup {None}
    /\ {pid, owner} \subseteq Procs \cup {None}
    /\ {paused, polling, hearing} \subseteq BOOLEAN
    /\ main \in {"idle", "notify", "refresh"}
    /\ ring \in Seq(Frames) /\ Len(ring) <= RingSize
    /\ DOMAIN surf \subseteq Keys /\ Cardinality(DOMAIN surf) <= Limit
    /\ \A k \in DOMAIN surf :
        /\ surf[k] \in Surface /\ Len(surf[k].frames) <= History
        /\ Len(surf[k].frames) <= surf[k].count
    /\ {primary, lastKey} \subseteq Keys \cup {None}
    /\ lastSeen \in Nat /\ fed \in Seq(Frames) /\ mark \subseteq Frames

\* The engine only hears frames of the package it runs for, although three
\* threads move to another package at different times and the ring still holds
\* what the game before it queued; and the histories only hold frames of the
\* process the probe is attached to.
OwnFrames ==
    /\ \A f \in Cached : f.proc = owner
    /\ \A f \in ToSet(fed) : AppOf[f.proc] = engine

\* Nothing that was in the histories when the thread last had a primary surface
\* is handed over later: no frame twice, and never the past of a surface that
\* has just been chosen.
NothingTwice ==
    [][hearing /\ ~hearing' => ToSet(fed') \cap mark = {}]_vars

\* While a surface stays the primary one and was not begun anew, each pass hands
\* over every frame of it that came since the pass before and is still kept.
HandsOverAll ==
    [][/\ hearing /\ ~hearing' /\ OfEngine
       /\ lastKey # None /\ primary' = lastKey
       /\ ToSet(surf[lastKey].frames) \cap mark # {}
       => ToSet(surf[lastKey].frames) \ mark \subseteq ToSet(fed')]_vars

\* A surface is only forgotten when it has been silent for long, or as many as
\* can be kept have been heard of since.  (Not so: see the README.)
DropsTheOldest ==
    [][owner' = owner => \A k \in DOMAIN surf \ DOMAIN surf' :
        \/ now - surf[k].last > Stale
        \/ Cardinality({l \in DOMAIN surf' : surf'[l].last >= surf[k].last}) >= Limit]_vars
=============================================================================
