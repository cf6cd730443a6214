------------------------ MODULE SchedulerSessionProofs ------------------------
(***************************************************************************)
(* Proofs about SchedulerSession, for any processes, threads, roles and    *)
(* clusters: its types, that nothing of a game in the background is bound,  *)
(* and that a latch lasts as long as its thread and its session.            *)
(***************************************************************************)
EXTENDS SchedulerSession, FiniteSetTheorems, TLAPS

-----------------------------------------------------------------------------
(* The invariant.                                                           *)

Sessions == [phase : {"idle", "learning", "locked", "hold"}, pid : 0..Pids,
             locked : BOOLEAN, latch : [Primary -> Tids \cup {None}],
             class : [Roles -> Clusters \cup {None}], age : 0..3, guarded : BOOLEAN]

\* A latched thread is of the session's process, and a session that is not idle
\* has one.
Good(s) ==
    /\ s \in Sessions
    /\ \A r \in Primary : s.latch[r] # None => PidOf(s.latch[r]) = s.pid
    /\ IF s.phase = "idle" THEN s = Idle ELSE s.pid # 0

\* The threads that live are of the process that runs, and one that is yet to be
\* born has no mask of ours waiting for it.
Living ==
    /\ \A t \in live : PidOf(t) = running
    /\ \A t \in Tids \ live : mask[t] = Full

NoFront == fg # "game" => front_pid = 0

\* The guard stops counting at its limit.
Yielding == \A t \in Tids : streak[t] >= YieldStreak => t \in yielded

IInv == TypeOK /\ Good(session) /\ Living /\ NoFront /\ Yielding /\ OnlyForegroundBound

\* What a step of the session owes its latches.
Keeps(s, v) ==
    v.pid = s.pid =>
        \A r \in Primary : s.latch[r] # None /\ s.latch[r] \in live => v.latch[r] = s.latch[r]

-----------------------------------------------------------------------------
(* Threads and sessions.                                                    *)

LEMMA Pieces ==
    /\ \A t \in Tids : PidOf(t) \in 1..Pids /\ Role(t) \in Roles
    /\ None \notin Tids /\ None \notin Clusters /\ Full \notin Clusters
    /\ Primary \subseteq Roles /\ Pids \in Nat /\ 0 \notin 1..Pids
<1>1. \A t \in Tids : t[1] \in 1..Pids /\ t[2] \in Names
  BY DEF Tids
<1>2. RoleOf \in [Names -> Roles]
  BY SessionAssumption
<1>3. \A t \in Tids : PidOf(t) \in 1..Pids /\ Role(t) \in Roles
  BY <1>1, <1>2 DEF PidOf, Role
<1>4. QED
  BY <1>3, SessionAssumption DEF Primary, Roles

LEMMA IdleGood == Good(Idle)
<1>1. [r \in Primary |-> None] \in [Primary -> Tids \cup {None}]
  OBVIOUS
<1>2. [r \in Roles |-> None] \in [Roles -> Clusters \cup {None}]
  OBVIOUS
<1>3. 0 \in 0..Pids
  BY Pieces
<1>4. Idle \in Sessions
  BY <1>1, <1>2, <1>3 DEF Idle, Sessions
<1>5. QED
  BY <1>4 DEF Good, Idle

\* Taking latches away, from threads that are not among the living or not of the
\* session's process, leaves a session sound and keeps the others.
LEMMA UnlatchGood ==
    ASSUME NEW s, Good(s), NEW ts \in SUBSET Tids
    PROVE  /\ Good(Unlatch(s, ts))
           /\ Unlatch(s, ts).pid = s.pid /\ Unlatch(s, ts).phase = s.phase
           /\ \A r \in Primary : s.latch[r] \notin ts => Unlatch(s, ts).latch[r] = s.latch[r]
<1>1. s \in Sessions
  BY DEF Good
<1>2. CASE \A r \in Primary : s.latch[r] \notin ts
  BY <1>2 DEF Unlatch
<1>3. CASE ~ \A r \in Primary : s.latch[r] \notin ts
  <2> DEFINE l == [r \in Primary |-> IF s.latch[r] \in ts THEN None ELSE s.latch[r]]
             c == [r \in Roles |-> IF r \in Primary /\ s.latch[r] \in ts
                                   THEN None ELSE s.class[r]]
             v == [s EXCEPT !.latch = l, !.class = c, !.guarded = FALSE]
  <2>1. s.phase # "idle"
    <3>1. \A r \in Primary : Idle.latch[r] = None
      BY DEF Idle
    <3>2. QED
      BY <1>3, <3>1, Pieces DEF Good
  <2>2. Unlatch(s, ts) = v
    BY <1>3, <1>1 DEF Unlatch, Sessions
  <2>3. s.latch \in [Primary -> Tids \cup {None}] /\ s.class \in [Roles -> Clusters \cup {None}]
    BY <1>1 DEF Sessions
  <2>4. l \in [Primary -> Tids \cup {None}] /\ c \in [Roles -> Clusters \cup {None}]
    BY <2>3
  <2>5. \A r \in Primary : /\ l[r] \in {None, s.latch[r]}
                           /\ s.latch[r] \notin ts => l[r] = s.latch[r]
    OBVIOUS
  <2> HIDE DEF l, c
  <2>6. /\ v \in Sessions
        /\ v.pid = s.pid /\ v.phase = s.phase /\ v.latch = l
    BY <1>1, <2>4 DEF Sessions
  <2> HIDE DEF v
  <2>7. Good(v)
    BY <2>1, <2>5, <2>6 DEF Good
  <2>8. QED
    BY <2>2, <2>5, <2>6, <2>7
<1>4. QED
  BY <1>2, <1>3

LEMMA ClearInvalidGood ==
    ASSUME NEW s, Good(s)
    PROVE  /\ Good(ClearInvalid(s))
           /\ ClearInvalid(s).pid = s.pid /\ ClearInvalid(s).phase = s.phase
           /\ \A r \in Primary : s.latch[r] # None /\ s.latch[r] \in live
                                    => ClearInvalid(s).latch[r] = s.latch[r]
<1> DEFINE ts == {t \in Tids : ~Alive(s, t)}
<1>1. ts \in SUBSET Tids
  OBVIOUS
<1>2. \A r \in Primary : s.latch[r] # None /\ s.latch[r] \in live => s.latch[r] \notin ts
  BY DEF Good, Alive
<1>3. ClearInvalid(s) = Unlatch(s, ts)
  BY DEF ClearInvalid
<1> HIDE DEF ts
<1>4. QED
  BY <1>1, <1>2, <1>3, UnlatchGood

\* A snapshot latches threads of the session and takes no latch away.
LEMMA SnapshotGood ==
    ASSUME TypeOK, NEW s, Good(s), s.phase # "idle", NEW best \in Picks(s)
    PROVE  /\ Good(Snapshot(s, best)) /\ Snapshot(s, best).pid = s.pid
           /\ \A r \in Primary : s.latch[r] # None => Snapshot(s, best).latch[r] = s.latch[r]
<1> DEFINE picked == DOMAIN best
           c == [r \in Roles |-> IF r \in picked THEN assigned[best[r]] ELSE None]
           l == [r \in Primary |-> IF s.latch[r] = None /\ r \in picked
                                   THEN best[r] ELSE s.latch[r]]
           v == [s EXCEPT !.class = c, !.latch = l,
                          !.phase = IF picked = {} THEN s.phase ELSE "locked",
                          !.locked = s.locked \/ picked # {},
                          !.guarded = s.guarded /\ picked = {}]
<1>1. s \in Sessions /\ s.latch \in [Primary -> Tids \cup {None}]
  BY DEF Good, Sessions
<1>2. \A r \in picked : /\ r \in Roles /\ best[r] \in Tids /\ PidOf(best[r]) = s.pid
                        /\ assigned[best[r]] \in Clusters
  <2>1. PICK roles \in SUBSET Roles :
            best \in [roles -> known] /\ \A r \in roles : best[r] \in Candidates(s, r)
    BY DEF Picks
  <2>2. \A r \in roles : best[r] \in known /\ PidOf(best[r]) = s.pid /\ assigned[best[r]] # None
    BY <2>1 DEF Candidates
  <2>3. known \subseteq Tids /\ assigned \in [Tids -> Clusters \cup {None}]
    BY DEF TypeOK
  <2>4. QED
    BY <2>1, <2>2, <2>3
<1>3. c \in [Roles -> Clusters \cup {None}] /\ l \in [Primary -> Tids \cup {None}]
  BY <1>1, <1>2
<1>4. \A r \in Primary : /\ s.latch[r] # None => l[r] = s.latch[r]
                         /\ l[r] # None => PidOf(l[r]) = s.pid
  BY <1>2 DEF Good
<1>5. Snapshot(s, best) = v
  BY <1>1 DEF Snapshot, Sessions
<1>6. s.pid # 0 /\ s.phase \in {"learning", "locked", "hold"}
  BY <1>1 DEF Good, Sessions
<1> HIDE DEF c, l, picked
<1>7. v \in Sessions /\ v.pid = s.pid /\ v.latch = l /\ v.phase # "idle"
  BY <1>1, <1>3, <1>6 DEF Sessions
<1> HIDE DEF v
<1>8. Good(v)
  BY <1>4, <1>6, <1>7 DEF Good
<1>9. QED
  BY <1>4, <1>5, <1>7, <1>8

LEMMA SnapshotsGood ==
    ASSUME TypeOK, NEW s, Good(s), s.phase # "idle", NEW v \in Snapshots(s)
    PROVE  Good(v) /\ v.pid = s.pid /\ Keeps(s, v)
<1> DEFINE u == ClearInvalid(s)
<1>1. /\ Good(u) /\ u.pid = s.pid /\ u.phase # "idle"
      /\ \A r \in Primary : s.latch[r] # None /\ s.latch[r] \in live => u.latch[r] = s.latch[r]
  BY ClearInvalidGood
<1>2. PICK best \in Picks(u) : v = Snapshot(u, best)
  BY DEF Snapshots
<1> HIDE DEF u
<1>3. /\ Good(v) /\ v.pid = u.pid
      /\ \A r \in Primary : u.latch[r] # None => v.latch[r] = u.latch[r]
  BY <1>1, <1>2, SnapshotGood
<1>4. QED
  BY <1>1, <1>3 DEF Keeps

\* Whatever a step does to the session, it is sound and keeps its latches.
LEMMA UpdatedGood ==
    ASSUME TypeOK, Good(session), NEW v \in Updated(session)
    PROVE  Good(v) /\ Keeps(session, v)
<1>1. CASE fg # "game" \/ front_pid = 0
  BY <1>1 DEF Updated, Keeps
<1>2. CASE /\ fg = "game" /\ front_pid # 0
           /\ session.phase = "idle" \/ session.pid # front_pid
  <2>1. v = [Idle EXCEPT !.phase = "learning", !.pid = front_pid]
    BY <1>2 DEF Updated, Begin
  <2>2. front_pid \in 0..Pids
    BY DEF TypeOK
  <2>3. Idle \in Sessions /\ \A r \in Primary : Idle.latch[r] = None
    BY IdleGood DEF Good, Idle
  <2>4. /\ v \in Sessions /\ v.pid = front_pid /\ v.phase = "learning"
        /\ v.latch = Idle.latch
    BY <2>1, <2>2, <2>3 DEF Sessions
  <2>5. Good(v)
    BY <1>2, <2>3, <2>4 DEF Good
  <2>6. session.pid # v.pid
    BY <1>2, <2>4 DEF Good, Idle
  <2>7. QED
    BY <2>5, <2>6 DEF Keeps
<1>3. CASE /\ fg = "game" /\ front_pid # 0
           /\ ~(session.phase = "idle" \/ session.pid # front_pid)
  <2>1. session \in Sessions
    BY DEF Good
  <2>2. CASE session.phase = "hold"
    <3>1. v = [session EXCEPT !.phase = IF session.locked THEN "locked" ELSE "learning"]
      BY <1>3, <2>2 DEF Updated, Resume
    <3>2. /\ v \in Sessions /\ v.pid = session.pid /\ v.phase # "idle"
          /\ v.latch = session.latch
      BY <2>1, <3>1 DEF Sessions
    <3>3. QED
      BY <1>3, <3>2 DEF Good, Keeps
  <2>3. CASE session.phase = "locked"
    <3>1. v \in Snapshots(ClearInvalid(session)) \/ v = ClearInvalid(session)
      BY <1>3, <2>3 DEF Updated, KeepLock
    <3> DEFINE u == ClearInvalid(session)
    <3>2. /\ Good(u) /\ u.pid = session.pid /\ u.phase # "idle"
          /\ \A r \in Primary : session.latch[r] # None /\ session.latch[r] \in live
                                   => u.latch[r] = session.latch[r]
      BY <2>3, ClearInvalidGood
    <3>3. v \in Snapshots(u) \/ v = u
      BY <3>1
    <3> HIDE DEF u
    <3>4. CASE v = u
      BY <3>2, <3>4 DEF Keeps
    <3>5. CASE v \in Snapshots(u)
      <4>1. Good(v) /\ v.pid = u.pid /\ Keeps(u, v)
        BY <3>2, <3>5, SnapshotsGood
      <4>2. QED
        BY <3>2, <4>1 DEF Keeps
    <3>6. QED
      BY <3>3, <3>4, <3>5
  <2>4. CASE session.phase = "learning"
    <3>1. v \in Snapshots(session) \/ v = session
      BY <1>3, <2>4 DEF Updated, Learn
    <3>2. CASE v = session
      BY <3>2 DEF Keeps
    <3>3. CASE v \in Snapshots(session)
      BY <2>4, <3>3, SnapshotsGood
    <3>4. QED
      BY <3>1, <3>2, <3>3
  <2>5. QED
    BY <1>3, <2>1, <2>2, <2>3, <2>4 DEF Sessions
<1>4. QED
  BY <1>1, <1>2, <1>3

\* The latches a binding gives are for threads of the session's process.
LEMMA LatchesGood ==
    ASSUME NEW s, Good(s), NEW bound \in SUBSET Tids, \A t \in bound : PidOf(t) = front_pid,
           NEW l \in Latches(s, bound)
    PROVE  LET v == [s EXCEPT !.latch = l]
           IN  /\ Good(v) /\ v.pid = s.pid
               /\ \A r \in Primary : s.latch[r] # None => v.latch[r] = s.latch[r]
<1> DEFINE v == [s EXCEPT !.latch = l]
<1>1. s \in Sessions
  BY DEF Good
<1>2. /\ l \in [Primary -> Tids \cup {None}]
      /\ \A r \in Primary :
            \/ l[r] = s.latch[r]
            \/ s.latch[r] = None /\ s.pid = front_pid /\ l[r] \in bound
  BY DEF Latches
<1>3. v \in Sessions /\ v.pid = s.pid /\ v.phase = s.phase /\ v.latch = l
  BY <1>1, <1>2 DEF Sessions
<1>4. \A r \in Primary : /\ s.latch[r] # None => l[r] = s.latch[r]
                         /\ l[r] # None => PidOf(l[r]) = s.pid
  BY <1>2 DEF Good
<1>5. CASE s.phase # "idle"
  BY <1>3, <1>4, <1>5 DEF Good
<1>6. CASE s.phase = "idle"
  <2>1. s = Idle /\ \A r \in Primary : s.latch[r] = None
    BY <1>6 DEF Good, Idle
  <2>2. bound = {} \/ s.pid # front_pid
    <3>1. CASE front_pid = 0
      BY <3>1, Pieces
    <3>2. QED
      BY <2>1, <3>1 DEF Idle
  <2>3. l = s.latch
    BY <1>1, <1>2, <2>2 DEF Sessions
  <2>4. v = s
    BY <1>1, <2>3 DEF Sessions
  <2>5. QED
    BY <2>4
<1>7. QED
  BY <1>3, <1>4, <1>5, <1>6

-----------------------------------------------------------------------------
(* The session.                                                             *)

LEMMA StepSession ==
    ASSUME TypeOK, Good(session), Step
    PROVE  Good(session') /\ Keeps(session, session')
<1>1. PICK s \in Updated(session) : (Guarding(s) /\ Guard(s)) \/ Bind(s)
  BY DEF Step
<1>2. Good(s) /\ Keeps(session, s)
  BY <1>1, UpdatedGood
<1>3. CASE Guarding(s) /\ Guard(s)
  <2>1. session' = [s EXCEPT !.guarded = TRUE] /\ s \in Sessions /\ s.phase = "locked"
    BY <1>2, <1>3 DEF Guard, Guarding, Good
  <2>2. /\ session' \in Sessions /\ session'.phase = "locked"
        /\ session'.pid = s.pid /\ session'.latch = s.latch
    BY <2>1 DEF Sessions
  <2>3. QED
    BY <1>2, <2>1, <2>2 DEF Good, Keeps
<1>4. CASE Bind(s)
  <2> DEFINE bound == {t \in known : PidOf(t) = front_pid /\ t \in live}
             v == ClearInvalid(s)
  <2>1. PICK l \in Latches(v, bound) : session' = [v EXCEPT !.latch = l]
    BY <1>4 DEF Bind
  <2>2. bound \in SUBSET Tids /\ \A t \in bound : PidOf(t) = front_pid
    BY DEF TypeOK
  <2>3. /\ Good(v) /\ v.pid = s.pid
        /\ \A r \in Primary : s.latch[r] # None /\ s.latch[r] \in live => v.latch[r] = s.latch[r]
    BY <1>2, ClearInvalidGood
  <2> HIDE DEF bound, v
  <2>4. /\ Good(session') /\ session'.pid = v.pid
        /\ \A r \in Primary : v.latch[r] # None => session'.latch[r] = v.latch[r]
    BY <2>1, <2>2, <2>3, LatchesGood
  <2>5. QED
    BY <1>2, <2>3, <2>4 DEF Keeps
<1>5. QED
  BY <1>1, <1>3, <1>4

LEMMA NotifiedGood ==
    ASSUME Good(session), NEW next
    PROVE  LET v == Notified(session, next) IN Good(v) /\ Keeps(session, v)
<1> DEFINE v == Notified(session, next)
<1>1. CASE v = session
  BY <1>1 DEF Keeps
<1>2. CASE v = Idle /\ session.phase # "idle"
  <2>1. v.pid = 0 /\ session.pid # 0
    BY <1>2 DEF Good, Idle
  <2>2. QED
    BY <1>2, <2>1, IdleGood DEF Keeps
<1>3. CASE v = [session EXCEPT !.phase = "hold"] /\ session.phase # "idle"
  <2>1. v \in Sessions /\ v.phase = "hold" /\ v.pid = session.pid /\ v.latch = session.latch
    BY <1>3 DEF Good, Sessions
  <2>2. QED
    BY <1>3, <2>1 DEF Good, Keeps
<1>4. QED
  BY <1>1, <1>2, <1>3 DEF Notified

LEMMA SessionNext ==
    ASSUME TypeOK, Good(session), [Next]_vars
    PROVE  Good(session') /\ Keeps(session, session')
<1>1. CASE UNCHANGED session
  BY <1>1 DEF Keeps
<1>2. CASE StepStart
  <2>1. session' = session \/ (session' = Idle /\ session.pid # 0)
    BY <1>2 DEF StepStart
  <2>2. Idle.pid = 0
    BY DEF Idle
  <2>3. QED
    BY <1>1, <2>1, <2>2, IdleGood DEF Keeps
<1>3. CASE Step
  BY <1>3, StepSession
<1>4. CASE Scan \/ SyncTargets
  <2>1. session' = session \/ session' = ClearInvalid(session)
    BY <1>4 DEF Scan, SyncTargets
  <2>2. QED
    BY <1>1, <2>1, ClearInvalidGood DEF Keeps
<1>5. ASSUME NEW t \in Tids, ExitEvent(t) PROVE Good(session') /\ Keeps(session, session')
  <2>1. session' = Unlatch(session, {t}) /\ t \notin live /\ {t} \in SUBSET Tids
    BY <1>5 DEF ExitEvent
  <2>2. /\ Good(Unlatch(session, {t}))
        /\ \A r \in Primary : session.latch[r] \notin {t}
                                 => Unlatch(session, {t}).latch[r] = session.latch[r]
    BY <2>1, UnlatchGood
  <2>3. QED
    BY <2>1, <2>2 DEF Keeps
<1>6. ASSUME NEW next \in {"game", "rival", "other"}, ForegroundChange(next)
      PROVE  Good(session') /\ Keeps(session, session')
  BY <1>6, NotifiedGood DEF ForegroundChange
<1>7. CASE GuardDue
  <2>1. session \in Sessions /\ session' = [session EXCEPT !.guarded = FALSE]
    BY <1>7 DEF GuardDue, Good
  <2>2. /\ session' \in Sessions /\ session'.phase = session.phase
        /\ session'.pid = session.pid /\ session'.latch = session.latch
    BY <2>1 DEF Sessions
  <2>3. session.phase # "idle"
    BY <1>7 DEF GuardDue, Good, Idle
  <2>4. QED
    BY <2>2, <2>3 DEF Good, Keeps
<1>8. CASE Ages
  <2>1. /\ session \in Sessions /\ session' = [session EXCEPT !.age = session.age + 1]
        /\ session.age < 3 /\ session.phase # "idle"
    BY <1>8 DEF Ages, Good
  <2>2. session.age \in 0..3
    BY <2>1 DEF Sessions
  <2>3. /\ session' \in Sessions /\ session'.phase = session.phase
        /\ session'.pid = session.pid /\ session'.latch = session.latch
    BY <2>1, <2>2 DEF Sessions
  <2>4. QED
    BY <2>1, <2>3 DEF Good, Keeps
<1>9. ASSUME \/ RefreshPid \/ PausePass \/ CoolDown \/ Launch \/ Pause
             \/ \E t \in Tids : ForkEvent(t) \/ Spawn(t) \/ Rewritten(t)
             \/ \E ts \in SUBSET live : Exit(ts)
             \/ UNCHANGED vars
      PROVE  UNCHANGED session
  BY <1>9 DEF RefreshPid, PausePass, CoolDown, Launch, Pause, ForkEvent, Spawn, Rewritten, Exit,
              vars
<1>10. QED
  BY <1>1, <1>2, <1>3, <1>4, <1>5, <1>6, <1>7, <1>8, <1>9
  DEF Next, Monitor, Pass, Time, Disturbance

-----------------------------------------------------------------------------
(* The books and the masks.                                                 *)

Books ==
    /\ known \subseteq Tids /\ yielded \subseteq known /\ recent \subseteq known
    /\ assigned \in [Tids -> Clusters \cup {None}]
    /\ streak \in [Tids -> 0..YieldStreak]
    /\ Yielding
Masks == mask \in [Tids -> Clusters \cup {Full}]

LEMMA RestoreMasks ==
    ASSUME Masks, NEW ts, Restore(ts)
    PROVE  Masks' /\ \A t \in Tids : mask'[t] = IF t \in ts THEN Full ELSE mask[t]
BY DEF Restore, Masks

\* What is left of the books when some threads are forgotten and others found.
LEMMA ForgetBooks ==
    ASSUME Books, NEW ts, Forget(ts), NEW found \in SUBSET Tids,
           known' = (known \ ts) \cup found
    PROVE  Books'
<1>1. \A t \in Tids : /\ assigned'[t] = IF t \in ts THEN None ELSE assigned[t]
                      /\ streak'[t] = IF t \in ts THEN 0 ELSE streak[t]
  BY DEF Forget
<1>2. assigned' \in [Tids -> Clusters \cup {None}]
  BY DEF Forget, Books
<1>3. YieldStreak \in Nat \ {0}
  BY SessionAssumption
<1>4. streak' \in [Tids -> 0..YieldStreak]
  BY <1>3 DEF Forget, Books
<1>5. yielded' = yielded \ ts /\ recent' = recent \ ts
  BY DEF Forget
<1>6. Yielding'
  BY <1>1, <1>3, <1>5 DEF Books, Yielding
<1>7. QED
  BY <1>2, <1>4, <1>5, <1>6 DEF Books

\* The guard writes only masks of the clusters, and only of living threads of the
\* session's process that are in the books.
LEMMA GuardBooks ==
    ASSUME Books, Masks, NEW s, Good(s), Guard(s)
    PROVE  /\ Books' /\ Masks' /\ known' = known
           /\ \A t \in Tids : \/ mask'[t] = mask[t]
                              \/ t \in known /\ t \in live /\ PidOf(t) = s.pid
<1> DEFINE due == IF s.guarded THEN {} ELSE Checked(s)
           again == {t \in due : Off(s, t) /\ t \notin recent /\ t \in live}
<1>1. \A t \in again : /\ t \in known /\ t \in live /\ PidOf(t) = s.pid /\ t \notin yielded
                       /\ t \in Tids /\ Resolve(s, t) \in Clusters
  <2>1. \A t \in due : /\ t \in known /\ PidOf(t) = s.pid /\ t \notin yielded
                       /\ Resolve(s, t) # None
    BY DEF Checked
  <2>2. \A t \in Tids : Resolve(s, t) \in Clusters \cup {None}
    <3> SUFFICES ASSUME NEW t \in Tids PROVE Resolve(s, t) \in Clusters \cup {None}
      OBVIOUS
    <3>1. s.class \in [Roles -> Clusters \cup {None}]
      BY DEF Good, Sessions
    <3>2. Role(t) \in Roles /\ "background" \in Roles
      BY Pieces DEF Roles
    <3>3. QED
      BY <3>1, <3>2 DEF Resolve
  <2>3. QED
    BY <2>1, <2>2 DEF Books
<1>2. /\ mask' = [t \in Tids |-> IF t \in again THEN Resolve(s, t) ELSE mask[t]]
      /\ assigned' = [t \in Tids |-> IF t \in again THEN Resolve(s, t) ELSE assigned[t]]
      /\ streak' = [t \in Tids |-> IF t \in again THEN streak[t] + 1
                                   ELSE IF t \in due /\ ~Off(s, t) THEN 0 ELSE streak[t]]
      /\ yielded' = yielded \cup {t \in again : streak[t] + 1 >= YieldStreak}
      /\ recent' = recent \cup again
      /\ known' = known
  BY DEF Guard
<1> HIDE DEF again, due
<1>3. Masks'
  BY <1>1, <1>2 DEF Masks
<1>4. assigned' \in [Tids -> Clusters \cup {None}]
  BY <1>1, <1>2 DEF Books
<1>5. YieldStreak \in Nat \ {0} /\ streak \in [Tids -> 0..YieldStreak]
  BY SessionAssumption DEF Books
<1>6. \A t \in again : streak[t] < YieldStreak
  BY <1>1, <1>5 DEF Books, Yielding
<1>7. streak' \in [Tids -> 0..YieldStreak]
  BY <1>2, <1>5, <1>6
<1>8. Yielding'
  <2> SUFFICES ASSUME NEW t \in Tids, streak'[t] >= YieldStreak PROVE t \in yielded'
    BY DEF Yielding
  <2>1. CASE t \in again
    BY <1>2, <2>1
  <2>2. CASE t \notin again
    <3>1. streak'[t] = 0 \/ streak'[t] = streak[t]
      BY <1>2, <2>2
    <3>2. QED
      BY <1>2, <1>5, <3>1 DEF Books, Yielding
  <2>3. QED
    BY <2>1, <2>2
<1>9. known' \subseteq Tids /\ yielded' \subseteq known' /\ recent' \subseteq known'
  BY <1>1, <1>2 DEF Books
<1>10. QED
  BY <1>1, <1>2, <1>3, <1>4, <1>7, <1>8, <1>9 DEF Books

\* A binding gives clusters to the living threads of the process in front and takes
\* every other mask in the books back.
LEMMA BindBooks ==
    ASSUME Books, Masks, NEW s, Bind(s)
    PROVE  /\ Books' /\ Masks' /\ known' = known
           /\ \A t \in Tids : \/ t \in known /\ t \in live /\ PidOf(t) = front_pid
                              \/ t \in known /\ mask'[t] = Full
                              \/ t \notin known /\ mask'[t] = mask[t]
<1> DEFINE bound == {t \in known : PidOf(t) = front_pid /\ t \in live}
<1>1. PICK target \in [bound -> Clusters] :
        /\ mask' = [t \in Tids |-> IF t \in bound THEN target[t]
                                   ELSE IF t \in known THEN Full ELSE mask[t]]
        /\ assigned' = [t \in Tids |-> IF t \in bound THEN target[t] ELSE None]
  BY DEF Bind
<1>2. /\ streak' = [t \in Tids |-> 0] /\ yielded' = {} /\ recent' = bound /\ known' = known
  BY DEF Bind
<1>3. \A t \in bound : t \in known /\ t \in live /\ PidOf(t) = front_pid /\ t \in Tids
  BY DEF Books
<1> HIDE DEF bound
<1>4. Masks' /\ assigned' \in [Tids -> Clusters \cup {None}]
  BY <1>1 DEF Masks, Books
<1>5. YieldStreak \in Nat \ {0}
  BY SessionAssumption
<1>6. streak' \in [Tids -> 0..YieldStreak] /\ Yielding'
  BY <1>2, <1>5 DEF Yielding
<1>7. bound \subseteq known
  BY <1>3
<1>8. Books'
  BY <1>2, <1>4, <1>6, <1>7 DEF Books
<1>9. QED
  BY <1>1, <1>2, <1>3, <1>4, <1>8

-----------------------------------------------------------------------------
(* One step, concern by concern.                                            *)

World ==
    /\ fg \in {"game", "rival", "other"} /\ running \in 0..Pids /\ front_pid \in 0..Pids
    /\ live \subseteq born /\ born \subseteq Tids
    /\ paused \in BOOLEAN /\ stepping \in BOOLEAN /\ budget \in 0..Budget

LEMMA Types == TypeOK /\ Yielding <=> World /\ Books /\ Masks /\ session \in Sessions
BY DEF TypeOK, World, Books, Masks, Sessions, Yielding

\* A game that is launched has a number of its own.
LEMMA LaunchPid ==
    ASSUME born \subseteq Tids, NextPid <= Pids
    PROVE  NextPid \in 1..Pids
<1> DEFINE pids == {PidOf(t) : t \in born}
<1>1. pids \subseteq 1..Pids
  BY Pieces
<1>2. IsFiniteSet(1..Pids)
  BY FS_Interval, SessionAssumption
<1>3. IsFiniteSet(pids)
  BY <1>1, <1>2, FS_Subset
<1>4. Cardinality(pids) \in Nat
  BY <1>3, FS_CardinalityType
<1>5. NextPid = Cardinality(pids) + 1
  BY DEF NextPid
<1> HIDE DEF pids
<1>6. QED
  BY <1>4, <1>5, SessionAssumption

LEMMA WorldNext ==
    ASSUME World, NoFront, [Next]_vars
    PROVE  World' /\ NoFront'
<1>0. Budget \in Nat /\ Pids \in Nat
  BY SessionAssumption
<1>1. CASE StepStart \/ Step \/ Scan \/ PausePass \/ SyncTargets \/ Time \/ UNCHANGED vars
  BY <1>1 DEF StepStart, Step, Scan, PausePass, SyncTargets, Time, GuardDue, CoolDown, Ages,
              World, NoFront, vars, game
<1>2. CASE \E t \in Tids : ExitEvent(t) \/ ForkEvent(t)
  BY <1>2 DEF ExitEvent, ForkEvent, World, NoFront, game
<1>3. CASE RefreshPid
  BY <1>3 DEF RefreshPid, World, NoFront, game
<1>4. ASSUME NEW next \in {"game", "rival", "other"}, ForegroundChange(next)
      PROVE  World' /\ NoFront'
  <2>1. /\ fg' = next /\ budget > 0 /\ budget' = budget - 1
        /\ front_pid' = IF next = "game" /\ ~paused THEN running ELSE 0
        /\ UNCHANGED <<running, born, live, paused, stepping>>
    BY <1>4 DEF ForegroundChange
  <2>2. QED
    BY <1>0, <2>1 DEF World, NoFront
<1>5. CASE Launch
  <2>1. /\ NextPid <= Pids /\ running' = NextPid
        /\ live' = {<<NextPid, Leader>>} /\ born' = born \cup live'
        /\ UNCHANGED <<fg, front_pid, paused, stepping, budget>>
    BY <1>5 DEF Launch
  <2>2. NextPid \in 1..Pids
    BY <2>1, LaunchPid DEF World
  <2> HIDE DEF NextPid
  <2>3. <<NextPid, Leader>> \in Tids
    BY <2>2, SessionAssumption DEF Tids
  <2>4. running' \in 0..Pids
    BY <1>0, <2>1, <2>2
  <2>5. QED
    BY <2>1, <2>3, <2>4 DEF World, NoFront
<1>6. ASSUME NEW t \in Tids, Spawn(t) PROVE World' /\ NoFront'
  BY <1>6 DEF Spawn, World, NoFront
<1>7. ASSUME NEW t \in Tids, Rewritten(t) PROVE World' /\ NoFront'
  BY <1>0, <1>7 DEF Rewritten, World, NoFront, game
<1>8. ASSUME NEW ts \in SUBSET live, Exit(ts) PROVE World' /\ NoFront'
  BY <1>0, <1>8 DEF Exit, World, NoFront
<1>9. CASE Pause
  BY <1>0, <1>9 DEF Pause, World, NoFront, game
<1>10. QED
  BY <1>1, <1>2, <1>3, <1>4, <1>5, <1>6, <1>7, <1>8, <1>9
  DEF Next, Monitor, Pass, Disturbance

LEMMA StepBooks ==
    ASSUME TypeOK, Good(session), Yielding, Step
    PROVE  /\ Books' /\ Masks' /\ known' = known
           /\ \A t \in Tids :
                 \/ t \in known /\ t \in live /\ PidOf(t) = front_pid
                 \/ mask'[t] = mask[t] /\ (t \in known => fg = "game")
                 \/ mask'[t] = Full
<1>0. Books /\ Masks
  BY Types
<1>1. PICK s \in Updated(session) : (Guarding(s) /\ Guard(s)) \/ Bind(s)
  BY DEF Step
<1>2. Good(s)
  BY <1>1, UpdatedGood
<1>3. CASE Guarding(s) /\ Guard(s)
  <2>1. s.pid = front_pid /\ fg = "game"
    BY <1>3 DEF Guarding
  <2>2. /\ Books' /\ Masks' /\ known' = known
        /\ \A t \in Tids : \/ mask'[t] = mask[t]
                           \/ t \in known /\ t \in live /\ PidOf(t) = s.pid
    BY <1>0, <1>2, <1>3, GuardBooks
  <2>3. QED
    BY <2>1, <2>2
<1>4. CASE Bind(s)
  BY <1>0, <1>4, BindBooks
<1>5. QED
  BY <1>1, <1>3, <1>4

LEMMA BooksNext ==
    ASSUME TypeOK, Good(session), Yielding, [Next]_vars
    PROVE  Books' /\ Masks'
<1>0. World /\ Books /\ Masks
  BY Types
<1>1. CASE Step
  BY <1>1, StepBooks
<1>2. ASSUME NEW next \in {"game", "rival", "other"}, ForegroundChange(next)
      PROVE  Books' /\ Masks'
  <2>1. Restore(known) /\ Forget(Tids) /\ known' \in SUBSET live
    BY <1>2 DEF ForegroundChange
  <2>2. known' = (known \ Tids) \cup known' /\ known' \in SUBSET Tids
    BY <1>0, <2>1 DEF Books, World
  <2>3. QED
    BY <1>0, <2>1, <2>2, ForgetBooks, RestoreMasks
<1>3. CASE Scan
  <2> DEFINE gone == IF Seen = {} THEN known
                     ELSE known \ (Seen \cup Kept(ClearInvalid(session)))
  <2>1. Restore(gone) /\ Forget(gone) /\ known' = (known \ gone) \cup Seen
    BY <1>3 DEF Scan
  <2> HIDE DEF gone
  <2>2. Seen \in SUBSET Tids
    BY <1>0 DEF Seen, World
  <2>3. QED
    BY <1>0, <2>1, <2>2, ForgetBooks, RestoreMasks
<1>4. ASSUME NEW t \in Tids, ExitEvent(t) PROVE Books' /\ Masks'
  <2> DEFINE ts == {t}
             found == known \ known
  <2>1. Forget(ts) /\ known' = (known \ ts) \cup found /\ mask' = mask
    BY <1>4 DEF ExitEvent
  <2>2. found \in SUBSET Tids
    OBVIOUS
  <2> HIDE DEF ts, found
  <2>3. Books'
    BY <1>0, <2>1, <2>2, ForgetBooks
  <2>4. QED
    BY <1>0, <2>1, <2>3 DEF Masks
<1>5. ASSUME NEW t \in Tids, ForkEvent(t) PROVE Books' /\ Masks'
  BY <1>0, <1>5 DEF ForkEvent, Books, Masks, Yielding
<1>6. ASSUME NEW ts, Restore(ts), UNCHANGED threads PROVE Books' /\ Masks'
  BY <1>0, <1>6, RestoreMasks DEF threads, Books, Yielding
<1>7. CASE UNCHANGED <<mask, threads>>
  BY <1>0, <1>7 DEF threads, Books, Masks, Yielding
<1>8. CASE CoolDown
  BY <1>0, <1>8 DEF CoolDown, Books, Masks, Yielding
<1>9. ASSUME PausePass \/ (\E t \in Tids : Rewritten(t)) \/ (\E ts \in SUBSET live : Exit(ts))
      PROVE  \E ts : Restore(ts) /\ UNCHANGED threads
  BY <1>9 DEF PausePass, Rewritten, Exit
<1>10. ASSUME \/ StepStart \/ RefreshPid \/ SyncTargets \/ GuardDue \/ Ages \/ Launch \/ Pause
              \/ \E t \in Tids : Spawn(t)
              \/ UNCHANGED vars
       PROVE  UNCHANGED <<mask, threads>>
  BY <1>10 DEF StepStart, RefreshPid, SyncTargets, GuardDue, Ages, Launch, Pause, Spawn, vars
<1>11. QED
  BY <1>1, <1>2, <1>3, <1>4, <1>5, <1>6, <1>7, <1>8, <1>9, <1>10
  DEF Next, Monitor, Pass, Time, Disturbance

\* The masks of the living: only a step sets one, for the threads of the process in
\* front, and whatever takes a thread out of the books, or the process away from the
\* front, gives the mask back first.
LEMMA MasksNext ==
    ASSUME IInv, [Next]_vars
    PROVE  Living' /\ OnlyForegroundBound'
<1>0. /\ TypeOK /\ Good(session) /\ Living /\ NoFront /\ Yielding /\ OnlyForegroundBound
      /\ World /\ Books /\ Masks /\ World'
  BY Types, WorldNext DEF IInv
<1>1. live \subseteq Tids /\ known \subseteq Tids /\ Full \notin Clusters
  BY <1>0, Pieces DEF World, Books
<1>2. CASE Step
  <2>1. UNCHANGED <<game, front_pid>>
    BY <1>2 DEF Step
  <2>2. /\ known' = known
        /\ \A t \in Tids :
              \/ t \in known /\ t \in live /\ PidOf(t) = front_pid
              \/ mask'[t] = mask[t] /\ (t \in known => fg = "game")
              \/ mask'[t] = Full
    BY <1>0, <1>2, StepBooks
  <2>3. \A t \in known : PidOf(t) = front_pid => fg = "game"
    BY <1>0, <1>1, Pieces DEF NoFront
  <2>4. Living'
    BY <1>0, <2>1, <2>2 DEF Living, game
  <2>5. OnlyForegroundBound'
    BY <1>0, <1>1, <2>1, <2>2, <2>3 DEF OnlyForegroundBound, game
  <2>6. QED
    BY <2>4, <2>5
<1>3. ASSUME NEW next \in {"game", "rival", "other"}, ForegroundChange(next)
      PROVE  Living' /\ OnlyForegroundBound'
  <2>1. Restore(known) /\ UNCHANGED <<running, born, live>>
    BY <1>3 DEF ForegroundChange
  <2>2. \A t \in Tids : mask'[t] = IF t \in known THEN Full ELSE mask[t]
    BY <1>0, <2>1, RestoreMasks
  <2>3. \A t \in live : mask'[t] \notin Clusters
    BY <1>0, <1>1, <2>2 DEF OnlyForegroundBound
  <2>4. QED
    BY <1>0, <2>1, <2>2, <2>3 DEF Living, OnlyForegroundBound
<1>4. CASE Scan
  <2> DEFINE gone == IF Seen = {} THEN known
                     ELSE known \ (Seen \cup Kept(ClearInvalid(session)))
  <2>1. /\ Restore(gone) /\ known' = (known \ gone) \cup Seen
        /\ UNCHANGED <<game, front_pid>>
    BY <1>4 DEF Scan
  <2> HIDE DEF gone
  <2>2. \A t \in Tids : mask'[t] = IF t \in gone THEN Full ELSE mask[t]
    BY <1>0, <2>1, RestoreMasks
  <2>3. QED
    BY <1>0, <1>1, <2>1, <2>2 DEF Living, OnlyForegroundBound, game
<1>5. ASSUME NEW t \in Tids, ExitEvent(t) PROVE Living' /\ OnlyForegroundBound'
  BY <1>0, <1>5 DEF ExitEvent, Living, OnlyForegroundBound, game
<1>6. ASSUME NEW t \in Tids, ForkEvent(t) PROVE Living' /\ OnlyForegroundBound'
  BY <1>0, <1>6 DEF ForkEvent, Living, OnlyForegroundBound, game
<1>7. CASE RefreshPid
  BY <1>0, <1>7 DEF RefreshPid, Living, OnlyForegroundBound, game
<1>8. ASSUME NEW ts, Restore(ts), UNCHANGED <<game, front_pid, known>>
      PROVE  Living' /\ OnlyForegroundBound'
  <2>1. \A t \in Tids : mask'[t] = IF t \in ts THEN Full ELSE mask[t]
    BY <1>0, <1>8, RestoreMasks
  <2>2. QED
    BY <1>0, <1>1, <1>8, <2>1 DEF Living, OnlyForegroundBound, game
<1>9. CASE Launch
  <2>1. /\ running = 0 /\ NextPid <= Pids /\ running' = NextPid
        /\ live' = {<<NextPid, Leader>>}
        /\ UNCHANGED <<fg, mask, front_pid, known>>
    BY <1>9 DEF Launch, threads
  <2>2. live = {}
    BY <1>0, <1>1, <2>1, Pieces DEF Living
  <2> DEFINE t == <<NextPid, Leader>>
  <2>3. PidOf(t) = NextPid
    BY DEF PidOf
  <2>4. t \in Tids
    BY <1>0, <2>1 DEF World
  <2>5. \A u \in Tids : mask[u] = Full
    BY <1>0, <2>2 DEF Living
  <2> HIDE DEF t
  <2>6. live' = {t}
    BY <2>1 DEF t
  <2>7. QED
    BY <1>1, <2>1, <2>3, <2>4, <2>5, <2>6 DEF Living, OnlyForegroundBound
<1>10. ASSUME NEW t \in Tids, Spawn(t) PROVE Living' /\ OnlyForegroundBound'
  <2>1. /\ PidOf(t) = running /\ t \notin live /\ live' = live \cup {t}
        /\ UNCHANGED <<fg, running, mask, front_pid, known>>
    BY <1>0, <1>10 DEF Spawn, threads, World
  <2>2. mask[t] = Full
    BY <1>0, <2>1 DEF Living
  <2>3. QED
    BY <1>0, <1>1, <2>1, <2>2 DEF Living, OnlyForegroundBound
<1>11. ASSUME NEW ts \in SUBSET live, Exit(ts) PROVE Living' /\ OnlyForegroundBound'
  <2>1. /\ live' = live \ ts /\ Restore(ts) /\ (live' # {} => running' = running)
        /\ UNCHANGED <<fg, front_pid, known>>
    BY <1>11 DEF Exit, threads
  <2>2. \A t \in Tids : mask'[t] = IF t \in ts THEN Full ELSE mask[t]
    BY <1>0, <2>1, RestoreMasks
  <2>3. QED
    BY <1>0, <1>1, <2>1, <2>2 DEF Living, OnlyForegroundBound
<1>12. CASE UNCHANGED <<game, mask, front_pid, known>>
  BY <1>0, <1>12 DEF Living, OnlyForegroundBound, game
<1>13. ASSUME PausePass \/ \E t \in Tids : Rewritten(t)
       PROVE  \E ts : Restore(ts) /\ UNCHANGED <<game, front_pid, known>>
  BY <1>13 DEF PausePass, Rewritten, threads
<1>14. ASSUME StepStart \/ SyncTargets \/ Time \/ Pause \/ UNCHANGED vars
       PROVE  UNCHANGED <<game, mask, front_pid, known>>
  BY <1>14 DEF StepStart, SyncTargets, Time, GuardDue, CoolDown, Ages, Pause, vars, threads
<1>15. QED
  BY <1>2, <1>3, <1>4, <1>5, <1>6, <1>7, <1>8, <1>9, <1>10, <1>11, <1>12, <1>13, <1>14
  DEF Next, Monitor, Pass, Disturbance

-----------------------------------------------------------------------------
LEMMA InitIInv == Init => IInv
<1> SUFFICES ASSUME Init PROVE IInv
  OBVIOUS
<1>1. YieldStreak \in Nat \ {0} /\ Pids \in Nat /\ Budget \in Nat
  BY SessionAssumption
<1>2. World
  <2>1. /\ fg \in {"game", "other"} /\ running = 0 /\ front_pid = 0
        /\ live = {} /\ born = {} /\ ~paused /\ paused \in BOOLEAN
        /\ stepping \in BOOLEAN /\ budget = Budget
    BY DEF Init
  <2>2. QED
    BY <1>1, <2>1 DEF World
<1>3. Books /\ Masks
  BY <1>1 DEF Init, Books, Masks, Yielding
<1>4. Good(session)
  BY IdleGood DEF Init
<1>5. TypeOK /\ Yielding
  BY <1>2, <1>3, <1>4, Types DEF Good
<1>6. Living /\ NoFront /\ OnlyForegroundBound
  BY DEF Init, Living, NoFront, OnlyForegroundBound
<1>7. QED
  BY <1>4, <1>5, <1>6 DEF IInv

LEMMA NextIInv == IInv /\ [Next]_vars => IInv'
<1> SUFFICES ASSUME IInv, [Next]_vars PROVE IInv'
  OBVIOUS
<1>1. World' /\ NoFront'
  BY Types, WorldNext DEF IInv
<1>2. Books' /\ Masks'
  BY BooksNext DEF IInv
<1>3. Good(session)'
  BY SessionNext DEF IInv, Good, Sessions
<1>4. TypeOK' /\ Yielding'
  <2>1. session' \in Sessions
    BY <1>3 DEF Good, Sessions
  <2>2. QED
    BY <1>1, <1>2, <2>1 DEF World, Books, Masks, TypeOK, Sessions
<1>5. QED
  BY <1>1, <1>3, <1>4, MasksNext DEF IInv

\* The session and its books stay sound, for any number of processes, threads,
\* clusters and disturbances.
THEOREM SessionInvariant == Spec => []IInv
BY InitIInv, NextIInv, PTL DEF Spec

\* Type correctness: what the guard, the yielding and the cool-down keep of a thread
\* is only kept while the thread is in the books.
THEOREM SessionTypes == Spec => []TypeOK
<1>1. IInv => TypeOK
  BY DEF IInv
<1>2. QED
  BY <1>1, SessionInvariant, PTL

\* No thread of a game in the background stays bound: switches, scans, events, steps
\* and pauses in any order never leave one of our masks on a thread that is not in
\* the books or not of the process in front.
THEOREM BackgroundIsFree == Spec => []OnlyForegroundBound
<1>1. IInv => OnlyForegroundBound
  BY DEF IInv
<1>2. QED
  BY <1>1, SessionInvariant, PTL

\* A latch lasts as long as its thread and its session: no scan, hold, snapshot,
\* reselection or binding takes it from a living thread.
THEOREM LatchesLast == Spec => LatchKept
<1>1. IInv /\ [Next]_vars => [\A r \in Primary :
          LET t == session.latch[r]
          IN  t # None /\ session'.pid = session.pid /\ t \in live => session'.latch[r] = t]_vars
  BY SessionNext DEF IInv, Keeps
<1>2. QED
  BY <1>1, SessionInvariant, PTL DEF Spec, LatchKept
===============================================================================
