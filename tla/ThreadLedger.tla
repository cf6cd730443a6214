---------------------------- MODULE ThreadLedger ----------------------------
(***************************************************************************)
(* The ledger of thread bindings: how the daemon binds the threads of the  *)
(* foreground game to CPUs and how it gives them back                      *)
(* (activity_scheduler_internal.inc, activity_scheduler_runtime.inc).      *)
(*                                                                         *)
(* The kernel keeps for every thread a CPU mask and a cpuset group.  The   *)
(* daemon learns of threads from a bounded ring of eBPF events and from a  *)
(* scan of /proc, keeps a record (g_threads) of those of the foreground    *)
(* process, and two ledgers outside the records: the mask and the group a  *)
(* thread had before the first change, each with a mark (dirty) on the     *)
(* threads that are changed now.                                           *)
(*                                                                         *)
(* A thread id may be reused, once the events of its former holder have    *)
(* been read or dropped.  A dedicated group is a directory under           *)
(* murong_sched named after its cpus, which are exactly one mask.          *)
(***************************************************************************)
EXTENDS Integers, Sequences, FiniteSets

CONSTANTS
    Tids,           \* thread ids of the game
    Cpus,           \* online CPUs
    Groups,         \* cpuset groups that are not dedicated
    Root,           \* murong_sched itself, one of them
    NoGroup,        \* no group on record
    GroupCpus,      \* the cpus file of each group
    Names,          \* thread names
    Rule,           \* the mask the rules give a name, {} if no rule matches it
    Clusters,       \* masks of the CPU clusters, for threads without a rule
    OfficialMasks,  \* masks the vendor's scheduler gives threads
    Moves,          \* whether the activity manager moves threads between groups
    RingSize,       \* records that fit into process_event_rb
    Budget          \* bound on the steps of the environment

Masks == (SUBSET Cpus) \ {{}}

DedicatedTo(m) == [cpus |-> m]
Dedicated == {DedicatedTo(m) : m \in Masks}

ASSUME LedgerAssumption ==
    /\ Root \in Groups /\ NoGroup \notin Groups \cup Dedicated
    /\ Groups \cap Dedicated = {}
    /\ GroupCpus \in [Groups -> Masks] /\ GroupCpus[Root] = Cpus
    /\ Rule \in [Names -> SUBSET Cpus]
    /\ Clusters \subseteq Masks /\ OfficialMasks \subseteq Masks
    /\ Moves \in BOOLEAN /\ RingSize \in Nat \ {0} /\ Budget \in Nat

NoName == "no name"

VARIABLES
    th,     \* per thread id: the kernel's view, the record and the ledgers
    ring,   \* process_event_rb
    mode,   \* the game is in the foreground, there while a process of the skip list runs
            \* (paused), or away
    budget  \* steps the environment may still take

vars == <<th, ring, mode, budget>>

-----------------------------------------------------------------------------
(* The kernel.  writer and from are history: who set the mask, and what     *)
(* mask the ledger captured.                                                *)

Writers == {"system", "inherited", "bind", "cleared", "restored"}

Provenances == Writers \cup {"none", "earlier"}
AnyName == Names \cup {NoName}
AnyMask == SUBSET Cpus
AnyGroup == Groups \cup Dedicated \cup {NoGroup}
Flags == BOOLEAN

Threads == [alive : Flags, name : AnyName, mask : AnyMask, group : AnyGroup,
            known : Flags, comm : AnyName, assigned : AnyMask,
            base : AnyMask, dirty : Flags, gbase : AnyGroup, gdirty : Flags,
            writer : Writers, from : Provenances]

Allowed(g) == IF g \in Groups THEN GroupCpus[g] ELSE g.cpus

\* sched_setaffinity fails with EINVAL when nothing of the mask is allowed.
Accepts(x, m) == x.alive /\ m \cap Allowed(x.group) # {}

SetMask(x, m, by) == [x EXCEPT !.mask = m \cap Allowed(x.group), !.writer = by]

\* Attaching a thread to a cpuset gives it the mask of the group.
Attach(x, g, by) == [x EXCEPT !.group = g, !.mask = Allowed(g), !.writer = by]

\* The first segment of a group's path: a dedicated group lies under Root.
TopSegment(g) == IF g \in Groups THEN g ELSE Root

-----------------------------------------------------------------------------
(* The ledgers.                                                             *)

\* Mutant: the baseline is taken anew for every binding.
CaptureAlways(x) == [x EXCEPT !.base = x.mask, !.from = x.writer]

\* capture_thread_affinity_baseline_locked
Capture(x) ==
    IF x.base # {} THEN x ELSE [x EXCEPT !.base = x.mask, !.from = x.writer]

\* record_cpuset_membership_baseline_locked: no mark when a group is on record.
RecordGroup(x) ==
    IF x.gbase # NoGroup THEN x ELSE [x EXCEPT !.gbase = x.group, !.gdirty = TRUE]

ForgetMask(x) == [x EXCEPT !.base = {}, !.from = "none", !.dirty = FALSE]
ForgetGroup(x) == [x EXCEPT !.gbase = NoGroup, !.gdirty = FALSE]
Forget(x) == ForgetGroup(ForgetMask(x))

\* set_thread_affinity_mask and recover_cpuset_and_retry_affinity: a mask the
\* group refuses is set after a move into the dedicated group of that mask.
Bind(x, m) ==
    IF ~x.alive THEN x
    ELSE LET c == Capture(x)
             d == IF Accepts(c, m) THEN c ELSE Attach(RecordGroup(c), DedicatedTo(m), "system")
         IN  [SetMask(d, m, "bind") EXCEPT !.dirty = TRUE]

\* Mutant: the mark goes even though the kernel refused the mask.
RestoreMaskForgetsMark(x) ==
    IF ~x.dirty THEN x
    ELSE IF ~x.alive THEN Forget(x)
    ELSE IF Accepts(x, x.base) THEN [SetMask(x, x.base, "restored") EXCEPT !.dirty = FALSE]
    ELSE [x EXCEPT !.dirty = FALSE]

\* restore_thread_affinity_locked
RestoreMask(x) ==
    IF ~x.dirty THEN x
    ELSE IF ~x.alive THEN Forget(x)
    ELSE IF Accepts(x, x.base) THEN [SetMask(x, x.base, "restored") EXCEPT !.dirty = FALSE]
    ELSE x

\* restore_thread_cpuset_membership_locked
RestoreGroup(x) ==
    IF ~x.gdirty THEN x
    ELSE IF ~x.alive THEN ForgetGroup(x)
    ELSE [Attach(x, TopSegment(x.gbase), "system") EXCEPT !.gdirty = FALSE]

\* restore_thread_runtime_adjustments_locked, as far as masks and groups go.
Undo(x) == RestoreGroup(RestoreMask(x))

\* resolve_thread_allowed_mask_locked; the group of a dead thread cannot be read.
Natural(x) == IF x.alive THEN Allowed(TopSegment(x.group)) ELSE Cpus

\* seed_newborn_affinity_baseline_locked
Seed(x) ==
    IF x.base # {} THEN x
    ELSE [x EXCEPT !.base = Natural(x), !.from = "system", !.dirty = TRUE]

\* clear_inherited_thread_mask_locked
ClearInherited(x) ==
    IF ~x.alive \/ Natural(x) \subseteq x.mask THEN x
    ELSE [SetMask(x, Natural(x), "cleared")
            EXCEPT !.base = Natural(x), !.from = "system", !.dirty = TRUE]

-----------------------------------------------------------------------------
(* The records.                                                             *)

Drop(x) == [x EXCEPT !.known = FALSE, !.comm = NoName, !.assigned = {}]

\* Mutant: the name of a known thread is not refreshed.
EnsureKeepsComm(x, c) ==
    IF x.known THEN x ELSE [x EXCEPT !.known = TRUE, !.comm = c, !.assigned = {}]

\* ensure_thread_state_for_tid_locked
Ensure(x, c) == [x EXCEPT !.known = TRUE, !.comm = c,
                          !.assigned = IF x.known THEN @ ELSE {}]

\* A mask set for a record: what was asked for is remembered when it was set.
Assign(x, m, asked) ==
    LET b == Bind(x, m) IN IF x.alive THEN [b EXCEPT !.assigned = asked] ELSE b

\* apply_rule_based_binding_for_new_thread_locked
ApplyToNewborn(x, c) ==
    IF Rule[c] # {} THEN Assign(Seed(x), Rule[c], Rule[c]) ELSE ClearInherited(Seed(x))

\* rebind_renamed_thread_locked: nothing to do when the new name means the mask
\* on record; the record's mask is kept across the release.
Rebind(x, c) ==
    IF Rule[c] = x.assigned THEN x ELSE ApplyToNewborn(Undo(x), c)

\* release_thread_runtime_locked with clear_tracking_state
Release(x) == [Undo(x) EXCEPT !.assigned = {}]

\* run_scheduler_step for one record.  A name without a rule is released and then
\* bound to the cluster of its class, k; hold is the cooldown of a static rule.
StepOn(x, k, hold) ==
    IF ~x.known THEN x
    ELSE LET m == Rule[x.comm] IN
         IF m = {} THEN Assign(Release(x), k, {})
         ELSE IF x.mask # m \/ (x.assigned # m /\ ~hold) THEN Assign(x, m, m)
         ELSE x

-----------------------------------------------------------------------------
Unborn == [alive |-> FALSE, name |-> NoName, mask |-> {}, group |-> NoGroup,
           known |-> FALSE, comm |-> NoName, assigned |-> {},
           base |-> {}, dirty |-> FALSE, gbase |-> NoGroup, gdirty |-> FALSE,
           writer |-> "system", from |-> "none"]

Init ==
    /\ th = [t \in Tids |-> Unborn]
    /\ ring = <<>>
    /\ mode = "fg"
    /\ budget = Budget

\* emit_process_event: a record that does not fit is lost.
Emit(type, t, c) ==
    ring' = IF Len(ring) < RingSize
            THEN Append(ring, [type |-> type, tid |-> t, name |-> c]) ELSE ring

Environment == budget > 0 /\ budget' = budget - 1

Pending(t) == \E i \in 1..Len(ring) : ring[i].tid = t

Live == {t \in Tids : th[t].alive}

Born(x, c, m, g, by) ==
    [x EXCEPT !.alive = TRUE, !.name = c, !.mask = m, !.group = g, !.writer = by,
              !.from = IF x.base = {} THEN "none" ELSE "earlier"]

\* A game starts: its first thread comes from the zygote.
Start(t) == \E c \in Names, g \in Groups \ {Root} :
    /\ Environment
    /\ Live = {} /\ ~Pending(t)
    /\ th' = [th EXCEPT ![t] = Born(@, c, GroupCpus[g], g, "system")]
    /\ Emit("fork", t, c)
    /\ UNCHANGED mode

\* A thread inherits name, mask and group.
Fork(t) == \E p \in Live :
    /\ Environment
    /\ t \notin Live /\ ~Pending(t)
    /\ th' = [th EXCEPT ![t] = Born(@, th[p].name, th[p].mask, th[p].group,
                  IF th[p].writer \in {"bind", "inherited"} THEN "inherited" ELSE "system")]
    /\ Emit("fork", t, th[p].name)
    /\ UNCHANGED mode

Rename(t) == \E c \in Names \ {th[t].name} :
    /\ Environment
    /\ t \in Live
    /\ th' = [th EXCEPT ![t].name = c]
    /\ Emit("rename", t, c)
    /\ UNCHANGED mode

Exit(t) ==
    /\ Environment
    /\ t \in Live
    /\ th' = [th EXCEPT ![t].alive = FALSE, ![t].name = NoName, ![t].mask = {},
                        ![t].group = NoGroup, ![t].writer = "system"]
    /\ Emit("exit", t, th[t].name)
    /\ UNCHANGED mode

\* The vendor's scheduler sets a mask of its own.
Official(t) == \E m \in OfficialMasks :
    /\ Environment
    /\ Accepts(th[t], m)
    /\ th' = [th EXCEPT ![t] = SetMask(@, m, "system")]
    /\ UNCHANGED <<ring, mode>>

\* The activity manager moves a thread to another group.
Move(t) == \E g \in Groups \ {Root, th[t].group} :
    /\ Environment
    /\ Moves /\ t \in Live
    /\ th' = [th EXCEPT ![t] = Attach(@, g, "system")]
    /\ UNCHANGED <<ring, mode>>

\* A process of the skip list starts or ends: refresh_scheduler_skip_process_state
\* sets the flag, and only later, with the lock, the records are released.
TogglePause ==
    /\ Environment
    /\ mode # "away"
    /\ mode' = IF mode = "fg" THEN "paused" ELSE "fg"
    /\ UNCHANGED <<th, ring>>

-----------------------------------------------------------------------------
\* handle_process_event_signal
OnExit(x) == IF x.known THEN Drop(Forget(Undo(x))) ELSE x
OnFork(x, c) == ApplyToNewborn(Ensure(x, c), c)
OnRename(x, c) == Rebind(Ensure(x, c), c)

\* poll_process_event_ring_locked, one record of it.  The events of a process that
\* is not in the foreground, its exits apart, are skipped.
HandleEvent ==
    /\ ring # <<>> /\ mode # "paused"
    /\ LET e == Head(ring) IN
       th' = [th EXCEPT ![e.tid] =
                CASE e.type = "exit" -> OnExit(@)
                  [] e.type = "fork" /\ mode = "fg" -> OnFork(@, e.name)
                  [] e.type = "rename" /\ mode = "fg" -> OnRename(@, e.name)
                  [] OTHER -> @]
    /\ ring' = Tail(ring)
    /\ UNCHANGED <<mode, budget>>

\* collect_foreground_threads_locked: the scan of /proc/<pid>/task.
ScanOn(x) ==
    IF x.alive THEN Ensure(x, x.name)
    ELSE IF x.known THEN Drop(Forget(Release(x)))
    ELSE x

\* restore_all_thread_runtime_adjustments_locked, and the same with the records
\* cleared; the ledgers of threads without a record are left as they are.
UndoKnown(x) == IF x.known THEN Undo(x) ELSE x

\* Mutant: the records are cleared and nothing is undone.
ReleaseAndDropOnlyDrops(x) == Drop(x)

ReleaseAndDrop(x) == Drop(UndoKnown(x))

Scan ==
    /\ mode = "fg"
    /\ th' = [t \in Tids |-> IF Live = {} THEN ReleaseAndDrop(th[t]) ELSE ScanOn(th[t])]
    /\ UNCHANGED <<ring, mode, budget>>

\* run_scheduler_step, its pass over the records
Step == \E k \in [Tids -> Clusters], hold \in BOOLEAN :
    /\ mode = "fg"
    /\ th' = [t \in Tids |-> StepOn(th[t], k[t], hold)]
    /\ UNCHANGED <<ring, mode, budget>>

\* runtime_monitor_thread and refresh_bpf_targets_now while paused: the records stay.
ReleasePaused ==
    /\ mode = "paused"
    /\ th' = [t \in Tids |-> UndoKnown(th[t])]
    /\ UNCHANGED <<ring, mode, budget>>

\* notify_foreground_app_changed
SwitchAway ==
    /\ Environment
    /\ mode # "away" /\ mode' = "away"
    /\ th' = [t \in Tids |-> ReleaseAndDrop(th[t])]
    /\ UNCHANGED ring

SwitchBack ==
    /\ mode = "away" /\ mode' = "fg"
    /\ th' = [t \in Tids |-> ReleaseAndDrop(th[t])]
    /\ UNCHANGED <<ring, budget>>

EnvironmentNext == \E t \in Tids :
    Start(t) \/ Fork(t) \/ Rename(t) \/ Exit(t) \/ Official(t) \/ Move(t)

Next ==
    \/ EnvironmentNext \/ TogglePause
    \/ HandleEvent \/ Scan \/ Step \/ ReleasePaused \/ SwitchAway \/ SwitchBack

\* The monitor thread and the main loop run for ever.
Spec == Init /\ [][Next]_vars /\ WF_vars(HandleEvent) /\ WF_vars(Scan) /\ WF_vars(Step)

-----------------------------------------------------------------------------
Events == [type : {"fork", "rename", "exit"}, tid : Tids, name : Names]

TypeOK ==
    /\ th \in [Tids -> Threads]
    /\ ring \in Seq(Events) /\ Len(ring) <= RingSize
    /\ mode \in {"fg", "paused", "away"}
    /\ budget \in 0..Budget

\* A thread that carries a mask of the daemon's is marked and its former mask is
\* on record, whatever events were lost, reordered against scans or refused by
\* the kernel: the binding can always be undone.
BindingsAreUndoable == \A t \in Tids :
    th[t].writer = "bind" => th[t].dirty /\ th[t].base # {}

\* The ledger outlives the records so that a mask of the daemon's own is never
\* taken for the mask to return to (activity_scheduler_internal.inc:2225).
BaselineIsNotOurs == \A t \in Tids : th[t].from # "bind"

\* A thread that carries a mask of the daemon's has a record, so that the next
\* release reaches it.  It holds as long as no group refuses a mask (NoneRefused in
\* ThreadLedgerProofs).
NoOrphan == \A t \in Tids : th[t].writer = "bind" => th[t].known

\* The game's threads get the masks on record back when it leaves the foreground
\* (activity_scheduler_internal.inc:2476), as far as their groups allow.  It holds
\* as long as no group refuses a mask: the mask is restored before the group, so
\* the kernel refuses it inside a dedicated group, and the move out of that group
\* then gives the thread every CPU of its own.
RestoresBaseline == [][\A t \in Tids :
    mode # "away" /\ mode' = "away" /\ th[t].writer = "bind"
        => th'[t].mask = th[t].base \cap Allowed(th'[t].group)]_vars

\* A lost event only delays: in a game that stays in the foreground every thread
\* ends up with the mask its present name calls for, within its group.
Converges == <>[](mode = "fg") => <>[](\A t \in Live :
    Rule[th[t].name] # {} => th[t].mask = Rule[th[t].name] \cap Allowed(th[t].group))

-----------------------------------------------------------------------------
(* Statements of the comments the code does not keep.                       *)

\* activity_scheduler_internal.inc:2226: an entry is kept per thread id and dropped
\* when the thread exits.  An exit is only acted on for a thread with a record.
LedgerOfThisThread == \A t \in Live : th[t].from # "earlier"

\* activity_scheduler_internal.inc:2360: the mask inherited from a bound parent is
\* never the baseline.  A scan and a step may come before the fork event.
BaselineIsNotInherited == \A t \in Tids : th[t].from # "inherited"

\* activity_scheduler_internal.inc:5644: a thread moved into a dedicated group is
\* moved back when it is released.  The second move leaves no mark.
MovesAreUndone == [][\A t \in Live :
    mode # "away" /\ mode' = "away" /\ th[t].known /\ th[t].gbase # NoGroup
        => th'[t].group \in Groups]_vars
=============================================================================
