------------------------- MODULE ThreadLedgerProofs -------------------------
(***************************************************************************)
(* Proofs about the ledger of thread bindings.  Every step applies         *)
(* operators to the records of single threads, so the invariant is one     *)
(* predicate on a record, Sound, and there is one lemma per operator.      *)
(* The second part is about a game whose groups refuse no mask that is     *)
(* asked for (NoneRefused): then Fitting holds of every record as well,    *)
(* no thread with a mask of the daemon's is without a record, and masks    *)
(* are given back.                                                         *)
(***************************************************************************)
EXTENDS ThreadLedger, TLAPS

Sound(x) ==
    /\ x \in Threads
    /\ x.alive => x.mask # {} /\ x.group \in Groups \cup Dedicated /\ x.name \in Names
    /\ ~x.alive => x.writer = "system"
    /\ x.dirty => x.base # {}
    /\ x.gdirty => x.gbase # NoGroup
    /\ x.known => x.comm \in Names
    /\ x.writer = "bind" => x.dirty
    /\ x.from # "bind"

\* The events name thread ids and names, and an exit in the ring is that of a
\* thread whose id is not taken again yet.
RingOK ==
    /\ ring \in Seq(Events) /\ Len(ring) <= RingSize
    /\ \A i \in 1..Len(ring) : ring[i].type = "exit" => ~th[ring[i].tid].alive

IInv ==
    /\ th \in [Tids -> Threads] /\ \A t \in Tids : Sound(th[t])
    /\ RingOK
    /\ mode \in {"fg", "paused", "away"}
    /\ budget \in 0..Budget

-----------------------------------------------------------------------------
\* What a thread may run on is never empty.
LEMMA AllowedMasks == ASSUME NEW g \in Groups \cup Dedicated
                      PROVE  Allowed(g) \in Masks
  BY LedgerAssumption DEF Allowed, Dedicated, DedicatedTo

\* Restoring leads back to a group that is no dedicated one.
LEMMA TopSegments == ASSUME NEW g \in Groups \cup Dedicated
                     PROVE  TopSegment(g) \in Groups
  BY LedgerAssumption DEF TopSegment

\* The fields of a record, and what holds of the sets they range over.
LEMMA Fields ==
    ASSUME NEW x, Sound(x)
    PROVE  /\ x.alive \in Flags /\ x.name \in AnyName /\ x.mask \in AnyMask
           /\ x.group \in AnyGroup /\ x.known \in Flags /\ x.comm \in AnyName
           /\ x.assigned \in AnyMask /\ x.base \in AnyMask /\ x.dirty \in Flags
           /\ x.gbase \in AnyGroup /\ x.gdirty \in Flags /\ x.writer \in Writers
           /\ x.from \in Provenances
  BY DEF Sound, Threads

LEMMA Ranges ==
    /\ {TRUE, FALSE} \subseteq Flags
    /\ Writers \subseteq Provenances /\ "none" \in Provenances /\ "earlier" \in Provenances
    /\ "bind" \notin {"none", "earlier", "system", "cleared", "restored", "inherited"}
    /\ {"system", "cleared", "restored", "bind", "inherited"} = Writers
    /\ {} \in AnyMask /\ Masks \subseteq AnyMask /\ NoGroup \in AnyGroup
    /\ Groups \cup Dedicated \subseteq AnyGroup /\ Names \subseteq AnyName
    /\ NoName \in AnyName
  BY DEF Flags, Writers, Provenances, AnyMask, Masks, AnyGroup, AnyName

\* Setting a mask the kernel accepts leaves the ledger as it is.
LEMMA SetMaskSound ==
    ASSUME NEW x, Sound(x), NEW m \in AnyMask, Accepts(x, m),
           NEW by \in Writers, by = "bind" => x.dirty
    PROVE  Sound(SetMask(x, m, by)) /\ SetMask(x, m, by).alive
<1> DEFINE y == SetMask(x, m, by)
<1>1. m \cap Allowed(x.group) \in AnyMask
  BY Fields DEF AnyMask
<1>2. y \in Threads
  BY <1>1, ZenonT(30) DEF SetMask, Sound, Threads
<1>3. /\ y.mask = m \cap Allowed(x.group) /\ y.writer = by
      /\ y.alive = x.alive /\ y.group = x.group /\ y.name = x.name
      /\ y.known = x.known /\ y.comm = x.comm /\ y.dirty = x.dirty /\ y.base = x.base
      /\ y.gdirty = x.gdirty /\ y.gbase = x.gbase /\ y.from = x.from
  BY DEF SetMask, Sound, Threads
<1> HIDE DEF y
<1>4. QED
  BY <1>2, <1>3 DEF Sound, Accepts, y

LEMMA AttachSound ==
    ASSUME NEW x, Sound(x), x.alive, NEW g \in Groups \cup Dedicated
    PROVE  /\ Sound(Attach(x, g, "system")) /\ Attach(x, g, "system").alive
           /\ Attach(x, g, "system").base = x.base /\ Attach(x, g, "system").mask = Allowed(g)
           /\ Attach(x, g, "system").group = g
<1> DEFINE y == Attach(x, g, "system")
<1>1. Allowed(g) \in AnyMask /\ Allowed(g) # {} /\ g \in AnyGroup /\ "system" \in Writers
  BY AllowedMasks, Ranges DEF Masks
<1>2. y \in Threads
  BY <1>1, ZenonT(30) DEF Attach, Sound, Threads
<1>3. /\ y.mask = Allowed(g) /\ y.writer = "system" /\ y.group = g
      /\ y.alive = x.alive /\ y.name = x.name
      /\ y.known = x.known /\ y.comm = x.comm /\ y.dirty = x.dirty /\ y.base = x.base
      /\ y.gdirty = x.gdirty /\ y.gbase = x.gbase /\ y.from = x.from
  BY DEF Attach, Sound, Threads
<1> HIDE DEF y
<1>4. QED
  BY <1>1, <1>2, <1>3, Ranges DEF Sound, y

LEMMA CaptureSound ==
    ASSUME NEW x, Sound(x), x.alive
    PROVE  /\ Sound(Capture(x)) /\ Capture(x).alive /\ Capture(x).base # {}
           /\ Capture(x).group = x.group
<1>1. CASE x.base # {}
  BY <1>1 DEF Capture
<1>2. CASE x.base = {}
  <2> DEFINE y == [x EXCEPT !.base = x.mask, !.from = x.writer]
  <2>1. y \in Threads
    BY Fields, Ranges, ZenonT(30) DEF Sound, Threads
  <2>2. /\ y.base = x.mask /\ y.from = x.writer
        /\ y.alive = x.alive /\ y.group = x.group /\ y.name = x.name /\ y.mask = x.mask
        /\ y.known = x.known /\ y.comm = x.comm /\ y.dirty = x.dirty
        /\ y.gdirty = x.gdirty /\ y.gbase = x.gbase /\ y.writer = x.writer
    BY DEF Sound, Threads
  <2> HIDE DEF y
  <2>3. Sound(y) /\ y.alive /\ y.base # {} /\ y.group = x.group
    BY <1>2, <2>1, <2>2 DEF Sound
  <2>4. QED
    BY <1>2, <2>3 DEF Capture, y
<1>3. QED
  BY <1>1, <1>2

LEMMA RecordGroupSound ==
    ASSUME NEW x, Sound(x), x.alive
    PROVE  /\ Sound(RecordGroup(x)) /\ RecordGroup(x).alive
           /\ RecordGroup(x).base = x.base
<1>1. CASE x.gbase # NoGroup
  BY <1>1 DEF RecordGroup
<1>2. CASE x.gbase = NoGroup
  <2> DEFINE y == [x EXCEPT !.gbase = x.group, !.gdirty = TRUE]
  <2>1. y \in Threads
    BY Fields, Ranges, ZenonT(30) DEF Sound, Threads
  <2>2. /\ y.gbase = x.group /\ y.gdirty = TRUE /\ y.base = x.base /\ y.from = x.from
        /\ y.alive = x.alive /\ y.group = x.group /\ y.name = x.name /\ y.mask = x.mask
        /\ y.known = x.known /\ y.comm = x.comm /\ y.dirty = x.dirty /\ y.writer = x.writer
    BY DEF Sound, Threads
  <2> HIDE DEF y
  <2>3. Sound(y) /\ y.alive /\ y.base = x.base
    BY LedgerAssumption, <2>1, <2>2 DEF Sound
  <2>4. QED
    BY <1>2, <2>3 DEF RecordGroup, y
<1>3. QED
  BY <1>1, <1>2

\* A thread whose base is on record and whose group accepts the mask is bound.
LEMMA BoundSound ==
    ASSUME NEW d, Sound(d), d.base # {}, NEW m \in Masks, Accepts(d, m)
    PROVE  /\ Sound([SetMask(d, m, "bind") EXCEPT !.dirty = TRUE])
           /\ [SetMask(d, m, "bind") EXCEPT !.dirty = TRUE].alive
<1> DEFINE y == [SetMask(d, m, "bind") EXCEPT !.dirty = TRUE]
<1>1. /\ m \cap Allowed(d.group) \in AnyMask
      /\ "bind" \in Writers /\ TRUE \in Flags
  BY Fields, Ranges DEF AnyMask, Flags, Masks
<1>2. y \in Threads
  BY <1>1, ZenonT(30) DEF SetMask, Sound, Threads
<1>3. /\ y.mask = m \cap Allowed(d.group) /\ y.writer = "bind" /\ y.dirty = TRUE
      /\ y.alive = d.alive /\ y.group = d.group /\ y.name = d.name
      /\ y.known = d.known /\ y.comm = d.comm /\ y.base = d.base
      /\ y.gdirty = d.gdirty /\ y.gbase = d.gbase /\ y.from = d.from
  BY DEF SetMask, Sound, Threads
<1> HIDE DEF y
<1>4. QED
  BY <1>2, <1>3 DEF Sound, Accepts, y

LEMMA BindSound ==
    ASSUME NEW x, Sound(x), NEW m \in Masks
    PROVE  Sound(Bind(x, m)) /\ Bind(x, m).alive = x.alive
<1>1. CASE ~x.alive
  BY <1>1 DEF Bind
<1>2. CASE x.alive
  <2> DEFINE c == Capture(x)
             a == Attach(RecordGroup(c), DedicatedTo(m), "system")
  <2>1. Sound(c) /\ c.alive /\ c.base # {}
    BY <1>2, CaptureSound
  <2>2. CASE Accepts(c, m)
    <3>1. Bind(x, m) = [SetMask(c, m, "bind") EXCEPT !.dirty = TRUE]
      BY <1>2, <2>2 DEF Bind
    <3> HIDE DEF c
    <3>2. QED
      BY <1>2, <2>1, <2>2, <3>1, BoundSound
  <2>3. CASE ~Accepts(c, m)
    <3>1. Bind(x, m) = [SetMask(a, m, "bind") EXCEPT !.dirty = TRUE]
      BY <1>2, <2>3 DEF Bind
    <3> DEFINE r == RecordGroup(c)
    <3>2. Sound(r) /\ r.alive /\ r.base # {}
      BY <2>1, RecordGroupSound
    <3>3. DedicatedTo(m) \in Groups \cup Dedicated
      BY DEF Dedicated
    <3>4. Sound(a) /\ a.alive /\ a.base # {} /\ a.group = DedicatedTo(m)
      <4> HIDE DEF c, r
      <4>1. QED
        BY <3>2, <3>3, AttachSound DEF r
    <3>5. DedicatedTo(m) \notin Groups /\ DedicatedTo(m).cpus = m
      BY LedgerAssumption DEF Dedicated, DedicatedTo
    <3> HIDE DEF a, c, r
    <3>6. Allowed(a.group) = m
      BY <3>4, <3>5 DEF Allowed
    <3>7. Accepts(a, m)
      BY <3>4, <3>6 DEF Accepts, Masks
    <3>8. QED
      BY <1>2, <3>1, <3>4, <3>7, BoundSound
  <2>4. QED
    BY <2>2, <2>3
<1>3. QED
  BY <1>1, <1>2

\* Forgetting is for the dead, who carry no mask of the daemon's.
LEMMA ForgetSound ==
    ASSUME NEW x, Sound(x), x.writer # "bind"
    PROVE  /\ Sound(ForgetMask(x)) /\ ForgetMask(x).writer = x.writer
           /\ ForgetMask(x).alive = x.alive
           /\ Sound(ForgetGroup(x)) /\ ForgetGroup(x).alive = x.alive
           /\ Sound(Forget(x)) /\ Forget(x).alive = x.alive
<1> DEFINE y == ForgetMask(x)
<1>1. y \in Threads
  BY Ranges, ZenonT(30) DEF Sound, Threads, ForgetMask
<1>2. /\ y.base = {} /\ y.from = "none" /\ y.dirty = FALSE
      /\ y.alive = x.alive /\ y.group = x.group /\ y.name = x.name /\ y.mask = x.mask
      /\ y.known = x.known /\ y.comm = x.comm /\ y.writer = x.writer
      /\ y.gdirty = x.gdirty /\ y.gbase = x.gbase
  BY DEF Sound, Threads, ForgetMask
<1>3. \A z : Sound(z) => Sound(ForgetGroup(z)) /\ ForgetGroup(z).alive = z.alive
  <2> SUFFICES ASSUME NEW z, Sound(z)
               PROVE  Sound(ForgetGroup(z)) /\ ForgetGroup(z).alive = z.alive
    OBVIOUS
  <2> DEFINE g == ForgetGroup(z)
  <2>1. g \in Threads
    BY Ranges, ZenonT(30) DEF Sound, Threads, ForgetGroup
  <2>2. /\ g.base = z.base /\ g.from = z.from /\ g.dirty = z.dirty
        /\ g.alive = z.alive /\ g.group = z.group /\ g.name = z.name /\ g.mask = z.mask
        /\ g.known = z.known /\ g.comm = z.comm /\ g.writer = z.writer
        /\ g.gdirty = FALSE /\ g.gbase = NoGroup
    BY DEF Sound, Threads, ForgetGroup
  <2> HIDE DEF g
  <2>3. Sound(g) /\ g.alive = z.alive
    BY <2>1, <2>2 DEF Sound
  <2>4. QED
    BY <2>3 DEF g
<1> HIDE DEF y
<1>4. Sound(y) /\ y.writer = x.writer /\ y.alive = x.alive
  BY <1>1, <1>2 DEF Sound
<1>5. Forget(x) = ForgetGroup(y)
  BY DEF Forget, y
<1>6. QED
  BY <1>3, <1>4, <1>5 DEF y

LEMMA RestoreMaskSound ==
    ASSUME NEW x, Sound(x)
    PROVE  Sound(RestoreMask(x)) /\ RestoreMask(x).alive = x.alive
<1>1. CASE ~x.dirty
  BY <1>1 DEF RestoreMask
<1>2. CASE x.dirty /\ ~x.alive
  <2>1. Sound(Forget(x)) /\ Forget(x).alive = x.alive
    BY <1>2, ForgetSound DEF Sound
  <2>2. QED
    BY <1>2, <2>1 DEF RestoreMask
<1>3. CASE x.dirty /\ Accepts(x, x.base)
  <2> DEFINE r == SetMask(x, x.base, "restored")
             y == [r EXCEPT !.dirty = FALSE]
  <2>1. Sound(r) /\ r.alive /\ r.writer = "restored"
    <3>1. Sound(r) /\ r.alive
      BY <1>3, Fields, Ranges, SetMaskSound
    <3>2. r.writer = "restored"
      BY DEF SetMask, Sound, Threads
    <3>3. QED
      BY <3>1, <3>2
  <2>2. RestoreMask(x) = y
    BY <1>3 DEF RestoreMask, Accepts
  <2> HIDE DEF r
  <2>3. y \in Threads
    BY <2>1, Ranges, ZenonT(30) DEF Sound, Threads
  <2>4. /\ y.base = r.base /\ y.from = r.from /\ y.dirty = FALSE
        /\ y.alive = r.alive /\ y.group = r.group /\ y.name = r.name /\ y.mask = r.mask
        /\ y.known = r.known /\ y.comm = r.comm /\ y.writer = r.writer
        /\ y.gdirty = r.gdirty /\ y.gbase = r.gbase
    BY <2>1 DEF Sound, Threads
  <2> HIDE DEF y
  <2>5. Sound(y) /\ y.alive
    BY <2>1, <2>3, <2>4 DEF Sound
  <2>6. x.alive = TRUE /\ y.alive = TRUE
    BY <1>3, <2>3, <2>5, Fields DEF Accepts, Flags
  <2>7. QED
    BY <2>2, <2>5, <2>6
<1>4. CASE x.dirty /\ x.alive /\ ~Accepts(x, x.base)
  BY <1>4 DEF RestoreMask
<1>5. QED
  BY <1>1, <1>2, <1>3, <1>4

LEMMA RestoreGroupSound ==
    ASSUME NEW x, Sound(x)
    PROVE  Sound(RestoreGroup(x)) /\ RestoreGroup(x).alive = x.alive
<1>1. CASE ~x.gdirty
  BY <1>1 DEF RestoreGroup
<1>2. CASE x.gdirty /\ ~x.alive
  <2>1. Sound(ForgetGroup(x)) /\ ForgetGroup(x).alive = x.alive
    BY <1>2, ForgetSound DEF Sound
  <2>2. QED
    BY <1>2, <2>1 DEF RestoreGroup
<1>3. CASE x.gdirty /\ x.alive
  <2> DEFINE r == Attach(x, TopSegment(x.gbase), "system")
             y == [r EXCEPT !.gdirty = FALSE]
  <2>1. TopSegment(x.gbase) \in Groups \cup Dedicated
    BY <1>3, TopSegments, Fields DEF Sound, AnyGroup
  <2>2. Sound(r) /\ r.alive
    BY <1>3, <2>1, AttachSound
  <2>3. RestoreGroup(x) = y
    BY <1>3 DEF RestoreGroup
  <2> HIDE DEF r
  <2>4. y \in Threads
    BY <2>2, Ranges, ZenonT(30) DEF Sound, Threads
  <2>5. /\ y.base = r.base /\ y.from = r.from /\ y.dirty = r.dirty
        /\ y.alive = r.alive /\ y.group = r.group /\ y.name = r.name /\ y.mask = r.mask
        /\ y.known = r.known /\ y.comm = r.comm /\ y.writer = r.writer
        /\ y.gdirty = FALSE /\ y.gbase = r.gbase
    BY <2>2 DEF Sound, Threads
  <2> HIDE DEF y
  <2>6. Sound(y) /\ y.alive
    BY <2>2, <2>4, <2>5 DEF Sound
  <2>7. x.alive = TRUE /\ y.alive = TRUE
    BY <1>3, <2>4, <2>6, Fields DEF Flags
  <2>8. QED
    BY <2>3, <2>6, <2>7
<1>4. QED
  BY <1>1, <1>2, <1>3

LEMMA UndoSound ==
    ASSUME NEW x, Sound(x)
    PROVE  Sound(Undo(x)) /\ Undo(x).alive = x.alive
  BY RestoreMaskSound, RestoreGroupSound DEF Undo

LEMMA NaturalMask ==
    ASSUME NEW x, Sound(x)
    PROVE  /\ Natural(x) \in AnyMask
           /\ x.alive => Natural(x) \in Masks /\ Accepts(x, Natural(x))
<1>1. CASE ~x.alive
  BY <1>1 DEF Natural, AnyMask
<1>2. CASE x.alive
  <2>1. x.group \in Groups \cup Dedicated
    BY <1>2 DEF Sound
  <2>2. Allowed(TopSegment(x.group)) \in Masks /\ Allowed(x.group) \in Masks
    BY <2>1, TopSegments, AllowedMasks
  <2>3. Allowed(TopSegment(x.group)) \cap Allowed(x.group) # {}
    BY <2>1, <2>2, LedgerAssumption DEF TopSegment, Allowed, Masks
  <2>4. QED
    BY <1>2, <2>2, <2>3, Ranges DEF Natural, Accepts
<1>3. QED
  BY <1>1, <1>2

LEMMA SeedSound ==
    ASSUME NEW x, Sound(x), Cpus # {}
    PROVE  Sound(Seed(x)) /\ Seed(x).alive = x.alive
<1>1. CASE x.base # {}
  BY <1>1 DEF Seed
<1>2. CASE x.base = {}
  <2> DEFINE y == [x EXCEPT !.base = Natural(x), !.from = "system", !.dirty = TRUE]
  <2>1. Natural(x) \in AnyMask /\ Natural(x) # {} /\ "system" \in Provenances /\ TRUE \in Flags
    BY NaturalMask, Ranges DEF Masks, Natural
  <2>2. y \in Threads
    BY <2>1, ZenonT(30) DEF Sound, Threads
  <2>3. /\ y.base = Natural(x) /\ y.from = "system" /\ y.dirty = TRUE
        /\ y.alive = x.alive /\ y.group = x.group /\ y.name = x.name /\ y.mask = x.mask
        /\ y.known = x.known /\ y.comm = x.comm /\ y.writer = x.writer
        /\ y.gdirty = x.gdirty /\ y.gbase = x.gbase
    BY DEF Sound, Threads
  <2> HIDE DEF y
  <2>4. Sound(y) /\ y.alive = x.alive
    BY <2>1, <2>2, <2>3 DEF Sound
  <2>5. QED
    BY <1>2, <2>4 DEF Seed, y
<1>3. QED
  BY <1>1, <1>2

LEMMA ClearInheritedSound ==
    ASSUME NEW x, Sound(x)
    PROVE  Sound(ClearInherited(x)) /\ ClearInherited(x).alive = x.alive
<1>1. CASE ~x.alive \/ Natural(x) \subseteq x.mask
  BY <1>1 DEF ClearInherited
<1>2. CASE x.alive /\ ~(Natural(x) \subseteq x.mask)
  <2> DEFINE r == SetMask(x, Natural(x), "cleared")
             y == [r EXCEPT !.base = Natural(x), !.from = "system", !.dirty = TRUE]
  <2>1. Natural(x) \in AnyMask /\ Natural(x) # {} /\ Accepts(x, Natural(x))
    BY <1>2, NaturalMask DEF Masks
  <2>2. Sound(r) /\ r.alive
    BY <2>1, Ranges, SetMaskSound
  <2>3. ClearInherited(x) = y
    BY <1>2 DEF ClearInherited
  <2> HIDE DEF r
  <2>4. "system" \in Provenances /\ TRUE \in Flags
    BY Ranges
  <2>5. y \in Threads
    BY <2>1, <2>2, <2>4, ZenonT(30) DEF Sound, Threads
  <2>6. /\ y.base = Natural(x) /\ y.from = "system" /\ y.dirty = TRUE
        /\ y.alive = r.alive /\ y.group = r.group /\ y.name = r.name /\ y.mask = r.mask
        /\ y.known = r.known /\ y.comm = r.comm /\ y.writer = r.writer
        /\ y.gdirty = r.gdirty /\ y.gbase = r.gbase
    BY <2>2 DEF Sound, Threads
  <2> HIDE DEF y
  <2>7. Sound(y) /\ y.alive
    BY <2>1, <2>2, <2>5, <2>6 DEF Sound
  <2>8. x.alive = TRUE /\ y.alive = TRUE
    BY <1>2, <2>5, <2>7, Fields DEF Flags
  <2>9. QED
    BY <2>3, <2>7, <2>8
<1>3. QED
  BY <1>1, <1>2

-----------------------------------------------------------------------------
(* The records.                                                             *)

LEMMA CpusExist == Cpus # {}
  BY LedgerAssumption DEF Masks

LEMMA RuleMasks == ASSUME NEW c \in Names
                   PROVE  Rule[c] \in AnyMask /\ (Rule[c] # {} => Rule[c] \in Masks)
  BY LedgerAssumption DEF AnyMask, Masks

LEMMA DropSound ==
    ASSUME NEW x, Sound(x)
    PROVE  Sound(Drop(x)) /\ Drop(x).alive = x.alive
<1> DEFINE y == Drop(x)
<1>1. y \in Threads
  BY Ranges, ZenonT(30) DEF Sound, Threads, Drop
<1>2. /\ y.known = FALSE /\ y.alive = x.alive /\ y.group = x.group /\ y.name = x.name
      /\ y.mask = x.mask /\ y.base = x.base /\ y.dirty = x.dirty /\ y.writer = x.writer
      /\ y.gdirty = x.gdirty /\ y.gbase = x.gbase /\ y.from = x.from
  BY DEF Sound, Threads, Drop
<1> HIDE DEF y
<1>3. QED
  BY <1>1, <1>2 DEF Sound, y

LEMMA EnsureSound ==
    ASSUME NEW x, Sound(x), NEW c \in Names
    PROVE  Sound(Ensure(x, c)) /\ Ensure(x, c).alive = x.alive
<1> DEFINE a == IF x.known THEN x.assigned ELSE {}
           y == [x EXCEPT !.known = TRUE, !.comm = c, !.assigned = a]
<1>1. a \in AnyMask /\ c \in AnyName /\ TRUE \in Flags
  BY Fields, Ranges
<1>2. y \in Threads
  <2> HIDE DEF a
  <2>1. QED
    BY <1>1, ZenonT(30) DEF Sound, Threads
<1>3. /\ y.known = TRUE /\ y.comm = c /\ y.alive = x.alive /\ y.group = x.group
      /\ y.name = x.name /\ y.mask = x.mask /\ y.base = x.base /\ y.dirty = x.dirty
      /\ y.writer = x.writer /\ y.gdirty = x.gdirty /\ y.gbase = x.gbase /\ y.from = x.from
  BY DEF Sound, Threads
<1>4. Ensure(x, c) = y
  BY DEF Ensure
<1> HIDE DEF y
<1>5. QED
  BY <1>2, <1>3, <1>4 DEF Sound

\* What a record remembers of its binding is no part of the ledger.
LEMMA AssignedSound ==
    ASSUME NEW x, Sound(x), NEW m \in AnyMask
    PROVE  Sound([x EXCEPT !.assigned = m]) /\ [x EXCEPT !.assigned = m].alive = x.alive
<1> DEFINE y == [x EXCEPT !.assigned = m]
<1>1. y \in Threads
  BY ZenonT(30) DEF Sound, Threads
<1>2. /\ y.known = x.known /\ y.comm = x.comm /\ y.alive = x.alive /\ y.group = x.group
      /\ y.name = x.name /\ y.mask = x.mask /\ y.base = x.base /\ y.dirty = x.dirty
      /\ y.writer = x.writer /\ y.gdirty = x.gdirty /\ y.gbase = x.gbase /\ y.from = x.from
  BY DEF Sound, Threads
<1> HIDE DEF y
<1>3. QED
  BY <1>1, <1>2 DEF Sound, y

LEMMA AssignSound ==
    ASSUME NEW x, Sound(x), NEW m \in Masks, NEW asked \in AnyMask
    PROVE  Sound(Assign(x, m, asked)) /\ Assign(x, m, asked).alive = x.alive
  BY BindSound, AssignedSound DEF Assign

LEMMA ApplySound ==
    ASSUME NEW x, Sound(x), NEW c \in Names
    PROVE  Sound(ApplyToNewborn(x, c)) /\ ApplyToNewborn(x, c).alive = x.alive
<1>1. Sound(Seed(x)) /\ Seed(x).alive = x.alive
  BY SeedSound, CpusExist
<1>2. QED
  BY <1>1, RuleMasks, AssignSound, ClearInheritedSound DEF ApplyToNewborn

LEMMA ReleaseSound ==
    ASSUME NEW x, Sound(x)
    PROVE  Sound(Release(x)) /\ Release(x).alive = x.alive
  BY UndoSound, Ranges, AssignedSound DEF Release

LEMMA StepOnSound ==
    ASSUME NEW x, Sound(x), NEW k \in Clusters, NEW hold
    PROVE  Sound(StepOn(x, k, hold)) /\ StepOn(x, k, hold).alive = x.alive
<1>1. CASE ~x.known
  BY <1>1 DEF StepOn
<1>2. CASE x.known
  <2> DEFINE m == Rule[x.comm]
  <2>1. m \in AnyMask /\ (m # {} => m \in Masks)
    BY <1>2, RuleMasks DEF Sound
  <2>2. Sound(Assign(Release(x), k, {})) /\ Assign(Release(x), k, {}).alive = x.alive
    BY LedgerAssumption, Ranges, ReleaseSound, AssignSound
  <2>3. m # {} => Sound(Assign(x, m, m)) /\ Assign(x, m, m).alive = x.alive
    BY <2>1, AssignSound
  <2>4. QED
    BY <1>2, <2>2, <2>3 DEF StepOn
<1>3. QED
  BY <1>1, <1>2

LEMMA ScanOnSound ==
    ASSUME NEW x, Sound(x)
    PROVE  Sound(ScanOn(x)) /\ ScanOn(x).alive = x.alive
<1>1. CASE x.alive
  BY <1>1, EnsureSound DEF ScanOn, Sound
<1>2. CASE ~x.alive
  <2>1. Sound(Release(x)) /\ Release(x).writer # "bind" /\ Release(x).alive = x.alive
    BY <1>2, ReleaseSound DEF Sound
  <2>2. Sound(Drop(Forget(Release(x)))) /\ Drop(Forget(Release(x))).alive = x.alive
    BY <2>1, ForgetSound, DropSound
  <2>3. QED
    BY <1>2, <2>2 DEF ScanOn
<1>3. QED
  BY <1>1, <1>2

LEMMA ReleaseAndDropSound ==
    ASSUME NEW x, Sound(x)
    PROVE  /\ Sound(UndoKnown(x)) /\ UndoKnown(x).alive = x.alive
           /\ Sound(ReleaseAndDrop(x)) /\ ReleaseAndDrop(x).alive = x.alive
  BY UndoSound, DropSound DEF UndoKnown, ReleaseAndDrop

LEMMA OnForkSound ==
    ASSUME NEW x, Sound(x), NEW c \in Names
    PROVE  /\ Sound(OnFork(x, c)) /\ OnFork(x, c).alive = x.alive
           /\ Sound(OnRename(x, c)) /\ OnRename(x, c).alive = x.alive
<1>1. Sound(Ensure(x, c)) /\ Ensure(x, c).alive = x.alive
  BY EnsureSound
<1>2. QED
  BY <1>1, ApplySound, UndoSound DEF OnFork, OnRename, Rebind

\* An exit is handled while the thread is dead, and the dead carry no mask.
LEMMA OnExitSound ==
    ASSUME NEW x, Sound(x), ~x.alive
    PROVE  Sound(OnExit(x)) /\ OnExit(x).alive = x.alive
<1>1. Sound(Undo(x)) /\ Undo(x).alive = x.alive /\ Undo(x).writer # "bind"
  BY UndoSound DEF Sound
<1>2. Sound(Drop(Forget(Undo(x)))) /\ Drop(Forget(Undo(x))).alive = x.alive
  BY <1>1, ForgetSound, DropSound
<1>3. QED
  BY <1>2 DEF OnExit

LEMMA BornSound ==
    ASSUME NEW x, Sound(x), ~x.alive, NEW c \in Names, NEW m \in Masks,
           NEW g \in Groups \cup Dedicated, NEW by \in Writers \ {"bind"}
    PROVE  Sound(Born(x, c, m, g, by))
<1> DEFINE f == IF x.base = {} THEN "none" ELSE "earlier"
           y == [x EXCEPT !.alive = TRUE, !.name = c, !.mask = m, !.group = g,
                          !.writer = by, !.from = f]
<1>1. /\ f \in Provenances /\ f # "bind" /\ c \in AnyName /\ m \in AnyMask
      /\ g \in AnyGroup /\ TRUE \in Flags /\ FALSE \in Flags
  BY Ranges
<1> HIDE DEF f
<1>2. y \in Threads
  BY <1>1, ZenonT(30) DEF Sound, Threads
<1>3. /\ y.alive = TRUE /\ y.name = c /\ y.mask = m /\ y.group = g /\ y.writer = by
      /\ y.from = f /\ y.known = x.known /\ y.comm = x.comm /\ y.base = x.base
      /\ y.dirty = x.dirty /\ y.gdirty = x.gdirty /\ y.gbase = x.gbase
  BY DEF Sound, Threads
<1>4. Born(x, c, m, g, by) = y
  BY DEF Born, f
<1> HIDE DEF y
<1>5. QED
  BY <1>1, <1>2, <1>3, <1>4 DEF Sound, Masks

-----------------------------------------------------------------------------
(* The steps.                                                               *)

\* Every step but a birth and a death leaves each thread as alive as it was.
LEMMA SameLives ==
    ASSUME IInv, NEW th1, th1 \in [Tids -> Threads],
           \A t \in Tids : Sound(th1[t]) /\ th1[t].alive = th[t].alive
    PROVE  \A i \in 1..Len(ring) : ring[i].type = "exit" => ~th1[ring[i].tid].alive
<1>1. \A i \in 1..Len(ring) : ring[i].tid \in Tids
  <2>1. \A i \in 1..Len(ring) : ring[i] \in Events
    BY DEF IInv, RingOK
  <2>2. QED
    BY <2>1 DEF Events
<1>2. SUFFICES ASSUME NEW i \in 1..Len(ring), ring[i].type = "exit"
             PROVE  ~th1[ring[i].tid].alive
  OBVIOUS
<1>3. ~th[ring[i].tid].alive
  BY <1>2 DEF IInv, RingOK
<1>4. th1[ring[i].tid].alive = th[ring[i].tid].alive
  BY <1>1, <1>2
<1>5. QED
  BY <1>3, <1>4

\* A step that works on every record for itself and leaves the ring alone.
LEMMA WholesaleStep ==
    ASSUME IInv, NEW F, th' = [t \in Tids |-> F[t]],
           \A t \in Tids : Sound(F[t]) /\ F[t].alive = th[t].alive,
           ring' = ring, mode' \in {"fg", "paused", "away"}, budget' \in 0..Budget
    PROVE  IInv'
<1>1. th' \in [Tids -> Threads] /\ \A t \in Tids : Sound(th'[t]) /\ th'[t].alive = th[t].alive
  BY DEF Sound
<1>2. (\A t \in Tids : Sound(th[t]))'
  BY <1>1 DEF Sound
<1>3. \A i \in 1..Len(ring) : ring[i].type = "exit" => ~th'[ring[i].tid].alive
  BY <1>1, SameLives
<1>4. RingOK'
  BY <1>3 DEF IInv, RingOK
<1>5. QED
  BY <1>1, <1>2, <1>4 DEF IInv

\* An event put into the ring, or lost for want of room.
LEMMA EmitKeepsRing ==
    ASSUME IInv, NEW type \in {"fork", "rename", "exit"}, NEW t \in Tids, NEW c \in Names,
           Emit(type, t, c),
           \A i \in 1..Len(ring) : ring[i].type = "exit" => ~th'[ring[i].tid].alive,
           type = "exit" => ~th'[t].alive
    PROVE  RingOK'
<1> DEFINE e == [type |-> type, tid |-> t, name |-> c]
<1>1. e \in Events /\ e.type = type /\ e.tid = t
  BY DEF Events
<1>2. CASE ~(Len(ring) < RingSize)
  BY <1>2 DEF IInv, RingOK, Emit
<1>3. CASE Len(ring) < RingSize
  <2>1. ring' = Append(ring, e)
    BY <1>3 DEF Emit
  <2> HIDE DEF e
  <2>2. ring \in Seq(Events) /\ Len(ring) \in Nat /\ RingSize \in Nat
    BY LedgerAssumption DEF IInv, RingOK
  <2>3. ring' \in Seq(Events) /\ Len(ring') = Len(ring) + 1 /\ Len(ring') <= RingSize
    BY <1>1, <1>3, <2>1, <2>2
  <2>4. ASSUME NEW i \in 1..Len(ring'), ring'[i].type = "exit"
        PROVE  ~th'[ring'[i].tid].alive
    <3>1. CASE i \in 1..Len(ring)
      <4>1. ring'[i] = ring[i]
        BY <2>1, <2>2, <3>1
      <4>2. QED
        BY <2>4, <3>1, <4>1
    <3>2. CASE i = Len(ring) + 1
      <4>1. ring'[i] = e
        BY <2>1, <2>2, <3>2
      <4>2. QED
        BY <1>1, <2>4, <4>1
    <3>3. QED
      BY <2>2, <2>3, <3>1, <3>2
  <2>5. QED
    BY <2>3, <2>4 DEF RingOK
<1>4. QED
  BY <1>2, <1>3

\* Only a thread id without an event in the ring is taken.
LEMMA BirthStep ==
    ASSUME IInv, NEW t \in Tids, ~th[t].alive, ~Pending(t), NEW c \in Names, NEW m \in Masks,
           NEW g \in Groups \cup Dedicated, NEW by \in Writers \ {"bind"},
           th' = [th EXCEPT ![t] = Born(th[t], c, m, g, by)], Emit("fork", t, c),
           Environment, UNCHANGED mode
    PROVE  IInv'
<1>1. Sound(Born(th[t], c, m, g, by))
  BY BornSound DEF IInv
<1>2. th' \in [Tids -> Threads] /\ \A s \in Tids : Sound(th'[s])
  BY <1>1 DEF IInv, Sound
<1>3. ASSUME NEW i \in 1..Len(ring), ring[i].type = "exit"
      PROVE  ~th'[ring[i].tid].alive
  <2>1. ring[i].tid # t
    BY DEF Pending
  <2>2. ring[i] \in Events
    BY DEF IInv, RingOK
  <2>3. ring[i].tid \in Tids
    BY <2>2 DEF Events
  <2>4. th'[ring[i].tid] = th[ring[i].tid]
    BY <2>1, <2>3 DEF IInv
  <2>5. QED
    BY <1>3, <2>4 DEF IInv, RingOK
<1>4. RingOK'
  BY <1>3, EmitKeepsRing
<1>5. budget' \in 0..Budget
  BY LedgerAssumption DEF IInv, Environment
<1>6. QED
  BY <1>2, <1>4, <1>5 DEF IInv

\* A step of the environment that changes one live thread and not its life.
LEMMA LiveStep ==
    ASSUME IInv, NEW t \in Tids, NEW y, Sound(y), y.alive = th[t].alive,
           th' = [th EXCEPT ![t] = y], Environment, UNCHANGED mode,
           UNCHANGED ring \/ \E c \in Names : Emit("rename", t, c)
    PROVE  IInv'
<1>1. th' \in [Tids -> Threads] /\ \A s \in Tids : Sound(th'[s]) /\ th'[s].alive = th[s].alive
  BY DEF IInv, Sound
<1>2. \A i \in 1..Len(ring) : ring[i].type = "exit" => ~th'[ring[i].tid].alive
  BY <1>1, SameLives
<1>3. RingOK'
  <2>1. CASE UNCHANGED ring
    BY <1>2, <2>1 DEF IInv, RingOK
  <2>2. CASE \E c \in Names : Emit("rename", t, c)
    BY <1>2, <2>2, EmitKeepsRing
  <2>3. QED
    BY <2>1, <2>2
<1>4. budget' \in 0..Budget
  BY LedgerAssumption DEF IInv, Environment
<1>5. QED
  BY <1>1, <1>3, <1>4 DEF IInv

LEMMA RenameSound ==
    ASSUME NEW x, Sound(x), x.alive, NEW c \in Names
    PROVE  Sound([x EXCEPT !.name = c]) /\ [x EXCEPT !.name = c].alive = x.alive
<1> DEFINE y == [x EXCEPT !.name = c]
<1>1. y \in Threads
  BY Ranges, ZenonT(30) DEF Sound, Threads
<1>2. /\ y.name = c /\ y.known = x.known /\ y.comm = x.comm /\ y.alive = x.alive
      /\ y.group = x.group /\ y.mask = x.mask /\ y.base = x.base /\ y.dirty = x.dirty
      /\ y.writer = x.writer /\ y.gdirty = x.gdirty /\ y.gbase = x.gbase /\ y.from = x.from
  BY DEF Sound, Threads
<1> HIDE DEF y
<1>3. QED
  BY <1>1, <1>2 DEF Sound, y

LEMMA ExitSound ==
    ASSUME NEW x, Sound(x), NEW y,
           y = [x EXCEPT !.alive = FALSE, !.name = NoName, !.mask = {}, !.group = NoGroup,
                         !.writer = "system"]
    PROVE  Sound(y) /\ ~y.alive
<1>1. /\ FALSE \in Flags /\ NoName \in AnyName /\ {} \in AnyMask /\ NoGroup \in AnyGroup
      /\ "system" \in Writers
  BY Ranges
<1>2. y \in Threads
  BY <1>1, ZenonT(30) DEF Sound, Threads
<1>3. /\ y.alive = FALSE /\ y.known = x.known /\ y.comm = x.comm
      /\ y.base = x.base /\ y.dirty = x.dirty /\ y.writer = "system"
      /\ y.gdirty = x.gdirty /\ y.gbase = x.gbase /\ y.from = x.from
  BY DEF Sound, Threads
<1>4. QED
  BY <1>2, <1>3 DEF Sound

LEMMA InitSound == Init => IInv
<1> SUFFICES ASSUME Init PROVE IInv
  OBVIOUS
<1>1. Unborn \in Threads
  <2>1. FALSE \in Flags /\ NoName \in AnyName /\ {} \in AnyMask /\ NoGroup \in AnyGroup
        /\ "system" \in Writers /\ "none" \in Provenances
    BY Ranges
  <2>2. QED
    BY <2>1, ZenonT(30) DEF Unborn, Threads
<1>2. Sound(Unborn)
  BY <1>1 DEF Sound, Unborn
<1>3. QED
  BY <1>1, <1>2, LedgerAssumption DEF Init, IInv, RingOK

LEMMA EnvironmentKeeps ==
    ASSUME IInv, NEW t \in Tids, Start(t) \/ Fork(t) \/ Rename(t) \/ Exit(t) \/ Official(t) \/ Move(t)
    PROVE  IInv'
<1>s. \A s \in Tids : Sound(th[s])
  BY DEF IInv
<1>1. CASE Start(t)
  <2>1. PICK c \in Names, g \in Groups \ {Root} :
          /\ th' = [th EXCEPT ![t] = Born(th[t], c, GroupCpus[g], g, "system")]
          /\ Emit("fork", t, c)
    BY <1>1 DEF Start
  <2>2. GroupCpus[g] \in Masks /\ "system" \in Writers \ {"bind"}
    BY LedgerAssumption, Ranges
  <2>3. ~th[t].alive /\ ~Pending(t) /\ Environment /\ UNCHANGED mode
    BY <1>1 DEF Start, Live
  <2>4. QED
    BY <2>1, <2>2, <2>3, BirthStep
<1>2. CASE Fork(t)
  <2> DEFINE by(p) == IF th[p].writer \in {"bind", "inherited"} THEN "inherited" ELSE "system"
  <2>1. PICK p \in Live :
          /\ th' = [th EXCEPT ![t] = Born(th[t], th[p].name, th[p].mask, th[p].group, by(p))]
          /\ Emit("fork", t, th[p].name)
    BY <1>2 DEF Fork
  <2>2. Sound(th[p]) /\ th[p].alive
    BY <1>s, <2>1 DEF Live
  <2>3. /\ th[p].mask \in Masks /\ th[p].name \in Names
        /\ th[p].group \in Groups \cup Dedicated
    BY <2>2, Fields DEF Sound, Masks, AnyMask
  <2>4. by(p) \in Writers \ {"bind"}
    BY Ranges
  <2>5. ~th[t].alive /\ ~Pending(t) /\ Environment /\ UNCHANGED mode
    BY <1>2 DEF Fork, Live
  <2> HIDE DEF by
  <2>6. QED
    BY <2>1, <2>3, <2>4, <2>5, BirthStep
<1>3. CASE Rename(t)
  <2>1. PICK c \in Names : th' = [th EXCEPT ![t].name = c] /\ Emit("rename", t, c)
    BY <1>3 DEF Rename
  <2> DEFINE y == [th[t] EXCEPT !.name = c]
  <2>2. Sound(y) /\ y.alive = th[t].alive
    BY <1>3, <1>s, RenameSound DEF Rename, Live
  <2>3. th' = [th EXCEPT ![t] = y]
    BY <2>1
  <2>4. Environment /\ UNCHANGED mode
    BY <1>3 DEF Rename
  <2> HIDE DEF y
  <2>5. QED
    BY <2>1, <2>2, <2>3, <2>4, LiveStep
<1>4. CASE Exit(t)
  <2> DEFINE y == [th[t] EXCEPT !.alive = FALSE, !.name = NoName, !.mask = {},
                                !.group = NoGroup, !.writer = "system"]
  <2>1. Sound(y) /\ ~y.alive
    BY <1>s, ExitSound
  <2>2. th' = [th EXCEPT ![t] = y] /\ Emit("exit", t, th[t].name) /\ th[t].name \in Names
    BY <1>4, <1>s DEF Exit, Live, Sound
  <2> HIDE DEF y
  <2>3. th' \in [Tids -> Threads] /\ \A s \in Tids : Sound(th'[s])
    BY <2>1, <2>2 DEF IInv, Sound
  <2>4. ~th'[t].alive
    BY <2>1, <2>2 DEF IInv
  <2>5. ASSUME NEW i \in 1..Len(ring), ring[i].type = "exit"
        PROVE  ~th'[ring[i].tid].alive
    <3>1. ring[i] \in Events
      BY DEF IInv, RingOK
    <3>2. ring[i].tid \in Tids /\ ~th[ring[i].tid].alive
      BY <2>5, <3>1 DEF Events, IInv, RingOK
    <3>3. CASE ring[i].tid = t
      BY <2>4, <3>3
    <3>4. CASE ring[i].tid # t
      <4>1. th'[ring[i].tid] = th[ring[i].tid]
        BY <2>2, <3>2, <3>4 DEF IInv
      <4>2. QED
        BY <3>2, <4>1
    <3>5. QED
      BY <3>3, <3>4
  <2>6. RingOK'
    BY <2>2, <2>4, <2>5, EmitKeepsRing
  <2>7. budget' \in 0..Budget /\ UNCHANGED mode
    BY <1>4, LedgerAssumption DEF IInv, Exit, Environment
  <2>8. QED
    BY <2>3, <2>6, <2>7 DEF IInv
<1>5. CASE Official(t)
  <2>1. PICK m \in OfficialMasks :
          Accepts(th[t], m) /\ th' = [th EXCEPT ![t] = SetMask(th[t], m, "system")]
    BY <1>5 DEF Official
  <2> DEFINE y == SetMask(th[t], m, "system")
  <2>2. m \in AnyMask /\ "system" \in Writers
    BY LedgerAssumption, Ranges
  <2>3. Sound(y) /\ y.alive
    BY <1>s, <2>1, <2>2, SetMaskSound
  <2>4. y.alive = th[t].alive
    BY <2>1, <1>s, Fields DEF SetMask, Sound, Threads
  <2>5. UNCHANGED <<ring, mode>> /\ Environment
    BY <1>5 DEF Official
  <2> HIDE DEF y
  <2>6. th' = [th EXCEPT ![t] = y]
    BY <2>1 DEF y
  <2>7. QED
    BY <2>3, <2>4, <2>5, <2>6, LiveStep
<1>6. CASE Move(t)
  <2>1. PICK g \in Groups \ {Root, th[t].group} :
          th' = [th EXCEPT ![t] = Attach(th[t], g, "system")]
    BY <1>6 DEF Move
  <2> DEFINE y == Attach(th[t], g, "system")
  <2>2. th[t].alive
    BY <1>6 DEF Move, Live
  <2>3. Sound(y) /\ y.alive
    BY <1>s, <2>2, AttachSound
  <2>4. y.alive = th[t].alive
    BY <1>s DEF Attach, Sound, Threads
  <2>5. UNCHANGED <<ring, mode>> /\ Environment
    BY <1>6 DEF Move
  <2> HIDE DEF y
  <2>6. th' = [th EXCEPT ![t] = y]
    BY <2>1 DEF y
  <2>7. QED
    BY <2>3, <2>4, <2>5, <2>6, LiveStep
<1>7. QED
  BY <1>1, <1>2, <1>3, <1>4, <1>5, <1>6

LEMMA HandleEventKeeps == ASSUME IInv, HandleEvent PROVE IInv'
<1> DEFINE e == Head(ring)
           y == CASE e.type = "exit" -> OnExit(th[e.tid])
                  [] e.type = "fork" /\ mode = "fg" -> OnFork(th[e.tid], e.name)
                  [] e.type = "rename" /\ mode = "fg" -> OnRename(th[e.tid], e.name)
                  [] OTHER -> th[e.tid]
<1>1. ring \in Seq(Events) /\ ring # <<>> /\ Len(ring) <= RingSize /\ RingSize \in Nat
  BY LedgerAssumption DEF HandleEvent, IInv, RingOK
<1>2. e = ring[1] /\ 1 \in 1..Len(ring) /\ e \in Events
  BY <1>1
<1>3. e.tid \in Tids /\ e.name \in Names /\ e.type \in {"fork", "rename", "exit"}
  BY <1>2 DEF Events
<1>4. Sound(th[e.tid]) /\ (e.type = "exit" => ~th[e.tid].alive)
  BY <1>2, <1>3 DEF IInv, RingOK
<1>5. th' = [th EXCEPT ![e.tid] = y] /\ ring' = Tail(ring) /\ UNCHANGED <<mode, budget>>
  BY DEF HandleEvent
<1> HIDE DEF e
<1>6. Sound(y) /\ y.alive = th[e.tid].alive
  <2>1. CASE e.type = "exit"
    BY <1>4, <2>1, OnExitSound
  <2>2. CASE e.type = "fork"
    BY <1>3, <1>4, <2>2, OnForkSound
  <2>3. CASE e.type = "rename"
    BY <1>3, <1>4, <2>3, OnForkSound
  <2>4. QED
    BY <1>3, <2>1, <2>2, <2>3
<1> HIDE DEF y
<1>7. th' \in [Tids -> Threads] /\ \A s \in Tids : Sound(th'[s]) /\ th'[s].alive = th[s].alive
  BY <1>5, <1>6 DEF IInv, Sound
<1>8. \A i \in 1..Len(ring) : ring[i].type = "exit" => ~th'[ring[i].tid].alive
  BY <1>7, SameLives
<1>9. RingOK'
  <2>1. /\ ring' \in Seq(Events) /\ Len(ring') = Len(ring) - 1 /\ Len(ring) \in Nat
        /\ \A i \in 1..Len(ring') : ring'[i] = ring[i + 1] /\ i + 1 \in 1..Len(ring)
    BY <1>1, <1>5
  <2>2. Len(ring') <= RingSize
    BY <1>1, <2>1
  <2>3. QED
    BY <1>8, <2>1, <2>2 DEF RingOK
<1>10. QED
  BY <1>5, <1>7, <1>9 DEF IInv

THEOREM Preserved == IInv /\ [Next]_vars => IInv'
<1> SUFFICES ASSUME IInv, [Next]_vars PROVE IInv'
  OBVIOUS
<1>s. \A s \in Tids : Sound(th[s])
  BY DEF IInv
<1>b. Environment => budget' \in 0..Budget
  BY LedgerAssumption DEF IInv, Environment
<1>1. CASE EnvironmentNext
  BY <1>1, EnvironmentKeeps DEF EnvironmentNext
<1>2. CASE TogglePause
  <2>1. UNCHANGED <<th, ring>> /\ mode' \in {"fg", "paused", "away"} /\ Environment
    BY <1>2 DEF TogglePause
  <2>2. QED
    BY <1>b, <2>1 DEF IInv, RingOK
<1>3. CASE HandleEvent
  BY <1>3, HandleEventKeeps
<1>4. CASE Scan
  <2> DEFINE F == [t \in Tids |-> IF Live = {} THEN ReleaseAndDrop(th[t]) ELSE ScanOn(th[t])]
  <2>1. \A t \in Tids : Sound(F[t]) /\ F[t].alive = th[t].alive
    BY <1>s, ScanOnSound, ReleaseAndDropSound
  <2>2. th' = [t \in Tids |-> F[t]] /\ UNCHANGED <<ring, mode, budget>>
    BY <1>4 DEF Scan
  <2> HIDE DEF F
  <2>3. QED
    BY <2>1, <2>2, WholesaleStep DEF IInv
<1>5. CASE Step
  <2>1. PICK k \in [Tids -> Clusters], hold \in BOOLEAN :
          th' = [t \in Tids |-> StepOn(th[t], k[t], hold)]
    BY <1>5 DEF Step
  <2> DEFINE F == [t \in Tids |-> StepOn(th[t], k[t], hold)]
  <2>2. \A t \in Tids : Sound(F[t]) /\ F[t].alive = th[t].alive
    BY <1>s, StepOnSound
  <2>3. th' = [t \in Tids |-> F[t]] /\ UNCHANGED <<ring, mode, budget>>
    BY <1>5, <2>1 DEF Step
  <2> HIDE DEF F
  <2>4. QED
    BY <2>2, <2>3, WholesaleStep DEF IInv
<1>6. CASE ReleasePaused
  <2> DEFINE F == [t \in Tids |-> UndoKnown(th[t])]
  <2>1. \A t \in Tids : Sound(F[t]) /\ F[t].alive = th[t].alive
    BY <1>s, ReleaseAndDropSound
  <2>2. th' = [t \in Tids |-> F[t]] /\ UNCHANGED <<ring, mode, budget>>
    BY <1>6 DEF ReleasePaused
  <2> HIDE DEF F
  <2>3. QED
    BY <2>1, <2>2, WholesaleStep DEF IInv
<1>7. CASE SwitchAway \/ SwitchBack
  <2> DEFINE F == [t \in Tids |-> ReleaseAndDrop(th[t])]
  <2>1. \A t \in Tids : Sound(F[t]) /\ F[t].alive = th[t].alive
    BY <1>s, ReleaseAndDropSound
  <2>2. th' = [t \in Tids |-> F[t]] /\ UNCHANGED ring /\ (Environment \/ UNCHANGED budget)
        /\ mode' \in {"fg", "paused", "away"}
    BY <1>7 DEF SwitchAway, SwitchBack
  <2> HIDE DEF F
  <2>3. QED
    BY <1>b, <2>1, <2>2, WholesaleStep DEF IInv
<1>8. CASE UNCHANGED vars
  BY <1>8 DEF vars, IInv, RingOK
<1>9. QED
  BY <1>1, <1>2, <1>3, <1>4, <1>5, <1>6, <1>7, <1>8 DEF Next

-----------------------------------------------------------------------------
\* The invariant of every run: each record is sound, and the exits still in the
\* ring are those of dead threads.
THEOREM LedgerInvariant == Spec => []IInv
  BY InitSound, Preserved, PTL DEF Spec

\* Every variable keeps its type.
THEOREM TypeCorrect == Spec => []TypeOK
<1>1. IInv => TypeOK
  BY DEF IInv, RingOK, TypeOK
<1>2. QED
  BY <1>1, LedgerInvariant, PTL

\* Whatever the threads, cpusets, rules and the interleaving: a thread that
\* carries a mask of the daemon's can be given its former mask back.
THEOREM AlwaysUndoable == Spec => []BindingsAreUndoable
<1>1. IInv => BindingsAreUndoable
  BY DEF IInv, Sound, BindingsAreUndoable
<1>2. QED
  BY <1>1, LedgerInvariant, PTL

\* The ledger never takes a mask of the daemon's own for a thread's former mask.
THEOREM NeverOurOwnBaseline == Spec => []BaselineIsNotOurs
<1>1. IInv => BaselineIsNotOurs
  BY DEF IInv, Sound, BaselineIsNotOurs
<1>2. QED
  BY <1>1, LedgerInvariant, PTL
-----------------------------------------------------------------------------
(* While no group refuses a mask.  Then no thread is ever moved into a      *)
(* dedicated group, and every mask on record can be set again.              *)

\* The CPUs that every group allows.
CommonCpus == {c \in Cpus : \A g \in Groups : c \in GroupCpus[g]}

Fits(m) == m \cap CommonCpus # {}

\* Every mask the daemon or the vendor's scheduler asks for has a CPU that all groups
\* allow, so that the kernel refuses none, nor what is left of it in any group.
NoneRefused ==
    /\ CommonCpus # {}
    /\ \A c \in Names : Rule[c] # {} => Fits(Rule[c])
    /\ \A m \in Clusters \cup OfficialMasks : Fits(m)

\* What this adds to Sound: the masks a thread has and had can be set in any group.
Fitting(x) ==
    /\ x.alive => Fits(x.mask) /\ x.group \in Groups
    /\ x.base # {} => Fits(x.base)
    /\ x.gbase = NoGroup
    /\ x.writer = "bind" => x.known

FInv == IInv /\ \A t \in Tids : Fitting(th[t])

LEMMA GroupFits == ASSUME NEW g \in Groups, NEW m, Fits(m)
                   PROVE  Fits(m \cap GroupCpus[g])
  BY DEF Fits, CommonCpus

LEMMA WholeGroupFits == ASSUME NoneRefused, NEW g \in Groups
                        PROVE  Fits(GroupCpus[g]) /\ Fits(Cpus)
  BY DEF Fits, CommonCpus, NoneRefused

LEMMA GroupAccepts ==
    ASSUME NEW x, Fitting(x), x.alive, NEW m, Fits(m)
    PROVE  Accepts(x, m) /\ Fits(m \cap Allowed(x.group))
<1>1. x.group \in Groups /\ Allowed(x.group) = GroupCpus[x.group]
  BY DEF Fitting, Allowed
<1>2. Fits(m \cap Allowed(x.group))
  BY <1>1, GroupFits
<1>3. QED
  BY <1>2 DEF Accepts, Fits

LEMMA SetMaskFits ==
    ASSUME NEW x, x \in Threads, Fitting(x), x.alive, NEW m, Fits(m),
           NEW by, by = "bind" => x.known
    PROVE  /\ Fitting(SetMask(x, m, by)) /\ SetMask(x, m, by).known = x.known
           /\ SetMask(x, m, by).mask = m \cap Allowed(x.group)
           /\ SetMask(x, m, by).group = x.group /\ SetMask(x, m, by).writer = by
<1> DEFINE y == SetMask(x, m, by)
<1>1. /\ y.mask = m \cap Allowed(x.group) /\ y.writer = by /\ y.alive = x.alive
      /\ y.group = x.group /\ y.known = x.known /\ y.base = x.base /\ y.gbase = x.gbase
  BY DEF SetMask, Threads
<1>2. Fits(m \cap Allowed(x.group))
  BY GroupAccepts
<1> HIDE DEF y
<1>3. Fitting(y)
  BY <1>1, <1>2 DEF Fitting
<1>4. QED
  BY <1>1, <1>3 DEF y

LEMMA CaptureFits ==
    ASSUME NEW x, Sound(x), Fitting(x), x.alive
    PROVE  Fitting(Capture(x)) /\ Capture(x).known = x.known
<1>1. CASE x.base # {}
  BY <1>1 DEF Capture
<1>2. CASE x.base = {}
  <2> DEFINE y == [x EXCEPT !.base = x.mask, !.from = x.writer]
  <2>1. /\ y.base = x.mask /\ y.alive = x.alive /\ y.group = x.group /\ y.mask = x.mask
        /\ y.known = x.known /\ y.gbase = x.gbase /\ y.writer = x.writer
    BY DEF Sound, Threads
  <2> HIDE DEF y
  <2>2. Fitting(y)
    BY <2>1 DEF Fitting
  <2>3. QED
    BY <1>2, <2>1, <2>2 DEF Capture, y
<1>3. QED
  BY <1>1, <1>2

\* The kernel takes the mask at the first attempt: the thread stays in its group.
LEMMA BindFits ==
    ASSUME NEW x, Sound(x), Fitting(x), x.known, NEW m, Fits(m)
    PROVE  Fitting(Bind(x, m)) /\ Bind(x, m).known = x.known
<1>1. CASE ~x.alive
  BY <1>1 DEF Bind
<1>2. CASE x.alive
  <2> DEFINE c == Capture(x)
             r == SetMask(c, m, "bind")
             y == [r EXCEPT !.dirty = TRUE]
  <2>1. Sound(c) /\ c.alive /\ Fitting(c) /\ c.known = x.known
    BY <1>2, CaptureSound, CaptureFits
  <2>2. Bind(x, m) = y
    <3>1. Accepts(c, m)
      <4> HIDE DEF c
      <4>1. QED
        BY <2>1, GroupAccepts
    <3>2. QED
      BY <1>2, <3>1 DEF Bind
  <2>3. Fitting(r) /\ r.known = x.known
    <3>1. c \in Threads /\ Fitting(c) /\ c.alive /\ c.known
      BY <2>1 DEF Sound
    <3> HIDE DEF c
    <3>2. Fitting(SetMask(c, m, "bind")) /\ SetMask(c, m, "bind").known = c.known
      BY <3>1, SetMaskFits
    <3>3. QED
      BY <2>1, <3>2
  <2>4. /\ y.mask = r.mask /\ y.writer = r.writer /\ y.alive = r.alive /\ y.group = r.group
        /\ y.known = r.known /\ y.base = r.base /\ y.gbase = r.gbase
    <3>1. \A z : z \in Threads => LET w == [SetMask(z, m, "bind") EXCEPT !.dirty = TRUE]
                                      s == SetMask(z, m, "bind")
                                  IN  /\ w.mask = s.mask /\ w.writer = s.writer
                                      /\ w.alive = s.alive /\ w.group = s.group
                                      /\ w.known = s.known /\ w.base = s.base
                                      /\ w.gbase = s.gbase
      BY DEF SetMask, Threads
    <3> HIDE DEF c
    <3>2. QED
      BY <2>1, <3>1 DEF Sound
  <2> HIDE DEF r, y
  <2>5. Fitting(y) /\ y.known = x.known
    BY <2>3, <2>4 DEF Fitting
  <2>6. QED
    BY <2>2, <2>5
<1>3. QED
  BY <1>1, <1>2

LEMMA ForgetFits ==
    ASSUME NEW x, x \in Threads, Fitting(x)
    PROVE  Fitting(Forget(x)) /\ Forget(x).known = x.known /\ Forget(x).writer = x.writer
<1> DEFINE y == Forget(x)
<1>1. /\ y.base = {} /\ y.gbase = NoGroup /\ y.alive = x.alive /\ y.group = x.group
      /\ y.mask = x.mask /\ y.known = x.known /\ y.writer = x.writer
  BY DEF Forget, ForgetGroup, ForgetMask, Threads
<1> HIDE DEF y
<1>2. Fitting(y)
  BY <1>1 DEF Fitting
<1>3. QED
  BY <1>1, <1>2 DEF y

\* A thread that carries a mask of the daemon's gets the one on record back, and no
\* other step of undoing changes a mask.
LEMMA RestoreMaskFits ==
    ASSUME NEW x, Sound(x), Fitting(x)
    PROVE  /\ Fitting(RestoreMask(x)) /\ RestoreMask(x).known = x.known
           /\ RestoreMask(x).writer # "bind"
           /\ x.writer = "bind" =>
                /\ RestoreMask(x).mask = x.base \cap Allowed(x.group)
                /\ RestoreMask(x).group = x.group
<1>1. CASE ~x.dirty
  BY <1>1 DEF RestoreMask, Sound
<1>2. CASE x.dirty /\ ~x.alive
  <2>1. x.writer = "system" /\ RestoreMask(x) = Forget(x)
    BY <1>2 DEF Sound, RestoreMask
  <2>2. QED
    BY <2>1, ForgetFits DEF Sound
<1>3. CASE x.dirty /\ x.alive
  <2> DEFINE r == SetMask(x, x.base, "restored")
             y == [r EXCEPT !.dirty = FALSE]
  <2>1. Fits(x.base) /\ Accepts(x, x.base)
    BY <1>3, GroupAccepts DEF Sound, Fitting
  <2>2. RestoreMask(x) = y
    BY <1>3, <2>1 DEF RestoreMask
  <2>3. Fitting(r) /\ r.known = x.known /\ r.mask = x.base \cap Allowed(x.group)
        /\ r.group = x.group /\ r.writer = "restored"
    BY <1>3, <2>1, SetMaskFits DEF Sound
  <2>4. /\ y.mask = r.mask /\ y.writer = r.writer /\ y.alive = r.alive /\ y.group = r.group
        /\ y.known = r.known /\ y.base = r.base /\ y.gbase = r.gbase
    BY DEF SetMask, Sound, Threads
  <2> HIDE DEF r, y
  <2>5. Fitting(y)
    BY <2>3, <2>4 DEF Fitting
  <2>6. QED
    BY <2>2, <2>3, <2>4, <2>5
<1>4. QED
  BY <1>1, <1>2, <1>3

\* No group is on record, so undoing is about the mask alone.
LEMMA UndoIsRestoreMask ==
    ASSUME NEW x, Sound(x), Fitting(x)
    PROVE  Undo(x) = RestoreMask(x)
<1> DEFINE r == RestoreMask(x)
<1>1. Sound(r) /\ Fitting(r)
  BY RestoreMaskSound, RestoreMaskFits
<1> HIDE DEF r
<1>2. ~r.gdirty
  BY <1>1 DEF Sound, Fitting
<1>3. QED
  BY <1>2 DEF Undo, RestoreGroup, r

LEMMA UndoFits ==
    ASSUME NEW x, Sound(x), Fitting(x)
    PROVE  Fitting(Undo(x)) /\ Undo(x).known = x.known /\ Undo(x).writer # "bind"
  BY UndoIsRestoreMask, RestoreMaskFits

LEMMA NaturalFits ==
    ASSUME NoneRefused, NEW x, Fitting(x)
    PROVE  Fits(Natural(x))
<1>1. CASE ~x.alive
  BY <1>1, LedgerAssumption, WholeGroupFits DEF Natural
<1>2. CASE x.alive
  <2>1. x.group \in Groups
    BY <1>2 DEF Fitting
  <2>2. Natural(x) = GroupCpus[x.group]
    BY <1>2, <2>1 DEF Natural, TopSegment, Allowed
  <2>3. QED
    BY <2>1, <2>2, WholeGroupFits
<1>3. QED
  BY <1>1, <1>2

LEMMA SeedFits ==
    ASSUME NoneRefused, NEW x, Sound(x), Fitting(x)
    PROVE  Fitting(Seed(x)) /\ Seed(x).known = x.known
<1>1. CASE x.base # {}
  BY <1>1 DEF Seed
<1>2. CASE x.base = {}
  <2> DEFINE n == Natural(x)
             y == [x EXCEPT !.base = n, !.from = "system", !.dirty = TRUE]
  <2>1. Fits(n)
    BY NaturalFits
  <2>2. Seed(x) = y
    BY <1>2 DEF Seed
  <2> HIDE DEF n
  <2>3. /\ y.base = n /\ y.alive = x.alive /\ y.group = x.group /\ y.mask = x.mask
        /\ y.known = x.known /\ y.gbase = x.gbase /\ y.writer = x.writer
    BY DEF Sound, Threads
  <2> HIDE DEF y
  <2>4. Fitting(y)
    BY <2>1, <2>3 DEF Fitting
  <2>5. QED
    BY <2>2, <2>3, <2>4
<1>3. QED
  BY <1>1, <1>2

LEMMA ClearInheritedFits ==
    ASSUME NoneRefused, NEW x, Sound(x), Fitting(x)
    PROVE  Fitting(ClearInherited(x))
<1>1. CASE ~x.alive \/ Natural(x) \subseteq x.mask
  BY <1>1 DEF ClearInherited
<1>2. CASE x.alive /\ ~(Natural(x) \subseteq x.mask)
  <2> DEFINE n == Natural(x)
             r == SetMask(x, n, "cleared")
             y == [r EXCEPT !.base = n, !.from = "system", !.dirty = TRUE]
  <2>1. Fits(n)
    BY NaturalFits
  <2>2. ClearInherited(x) = y
    BY <1>2 DEF ClearInherited
  <2> HIDE DEF n
  <2>3. Fitting(r)
    BY <1>2, <2>1, SetMaskFits DEF Sound
  <2>4. /\ y.base = n /\ y.mask = r.mask /\ y.writer = r.writer /\ y.alive = r.alive
        /\ y.group = r.group /\ y.known = r.known /\ y.gbase = r.gbase
    BY DEF SetMask, Sound, Threads
  <2> HIDE DEF r, y
  <2>5. Fitting(y)
    BY <2>1, <2>3, <2>4 DEF Fitting
  <2>6. QED
    BY <2>2, <2>5
<1>3. QED
  BY <1>1, <1>2

\* A record is only dropped when the thread carries no mask of the daemon's.
LEMMA DropFits ==
    ASSUME NEW x, x \in Threads, Fitting(x), x.writer # "bind"
    PROVE  Fitting(Drop(x)) /\ Drop(x).mask = x.mask /\ Drop(x).group = x.group
<1> DEFINE y == Drop(x)
<1>1. /\ y.base = x.base /\ y.gbase = x.gbase /\ y.alive = x.alive /\ y.group = x.group
      /\ y.mask = x.mask /\ y.writer = x.writer
  BY DEF Drop, Threads
<1> HIDE DEF y
<1>2. Fitting(y)
  BY <1>1 DEF Fitting
<1>3. QED
  BY <1>1, <1>2 DEF y

LEMMA EnsureFits ==
    ASSUME NEW x, x \in Threads, Fitting(x), NEW c
    PROVE  Fitting(Ensure(x, c)) /\ Ensure(x, c).known
<1> DEFINE y == Ensure(x, c)
<1>1. /\ y.known = TRUE /\ y.base = x.base /\ y.gbase = x.gbase /\ y.alive = x.alive
      /\ y.group = x.group /\ y.mask = x.mask /\ y.writer = x.writer
  BY DEF Ensure, Threads
<1> HIDE DEF y
<1>2. Fitting(y)
  BY <1>1 DEF Fitting
<1>3. QED
  BY <1>1, <1>2 DEF y

LEMMA AssignedFits ==
    ASSUME NEW x, x \in Threads, Fitting(x), NEW m
    PROVE  /\ Fitting([x EXCEPT !.assigned = m])
           /\ [x EXCEPT !.assigned = m].known = x.known
<1> DEFINE y == [x EXCEPT !.assigned = m]
<1>1. /\ y.known = x.known /\ y.base = x.base /\ y.gbase = x.gbase /\ y.alive = x.alive
      /\ y.group = x.group /\ y.mask = x.mask /\ y.writer = x.writer
  BY DEF Threads
<1> HIDE DEF y
<1>2. Fitting(y)
  BY <1>1 DEF Fitting
<1>3. QED
  BY <1>1, <1>2 DEF y

LEMMA AssignFits ==
    ASSUME NEW x, Sound(x), Fitting(x), x.known, NEW m \in Masks, Fits(m), NEW asked
    PROVE  Fitting(Assign(x, m, asked))
<1> DEFINE b == Bind(x, m)
<1>1. Sound(b) /\ Fitting(b)
  BY BindSound, BindFits
<1>2. Assign(x, m, asked) = IF x.alive THEN [b EXCEPT !.assigned = asked] ELSE b
  BY DEF Assign
<1> HIDE DEF b
<1>3. QED
  BY <1>1, <1>2, AssignedFits DEF Sound

LEMMA ApplyFits ==
    ASSUME NoneRefused, NEW x, Sound(x), Fitting(x), x.known, NEW c \in Names
    PROVE  Fitting(ApplyToNewborn(x, c))
<1> DEFINE s == Seed(x)
<1>1. Sound(s) /\ Fitting(s) /\ s.known
  BY SeedSound, SeedFits, CpusExist
<1>2. ApplyToNewborn(x, c) =
        IF Rule[c] # {} THEN Assign(s, Rule[c], Rule[c]) ELSE ClearInherited(s)
  BY DEF ApplyToNewborn
<1>3. Rule[c] # {} => Rule[c] \in Masks /\ Fits(Rule[c])
  BY RuleMasks DEF NoneRefused
<1> HIDE DEF s
<1>4. QED
  BY <1>1, <1>2, <1>3, AssignFits, ClearInheritedFits

LEMMA ReleaseFits ==
    ASSUME NEW x, Sound(x), Fitting(x)
    PROVE  Fitting(Release(x)) /\ Release(x).known = x.known /\ Release(x).writer # "bind"
<1> DEFINE u == Undo(x)
<1>1. Sound(u) /\ Fitting(u) /\ u.known = x.known /\ u.writer # "bind"
  BY UndoSound, UndoFits
<1>2. Release(x) = [u EXCEPT !.assigned = {}]
  BY DEF Release
<1> HIDE DEF u
<1>3. [u EXCEPT !.assigned = {}].writer = u.writer
  BY <1>1 DEF Sound, Threads
<1>4. QED
  BY <1>1, <1>2, <1>3, AssignedFits DEF Sound

LEMMA StepOnFits ==
    ASSUME NoneRefused, NEW x, Sound(x), Fitting(x), NEW k \in Clusters, NEW hold
    PROVE  Fitting(StepOn(x, k, hold))
<1>1. CASE ~x.known
  BY <1>1 DEF StepOn
<1>2. CASE x.known
  <2> DEFINE m == Rule[x.comm]
             r == Release(x)
  <2>1. m # {} => m \in Masks /\ Fits(m)
    BY <1>2, RuleMasks DEF Sound, NoneRefused
  <2>2. Sound(r) /\ Fitting(r) /\ r.known
    BY <1>2, ReleaseSound, ReleaseFits
  <2>3. k \in Masks /\ Fits(k)
    BY LedgerAssumption DEF NoneRefused
  <2>4. StepOn(x, k, hold) \in {Assign(r, k, {}), Assign(x, m, m), x}
        /\ (m = {} => StepOn(x, k, hold) = Assign(r, k, {}))
        /\ (m # {} => StepOn(x, k, hold) \in {Assign(x, m, m), x})
    BY <1>2 DEF StepOn
  <2> HIDE DEF m, r
  <2>5. Fitting(Assign(r, k, {}))
    BY <2>2, <2>3, AssignFits
  <2>6. m # {} => Fitting(Assign(x, m, m))
    BY <1>2, <2>1, AssignFits
  <2>7. QED
    BY <2>4, <2>5, <2>6
<1>3. QED
  BY <1>1, <1>2

LEMMA ScanOnFits ==
    ASSUME NEW x, Sound(x), Fitting(x)
    PROVE  Fitting(ScanOn(x))
<1>1. CASE x.alive
  BY <1>1, EnsureFits DEF ScanOn, Sound
<1>2. CASE ~x.alive
  <2> DEFINE r == Release(x)
             f == Forget(r)
  <2>1. Sound(r) /\ Fitting(r) /\ r.writer # "bind"
    BY ReleaseSound, ReleaseFits
  <2>2. Sound(f) /\ Fitting(f) /\ f.writer # "bind"
    <3> HIDE DEF r
    <3>1. QED
      BY <2>1, ForgetSound, ForgetFits DEF Sound
  <2>3. ScanOn(x) \in {Drop(f), x}
    BY <1>2 DEF ScanOn
  <2> HIDE DEF r, f
  <2>4. QED
    BY <2>2, <2>3, DropFits DEF Sound
<1>3. QED
  BY <1>1, <1>2

\* Clearing the records leaves none behind that carries a mask of the daemon's, and
\* those that did have the one on record again.
LEMMA ReleaseAndDropFits ==
    ASSUME NEW x, Sound(x), Fitting(x)
    PROVE  /\ Fitting(UndoKnown(x)) /\ Fitting(ReleaseAndDrop(x))
           /\ x.writer = "bind" =>
                /\ ReleaseAndDrop(x).mask = x.base \cap Allowed(x.group)
                /\ ReleaseAndDrop(x).group = x.group
<1> DEFINE u == UndoKnown(x)
<1>1. Sound(u) /\ Fitting(u) /\ u.writer # "bind"
  BY UndoSound, UndoFits DEF UndoKnown, Fitting
<1>2. x.writer = "bind" => u.mask = x.base \cap Allowed(x.group) /\ u.group = x.group
  BY UndoIsRestoreMask, RestoreMaskFits DEF UndoKnown, Fitting
<1>3. ReleaseAndDrop(x) = Drop(u)
  BY DEF ReleaseAndDrop
<1> HIDE DEF u
<1>4. QED
  BY <1>1, <1>2, <1>3, DropFits DEF Sound, u

LEMMA OnForkFits ==
    ASSUME NoneRefused, NEW x, Sound(x), Fitting(x), NEW c \in Names
    PROVE  Fitting(OnFork(x, c)) /\ Fitting(OnRename(x, c))
<1> DEFINE n == Ensure(x, c)
           u == Undo(n)
<1>1. Sound(n) /\ Fitting(n) /\ n.known
  BY EnsureSound, EnsureFits DEF Sound
<1>2. Sound(u) /\ Fitting(u) /\ u.known
  <2> HIDE DEF n
  <2>1. QED
    BY <1>1, UndoSound, UndoFits
<1>3. OnFork(x, c) = ApplyToNewborn(n, c) /\ OnRename(x, c) \in {n, ApplyToNewborn(u, c)}
  BY DEF OnFork, OnRename, Rebind
<1> HIDE DEF n, u
<1>4. QED
  BY <1>1, <1>2, <1>3, ApplyFits

LEMMA OnExitFits ==
    ASSUME NEW x, Sound(x), Fitting(x), ~x.alive
    PROVE  Fitting(OnExit(x))
<1> DEFINE u == Undo(x)
           f == Forget(u)
<1>1. Sound(u) /\ Fitting(u) /\ u.writer # "bind"
  BY UndoSound, UndoFits
<1>2. Sound(f) /\ Fitting(f) /\ f.writer # "bind"
  <2> HIDE DEF u
  <2>1. QED
    BY <1>1, ForgetSound, ForgetFits DEF Sound
<1>3. OnExit(x) \in {Drop(f), x}
  BY DEF OnExit
<1> HIDE DEF u, f
<1>4. QED
  BY <1>2, <1>3, DropFits DEF Sound

LEMMA BornFits ==
    ASSUME NEW x, x \in Threads, Fitting(x), NEW c, NEW m, Fits(m), NEW g \in Groups,
           NEW by, by # "bind"
    PROVE  Fitting(Born(x, c, m, g, by))
<1> DEFINE y == Born(x, c, m, g, by)
<1>1. /\ y.base = x.base /\ y.gbase = x.gbase /\ y.alive = TRUE
      /\ y.group = g /\ y.mask = m /\ y.writer = by
  BY DEF Born, Threads
<1> HIDE DEF y
<1>2. Fitting(y)
  BY <1>1 DEF Fitting
<1>3. QED
  BY <1>2 DEF y

LEMMA AttachFits ==
    ASSUME NoneRefused, NEW x, x \in Threads, Fitting(x), NEW g \in Groups
    PROVE  Fitting(Attach(x, g, "system"))
<1> DEFINE y == Attach(x, g, "system")
<1>1. /\ y.base = x.base /\ y.gbase = x.gbase /\ y.group = g /\ y.mask = GroupCpus[g]
      /\ y.writer = "system"
  BY DEF Attach, Allowed, Threads
<1>2. Fits(GroupCpus[g])
  BY WholeGroupFits
<1> HIDE DEF y
<1>3. Fitting(y)
  BY <1>1, <1>2 DEF Fitting
<1>4. QED
  BY <1>3 DEF y

-----------------------------------------------------------------------------
LEMMA EnvironmentFits ==
    ASSUME NoneRefused, FInv, NEW t \in Tids,
           Start(t) \/ Fork(t) \/ Rename(t) \/ Exit(t) \/ Official(t) \/ Move(t)
    PROVE  \A s \in Tids : Fitting(th'[s])
<1>s. th \in [Tids -> Threads] /\ \A s \in Tids : Sound(th[s]) /\ Fitting(th[s])
  BY DEF FInv, IInv
<1>c. ASSUME NEW y, Fitting(y), th' = [th EXCEPT ![t] = y]
      PROVE  \A s \in Tids : Fitting(th'[s])
  BY <1>c, <1>s
<1>t. th[t] \in Threads /\ Sound(th[t]) /\ Fitting(th[t])
  BY <1>s
<1>1. CASE Start(t)
  <2>1. PICK c \in Names, g \in Groups \ {Root} :
          th' = [th EXCEPT ![t] = Born(th[t], c, GroupCpus[g], g, "system")]
    BY <1>1 DEF Start
  <2>2. Fitting(Born(th[t], c, GroupCpus[g], g, "system"))
    BY <1>t, WholeGroupFits, BornFits
  <2>3. QED
    BY <1>c, <2>1, <2>2
<1>2. CASE Fork(t)
  <2> DEFINE by(p) == IF th[p].writer \in {"bind", "inherited"} THEN "inherited" ELSE "system"
  <2>1. PICK p \in Live :
          th' = [th EXCEPT ![t] = Born(th[t], th[p].name, th[p].mask, th[p].group, by(p))]
    BY <1>2 DEF Fork
  <2>2. Fits(th[p].mask) /\ th[p].group \in Groups
    BY <1>s, <2>1 DEF Live, Fitting
  <2>3. by(p) # "bind"
    OBVIOUS
  <2> HIDE DEF by
  <2>4. Fitting(Born(th[t], th[p].name, th[p].mask, th[p].group, by(p)))
    BY <1>t, <2>2, <2>3, BornFits
  <2>5. QED
    BY <1>c, <2>1, <2>4
<1>3. CASE Rename(t)
  <2>1. PICK c \in Names : th' = [th EXCEPT ![t].name = c]
    BY <1>3 DEF Rename
  <2> DEFINE y == [th[t] EXCEPT !.name = c]
  <2>2. th' = [th EXCEPT ![t] = y]
    BY <2>1
  <2>3. /\ y.known = th[t].known /\ y.base = th[t].base /\ y.gbase = th[t].gbase
        /\ y.alive = th[t].alive /\ y.group = th[t].group /\ y.mask = th[t].mask
        /\ y.writer = th[t].writer
    BY <1>t DEF Threads
  <2> HIDE DEF y
  <2>4. Fitting(y)
    BY <1>t, <2>3 DEF Fitting
  <2>5. QED
    BY <1>c, <2>2, <2>4
<1>4. CASE Exit(t)
  <2> DEFINE y == [th[t] EXCEPT !.alive = FALSE, !.name = NoName, !.mask = {},
                                !.group = NoGroup, !.writer = "system"]
  <2>1. th' = [th EXCEPT ![t] = y]
    BY <1>4 DEF Exit
  <2>2. /\ y.alive = FALSE /\ y.writer = "system" /\ y.base = th[t].base
        /\ y.gbase = th[t].gbase
    BY <1>t DEF Threads
  <2> HIDE DEF y
  <2>3. Fitting(y)
    BY <1>t, <2>2 DEF Fitting
  <2>4. QED
    BY <1>c, <2>1, <2>3
<1>5. CASE Official(t)
  <2>1. PICK m \in OfficialMasks :
          Accepts(th[t], m) /\ th' = [th EXCEPT ![t] = SetMask(th[t], m, "system")]
    BY <1>5 DEF Official
  <2>2. Fits(m) /\ th[t].alive
    BY <2>1 DEF NoneRefused, Accepts
  <2>3. Fitting(SetMask(th[t], m, "system"))
    BY <1>t, <2>2, SetMaskFits
  <2>4. QED
    BY <1>c, <2>1, <2>3
<1>6. CASE Move(t)
  <2>1. PICK g \in Groups \ {Root, th[t].group} :
          th' = [th EXCEPT ![t] = Attach(th[t], g, "system")]
    BY <1>6 DEF Move
  <2>2. Fitting(Attach(th[t], g, "system"))
    BY <1>t, AttachFits
  <2>3. QED
    BY <1>c, <2>1, <2>2
<1>7. QED
  BY <1>1, <1>2, <1>3, <1>4, <1>5, <1>6

LEMMA HandleEventFits ==
    ASSUME NoneRefused, FInv, HandleEvent
    PROVE  \A s \in Tids : Fitting(th'[s])
<1> DEFINE e == Head(ring)
           y == CASE e.type = "exit" -> OnExit(th[e.tid])
                  [] e.type = "fork" /\ mode = "fg" -> OnFork(th[e.tid], e.name)
                  [] e.type = "rename" /\ mode = "fg" -> OnRename(th[e.tid], e.name)
                  [] OTHER -> th[e.tid]
<1>1. e = ring[1] /\ 1 \in 1..Len(ring) /\ e \in Events
  BY DEF FInv, IInv, RingOK, HandleEvent
<1>2. e.tid \in Tids /\ e.name \in Names /\ e.type \in {"fork", "rename", "exit"}
  BY <1>1 DEF Events
<1>3. Sound(th[e.tid]) /\ Fitting(th[e.tid]) /\ (e.type = "exit" => ~th[e.tid].alive)
  BY <1>1, <1>2 DEF FInv, IInv, RingOK
<1>4. th' = [th EXCEPT ![e.tid] = y]
  BY DEF HandleEvent
<1> HIDE DEF e
<1>5. Fitting(y)
  <2>1. CASE e.type = "exit"
    BY <1>3, <2>1, OnExitFits
  <2>2. CASE e.type = "fork"
    BY <1>2, <1>3, <2>2, OnForkFits
  <2>3. CASE e.type = "rename"
    BY <1>2, <1>3, <2>3, OnForkFits
  <2>4. QED
    BY <1>2, <2>1, <2>2, <2>3
<1> HIDE DEF y
<1>6. QED
  BY <1>4, <1>5 DEF FInv, IInv

LEMMA InitFits == Init => FInv
<1> SUFFICES ASSUME Init PROVE FInv
  OBVIOUS
<1>1. Fitting(Unborn)
  BY DEF Fitting, Unborn
<1>2. QED
  BY <1>1, InitSound DEF Init, FInv

LEMMA FittingPreserved ==
    ASSUME NoneRefused, FInv, [Next]_vars
    PROVE  FInv'
<1>s. th \in [Tids -> Threads] /\ \A s \in Tids : Sound(th[s]) /\ Fitting(th[s])
  BY DEF FInv, IInv
<1> SUFFICES \A s \in Tids : Fitting(th'[s])
  BY Preserved DEF FInv, Fitting
<1>1. CASE EnvironmentNext
  BY <1>1, EnvironmentFits DEF EnvironmentNext
<1>2. CASE TogglePause \/ UNCHANGED vars
  BY <1>s, <1>2 DEF TogglePause, vars
<1>3. CASE HandleEvent
  BY <1>3, HandleEventFits
<1>4. CASE Scan
  BY <1>s, <1>4, ScanOnFits, ReleaseAndDropFits DEF Scan
<1>5. CASE Step
  <2>1. PICK k \in [Tids -> Clusters], hold \in BOOLEAN :
          th' = [t \in Tids |-> StepOn(th[t], k[t], hold)]
    BY <1>5 DEF Step
  <2>2. QED
    BY <1>s, <2>1, StepOnFits
<1>6. CASE ReleasePaused
  BY <1>s, <1>6, ReleaseAndDropFits DEF ReleasePaused
<1>7. CASE SwitchAway \/ SwitchBack
  BY <1>s, <1>7, ReleaseAndDropFits DEF SwitchAway, SwitchBack
<1>8. QED
  BY <1>1, <1>2, <1>3, <1>4, <1>5, <1>6, <1>7 DEF Next

\* The game leaves the foreground in one step only, which clears the records.
LEMMA LeavingStep ==
    ASSUME [Next]_vars, mode # "away", mode' = "away"
    PROVE  SwitchAway
  BY DEF Next, vars, EnvironmentNext, Environment, Start, Fork, Rename, Exit, Official, Move,
         TogglePause, HandleEvent, Scan, Step, ReleasePaused, SwitchBack

LEMMA LeavingRestores ==
    ASSUME FInv, [Next]_vars, NEW t \in Tids,
           mode # "away", mode' = "away", th[t].writer = "bind"
    PROVE  th'[t].mask = th[t].base \cap Allowed(th'[t].group)
<1>1. Sound(th[t]) /\ Fitting(th[t])
  BY DEF FInv, IInv
<1>2. th'[t] = ReleaseAndDrop(th[t])
  BY LeavingStep DEF SwitchAway
<1>3. QED
  BY <1>1, <1>2, ReleaseAndDropFits

\* While no group refuses a mask, every thread can be given its former mask in
\* whatever group it is.
THEOREM AlwaysFitting ==
    ASSUME NoneRefused
    PROVE  Spec => []FInv
<1>1. FInv /\ [Next]_vars => FInv'
  BY FittingPreserved
<1>2. QED
  BY <1>1, InitFits, PTL DEF Spec

\* While no group refuses a mask, a thread that carries a mask of the daemon's has a
\* record, whichever events were lost and whenever the records were cleared.
THEOREM NothingOrphaned ==
    ASSUME NoneRefused
    PROVE  Spec => []NoOrphan
<1>1. FInv => NoOrphan
  BY DEF FInv, Fitting, NoOrphan
<1>2. QED
  BY <1>1, AlwaysFitting, PTL

\* While no group refuses a mask, every thread the daemon has bound gets the mask on
\* record back when the game leaves the foreground.
THEOREM MasksAreGivenBack ==
    ASSUME NoneRefused
    PROVE  Spec => RestoresBaseline
<1> DEFINE Back == \A t \in Tids :
              mode # "away" /\ mode' = "away" /\ th[t].writer = "bind"
                  => th'[t].mask = th[t].base \cap Allowed(th'[t].group)
<1>1. FInv /\ [Next]_vars => [Back]_vars
  BY LeavingRestores
<1>2. Spec => [][Back]_vars
  BY <1>1, AlwaysFitting, PTL DEF Spec
<1>3. QED
  BY <1>2 DEF RestoresBaseline

=============================================================================
