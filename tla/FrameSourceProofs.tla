-------------------------- MODULE FrameSourceProofs --------------------------
(* Proofs about FrameSource, for every number of surfaces, processes and     *)
(* records, every length of the histories and every bound.                   *)
EXTENDS FrameSource, SequenceTheorems, FiniteSetTheorems, TLAPS

Same(f, g) == f.proc = g.proc /\ f.key = g.key

\* Records of one surface of one process are pending in the order of their times.
RingOrder ==
    /\ \A i \in 1..Len(ring) : ring[i].at <= now
    /\ \A i, j \in 1..Len(ring) :
          i < j /\ Same(ring[i], ring[j]) => ring[i].at <= ring[j].at

\* The history of a surface is of the process listened to and of that surface, no
\* later than what was heard of it last, which is no later than what is pending.
Histories ==
    \A k \in DOMAIN surf :
        /\ surf[k].last <= now
        /\ \A i \in 1..Len(surf[k].frames) :
              LET f == surf[k].frames[i]
              IN f.proc = owner /\ f.key = k /\ f.at <= surf[k].last
        /\ \A i \in 1..Len(ring) :
              ring[i].proc = owner /\ ring[i].key = k => surf[k].last <= ring[i].at

\* What was cached at the last pass is no later than what is heard of its surface
\* now and what is pending.
Remembered ==
    \A m \in mark :
        /\ m.at <= now
        /\ \A i \in 1..Len(ring) : Same(m, ring[i]) => m.at <= ring[i].at
        /\ m.proc = owner /\ m.key \in DOMAIN surf => m.at <= surf[m.key].last

\* The frames past those counted are not among it.
UnseenIsNew ==
    lastKey \in DOMAIN surf =>
        LET s == surf[lastKey]
        IN \A i \in 1..Len(s.frames) :
              s.count - Len(s.frames) + i > lastSeen => s.frames[i] \notin mark

\* What the engine was last given is of its package.
FedIsOwn == \A i \in 1..Len(fed) : AppOf[fed[i].proc] = engine

\* A pass begins with nothing handed over.
PassBegins == hearing => fed = <<>>

IInv ==
    /\ TypeOK /\ RingOrder /\ Histories /\ Remembered /\ UnseenIsNew /\ FedIsOwn
    /\ PassBegins

-----------------------------------------------------------------------------
(* Sequences *)

LEMMA RangeIsIndexed ==
    ASSUME NEW S, NEW s \in Seq(S), NEW x
    PROVE  x \in ToSet(s) <=> \E i \in 1..Len(s) : s[i] = x
BY LenProperties DEF ToSet

\* What a new record does to the ring, wherever it is put.
LEMMA QueuedFacts ==
    ASSUME TypeOK, RingOrder, NEW k \in Keys, Queue(k)
    PROVE  /\ ring' \in Seq(Frames) /\ Len(ring') <= RingSize
           /\ \A i \in 1..Len(ring') :
                 ring'[i] = Record(k) \/ \E j \in 1..Len(ring) : ring'[i] = ring[j]
           /\ \A i, j \in 1..Len(ring') :
                 i < j /\ Same(ring'[i], ring'[j]) => ring'[i].at <= ring'[j].at
<1> DEFINE r == Record(k)
<1>0. /\ r \in Frames /\ r.key = k /\ r.at = now /\ now \in Nat
      /\ ring \in Seq(Frames) /\ Len(ring) \in Nat
      /\ \A i \in 1..Len(ring) : ring[i] \in Frames /\ ring[i].at <= r.at
      /\ Len(ring) < RingSize /\ RingSize \in Nat
  BY SourceAssumption, LenProperties, ElementOfSeq
  DEF Queue, Record, TypeOK, Frames, RingOrder
<1> HIDE DEF r
<1>1. CASE ring' = Append(ring, r)
  <2>1. /\ ring' \in Seq(Frames) /\ Len(ring') = Len(ring) + 1
        /\ \A i \in 1..Len(ring) : ring'[i] = ring[i]
        /\ ring'[Len(ring) + 1] = r
    BY <1>0, <1>1, AppendProperties
  <2>2. \A i \in 1..Len(ring') : i \in 1..Len(ring) \/ i = Len(ring) + 1
    BY <2>1, <1>0
  <2>3. \A i, j \in 1..Len(ring') :
           i < j /\ Same(ring'[i], ring'[j]) => ring'[i].at <= ring'[j].at
    <3> SUFFICES ASSUME NEW i \in 1..Len(ring'), NEW j \in 1..Len(ring'),
                        i < j, Same(ring'[i], ring'[j])
                 PROVE  ring'[i].at <= ring'[j].at
      OBVIOUS
    <3>1. i \in 1..Len(ring)
      BY <2>1, <2>2, <1>0
    <3>2. CASE j \in 1..Len(ring)
      BY <3>1, <3>2, <2>1 DEF RingOrder
    <3>3. CASE j = Len(ring) + 1
      BY <3>1, <3>3, <2>1, <1>0
    <3>. QED  BY <3>2, <3>3, <2>2
  <2>4. \A i \in 1..Len(ring') :
           ring'[i] = r \/ \E j \in 1..Len(ring) : ring'[i] = ring[j]
    BY <2>1, <2>2
  <2>5. Len(ring') <= RingSize
    BY <2>1, <1>0
  <2>. QED  BY <2>1, <2>3, <2>4, <2>5 DEF r
<1>2. CASE /\ ring # <<>> /\ Last(ring).key # k
           /\ ring' = Append(Front(ring), r) \o <<Last(ring)>>
  <2> DEFINE n == Len(ring)
             front_ == Front(ring)
             mid == Append(front_, r)
  <2>0. n \in Nat \ {0}
    BY <1>0, <1>2, EmptySeq
  <2>1. /\ front_ \in Seq(Frames) /\ Len(front_) = n - 1
        /\ \A i \in 1..n - 1 : front_[i] = ring[i]
    <3>1. front_ = SubSeq(ring, 1, n - 1)
      BY DEF Front
    <3>2. \A i \in 1..n - 1 : ring[i] \in Frames
      BY <1>0, <2>0
    <3>3. /\ SubSeq(ring, 1, n - 1) \in Seq(Frames)
          /\ Len(SubSeq(ring, 1, n - 1)) = IF 1 <= n - 1 THEN n - 1 - 1 + 1 ELSE 0
          /\ \A i \in 1..(n - 1) - 1 + 1 : SubSeq(ring, 1, n - 1)[i] = ring[1 + i - 1]
      <4>. HIDE DEF n
      <4>. QED  BY <3>2, <2>0, SubSeqProperties
    <3>. HIDE DEF front_, n
    <3>. QED  BY <3>1, <3>3, <2>0
  <2>2. Last(ring) = ring[n] /\ ring[n] \in Frames
    BY <1>0, <2>0 DEF Last
  <2>. HIDE DEF front_
  <2>3. /\ mid \in Seq(Frames) /\ Len(mid) = n
        /\ \A i \in 1..n - 1 : mid[i] = ring[i]
        /\ mid[n] = r
    BY <2>0, <2>1, <1>0, AppendProperties
  <2>. HIDE DEF mid
  <2>4. /\ <<ring[n]>> \in Seq(Frames) /\ Len(<<ring[n]>>) = 1
        /\ <<ring[n]>>[1] = ring[n]
    BY <2>2
  <2>5. ring' = mid \o <<ring[n]>>
    BY <1>2, <2>2 DEF mid, front_
  <2>6. /\ ring' \in Seq(Frames) /\ Len(ring') = n + 1
        /\ \A i \in 1..n : ring'[i] = mid[i]
        /\ ring'[n + 1] = ring[n]
    BY <2>0, <2>3, <2>4, <2>5, ConcatProperties
  <2>7. /\ \A i \in 1..n - 1 : ring'[i] = ring[i]
        /\ ring'[n] = r
    BY <2>0, <2>3, <2>6
  <2>8. \A i \in 1..Len(ring') : i \in 1..n - 1 \/ i = n \/ i = n + 1
    BY <2>0, <2>6
  <2>9. ~Same(r, ring[n])
    BY <1>0, <1>2, <2>2 DEF Same
  <2>10. \A i, j \in 1..Len(ring') :
            i < j /\ Same(ring'[i], ring'[j]) => ring'[i].at <= ring'[j].at
    <3> SUFFICES ASSUME NEW i \in 1..Len(ring'), NEW j \in 1..Len(ring'),
                        i < j, Same(ring'[i], ring'[j])
                 PROVE  ring'[i].at <= ring'[j].at
      OBVIOUS
    <3>1. CASE i \in 1..n - 1 /\ j \in 1..n - 1
      BY <3>1, <2>0, <2>7 DEF RingOrder
    <3>2. CASE i \in 1..n - 1 /\ j = n
      BY <3>2, <2>0, <2>7, <1>0
    <3>3. CASE i \in 1..n - 1 /\ j = n + 1
      BY <3>3, <2>0, <2>6, <2>7 DEF RingOrder
    <3>4. CASE i = n /\ j = n + 1
      BY <3>4, <2>6, <2>7, <2>9
    <3>. QED  BY <3>1, <3>2, <3>3, <3>4, <2>0, <2>8
  <2>11. \A i \in 1..Len(ring') :
            ring'[i] = r \/ \E j \in 1..Len(ring) : ring'[i] = ring[j]
    BY <2>0, <2>6, <2>7, <2>8
  <2>12. Len(ring') <= RingSize
    BY <1>0, <2>0, <2>6
  <2>. QED  BY <2>6, <2>10, <2>11, <2>12 DEF r
<1>. QED  BY <1>1, <1>2 DEF Queue, r

\* What a signal does to the record of its surface.
LEMMA HeardFacts ==
    ASSUME NEW s \in Surface, Len(s.frames) <= History, Len(s.frames) <= s.count,
           NEW r \in Frames, now \in Nat
    PROVE  LET h == Heard(s, r)
           IN /\ h \in Surface /\ Len(h.frames) <= History
              /\ Len(h.frames) <= h.count /\ h.last = r.at /\ h.count >= s.count
              /\ \A i \in 1..Len(h.frames) :
                    \/ /\ h.frames[i] = r /\ r.at > s.last /\ s.last > 0
                       /\ h.count - Len(h.frames) + i > s.count
                    \/ \E j \in 1..Len(s.frames) :
                          /\ h.frames[i] = s.frames[j]
                          /\ h.count - Len(h.frames) + i = s.count - Len(s.frames) + j
<1> DEFINE h == Heard(s, r)
           L == Len(s.frames)
           kept == IF L >= History THEN Tail(s.frames) ELSE s.frames
<1>0. /\ s.frames \in Seq(Frames) /\ L \in Nat /\ s.count \in Nat /\ s.last \in Nat
      /\ r.at \in Nat /\ L <= History /\ History \in Nat \ {0} /\ L <= s.count
  BY SourceAssumption, LenProperties DEF Surface, Frames
<1>1. CASE s.last > 0 /\ r.at - s.last > 0 /\ r.at - s.last <= MaxGap
  <2>1. h = [last |-> r.at, wall |-> now, count |-> s.count + 1,
             frames |-> Append(kept, r)]
    BY <1>1 DEF Heard
  <2>2. \E d \in {0, 1} :
           /\ kept \in Seq(Frames) /\ Len(kept) = L - d /\ L - d < History /\ d <= L
           /\ \A i \in 1..L - d : kept[i] = s.frames[i + d]
    <3>1. CASE L >= History
      <4>1. s.frames # <<>>
        BY <3>1, <1>0
      <4>2. /\ Tail(s.frames) \in Seq(Frames) /\ Len(Tail(s.frames)) = L - 1
            /\ \A i \in 1..Len(Tail(s.frames)) : Tail(s.frames)[i] = s.frames[i + 1]
        BY <1>0, <4>1, HeadTailProperties
      <4>3. kept = Tail(s.frames)
        BY <3>1
      <4>. QED  BY <3>1, <4>2, <4>3, <1>0
    <3>2. CASE ~(L >= History)
      BY <3>2, <1>0
    <3>. QED  BY <3>1, <3>2
  <2>3. PICK d \in {0, 1} :
           /\ kept \in Seq(Frames) /\ Len(kept) = L - d /\ L - d < History /\ d <= L
           /\ \A i \in 1..L - d : kept[i] = s.frames[i + d]
    BY <2>2
  <2>. HIDE DEF kept
  <2>4. /\ Append(kept, r) \in Seq(Frames) /\ Len(Append(kept, r)) = L - d + 1
        /\ \A i \in 1..L - d : Append(kept, r)[i] = s.frames[i + d]
        /\ Append(kept, r)[L - d + 1] = r
    BY <2>3, <1>0, AppendProperties
  <2>5. /\ h.frames = Append(kept, r) /\ h.count = s.count + 1 /\ h.last = r.at
        /\ h \in Surface
    BY <2>1, <2>4, <1>0 DEF Surface
  <2>. HIDE DEF h, L
  <2>0. /\ Len(h.frames) = L - d + 1 /\ h.count = s.count + 1
        /\ L \in Nat /\ s.count \in Nat /\ d \in {0, 1} /\ d <= L
    BY <2>3, <2>4, <2>5, <1>0
  <2>6. Len(h.frames) <= History /\ Len(h.frames) <= h.count
    BY <2>0, <2>3, <1>0
  <2>7. ASSUME NEW i \in 1..Len(h.frames)
        PROVE  \/ /\ h.frames[i] = r /\ r.at > s.last /\ s.last > 0
                  /\ h.count - Len(h.frames) + i > s.count
               \/ \E j \in 1..Len(s.frames) :
                     /\ h.frames[i] = s.frames[j]
                     /\ h.count - Len(h.frames) + i = s.count - Len(s.frames) + j
    <3>1. CASE i = L - d + 1
      <4>1. h.count - Len(h.frames) + i > s.count
        BY <3>1, <2>0
      <4>2. h.frames[i] = r
        BY <3>1, <2>4, <2>5
      <4>3. r.at > s.last /\ s.last > 0
        BY <1>0, <1>1
      <4>. QED  BY <4>1, <4>2, <4>3
    <3>2. CASE i \in 1..L - d
      <4>1. i + d \in 1..L /\ h.frames[i] = s.frames[i + d]
        BY <3>2, <2>3, <2>4, <2>5, <1>0
      <4>2. h.count - Len(h.frames) + i = s.count - L + (i + d)
        BY <3>2, <2>0
      <4>. QED  BY <4>1, <4>2 DEF L
    <3>3. i = L - d + 1 \/ i \in 1..L - d
      BY <2>0
    <3>. QED  BY <3>1, <3>2, <3>3
  <2>8. h.count >= s.count
    BY <2>0
  <2>. QED  BY <2>5, <2>6, <2>7, <2>8 DEF h
<1>2. CASE ~(s.last > 0 /\ r.at - s.last > 0 /\ r.at - s.last <= MaxGap)
  <2>1. h = [s EXCEPT !.last = r.at]
    BY <1>2 DEF Heard
  <2>2. /\ h \in Surface /\ h.frames = s.frames /\ h.count = s.count /\ h.last = r.at
    BY <2>1, <1>0 DEF Surface
  <2>. HIDE DEF h
  <2>. QED  BY <2>2, <1>0 DEF h
<1>. QED  BY <1>1, <1>2

\* What a pass hands over: the frames past the ones counted, all of them.
LEMMA UnseenFacts ==
    ASSUME TypeOK, NEW k \in DOMAIN surf
    PROVE  LET s == surf[k]
           IN /\ Unseen(k) \in Seq(Frames)
              /\ \A i \in 1..Len(Unseen(k)) : \E j \in 1..Len(s.frames) :
                    /\ Unseen(k)[i] = s.frames[j]
                    /\ s.count - Len(s.frames) + j > lastSeen
              /\ \A j \in 1..Len(s.frames) :
                    s.count - Len(s.frames) + j > lastSeen
                        => \E i \in 1..Len(Unseen(k)) : Unseen(k)[i] = s.frames[j]
<1> DEFINE f == surf[k].frames
           n == Len(f)
           c == surf[k].count
           a == IF lastSeen < c - n THEN 1 ELSE lastSeen - (c - n) + 1
           u == SubSeq(f, a, n)
<1>1. /\ f \in Seq(Frames) /\ n \in Nat /\ c \in Nat /\ n <= c /\ lastSeen \in Nat
  BY LenProperties DEF TypeOK, Surface
<1>2. Unseen(k) = u
  BY DEF Unseen
<1>3. /\ a \in Nat \ {0} /\ \A j \in a..n : c - n + j > lastSeen
      /\ \A j \in 1..n : c - n + j > lastSeen => j >= a
  <2> HIDE DEF f, n, c
  <2>1. CASE lastSeen < c - n
    <3>1. a = 1
      BY <2>1
    <3>. HIDE DEF a
    <3>. QED  BY <1>1, <2>1, <3>1
  <2>2. CASE ~(lastSeen < c - n)
    <3>1. a = lastSeen - (c - n) + 1
      BY <2>2
    <3>. HIDE DEF a
    <3>. QED  BY <1>1, <2>2, <3>1
  <2>. QED  BY <2>1, <2>2
<1>4. \A i \in a..n : f[i] \in Frames
  BY <1>1, <1>3
<1> HIDE DEF f, n, c, a
<1>5. /\ u \in Seq(Frames) /\ Len(u) = IF a <= n THEN n - a + 1 ELSE 0
      /\ \A i \in 1..n - a + 1 : u[i] = f[a + i - 1]
  BY <1>1, <1>3, <1>4, SubSeqProperties
<1> HIDE DEF u
<1>6. ASSUME NEW i \in 1..Len(u)
      PROVE  \E j \in 1..n : u[i] = f[j] /\ c - n + j > lastSeen
  <2>1. a <= n /\ i \in 1..n - a + 1
    BY <1>1, <1>3, <1>5
  <2>2. a + i - 1 \in a..n /\ a + i - 1 \in 1..n
    BY <2>1, <1>1, <1>3
  <2>. QED  BY <2>1, <2>2, <1>3, <1>5
<1>7. ASSUME NEW j \in 1..n, c - n + j > lastSeen
      PROVE  \E i \in 1..Len(u) : u[i] = f[j]
  <2>1. j >= a /\ a <= n
    BY <1>1, <1>3, <1>7
  <2>2. j - a + 1 \in 1..Len(u) /\ a + (j - a + 1) - 1 = j
    BY <2>1, <1>1, <1>3, <1>5
  <2>3. u[j - a + 1] = f[j]
    BY <2>1, <2>2, <1>1, <1>3, <1>5
  <2>. QED  BY <2>2, <2>3
<1>. QED  BY <1>2, <1>5, <1>6, <1>7 DEF f, n, c

-----------------------------------------------------------------------------
(* The invariant *)

LEMMA InitHolds == Init => IInv
<1> SUFFICES ASSUME Init PROVE IInv
  OBVIOUS
<1>1. DOMAIN surf = {} /\ ring = <<>> /\ fed = <<>> /\ mark = {}
  BY DEF Init, NoSurfaces
<1>2. TypeOK
  <2>1. Cardinality(DOMAIN surf) <= Limit
    BY <1>1, FS_EmptySet, SourceAssumption
  <2>2. up \in [FasApps -> Procs \cup {None}]
    BY DEF Init
  <2>3. <<>> \in Seq(Frames) /\ Len(<<>>) = 0 /\ {} \subseteq Frames
    OBVIOUS
  <2>4. now = 1 /\ lastSeen = 0 /\ budget = Budget /\ Budget \in Nat /\ RingSize \in Nat
    BY SourceAssumption DEF Init
  <2>5. /\ {app, front, engine} \subseteq Apps \cup {None}
        /\ {pid, owner} \subseteq Procs \cup {None}
        /\ {paused, polling, hearing} \subseteq BOOLEAN
        /\ main \in {"idle", "notify", "refresh"}
        /\ {primary, lastKey} \subseteq Keys \cup {None}
    BY DEF Init
  <2>6. now \in Nat /\ budget \in Nat /\ lastSeen \in Nat
    BY <2>4
  <2>7. ring \in Seq(Frames) /\ Len(ring) <= RingSize /\ fed \in Seq(Frames) /\ mark \subseteq Frames
    BY <1>1, <2>3, <2>4
  <2>. QED  BY <1>1, <2>1, <2>2, <2>5, <2>6, <2>7 DEF TypeOK
<1>. QED  BY <1>1, <1>2 DEF Init, IInv, RingOrder, Histories, Remembered, UnseenIsNew, FedIsOwn, PassBegins

\* A step that leaves the ring, the cache and the thread alone.
LEMMA Elsewhere ==
    ASSUME IInv, TypeOK', now' >= now, hearing' => hearing,
           UNCHANGED <<ring, owner, surf, engine, lastKey, lastSeen, fed, mark>>
    PROVE  IInv'
<1>0. now \in Nat /\ now' \in Nat
  BY DEF IInv, TypeOK
<1>1. RingOrder'
  <2>1. \A i \in 1..Len(ring) : ring[i].at \in Nat
    <3>1. ring \in Seq(Frames)
      BY DEF IInv, TypeOK
    <3>2. \A i \in 1..Len(ring) : ring[i] \in Frames
      BY <3>1, ElementOfSeq
    <3>. QED  BY <3>2 DEF Frames
  <2>2. \A i \in 1..Len(ring) : ring[i].at <= now'
    BY <1>0, <2>1 DEF IInv, RingOrder
  <2>3. ring' = ring
    OBVIOUS
  <2>. QED  BY <2>2, <2>3 DEF IInv, RingOrder, Same
<1>2. Histories'
  BY <1>0 DEF IInv, TypeOK, Histories, Surface
<1>3. Remembered'
  BY <1>0 DEF IInv, TypeOK, Remembered, Same, Frames, thread
<1>. QED  BY <1>1, <1>2, <1>3 DEF IInv, UnseenIsNew, FedIsOwn, PassBegins, thread

\* A step that at most empties the cache, and leaves the ring and the thread alone.
LEMMA Emptied ==
    ASSUME IInv, TypeOK', UNCHANGED <<now, ring, thread>>,
           UNCHANGED <<owner, surf>> \/ surf' = NoSurfaces
    PROVE  IInv'
<1>1. CASE UNCHANGED <<owner, surf>>
  BY <1>1, Elsewhere DEF IInv, TypeOK, thread
<1>2. CASE surf' = NoSurfaces
  <2>1. DOMAIN surf' = {}
    BY <1>2 DEF NoSurfaces
  <2>. QED  BY <2>1 DEF IInv, RingOrder, Histories, Remembered, UnseenIsNew, FedIsOwn, PassBegins, thread, Same
<1>. QED  BY <1>1, <1>2

\* The process that is looked up is one of those there are.
LEMMA AttachTypes ==
    ASSUME TypeOK, NEW L \in SUBSET (Procs \cup {None}), RefreshFrom(L)
    PROVE  /\ pid' \in Procs \cup {None} /\ owner' \in Procs \cup {None}
           /\ polling' \in BOOLEAN /\ primary' \in Keys \cup {None}
           /\ UNCHANGED <<owner, surf>> \/ surf' = NoSurfaces
BY DEF RefreshFrom, NoCache, Attach, TypeOK, cache

LEMMA EmptyTypes == 
    /\ DOMAIN NoSurfaces = {} /\ Cardinality(DOMAIN NoSurfaces) <= Limit
<1>1. DOMAIN NoSurfaces = {}
  BY DEF NoSurfaces
<1>. QED  BY <1>1, FS_EmptySet, SourceAssumption

LEMMA OutsideSteps ==
    ASSUME IInv,
           Tick \/ TogglePause \/ PollEnds \/ Observe
             \/ (\E p \in Procs : Launch(p)) \/ (\E a \in Apps : SetApp(a))
    PROVE  IInv'
<1>0. TypeOK
  BY DEF IInv
<1>1. TypeOK'
  <2>1. CASE Tick
    BY <1>0, <2>1 DEF Tick, TypeOK, attachment, cache, thread
  <2>2. CASE TogglePause
    BY <1>0, <2>2 DEF TogglePause, TypeOK, attachment, cache, thread
  <2>3. CASE PollEnds
    BY <1>0, <2>3 DEF PollEnds, TypeOK, world, cache, thread
  <2>4. CASE Observe
    <3>1. primary' \in Keys \cup {None}
      BY <1>0, <2>4 DEF Observe, Chosen, Leaders, Eligible, TypeOK
    <3>. QED  BY <1>0, <2>4, <3>1 DEF Observe, TypeOK, world, attachment, thread
  <2>5. ASSUME NEW p \in Procs, Launch(p) PROVE TypeOK'
    <3>1. up' \in [FasApps -> Procs \cup {None}] /\ budget' \in Nat
      <4>1. AppOf[p] \in FasApps /\ up \in [FasApps -> Procs \cup {None}]
        BY <1>0, SourceAssumption DEF TypeOK
      <4>2. up' = [up EXCEPT ![AppOf[p]] = p] /\ budget' = budget - 1 /\ budget > 0
        BY <2>5 DEF Launch
      <4>3. budget \in Nat
        BY <1>0 DEF TypeOK
      <4>4. up' \in [FasApps -> Procs \cup {None}]
        BY <4>1, <4>2
      <4>. QED  BY <4>2, <4>3, <4>4
    <3>. QED  BY <1>0, <2>5, <3>1 DEF Launch, TypeOK, attachment, cache, thread
  <2>6. ASSUME NEW a \in Apps, SetApp(a) PROVE TypeOK'
    BY <1>0, <2>6 DEF SetApp, TypeOK, cache, thread
  <2>. QED  BY <2>1, <2>2, <2>3, <2>4, <2>5, <2>6
<1>2. /\ now' >= now /\ UNCHANGED hearing
      /\ UNCHANGED <<ring, owner, surf, engine, lastKey, lastSeen, fed, mark>>
  BY <1>0 DEF Tick, TogglePause, PollEnds, Observe, Launch, SetApp, TypeOK,
     world, attachment, cache, thread
<1>. QED  BY <1>1, <1>2, Elsewhere

LEMMA AttachSteps ==
    ASSUME IInv, Notify \/ Refresh \/ Monitor
    PROVE  IInv'
<1>0. TypeOK
  BY DEF IInv
<1>1. CASE Notify
  <2>1. TypeOK'
    BY <1>0, <1>1, EmptyTypes DEF Notify, NoCache, TypeOK, world, thread
  <2>. QED  BY <1>1, <2>1, Emptied DEF Notify, NoCache, world
<1>2. CASE Refresh \/ Monitor
  <2>1. InFront \in Procs \cup {None}
    BY <1>0 DEF InFront, TypeOK
  <2>2. PICK L \in SUBSET (Procs \cup {None}) : RefreshFrom(L)
    <3>1. CASE Refresh
      BY <3>1, <2>1 DEF Refresh
    <3>2. CASE Monitor
      <4>1. {InFront} \cup ({pid} \ {None}) \in SUBSET (Procs \cup {None})
        BY <2>1, <1>0 DEF TypeOK
      <4>. QED  BY <3>2, <4>1 DEF Monitor
    <3>. QED  BY <1>2, <3>1, <3>2
  <2>3. /\ main' \in {"idle", "notify", "refresh"}
        /\ UNCHANGED <<world, app, front, ring, thread>>
    BY <1>0, <1>2 DEF Refresh, Monitor, TypeOK
  <2>4. /\ pid' \in Procs \cup {None} /\ owner' \in Procs \cup {None}
        /\ polling' \in BOOLEAN /\ primary' \in Keys \cup {None}
        /\ UNCHANGED <<owner, surf>> \/ surf' = NoSurfaces
    BY <1>0, <2>2, AttachTypes
  <2>5. TypeOK'
    BY <1>0, <2>3, <2>4, EmptyTypes DEF TypeOK, world, thread
  <2>. QED  BY <2>3, <2>4, <2>5, Emptied DEF world
<1>. QED  BY <1>1, <1>2

LEMMA QueueStep ==
    ASSUME IInv, NEW k \in Keys, Queue(k)
    PROVE  IInv'
<1> DEFINE r == Record(k)
<1>0. /\ TypeOK /\ RingOrder /\ Histories /\ Remembered /\ now \in Nat
      /\ UNCHANGED <<now, owner, surf, thread>>
  BY DEF IInv, TypeOK, Queue, world, cache
<1>1. /\ ring' \in Seq(Frames) /\ Len(ring') <= RingSize
      /\ \A i \in 1..Len(ring') :
            ring'[i] = r \/ \E j \in 1..Len(ring) : ring'[i] = ring[j]
      /\ \A i, j \in 1..Len(ring') :
            i < j /\ Same(ring'[i], ring'[j]) => ring'[i].at <= ring'[j].at
  BY <1>0, QueuedFacts
<1>2. r.at = now /\ r.key = k /\ r.proc = owner
  BY DEF Record
<1> HIDE DEF r
<1>3. TypeOK'
  BY <1>0, <1>1 DEF Queue, TypeOK, world, attachment, cache, thread
<1>4. RingOrder'
  BY <1>0, <1>1, <1>2 DEF RingOrder
<1>5. Histories'
  <2> SUFFICES ASSUME NEW q \in DOMAIN surf, NEW i \in 1..Len(ring'),
                      ring'[i].proc = owner, ring'[i].key = q
               PROVE  surf[q].last <= ring'[i].at
    BY <1>0 DEF Histories
  <2>. QED  BY <1>0, <1>1, <1>2 DEF Histories
<1>6. Remembered'
  <2> SUFFICES ASSUME NEW m \in mark, NEW i \in 1..Len(ring'), Same(m, ring'[i])
               PROVE  m.at <= ring'[i].at
    BY <1>0 DEF Remembered, thread
  <2>. QED  BY <1>0, <1>1, <1>2 DEF Remembered
<1>. QED  BY <1>0, <1>3, <1>4, <1>5, <1>6 DEF IInv, UnseenIsNew, FedIsOwn, PassBegins, thread

\* The first record leaves the ring.
LEMMA TakenFacts ==
    ASSUME TypeOK, RingOrder, ring # <<>>, ring' = Tail(ring)
    PROVE  /\ ring' \in Seq(Frames) /\ Len(ring') = Len(ring) - 1
           /\ Head(ring) = ring[1] /\ ring[1] \in Frames /\ Len(ring) \in Nat \ {0}
           /\ \A i \in 1..Len(ring') : i + 1 \in 1..Len(ring) /\ ring'[i] = ring[i + 1]
           /\ \A i \in 1..Len(ring') : Same(ring[1], ring'[i]) => ring[1].at <= ring'[i].at
           /\ now' = now => RingOrder'
<1>1. /\ ring' \in Seq(Frames) /\ Len(ring') = Len(ring) - 1
      /\ \A i \in 1..Len(ring') : ring'[i] = ring[i + 1]
  BY HeadTailProperties DEF TypeOK
<1>2. Len(ring) \in Nat \ {0}
  BY EmptySeq DEF TypeOK
<1>3. Head(ring) = ring[1] /\ ring[1] \in Frames
  BY <1>2, ElementOfSeq DEF TypeOK
<1>4. \A i \in 1..Len(ring') : i + 1 \in 1..Len(ring) /\ 1 < i + 1
  BY <1>1, <1>2
<1>5. \A i \in 1..Len(ring') : Same(ring[1], ring'[i]) => ring[1].at <= ring'[i].at
  BY <1>1, <1>2, <1>4 DEF RingOrder
<1>6. ASSUME now' = now PROVE RingOrder'
  <2>1. \A i \in 1..Len(ring') : ring'[i].at <= now'
    BY <1>1, <1>4, <1>6 DEF RingOrder
  <2>2. ASSUME NEW i \in 1..Len(ring'), NEW j \in 1..Len(ring'), i < j,
               Same(ring'[i], ring'[j])
        PROVE  ring'[i].at <= ring'[j].at
    <3>1. i + 1 < j + 1 /\ i + 1 \in 1..Len(ring) /\ j + 1 \in 1..Len(ring)
      BY <1>1, <1>2, <1>4, <2>2
    <3>2. ring'[i] = ring[i + 1] /\ ring'[j] = ring[j + 1]
      BY <1>1
    <3>. QED  BY <3>1, <3>2, <2>2 DEF RingOrder
  <2>. QED  BY <2>1, <2>2 DEF RingOrder
<1>. QED  BY <1>1, <1>2, <1>3, <1>4, <1>5, <1>6

LEMMA ConsumeStep ==
    ASSUME IInv, Consume
    PROVE  IInv'
<1> DEFINE r == Head(ring)
           old == IF r.key \in DOMAIN surf THEN surf[r.key] ELSE New
           heard == [k \in DOMAIN surf \cup {r.key} |->
                        IF k = r.key THEN Heard(old, r) ELSE surf[k]]
<1>0. /\ TypeOK /\ RingOrder /\ Histories /\ Remembered /\ UnseenIsNew /\ FedIsOwn /\ PassBegins
      /\ now \in Nat /\ now' = now /\ ring # <<>> /\ ring' = Tail(ring)
      /\ UNCHANGED <<owner, thread>>
  BY DEF IInv, TypeOK, Consume, world
<1>1. /\ ring' \in Seq(Frames) /\ Len(ring') = Len(ring) - 1
      /\ r = ring[1] /\ r \in Frames /\ Len(ring) \in Nat \ {0} /\ 1 \in 1..Len(ring)
      /\ \A i \in 1..Len(ring') : i + 1 \in 1..Len(ring) /\ ring'[i] = ring[i + 1]
      /\ \A i \in 1..Len(ring') : Same(r, ring'[i]) => r.at <= ring'[i].at
      /\ RingOrder'
  BY <1>0, TakenFacts
<1>2. CASE ~Own(r)
  <2>1. surf' = surf
    BY <1>2 DEF Consume
  <2>2. TypeOK'
    <3>1. Len(ring') <= RingSize
      BY <1>0, <1>1, SourceAssumption DEF TypeOK
    <3>. HIDE DEF r, old, heard
    <3>. QED  BY <1>0, <1>1, <2>1, <3>1 DEF Consume, TypeOK, world, attachment, thread
  <2>3. Histories'
    BY <1>0, <1>1, <2>1 DEF Histories
  <2>4. Remembered'
    BY <1>0, <1>1, <2>1 DEF Remembered, thread
  <2>. QED  BY <1>0, <1>1, <2>1, <2>2, <2>3, <2>4 DEF IInv, UnseenIsNew, FedIsOwn, PassBegins, thread
<1>3. CASE Own(r)
  <2>1. PICK ks \in Prune(heard, r.at) : surf' = [k \in ks |-> heard[k]]
    BY <1>3 DEF Consume
  <2>2. ks \subseteq DOMAIN surf \cup {r.key} /\ Cardinality(ks) <= Limit
    <3> HIDE DEF heard, r
    <3>1. DOMAIN heard = DOMAIN surf \cup {r.key} /\ Limit \in Nat
      BY SourceAssumption DEF heard
    <3>2. /\ Cardinality(DOMAIN heard) <= Limit /\ ks = DOMAIN heard
          \/ /\ ks = {k \in DOMAIN heard : ~Overdue(heard[k], r.at)}
             /\ Cardinality(ks) <= Limit
          \/ /\ ks \subseteq {k \in DOMAIN heard : ~Overdue(heard[k], r.at)}
             /\ Cardinality(ks) = Limit
      BY <2>1 DEF Prune
    <3>. QED  BY <3>1, <3>2
  <2>3. /\ old \in Surface /\ Len(old.frames) <= History /\ Len(old.frames) <= old.count
    <3>1. CASE r.key \in DOMAIN surf
      BY <1>0, <3>1 DEF TypeOK
    <3>2. CASE r.key \notin DOMAIN surf
      BY <3>2, EmptySeq, SourceAssumption DEF New, Surface
    <3>. QED  BY <3>1, <3>2
  <2> DEFINE h == Heard(old, r)
  <2>4. /\ h \in Surface /\ Len(h.frames) <= History
        /\ Len(h.frames) <= h.count /\ h.last = r.at /\ h.count >= old.count
        /\ \A i \in 1..Len(h.frames) :
              \/ /\ h.frames[i] = r /\ r.at > old.last /\ old.last > 0
                 /\ h.count - Len(h.frames) + i > old.count
              \/ \E j \in 1..Len(old.frames) :
                    /\ h.frames[i] = old.frames[j]
                    /\ h.count - Len(h.frames) + i = old.count - Len(old.frames) + j
    <3> HIDE DEF old, r, h
    <3>. QED  BY <1>0, <1>1, <2>3, HeardFacts DEF h
  <2>5. /\ r.proc = owner /\ r.at \in Nat /\ r.key \in Keys /\ r.at <= now
        /\ r.key \in DOMAIN surf => old = surf[r.key] /\ old.last <= r.at
        /\ r.key \notin DOMAIN surf => Len(old.frames) = 0 /\ old.last = 0
    BY <1>0, <1>1, <1>3, EmptySeq DEF Own, Frames, RingOrder, Histories, New
  <2>6. /\ DOMAIN surf' = ks
        /\ \A k \in ks : k # r.key => k \in DOMAIN surf /\ surf'[k] = surf[k]
        /\ r.key \in ks => surf'[r.key] = h
    BY <2>1, <2>2
  <2> HIDE DEF h, old, heard, r
  <2>7. TypeOK'
    <3>1. /\ DOMAIN surf' \subseteq Keys /\ Cardinality(DOMAIN surf') <= Limit
      BY <1>0, <2>2, <2>5, <2>6 DEF TypeOK
    <3>2. \A k \in DOMAIN surf' :
             /\ surf'[k] \in Surface /\ Len(surf'[k].frames) <= History
             /\ Len(surf'[k].frames) <= surf'[k].count
      BY <1>0, <2>4, <2>6 DEF TypeOK
    <3>3. Len(ring') <= RingSize
      BY <1>0, <1>1, SourceAssumption DEF TypeOK
    <3>. QED  BY <1>0, <1>1, <3>1, <3>2, <3>3 DEF Consume, TypeOK, world, attachment, thread
  <2>8. Histories'
    <3> SUFFICES ASSUME NEW k \in DOMAIN surf'
                 PROVE  /\ surf'[k].last <= now
                        /\ \A i \in 1..Len(surf'[k].frames) :
                              LET f == surf'[k].frames[i]
                              IN f.proc = owner /\ f.key = k /\ f.at <= surf'[k].last
                        /\ \A i \in 1..Len(ring') :
                              ring'[i].proc = owner /\ ring'[i].key = k
                                  => surf'[k].last <= ring'[i].at
      BY <1>0 DEF Histories
    <3>1. CASE k # r.key
      BY <3>1, <1>0, <1>1, <2>6 DEF Histories
    <3>2. CASE k = r.key
      <4>1. surf'[k] = h
        BY <3>2, <2>6
      <4>2. ASSUME NEW i \in 1..Len(h.frames)
            PROVE  LET f == h.frames[i]
                   IN f.proc = owner /\ f.key = k /\ f.at <= h.last
        <5>1. CASE h.frames[i] = r
          BY <5>1, <3>2, <2>4, <2>5
        <5>2. CASE \E j \in 1..Len(old.frames) : h.frames[i] = old.frames[j]
          <6>1. PICK j \in 1..Len(old.frames) : h.frames[i] = old.frames[j]
            BY <5>2
          <6>2. r.key \in DOMAIN surf /\ old = surf[r.key] /\ old.last <= r.at
            BY <6>1, <2>5
          <6>3. surf[r.key].frames[j] \in Frames /\ old.last \in Nat
            BY <6>1, <6>2, <2>3, ElementOfSeq DEF Surface
          <6>4. /\ h.frames[i].proc = owner /\ h.frames[i].key = r.key
                /\ h.frames[i].at <= old.last
            BY <1>0, <6>1, <6>2 DEF Histories
          <6>. QED  BY <3>2, <6>1, <6>2, <6>3, <6>4, <2>4, <2>5 DEF Frames
        <5>. QED  BY <5>1, <5>2, <2>4
      <4>3. \A i \in 1..Len(ring') :
               ring'[i].proc = owner /\ ring'[i].key = k => h.last <= ring'[i].at
        BY <1>1, <2>4, <2>5, <3>2 DEF Same
      <4>. QED  BY <4>1, <4>2, <4>3, <2>4, <2>5
    <3>. QED  BY <3>1, <3>2
  <2>9. Remembered'
    <3> SUFFICES ASSUME NEW m \in mark
                 PROVE  /\ \A i \in 1..Len(ring') : Same(m, ring'[i]) => m.at <= ring'[i].at
                        /\ m.proc = owner /\ m.key \in DOMAIN surf'
                              => m.at <= surf'[m.key].last
      BY <1>0 DEF Remembered, thread
    <3>1. \A i \in 1..Len(ring') : Same(m, ring'[i]) => m.at <= ring'[i].at
      BY <1>0, <1>1 DEF Remembered
    <3>2. Same(m, r) => m.at <= r.at
      BY <1>0, <1>1 DEF Remembered
    <3>. QED  BY <1>0, <2>4, <2>5, <2>6, <3>1, <3>2 DEF Remembered, Same
  <2>10. UnseenIsNew'
    <3> SUFFICES ASSUME lastKey \in DOMAIN surf',
                        NEW i \in 1..Len(surf'[lastKey].frames),
                        surf'[lastKey].count - Len(surf'[lastKey].frames) + i > lastSeen
                 PROVE  surf'[lastKey].frames[i] \notin mark
      BY <1>0 DEF UnseenIsNew, thread
    <3>1. CASE lastKey # r.key
      BY <3>1, <1>0, <2>6 DEF UnseenIsNew
    <3>2. CASE lastKey = r.key
      <4>1. surf'[lastKey] = h
        BY <3>2, <2>6
      <4>2. CASE h.frames[i] = r /\ r.at > old.last /\ old.last > 0
        <5>1. r.key \in DOMAIN surf /\ old.last \in Nat
          BY <2>3, <2>5, <4>2 DEF Surface
        <5>2. r \in mark => r.at <= old.last
          BY <1>0, <2>5, <5>1 DEF Remembered
        <5>. QED  BY <5>1, <5>2, <4>1, <4>2, <2>5
      <4>3. CASE \E j \in 1..Len(old.frames) :
                    /\ h.frames[i] = old.frames[j]
                    /\ h.count - Len(h.frames) + i = old.count - Len(old.frames) + j
        <5>1. PICK j \in 1..Len(old.frames) :
                    /\ h.frames[i] = old.frames[j]
                    /\ h.count - Len(h.frames) + i = old.count - Len(old.frames) + j
          BY <4>3
        <5>2. lastKey \in DOMAIN surf /\ old = surf[lastKey]
          BY <5>1, <2>5, <3>2
        <5>. QED  BY <5>1, <5>2, <4>1, <1>0 DEF UnseenIsNew
      <4>. QED  BY <4>1, <4>2, <4>3, <2>4
    <3>. QED  BY <3>1, <3>2
  <2>. QED  BY <1>0, <1>1, <2>7, <2>8, <2>9, <2>10 DEF IInv, FedIsOwn, PassBegins, thread
<1>. QED  BY <1>2, <1>3

LEMMA NapAndWake ==
    ASSUME IInv, Nap \/ Wake
    PROVE  IInv'
<1>0. /\ TypeOK /\ RingOrder /\ Histories /\ Remembered /\ UnseenIsNew
      /\ None \notin Keys
  BY SourceAssumption DEF IInv
<1>1. /\ UNCHANGED <<now, ring, owner, surf, mark>> /\ fed' = <<>>
      /\ lastKey' = None \/ UNCHANGED <<lastKey, lastSeen>>
  BY DEF Nap, Wake, world, cache
<1>2. TypeOK'
  <2>1. /\ hearing' \in BOOLEAN /\ engine' \in Apps \cup {None} /\ lastSeen' \in Nat
        /\ lastKey' \in Keys \cup {None} /\ fed' \in Seq(Frames)
        /\ UNCHANGED <<world, app, attachment, ring, cache, mark>>
    <3>1. <<>> \in Seq(Frames)
      OBVIOUS
    <3>2. CASE Nap
      BY <1>0, <3>1, <3>2 DEF Nap, TypeOK
    <3>3. CASE Wake
      BY <1>0, <3>1, <3>3 DEF Wake, TypeOK
    <3>. QED  BY <3>2, <3>3
  <2>. QED  BY <1>0, <2>1 DEF TypeOK, world, attachment, cache
<1>3. Len(fed') = 0 /\ FedIsOwn' /\ PassBegins'
  BY <1>1 DEF FedIsOwn, PassBegins
<1>4. RingOrder' /\ Histories' /\ Remembered'
  BY <1>0, <1>1 DEF RingOrder, Histories, Remembered
<1>5. UnseenIsNew'
  BY <1>0, <1>1 DEF UnseenIsNew, TypeOK
<1>. QED  BY <1>2, <1>3, <1>4, <1>5 DEF IInv

\* The surface that is picked is one of those cached.
LEMMA ChosenIsCached ==
    ASSUME NEW k \in Chosen
    PROVE  k = None \/ k \in DOMAIN surf
BY DEF Chosen, Leaders, Eligible

\* What is cached lies between the past and what is pending.
LEMMA CachedFacts ==
    ASSUME TypeOK, Histories, NEW m \in Cached
    PROVE  /\ m \in Frames /\ m.proc = owner /\ m.at <= now
           /\ m.key \in DOMAIN surf /\ m.at <= surf[m.key].last
           /\ \A i \in 1..Len(ring) : Same(m, ring[i]) => m.at <= ring[i].at
<1>1. PICK k \in DOMAIN surf : m \in ToSet(surf[k].frames)
  BY DEF Cached
<1>2. surf[k].frames \in Seq(Frames) /\ surf[k].last \in Nat /\ now \in Nat
  BY <1>1 DEF TypeOK, Surface
<1>3. PICK i \in 1..Len(surf[k].frames) : surf[k].frames[i] = m
  BY <1>1, <1>2, RangeIsIndexed
<1>4. m \in Frames /\ m.at \in Nat
  <2>1. m \in Frames
    BY <1>2, <1>3, ElementOfSeq
  <2>. QED  BY <2>1 DEF Frames
<1>5. m.proc = owner /\ m.key = k /\ m.at <= surf[k].last /\ surf[k].last <= now
  BY <1>3 DEF Histories
<1>6. ASSUME NEW j \in 1..Len(ring), Same(m, ring[j])
      PROVE  m.at <= ring[j].at
  <2>1. surf[k].last <= ring[j].at
    BY <1>5, <1>6 DEF Histories, Same
  <2>2. ring[j].at \in Nat
    <3>1. ring[j] \in Frames
      BY ElementOfSeq DEF TypeOK
    <3>. QED  BY <3>1 DEF Frames
  <2>. QED  BY <2>1, <2>2, <1>2, <1>4, <1>5
<1>. QED  BY <1>2, <1>4, <1>5, <1>6

LEMMA SyncStep ==
    ASSUME IInv, Sync
    PROVE  /\ IInv'
           /\ \A i \in 1..Len(fed') : fed'[i] \notin mark
<1>0. /\ TypeOK /\ RingOrder /\ Histories /\ Remembered /\ UnseenIsNew /\ FedIsOwn
      /\ fed = <<>> /\ None \notin Keys
      /\ UNCHANGED <<world, app, attachment, ring, owner, surf, engine>>
      /\ hearing' = FALSE /\ now' = now
  BY SourceAssumption DEF IInv, PassBegins, Sync, world
<1>1. PassBegins'
  BY <1>0 DEF PassBegins
<1>2. CASE UNCHANGED <<lastKey, lastSeen, fed, mark>> /\ primary' \in Keys \cup {None}
  <2>1. TypeOK'
    BY <1>0, <1>2 DEF TypeOK, world, attachment
  <2>2. IInv'
    BY <1>0, <1>2, <2>1, Elsewhere DEF TypeOK
  <2>3. Len(fed') = 0
    BY <1>0, <1>2
  <2>. QED  BY <2>2, <2>3
<1>3. CASE /\ primary' \in DOMAIN surf /\ OfEngine
           /\ lastKey' = primary' /\ lastSeen' = surf[primary'].count /\ mark' = Cached
           /\ fed' = fed \/ (lastKey' = lastKey /\ fed' = Unseen(lastKey))
  <2>1. /\ primary' \in Keys /\ surf[primary'].count \in Nat
        /\ Len(surf[primary'].frames) \in Nat
    BY <1>0, <1>3, LenProperties DEF TypeOK, Surface
  <2>2. /\ fed' \in Seq(Frames)
        /\ \A i \in 1..Len(fed') :
              fed'[i] \notin mark /\ fed'[i].proc = owner
    <3>1. CASE fed' = fed
      BY <3>1, <1>0, EmptySeq
    <3>2. CASE lastKey' = lastKey /\ fed' = Unseen(lastKey)
      <4>1. lastKey \in DOMAIN surf
        BY <3>2, <1>3
      <4>2. fed' \in Seq(Frames)
        BY <3>2, <4>1, <1>0, UnseenFacts
      <4>3. ASSUME NEW i \in 1..Len(fed')
            PROVE  fed'[i] \notin mark /\ fed'[i].proc = owner
        <5>1. PICK j \in 1..Len(surf[lastKey].frames) :
                 /\ fed'[i] = surf[lastKey].frames[j]
                 /\ surf[lastKey].count - Len(surf[lastKey].frames) + j > lastSeen
          BY <3>2, <4>1, <4>3, <1>0, UnseenFacts
        <5>. QED  BY <4>1, <5>1, <1>0 DEF UnseenIsNew, Histories
      <4>. QED  BY <4>2, <4>3
    <3>. QED  BY <1>3, <3>1, <3>2
  <2>3. FedIsOwn'
    BY <1>0, <1>3, <2>2 DEF FedIsOwn, OfEngine
  <2>4. Remembered' /\ mark' \subseteq Frames
    BY <1>0, <1>3, CachedFacts DEF Remembered
  <2>5. UnseenIsNew'
    BY <1>0, <1>3, <2>1 DEF UnseenIsNew
  <2>6. TypeOK'
    BY <1>0, <2>1, <2>2, <2>4, <1>3 DEF TypeOK, world, attachment
  <2>7. RingOrder' /\ Histories'
    BY <1>0 DEF RingOrder, Histories
  <2>. QED  BY <1>1, <2>2, <2>3, <2>4, <2>5, <2>6, <2>7 DEF IInv
<1>4. CASE ~OfEngine
  BY <1>0, <1>2, <1>4 DEF Sync, TypeOK
<1>5. CASE OfEngine
  <2>1. primary' = None \/ primary' \in DOMAIN surf
    BY <1>5, ChosenIsCached DEF Sync
  <2>2. primary' \in Keys \cup {None}
    BY <2>1, <1>0 DEF TypeOK
  <2>3. CASE primary' = None
    BY <1>2, <1>5, <2>2, <2>3 DEF Sync
  <2>4. CASE primary' # None /\ primary' # lastKey
    <3>1. lastKey' = primary' /\ mark' = Cached /\ fed' = fed
      BY <1>5, <2>4 DEF Sync
    <3>2. lastSeen' = surf[primary'].count
      BY <1>5, <2>4 DEF Sync, Start
    <3>3. /\ primary' \in DOMAIN surf /\ OfEngine
          /\ lastKey' = primary' /\ lastSeen' = surf[primary'].count /\ mark' = Cached
          /\ fed' = fed \/ (lastKey' = lastKey /\ fed' = Unseen(lastKey))
      BY <1>5, <2>1, <2>4, <3>1, <3>2
    <3>. QED  BY <1>3, <3>3
  <2>5. CASE primary' # None /\ primary' = lastKey
    BY <1>3, <1>5, <2>1, <2>5 DEF Sync
  <2>. QED  BY <2>3, <2>4, <2>5
<1>. QED  BY <1>4, <1>5

LEMMA NextHolds == IInv /\ [Next]_vars => IInv'
<1> SUFFICES ASSUME IInv, [Next]_vars PROVE IInv'
  OBVIOUS
<1>1. CASE Tick \/ TogglePause \/ PollEnds \/ Observe
             \/ (\E p \in Procs : Launch(p)) \/ (\E a \in Apps : SetApp(a))
  BY <1>1, OutsideSteps
<1>2. CASE Notify \/ Refresh \/ Monitor
  BY <1>2, AttachSteps
<1>3. CASE \E k \in Keys : Queue(k)
  BY <1>3, QueueStep
<1>4. CASE Consume
  BY <1>4, ConsumeStep
<1>5. CASE Nap \/ Wake
  BY <1>5, NapAndWake
<1>6. CASE Sync
  BY <1>6, SyncStep
<1>7. CASE UNCHANGED vars
  <2>1. TypeOK'
    BY <1>7 DEF IInv, TypeOK, vars, world, attachment, cache, thread
  <2>2. now' >= now
    BY <1>7 DEF IInv, TypeOK, vars, world
  <2>. QED  BY <1>7, <2>1, <2>2, Elsewhere DEF vars, cache, thread
<1>. QED  BY <1>1, <1>2, <1>3, <1>4, <1>5, <1>6, <1>7 DEF Next

-----------------------------------------------------------------------------
(* Of the primary surface, what came is handed over in full. *)

\* Of the surface last handed over, as long as it holds a frame of that pass, the
\* frames counted are all of those the pass saw.
SeenIsMarked ==
    lastKey \in DOMAIN surf =>
        LET s == surf[lastKey]
        IN (\E i \in 1..Len(s.frames) : s.frames[i] \in mark)
              => /\ lastSeen <= s.count
                 /\ \A i \in 1..Len(s.frames) :
                       s.count - Len(s.frames) + i <= lastSeen => s.frames[i] \in mark

\* A surface that remains after a signal is as before, or begun, or has at its end
\* a frame that no pass saw.
LEMMA ConsumedFacts ==
    ASSUME IInv, Consume, NEW k \in DOMAIN surf'
    PROVE  \/ k \in DOMAIN surf /\ surf'[k] = surf[k]
           \/ Len(surf'[k].frames) = 0
           \/ /\ k \in DOMAIN surf /\ surf'[k].count >= surf[k].count
              /\ \A i \in 1..Len(surf'[k].frames) :
                    \/ /\ surf'[k].frames[i] \notin mark
                       /\ surf'[k].count - Len(surf'[k].frames) + i > surf[k].count
                    \/ \E j \in 1..Len(surf[k].frames) :
                          /\ surf'[k].frames[i] = surf[k].frames[j]
                          /\ surf'[k].count - Len(surf'[k].frames) + i
                                = surf[k].count - Len(surf[k].frames) + j
<1> DEFINE r == Head(ring)
           old == IF r.key \in DOMAIN surf THEN surf[r.key] ELSE New
           heard == [q \in DOMAIN surf \cup {r.key} |->
                        IF q = r.key THEN Heard(old, r) ELSE surf[q]]
<1>0. /\ TypeOK /\ RingOrder /\ Remembered /\ ring # <<>> /\ ring' = Tail(ring)
      /\ now \in Nat
  BY DEF IInv, TypeOK, Consume
<1>1. r \in Frames /\ r.at \in Nat
  <2>1. r \in Frames
    BY <1>0, TakenFacts
  <2>. QED  BY <2>1 DEF Frames
<1>2. CASE ~Own(r)
  BY <1>2 DEF Consume
<1>3. CASE Own(r)
  <2>1. PICK ks \in Prune(heard, r.at) : surf' = [q \in ks |-> heard[q]]
    BY <1>3 DEF Consume
  <2>2. k \in DOMAIN heard /\ surf'[k] = heard[k]
    <3> HIDE DEF heard, r
    <3>1. ks \subseteq DOMAIN heard
      BY <2>1 DEF Prune
    <3>. QED  BY <2>1, <3>1
  <2>3. CASE k # r.key
    BY <2>2, <2>3
  <2>4. CASE k = r.key /\ k \notin DOMAIN surf
    <3>1. surf'[k] = Heard(New, r)
      BY <2>2, <2>4
    <3>2. Heard(New, r) = [New EXCEPT !.last = r.at]
      BY DEF Heard, New
    <3>. QED  BY <3>1, <3>2, EmptySeq DEF New
  <2>5. CASE k = r.key /\ k \in DOMAIN surf
    <3> DEFINE s == surf[k]
               h == Heard(s, r)
    <3>1. surf'[k] = h
      BY <2>2, <2>5
    <3>2. s \in Surface /\ Len(s.frames) <= History /\ Len(s.frames) <= s.count
      BY <1>0, <2>5 DEF TypeOK
    <3>3. /\ h.count >= s.count
          /\ \A i \in 1..Len(h.frames) :
                \/ /\ h.frames[i] = r /\ r.at > s.last
                   /\ h.count - Len(h.frames) + i > s.count
                \/ \E j \in 1..Len(s.frames) :
                      /\ h.frames[i] = s.frames[j]
                      /\ h.count - Len(h.frames) + i = s.count - Len(s.frames) + j
      <4> HIDE DEF s, r
      <4>. QED  BY <1>0, <1>1, <3>2, HeardFacts
    <3>4. r.at > s.last => r \notin mark
      <4>1. r.proc = owner
        BY <1>3 DEF Own
      <4>2. s.last \in Nat
        BY <3>2 DEF Surface
      <4>3. r \in mark => r.at <= s.last
        BY <1>0, <2>5, <4>1 DEF Remembered
      <4>. HIDE DEF s, r
      <4>. QED  BY <1>1, <4>2, <4>3
    <3>. HIDE DEF h, r
    <3>. QED  BY <2>5, <3>1, <3>3, <3>4
  <2>. QED  BY <2>2, <2>3, <2>4, <2>5
<1>. QED  BY <1>2, <1>3

LEMMA SeenHolds ==
    ASSUME IInv, SeenIsMarked, [Next]_vars
    PROVE  SeenIsMarked'
<1>0. TypeOK /\ None \notin Keys
  BY SourceAssumption DEF IInv
<1>1. CASE /\ UNCHANGED <<surf, mark>> \/ (UNCHANGED mark /\ DOMAIN surf' = {})
           /\ UNCHANGED <<lastKey, lastSeen>> \/ lastKey' = None
  BY <1>0, <1>1 DEF SeenIsMarked, TypeOK
<1>2. CASE Consume
  <2>0. UNCHANGED <<lastKey, lastSeen, mark>>
    BY <1>2 DEF Consume, thread
  <2> SUFFICES ASSUME lastKey \in DOMAIN surf',
                      NEW m \in 1..Len(surf'[lastKey].frames),
                      surf'[lastKey].frames[m] \in mark
               PROVE  /\ lastSeen <= surf'[lastKey].count
                      /\ \A i \in 1..Len(surf'[lastKey].frames) :
                            surf'[lastKey].count - Len(surf'[lastKey].frames) + i <= lastSeen
                                => surf'[lastKey].frames[i] \in mark
    BY <2>0 DEF SeenIsMarked
  <2> DEFINE s == surf[lastKey]
             h == surf'[lastKey]
  <2>1. CASE lastKey \in DOMAIN surf /\ h = s
    BY <2>1 DEF SeenIsMarked
  <2>2. CASE Len(h.frames) = 0
    BY <2>2
  <2>3. CASE /\ lastKey \in DOMAIN surf /\ h.count >= s.count
             /\ \A i \in 1..Len(h.frames) :
                   \/ /\ h.frames[i] \notin mark
                      /\ h.count - Len(h.frames) + i > s.count
                   \/ \E j \in 1..Len(s.frames) :
                         /\ h.frames[i] = s.frames[j]
                         /\ h.count - Len(h.frames) + i = s.count - Len(s.frames) + j
    <3>1. \E j \in 1..Len(s.frames) : s.frames[j] \in mark
      BY <2>3
    <3>2. /\ lastSeen <= s.count
          /\ \A j \in 1..Len(s.frames) :
                s.count - Len(s.frames) + j <= lastSeen => s.frames[j] \in mark
      BY <2>3, <3>1 DEF SeenIsMarked
    <3>3. /\ s.count \in Nat /\ lastSeen \in Nat
      BY <1>0, <2>3 DEF TypeOK, Surface
    <3>4. TypeOK' /\ h.count \in Nat /\ Len(h.frames) \in Nat
      <4>1. TypeOK'
        BY <1>2, NextHolds DEF IInv
      <4>. QED  BY <4>1, LenProperties DEF TypeOK, Surface
    <3>5. lastSeen <= h.count
      BY <2>3, <3>2, <3>3, <3>4
    <3>6. ASSUME NEW i \in 1..Len(h.frames), h.count - Len(h.frames) + i <= lastSeen
          PROVE  h.frames[i] \in mark
      <4>1. ~(h.count - Len(h.frames) + i > s.count)
        BY <3>2, <3>3, <3>4, <3>6
      <4>2. PICK j \in 1..Len(s.frames) :
               /\ h.frames[i] = s.frames[j]
               /\ h.count - Len(h.frames) + i = s.count - Len(s.frames) + j
        BY <2>3, <4>1
      <4>3. s.count - Len(s.frames) + j <= lastSeen
        BY <3>6, <4>2
      <4>. QED  BY <3>2, <4>2, <4>3
    <3>. QED  BY <3>5, <3>6
  <2>. HIDE DEF s, h
  <2>4. \/ lastKey \in DOMAIN surf /\ h = s
        \/ Len(h.frames) = 0
        \/ /\ lastKey \in DOMAIN surf /\ h.count >= s.count
           /\ \A i \in 1..Len(h.frames) :
                 \/ /\ h.frames[i] \notin mark
                    /\ h.count - Len(h.frames) + i > s.count
                 \/ \E j \in 1..Len(s.frames) :
                       /\ h.frames[i] = s.frames[j]
                       /\ h.count - Len(h.frames) + i = s.count - Len(s.frames) + j
    BY <1>2, ConsumedFacts DEF s, h
  <2>. QED  BY <2>1, <2>2, <2>3, <2>4 DEF s, h
<1>3. CASE Sync
  <2>1. surf' = surf
    BY <1>3 DEF Sync
  <2>2. CASE UNCHANGED <<lastKey, lastSeen, mark>>
    BY <2>1, <2>2, <1>1
  <2>3. CASE ~UNCHANGED <<lastKey, lastSeen, mark>>
    <3>1. /\ primary' \in DOMAIN surf /\ lastKey' = primary' /\ mark' = Cached
          /\ lastSeen' = surf[primary'].count
      BY <1>3, <2>3, ChosenIsCached DEF Sync, Start
    <3>2. surf[primary'].count \in Nat /\ surf[primary'].frames \in Seq(Frames)
      BY <1>0, <3>1 DEF TypeOK, Surface
    <3>3. \A i \in 1..Len(surf[primary'].frames) : surf[primary'].frames[i] \in Cached
      BY <3>1, <3>2, RangeIsIndexed DEF Cached
    <3>. QED  BY <2>1, <3>1, <3>2, <3>3 DEF SeenIsMarked
  <2>. QED  BY <2>2, <2>3
<1>4. CASE Notify \/ Refresh \/ Monitor
  <2>1. UNCHANGED <<lastKey, lastSeen, mark>>
    BY <1>4 DEF Notify, Refresh, Monitor, thread
  <2>2. surf' = surf \/ surf' = NoSurfaces
    BY <1>4 DEF Notify, Refresh, Monitor, RefreshFrom, NoCache, Attach, cache
  <2>. QED  BY <1>1, <2>1, <2>2, EmptyTypes
<1>5. CASE ~(Consume \/ Sync \/ Notify \/ Refresh \/ Monitor)
  <2>1. /\ UNCHANGED <<surf, mark>>
        /\ UNCHANGED <<lastKey, lastSeen>> \/ lastKey' = None
    BY <1>5 DEF Next, vars, Tick, TogglePause, PollEnds, Observe, Nap, Wake, Launch,
       Queue, SetApp, cache, thread
  <2>. QED  BY <1>1, <2>1
<1>. QED  BY <1>2, <1>3, <1>4, <1>5

-----------------------------------------------------------------------------
(* The theorems *)

\* Every variable keeps its type, at most Limit surfaces are kept, and the counts
\* the indices of a pass are computed from cover the histories.
THEOREM FrameTypes == Spec => []TypeOK
<1>1. IInv => TypeOK
  BY DEF IInv
<1>. QED  BY <1>1, InitHolds, NextHolds, PTL DEF Spec

\* The engine hears only of the package it runs for, the histories are of the one
\* process listened to: whatever the ring still holds, and in whatever order the
\* three threads learn of a new package.
THEOREM FramesAreOwn == Spec => []OwnFrames
<1>1. IInv => OwnFrames
  <2> SUFFICES ASSUME IInv PROVE OwnFrames
    OBVIOUS
  <2>1. \A f \in Cached : f.proc = owner
    BY CachedFacts DEF IInv
  <2>2. \A f \in ToSet(fed) : AppOf[f.proc] = engine
    BY RangeIsIndexed DEF IInv, FedIsOwn, TypeOK
  <2>. QED  BY <2>1, <2>2 DEF OwnFrames
<1>. QED  BY <1>1, InitHolds, NextHolds, PTL DEF Spec

\* No pass hands over what was already in the histories when the thread last had a
\* primary surface: no frame twice, no past of a surface just chosen.
THEOREM NoFrameTwice == Spec => NothingTwice
<1>1. ASSUME IInv, [Next]_vars, IInv', hearing, ~hearing'
      PROVE  ToSet(fed') \cap mark = {}
  <2>1. CASE Sync
    <3>1. \A i \in 1..Len(fed') : fed'[i] \notin mark
      BY <1>1, <2>1, SyncStep
    <3>2. fed' \in Seq(Frames)
      BY <1>1 DEF IInv, TypeOK
    <3>. QED  BY <3>1, <3>2, RangeIsIndexed
  <2>2. CASE ~Sync
    BY <1>1, <2>2 DEF Next, vars, Tick, TogglePause, Notify, Refresh, Monitor, PollEnds,
       Consume, Observe, Nap, Wake, Launch, Queue, SetApp, thread
  <2>. QED  BY <2>1, <2>2
<1>2. IInv /\ [Next]_vars /\ IInv'
        => [hearing /\ ~hearing' => ToSet(fed') \cap mark = {}]_vars
  BY <1>1
<1>. QED  BY <1>2, InitHolds, NextHolds, PTL DEF Spec, NothingTwice

\* A pass over the surface handed over last, as long as something of that pass is
\* still kept, hands over all that came since and is kept: however many frames
\* pushed older ones out of the history, and whatever was pruned meanwhile.
THEOREM EverythingKeptIsHandedOver == Spec => HandsOverAll
<1>1. Init => SeenIsMarked
  BY DEF Init, SeenIsMarked, NoSurfaces
<1>2. ASSUME IInv, SeenIsMarked, [Next]_vars,
             hearing, ~hearing', OfEngine, lastKey # None, primary' = lastKey,
             ToSet(surf[lastKey].frames) \cap mark # {}
      PROVE  ToSet(surf[lastKey].frames) \ mark \subseteq ToSet(fed')
  <2> DEFINE s == surf[lastKey]
  <2>0. TypeOK
    BY <1>2 DEF IInv
  <2>1. Sync
    BY <1>2 DEF Next, vars, Tick, TogglePause, Notify, Refresh, Monitor, PollEnds,
       Consume, Observe, Nap, Wake, Launch, Queue, SetApp, thread
  <2>2. lastKey \in DOMAIN surf /\ fed' = Unseen(lastKey)
    BY <1>2, <2>1, ChosenIsCached DEF Sync
  <2>3. /\ s.frames \in Seq(Frames) /\ Len(s.frames) \in Nat /\ s.count \in Nat
        /\ lastSeen \in Nat /\ fed' \in Seq(Frames)
    BY <2>0, <2>2, LenProperties, UnseenFacts DEF TypeOK, Surface
  <2>4. \E i \in 1..Len(s.frames) : s.frames[i] \in mark
    BY <1>2, <2>3, RangeIsIndexed
  <2>5. ASSUME NEW f \in ToSet(s.frames), f \notin mark
        PROVE  f \in ToSet(fed')
    <3>1. PICK j \in 1..Len(s.frames) : s.frames[j] = f
      BY <2>3, RangeIsIndexed
    <3>2. s.count - Len(s.frames) + j > lastSeen
      <4>1. ~(s.count - Len(s.frames) + j <= lastSeen)
        BY <1>2, <2>2, <2>4, <2>5, <3>1 DEF SeenIsMarked
      <4>. QED  BY <4>1, <2>3
    <3>3. \E i \in 1..Len(fed') : fed'[i] = f
      BY <2>0, <2>2, <3>1, <3>2, UnseenFacts
    <3>. QED  BY <2>3, <3>3, RangeIsIndexed
  <2>. QED  BY <2>5
<1>3. IInv /\ SeenIsMarked /\ [Next]_vars
        => [/\ hearing /\ ~hearing' /\ OfEngine
            /\ lastKey # None /\ primary' = lastKey
            /\ ToSet(surf[lastKey].frames) \cap mark # {}
            => ToSet(surf[lastKey].frames) \ mark \subseteq ToSet(fed')]_vars
  BY <1>2
<1>4. IInv /\ SeenIsMarked /\ [Next]_vars => SeenIsMarked'
  BY SeenHolds
<1>. QED  BY <1>1, <1>3, <1>4, InitHolds, NextHolds, PTL DEF Spec, HandsOverAll
=============================================================================
