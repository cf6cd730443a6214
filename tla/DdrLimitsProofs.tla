--------------------------- MODULE DdrLimitsProofs ---------------------------
(* Proofs about DdrLimits, for every table, curve, set of paths and limit. *)
EXTENDS DdrLimits, TLAPS

\* A pass is only under way while the daemon is not paused.
Running == pc \in {"load", "forced", "verify", "cap", "capVerify"} => ~paused

\* While it runs, what was applied last is the profile that is loaded.
Applied == ~paused => floor.applied = profile

\* A floor that is ours is the profile's minimum, and there is a base to go back to.
FloorIsApplied ==
    /\ floor.ours /\ ~floor.disabled => floor.freq = floor.applied.min
    /\ floor.ours => floor.base # None

\* Only what was just written is read back.
ReadBack ==
    /\ pc = "verify" => ~floor.disabled
    /\ pc = "capVerify" => ~cap.stopped /\ cap.ours # None

\* While the cap is ours the bases are the values from before, and the paths
\* the platform left alone hold our value.
Held ==
    cap.ours # None =>
        /\ cap.base = before
        /\ \A p \in Paths \ touched : maxNode[p] = cap.ours

\* From the write to the next pass the cap is over the floor that was applied.
OverFloor ==
    (pc \in {"idle", "capVerify"} /\ cap.ours # None /\ ~cap.stopped)
        => cap.ours >= floor.applied.min

IInv ==
    /\ TypeOK /\ Running /\ Applied /\ FloorIsApplied /\ ReadBack
    /\ Held /\ CapGivesBack /\ OverFloor

-----------------------------------------------------------------------------
(* The floor *)

LEMMA ProfileTypes ==
    ASSUME NEW r \in Profiles
    PROVE  r.min \in Levels /\ r.max \in Levels /\ r.min <= r.max
BY DdrAssumption

\* What a change of the floor leaves true, whichever of its branches runs.
LEMMA ApplyFloorFacts ==
    ASSUME TypeOK, FloorIsApplied, profile' \in Profiles, ApplyFloor
    PROVE  /\ minNode' \in Levels /\ floor' \in FloorState
           /\ floor'.streak = floor.streak /\ floor'.disabled = floor.disabled
           /\ floor'.applied = profile'
           /\ FloorIsApplied'
<1>0. /\ profile'.min \in Levels /\ minNode \in Levels /\ floor \in FloorState
      /\ Levels \subseteq Nat /\ None \notin Levels
      /\ Narrow(profile') \in BOOLEAN
  BY ProfileTypes DEF TypeOK, Narrow, Levels, None
<1>1. CASE floor.disabled
  BY <1>0, <1>1 DEF ApplyFloor, FloorIsApplied, FloorState
<1>2. CASE ~floor.disabled
  <2>0. FloorBase \in Levels
    BY <1>0 DEF FloorBase, FloorIsApplied, FloorState
  <2>1. CASE Raise(profile'.min)
    <3>1. floor' = [floor EXCEPT !.base = FloorBase, !.ours = TRUE, !.freq = profile'.min,
                                 !.applied = profile', !.monitor = Narrow(profile')]
      BY <2>1 DEF Raise
    <3>2. floor' \in FloorState BY <1>0, <2>0, <3>1 DEF FloorState
    <3>3. FloorIsApplied' BY <1>0, <2>0, <3>1 DEF FloorIsApplied, FloorState
    <3> QED BY <1>0, <2>1, <3>1, <3>2, <3>3 DEF Raise, FloorState
  <2>2. CASE Release(profile'.min)
    <3>1. floor' = [floor EXCEPT !.base = FloorBase, !.ours = FALSE, !.freq = None,
                                 !.applied = profile', !.monitor = Narrow(profile')]
      BY <2>2 DEF Release
    <3>2. floor' \in FloorState BY <1>0, <2>0, <3>1 DEF FloorState
    <3>3. FloorIsApplied' BY <1>0, <2>0, <3>1 DEF FloorIsApplied, FloorState
    <3> QED BY <1>0, <2>0, <2>2, <3>1, <3>2, <3>3 DEF Release, FloorState
  <2>3. CASE Leave(profile'.min)
    <3>1. floor' = [floor EXCEPT !.base = FloorBase,
                                 !.applied = profile', !.monitor = Narrow(profile')]
      BY <2>3 DEF Leave
    <3>2. floor' \in FloorState BY <1>0, <2>0, <3>1 DEF FloorState
    <3>3. ~floor.ours
      BY <1>0, <2>3 DEF Leave, FloorReference, FloorBase
    <3>4. FloorIsApplied' BY <1>0, <3>1, <3>3 DEF FloorIsApplied, FloorState
    <3> QED BY <1>0, <2>3, <3>1, <3>2, <3>4 DEF Leave, FloorState
  <2> QED BY <1>2, <2>1, <2>2, <2>3 DEF ApplyFloor
<1> QED BY <1>1, <1>2

-----------------------------------------------------------------------------
(* The cap *)

LEMMA TargetFacts ==
    ASSUME profile \in Profiles, NEW g \in Gpus
    PROVE  Target(g) \in Levels /\ Target(g) >= profile.min
<1>1. profile.min \in Levels /\ profile.max \in Levels /\ Curve[g] \in Levels
  BY ProfileTypes, DdrAssumption
<1> QED BY <1>1 DEF Target, Bigger, Smaller, Levels

\* Giving the cap back puts the old value where the platform left ours alone.
LEMMA GiveBackFacts ==
    ASSUME TypeOK, Held, CapGivesBack, NEW c \in CapState,
           c.ours = cap.ours, c.base = cap.base
    PROVE  /\ Restored(c) \in [Paths -> Levels]
           /\ Idle(c) \in CapState /\ Idle(c).ours = None
           /\ Idle(c).stopped = c.stopped
           /\ c.streak = Limit => Idle(c).streak \in {0, Limit}
           /\ c.streak # Limit => Idle(c).streak # Limit
           /\ \A p \in Paths \ touched : Restored(c)[p] = before[p]
<1>0. 0 \in 0 .. Limit /\ Limit # 0 /\ None \notin Levels BY DdrAssumption DEF None, Levels
<1>1. Idle(c) \in CapState /\ Idle(c).ours = None /\ Idle(c).stopped = c.stopped
      /\ Idle(c).streak \in {0, c.streak}
  BY <1>0 DEF Idle, CapState, NoBase
<1>2. c.streak # Limit => Idle(c).streak # Limit BY <1>0, <1>1
<1>3. Restored(c) \in [Paths -> Levels]
  BY DEF Restored, TypeOK, CapState
<1>4. ASSUME NEW p \in Paths \ touched PROVE Restored(c)[p] = before[p]
  BY <1>0 DEF Restored, Held, CapGivesBack, TypeOK
<1> QED BY <1>0, <1>1, <1>2, <1>3, <1>4

\* A pass with the state c it works with, which differs from cap at most in its streak.
LEMMA EnforceFacts ==
    ASSUME TypeOK, Held, CapGivesBack, profile \in Profiles,
           NEW c \in CapState, c.ours = cap.ours, c.base = cap.base,
           c.streak = Limit => c.stopped,
           NEW enabled \in BOOLEAN, EnforceCap(c, enabled)
    PROVE  /\ maxNode' \in [Paths -> Levels] /\ cap' \in CapState
           /\ cap'.streak = Limit => cap'.stopped
           /\ before' \in [Paths -> Levels] /\ touched' \subseteq Paths
           /\ pc' \in {"idle", "capVerify"}
           /\ pc' = "capVerify" => ~cap'.stopped /\ cap'.ours # None
           /\ Held' /\ CapGivesBack'
           /\ (cap'.ours # None /\ ~cap'.stopped) => cap'.ours >= profile.min
<1>0. 0 \in 0 .. Limit /\ Limit # 0 /\ None \notin Levels BY DdrAssumption DEF None, Levels
<1>1. CASE GiveBack(c)
  <2>1. /\ maxNode' = Restored(c) /\ cap' = Idle(c) /\ pc' = "idle"
        /\ before' = before /\ touched' = touched
    BY <1>1 DEF GiveBack, history
  <2>2. /\ maxNode' \in [Paths -> Levels] /\ cap' \in CapState /\ cap'.ours = None
        /\ cap'.stopped = c.stopped
        /\ cap'.streak = Limit => cap'.stopped
        /\ \A p \in Paths \ touched : maxNode'[p] = before[p]
    BY <2>1, GiveBackFacts
  <2> QED BY <2>1, <2>2 DEF Held, CapGivesBack, TypeOK
<1>2. CASE Keep(c) /\ c.stopped
  BY <1>2 DEF Keep, history, Held, CapGivesBack, TypeOK
<1>3. CASE ~c.stopped /\ gpu # Unreadable
           /\ (Write(c, Target(gpu)) \/ (Target(gpu) = c.ours /\ Keep(c)))
  <2>0. gpu \in Gpus BY <1>3 DEF TypeOK
  <2>1. Target(gpu) \in Levels /\ Target(gpu) >= profile.min BY <2>0, TargetFacts
  <2>2. CASE Write(c, Target(gpu))
    <3>1. /\ maxNode' = [p \in Paths |-> Target(gpu)]
          /\ cap' = Taken(c, Target(gpu)) /\ pc' = "capVerify"
          /\ before' = IF c.ours = None THEN maxNode ELSE before
          /\ touched' = IF c.ours = None THEN {} ELSE touched
      BY <2>2 DEF Write
    <3>2. /\ cap' \in CapState /\ cap'.ours = Target(gpu)
          /\ cap'.stopped = c.stopped /\ cap'.streak = c.streak
          /\ cap'.base = IF c.ours = None THEN maxNode ELSE c.base
      BY <2>1, <3>1 DEF Taken, CapState, TypeOK
    <3>3. before' \in [Paths -> Levels] /\ touched' \subseteq Paths
      BY <3>1 DEF TypeOK
    <3>4. cap'.base = before' BY <3>1, <3>2 DEF Held
    <3>5. maxNode' \in [Paths -> Levels] /\ \A p \in Paths : maxNode'[p] = cap'.ours
      BY <2>1, <3>1, <3>2
    <3> QED BY <1>0, <1>3, <2>1, <3>1, <3>2, <3>3, <3>4, <3>5 DEF Held, CapGivesBack
  <2>3. CASE Target(gpu) = c.ours /\ Keep(c)
    BY <2>1, <2>3, <1>3 DEF Keep, history, Held, CapGivesBack, TypeOK
  <2> QED BY <1>3, <2>2, <2>3
<1> QED BY <1>1, <1>2, <1>3 DEF EnforceCap

-----------------------------------------------------------------------------
(* The invariant *)

LEMMA InitIInv == Init => IInv
<1> SUFFICES ASSUME Init PROVE IInv OBVIOUS
<1>0. /\ 0 \in 0 .. Limit /\ Limit # 0 /\ 0 \in 0 .. MaxEdits /\ 0 \in 0 .. Budget
      /\ StartMin \subseteq Levels /\ StartMax \subseteq Levels
  BY DdrAssumption
<1>1. minNode \in Levels /\ maxNode \in [Paths -> Levels] /\ before \in [Paths -> Levels]
  BY <1>0 DEF Init
<1>2. floor \in FloorState /\ cap \in CapState
  BY <1>0 DEF Init, FloorState, CapState, NoBase
<1>3. file \in [text : Texts, stamp : 0 .. MaxEdits] /\ conf \in [stamp : 0 .. MaxEdits, enabled : BOOLEAN]
  BY <1>0 DEF Init, Texts
<1>4. TypeOK BY <1>0, <1>1, <1>2, <1>3 DEF Init, TypeOK
<1> QED BY <1>0, <1>4 DEF Init, IInv, Running, Applied, FloorIsApplied, ReadBack, Held,
                          CapGivesBack, OverFloor, None

\* The steps that apply the floor and touch nothing of the cap.
LEMMA ApplyKeeps ==
    ASSUME IInv, profile' \in Profiles, ApplyFloor, paused' = FALSE,
           pc' \in {"forced", "verify", "cap"},
           pc' = "verify" => ~floor.disabled,
           UNCHANGED <<maxNode, gpu, file, conf, due, cap, history, moves, edits>>
    PROVE  IInv'
<1>0. TypeOK /\ FloorIsApplied BY DEF IInv
<1>1. /\ minNode' \in Levels /\ floor' \in FloorState
      /\ floor'.streak = floor.streak /\ floor'.disabled = floor.disabled
      /\ floor'.applied = profile' /\ FloorIsApplied'
  BY <1>0, ApplyFloorFacts
<1>2. TypeOK' BY <1>0, <1>1 DEF TypeOK, history
<1>3. Held' /\ CapGivesBack' BY DEF IInv, Held, CapGivesBack, history
<1> QED BY <1>1, <1>2, <1>3 DEF IInv, Running, Applied, ReadBack, OverFloor

LEMMA NextIInv == IInv /\ [Next]_vars => IInv'
<1> SUFFICES ASSUME IInv, [Next]_vars PROVE IInv' OBVIOUS
<1>0. TypeOK /\ Running /\ Applied /\ FloorIsApplied /\ ReadBack /\ Held /\ CapGivesBack /\ OverFloor
  BY DEF IInv
<1>l. Limit \in Nat \ {0} /\ Budget \in Nat /\ MaxEdits \in Nat BY DdrAssumption
<1>1. CASE FirstLoad
  BY <1>0, <1>1, ApplyKeeps DEF FirstLoad, Running, TypeOK
<1>2. CASE FloorPass
  <2>1. PICK fas \in BOOLEAN, outside \in BOOLEAN :
          \/ /\ ~floor.disabled /\ ApplyFloor
             /\ pc' = IF floor'.ours THEN "verify" ELSE "cap"
          \/ /\ pc' = "cap" /\ UNCHANGED <<minNode, floor>>
    BY <1>2 DEF FloorPass
  <2>2. /\ paused' = FALSE /\ profile' = profile /\ profile' \in Profiles
        /\ UNCHANGED <<maxNode, gpu, paused, file, conf, due, cap, history, moves, edits>>
    BY <1>0, <1>2 DEF FloorPass, env, TypeOK
  <2>3. CASE ~floor.disabled /\ ApplyFloor /\ pc' = IF floor'.ours THEN "verify" ELSE "cap"
    BY <2>2, <2>3, ApplyKeeps
  <2>4. CASE pc' = "cap" /\ UNCHANGED <<minNode, floor>>
    <3>1. TypeOK' BY <1>0, <2>2, <2>4 DEF TypeOK, history
    <3> QED BY <1>0, <2>2, <2>4, <3>1 DEF IInv, Running, Applied, FloorIsApplied, ReadBack,
                                          Held, CapGivesBack, OverFloor, history
  <2> QED BY <2>1, <2>3, <2>4
<1>3. CASE FloorVerify
  <2>1. /\ pc = "verify" /\ pc' = "cap" /\ ~floor.disabled
        /\ UNCHANGED <<minNode, maxNode, profile, gpu, paused, file, conf, due, cap, before, touched, moves, edits>>
    BY <1>0, <1>3 DEF FloorVerify, ReadBack, nodes, env, history
  <2>2. /\ floor' \in FloorState /\ (floor'.streak = Limit) = floor'.disabled
        /\ floor'.applied = floor.applied /\ floor'.ours = floor.ours
        /\ floor'.freq = floor.freq /\ floor'.base = floor.base
    <3>1. floor.streak \in 0 .. Limit /\ floor.streak # Limit BY <1>0, <2>1 DEF TypeOK, FloorState
    <3>2. floor.streak + 1 \in 0 .. Limit
          /\ (floor.streak + 1 = Limit) = (floor.streak + 1 >= Limit)
      BY <3>1, <1>l
    <3>3. CASE minNode < floor.applied.min
      BY <1>0, <1>3, <3>2, <3>3 DEF FloorVerify, TypeOK, FloorState
    <3>4. CASE ~(minNode < floor.applied.min)
      BY <1>0, <1>3, <1>l, <2>1, <3>4 DEF FloorVerify, TypeOK, FloorState
    <3> QED BY <3>3, <3>4
  <2>3. TypeOK' BY <1>0, <2>1, <2>2 DEF TypeOK
  <2>4. FloorIsApplied' BY <1>0, <2>1, <2>2 DEF FloorIsApplied
  <2> QED BY <1>0, <2>1, <2>2, <2>3, <2>4 DEF IInv, Running, Applied, ReadBack,
                                             Held, CapGivesBack, OverFloor
<1>4. CASE CapPass
  <2>1. /\ pc = "cap" /\ due' = FALSE /\ conf' = ReadConf
        /\ EnforceCap(Revived, ReadConf.enabled)
        /\ UNCHANGED <<minNode, profile, gpu, paused, file, floor, moves, edits>>
    BY <1>4 DEF CapPass, env
  <2>2. ReadConf \in [stamp : 0 .. MaxEdits, enabled : BOOLEAN]
    BY <1>0 DEF ReadConf, TypeOK
  <2>3. /\ Revived \in CapState /\ Revived.ours = cap.ours /\ Revived.base = cap.base
        /\ Revived.streak = Limit => Revived.stopped
    <3>1. CASE Changed
      <4>1. Revived = [cap EXCEPT !.streak = 0, !.stopped = FALSE] BY <3>1 DEF Revived
      <4>2. 0 \in 0 .. Limit /\ 0 # Limit BY <1>l
      <4> QED BY <1>0, <4>1, <4>2 DEF TypeOK, CapState
    <3>2. CASE ~Changed
      BY <1>0, <3>2 DEF Revived, TypeOK
    <3> QED BY <3>1, <3>2
  <2>4. /\ maxNode' \in [Paths -> Levels] /\ cap' \in CapState
        /\ cap'.streak = Limit => cap'.stopped
        /\ before' \in [Paths -> Levels] /\ touched' \subseteq Paths
        /\ pc' \in {"idle", "capVerify"}
        /\ pc' = "capVerify" => ~cap'.stopped /\ cap'.ours # None
        /\ Held' /\ CapGivesBack'
        /\ (cap'.ours # None /\ ~cap'.stopped) => cap'.ours >= profile.min
    <3>1. profile \in Profiles /\ ReadConf.enabled \in BOOLEAN BY <1>0, <2>2 DEF TypeOK
    <3> QED BY <1>0, <2>1, <2>3, <3>1, EnforceFacts
  <2>5. floor.applied = profile /\ ~paused BY <1>0, <2>1 DEF Running, Applied
  <2>6. TypeOK' BY <1>0, <2>1, <2>2, <2>4 DEF TypeOK
  <2> QED BY <1>0, <2>1, <2>4, <2>5, <2>6 DEF IInv, Running, Applied, FloorIsApplied,
                                             ReadBack, OverFloor
<1>5. CASE CapVerify
  <2>1. /\ pc = "capVerify" /\ pc' = "idle" /\ ~cap.stopped
        /\ UNCHANGED <<minNode, maxNode, profile, gpu, paused, file, conf, due, floor, before, touched, moves, edits>>
    BY <1>0, <1>5 DEF CapVerify, ReadBack, nodes, env, history
  <2>2. /\ cap' \in CapState /\ (cap'.streak = Limit => cap'.stopped)
        /\ cap'.ours = cap.ours /\ cap'.base = cap.base
    <3>1. cap.streak \in 0 .. Limit /\ cap.streak # Limit BY <1>0, <2>1 DEF TypeOK, CapState
    <3>2. cap.streak + 1 \in 0 .. Limit
          /\ (cap.streak + 1 = Limit => cap.streak + 1 >= Limit)
      BY <3>1, <1>l
    <3>3. CASE Differs(cap.ours)
      <4>1. cap' = [cap EXCEPT !.streak = cap.streak + 1, !.stopped = cap.streak + 1 >= Limit]
        BY <1>0, <1>5, <3>3 DEF CapVerify, TypeOK, CapState
      <4> DEFINE over == cap.streak + 1 >= Limit
      <4>2. over \in BOOLEAN /\ (cap.streak + 1 = Limit => over) BY <3>2
      <4>3. cap' = [cap EXCEPT !.streak = cap.streak + 1, !.stopped = over] BY <4>1
      <4> HIDE DEF over
      <4> QED BY <1>0, <3>2, <4>2, <4>3 DEF TypeOK, CapState
    <3>4. CASE ~Differs(cap.ours)
      BY <1>0, <1>5, <1>l, <2>1, <3>4 DEF CapVerify, TypeOK, CapState
    <3> QED BY <3>3, <3>4
  <2>3. TypeOK' BY <1>0, <2>1, <2>2 DEF TypeOK
  <2> QED BY <1>0, <2>1, <2>2, <2>3 DEF IInv, Running, Applied, FloorIsApplied, ReadBack,
                                        Held, CapGivesBack, OverFloor
<1>6. CASE SwitchProfile
  <2>1. /\ pc = "idle" /\ profile' \in Profiles /\ paused' = paused
        /\ UNCHANGED <<maxNode, gpu, paused, file, conf, due, cap, history, moves, edits>>
    BY <1>6 DEF SwitchProfile
  <2>2. CASE paused /\ UNCHANGED <<minNode, floor, pc>>
    <3>1. TypeOK' BY <1>0, <2>1, <2>2 DEF TypeOK, history
    <3> QED BY <1>0, <2>1, <2>2, <3>1 DEF IInv, Running, Applied, FloorIsApplied, ReadBack,
                                          Held, CapGivesBack, OverFloor, history
  <2>3. CASE ~paused /\ ApplyFloor /\ pc' = "forced"
    BY <1>0, <2>1, <2>3, ApplyKeeps DEF TypeOK
  <2> QED BY <1>6, <2>2, <2>3 DEF SwitchProfile
<1>7. CASE Pause
  <2>1. TypeOK' BY <1>0, <1>7 DEF Pause, TypeOK, nodes, history
  <2> QED BY <1>0, <1>7, <2>1 DEF Pause, nodes, IInv, Running, Applied, FloorIsApplied, ReadBack,
                                  Held, CapGivesBack, OverFloor, history
<1>8. CASE Resume
  BY <1>0, <1>8, ApplyKeeps DEF Resume, TypeOK
<1>9. CASE Exit
  <2>1. /\ maxNode' = Restored(cap) /\ cap' = Idle(cap) /\ pc' = "gone"
        /\ UNCHANGED <<minNode, profile, gpu, paused, file, conf, due, floor, before, touched, moves, edits>>
    BY <1>9 DEF Exit, env, history
  <2>2. /\ maxNode' \in [Paths -> Levels] /\ cap' \in CapState /\ cap'.ours = None
        /\ cap'.streak = Limit => cap'.stopped
        /\ \A p \in Paths \ touched : maxNode'[p] = before[p]
    BY <1>0, <2>1, GiveBackFacts DEF TypeOK
  <2>3. TypeOK' BY <1>0, <2>1, <2>2 DEF TypeOK
  <2> QED BY <1>0, <2>1, <2>2, <2>3 DEF IInv, Running, Applied, FloorIsApplied, ReadBack,
                                        Held, CapGivesBack, OverFloor
<1>10. CASE Elapse \/ GpuChanges
  <2>1. TypeOK' BY <1>0, <1>10 DEF Elapse, GpuChanges, TypeOK, nodes, env, history
  <2> QED BY <1>0, <1>10, <2>1 DEF Elapse, GpuChanges, nodes, env, history, IInv, Running, Applied,
                       FloorIsApplied, ReadBack, Held, CapGivesBack, OverFloor
<1>11. CASE Edit
  <2>1. edits + 1 \in 0 .. MaxEdits BY <1>0, <1>11, <1>l DEF Edit, TypeOK
  <2>2. edits' \in 0 .. MaxEdits /\ file' \in [text : Texts, stamp : 0 .. MaxEdits]
    BY <1>0, <1>11, <2>1 DEF Edit, TypeOK
  <2>3. TypeOK' BY <1>0, <1>11, <2>2 DEF Edit, TypeOK, nodes, history
  <2> QED BY <1>0, <1>11, <2>3 DEF Edit, nodes, history, IInv, Running, Applied,
                       FloorIsApplied, ReadBack, Held, CapGivesBack, OverFloor
<1>12. CASE PlatformSetsMin
  <2>1. moves' \in 0 .. Budget /\ minNode' \in Levels
    BY <1>0, <1>12, <1>l DEF PlatformSetsMin, TypeOK
  <2>2. TypeOK' BY <1>0, <1>12, <2>1 DEF PlatformSetsMin, TypeOK, env, history
  <2> QED BY <1>0, <1>12, <2>2 DEF PlatformSetsMin, env, history, IInv, Running, Applied,
                       FloorIsApplied, ReadBack, Held, CapGivesBack, OverFloor
<1>13. CASE PlatformSetsMax
  <2>1. PICK p \in Paths, v \in Levels :
          maxNode' = [maxNode EXCEPT ![p] = v] /\ touched' = touched \cup {p}
    BY <1>13 DEF PlatformSetsMax
  <2>2. moves' \in 0 .. Budget /\ maxNode' \in [Paths -> Levels] /\ touched' \subseteq Paths
    BY <1>0, <1>13, <1>l, <2>1 DEF PlatformSetsMax, TypeOK
  <2>3. TypeOK' BY <1>0, <1>13, <2>2 DEF PlatformSetsMax, TypeOK, env
  <2>4. \A q \in Paths \ touched' : q \in Paths \ touched /\ maxNode'[q] = maxNode[q]
    BY <1>0, <2>1 DEF TypeOK
  <2>5. Held' /\ CapGivesBack'
    BY <1>0, <1>13, <2>4 DEF PlatformSetsMax, Held, CapGivesBack
  <2> QED BY <1>0, <1>13, <2>3, <2>5 DEF PlatformSetsMax, env, IInv, Running, Applied,
                       FloorIsApplied, ReadBack, OverFloor
<1>14. CASE UNCHANGED vars
  <2>1. TypeOK' BY <1>0, <1>14 DEF vars, TypeOK, nodes, env, history
  <2> QED BY <1>0, <1>14, <2>1 DEF vars, nodes, env, history, IInv, Running, Applied,
                       FloorIsApplied, ReadBack, Held, CapGivesBack, OverFloor
<1> QED BY <1>1, <1>2, <1>3, <1>4, <1>5, <1>6, <1>7, <1>8, <1>9, <1>10, <1>11, <1>12,
           <1>13, <1>14 DEF Next

LEMMA Invariance == Spec => []IInv
<1> QED BY InitIInv, NextIInv, PTL DEF Spec

-----------------------------------------------------------------------------
(* The theorems *)

\* The types hold, and neither streak passes its limit: the writer that has
\* counted Limit failures has stopped.
THEOREM LimitTypes == Spec => []TypeOK
<1>1. IInv => TypeOK BY DEF IInv
<1> QED BY <1>1, Invariance, PTL

\* Whatever the number of paths and however often the target moves, a cap that
\* was given back left every path the platform did not write as it was before.
THEOREM CapIsGivenBack == Spec => []CapGivesBack
<1>1. IInv => CapGivesBack BY DEF IInv
<1> QED BY <1>1, Invariance, PTL

\* Between passes our maximum is never under our minimum.
THEOREM MaximumOverMinimum == Spec => []CapAboveFloor
<1>1. IInv => CapAboveFloor
  <2> SUFFICES ASSUME IInv, pc = "idle", floor.ours, ~floor.disabled,
                      cap.ours # None, ~cap.stopped
               PROVE  cap.ours >= floor.freq
    BY DEF CapAboveFloor
  <2> QED BY DEF IInv, OverFloor, FloorIsApplied
<1> QED BY <1>1, Invariance, PTL
=============================================================================
