------------------------- MODULE ConfigReloadProofs -------------------------
(* Proofs about ConfigReload, for all files' histories, modes and packages. *)
EXTENDS ConfigReload, TLAPS

\* The writers begin when the watches are placed, and bring nothing back.
Orderly == ~WritesAtStart /\ ~Reverts

InAttempt == step \in {"read", "check", "load"}

\* A change of this file that the attempt under way has not seen.
Unseen(f) == f \in unread \cup writing \/ lost

\* Where the loop is at an entry, the entry is due.
VisitsDue == step \in {"visit", "read", "check", "load"} => status[Entry] = "due"

\* Only the mode is read before the check.
ReadAtMode == step = "read" => Entry = Mode

\* What the CPU configuration gives for the mode, if anything, is in force.
NoMismatch == Given(file[Cpu], current_mode) # NoSettings => Agrees

\* Nothing has been written before the watches are placed.
Boot ==
    /\ step \in {"prime", "watch"} =>
           watched = {} /\ writing = {} /\ file = [f \in Files |-> 1] /\ NoMismatch
    /\ step = "watch" => hash = file

\* What the attempt hashed is what the file still has, or the change is unseen.
AttemptIsFile == InAttempt /\ Entry \in watched => attempt = file[Entry] \/ Unseen(Entry)

\* Versions only grow; what parses is the newest, what does not is being written.
Growing ==
    /\ \A f \in Files : hash[f] <= newest[f] /\ file[f] \in {Absent, Bad, newest[f]}
    /\ InAttempt => attempt <= newest[Entry]
    /\ \A f \in Files : file[f] = Bad <=> f \in writing

\* The check found a CPU configuration that parses.
LoadIsValid == Cpu \in watched /\ step = "load" => Valid \/ Unseen(Cpu)

ValidOrPending == Cpu \in watched => Valid \/ Pending(Cpu)

\* While what the CPU configuration gives for the mode is not in force, it is not the one
\* whose hash is committed, or the mode's own attempt is under way.
MismatchIsNew ==
    ~NoMismatch =>
        hash[Cpu] # file[Cpu] \/ (step \in {"check", "load"} /\ Entry = Mode)

IInv ==
    /\ TypeOK /\ VisitsDue /\ ReadAtMode /\ Boot /\ AttemptIsFile /\ Growing
    /\ LoadIsValid /\ ValidOrPending /\ NoLostUpdate /\ MismatchIsNew

-----------------------------------------------------------------------------
LEMMA EntryOrder == ASSUME at \in 1..Len(Order) PROVE
    Len(Order) = 2 /\ Entry \in Files /\ (Entry = Mode <=> at = 1) /\ (Entry = Cpu <=> at = 2)
BY ReloadAssumption DEF Order, Entry, Files

\* Wherever the pass goes on, it is at an entry that is due.
LEMMA VisitFromType ==
    ASSUME NEW i \in 1..3, NEW st, VisitFrom(i, st)
    PROVE  /\ step' \in {"visit", "foreground"} /\ at' \in 1..Len(Order)
           /\ step' = "visit" => st[Order[at']] = "due"
<1> DEFINE due == {j \in i..Len(Order) : st[Order[j]] = "due"}
<1>0. Len(Order) = 2
  BY DEF Order
<1>1. CASE due = {}
  BY <1>0, <1>1 DEF VisitFrom, At
<1>2. CASE due # {}
  <2>1. \E j \in due : \A k \in due : j <= k
    <3>1. due \subseteq {1, 2}
      BY <1>0
    <3>2. CASE 1 \in due
      BY <3>1, <3>2
    <3>3. CASE 1 \notin due
      BY <1>2, <3>1, <3>3
    <3>4. QED
      BY <3>2, <3>3
  <2>2. at' \in due /\ step' = "visit"
    BY <1>2, <2>1 DEF VisitFrom, At
  <2>3. QED
    BY <1>0, <2>2
<1>3. QED
  BY <1>1, <1>2

\* What is given is given by a file that parses.
LEMMA GivenType ==
    ASSUME NEW c, NEW m \in Modes
    PROVE  Given(c, m) \in Modes \cup {NoSettings} /\ (Given(c, m) # NoSettings => c \in 1..Versions)
BY ReloadAssumption DEF Given

\* A load leaves what the file gives for the mode, if anything, in force.
LEMMA LoadSettingsType ==
    ASSUME TypeOK, NEW m \in Modes, LoadSettings(m)
    PROVE  /\ loaded' \in {Absent} \cup 1..Versions /\ loaded_mode' \in Modes \cup {NoSettings}
           /\ UNCHANGED file /\ current_mode' = m => NoMismatch'
<1>1. CASE Given(file[Cpu], m) # NoSettings
  BY <1>1, GivenType DEF LoadSettings, NoMismatch, Agrees
<1>2. CASE Given(file[Cpu], m) = NoSettings
  BY <1>2 DEF LoadSettings, TypeOK, NoMismatch
<1>3. QED
  BY <1>1, <1>2

LEMMA ModesType ==
    ASSUME NEW c, NEW a \in Apps PROVE Line(c) \in Modes /\ ForPackage(c, a) \in Modes
BY ReloadAssumption DEF Line, ForPackage

LEMMA InitIInv == Init => IInv
<1> SUFFICES ASSUME Init PROVE IInv
  OBVIOUS
<1>1. Line(1) \in Modes
  BY ReloadAssumption DEF Line
<1>2. TypeOK
  <2>1. 1 \in 1..Versions /\ 1 \in Content /\ Absent \in Content
    BY ReloadAssumption DEF Content
  <2>2. Len(Order) = 2
    BY DEF Order
  <2>3. QED
    <3>1. file \in [Files -> Content] /\ newest \in [Files -> 1..Versions] /\ hash \in [Files -> Content]
      BY <2>1 DEF Init
    <3>2. at \in 1..Len(Order) /\ attempt \in Content /\ loaded \in {Absent} \cup 1..Versions
      BY <2>1, <2>2 DEF Init
    <3>3. QED
      BY <1>1, <3>1, <3>2, GivenType DEF Init, TypeOK
<1>3. QED
  BY <1>2, ReloadAssumption DEF Init, IInv, VisitsDue, ReadAtMode, Boot, AttemptIsFile, Growing, LoadIsValid,
     ValidOrPending, NoLostUpdate, MismatchIsNew, NoMismatch, Agrees, Files, InAttempt, Absent, Bad

\* What any writer does to its file and to the queue.
LEMMA WriterEffect ==
    ASSUME IInv, Orderly, NEW f \in Files, Replace(f) \/ Delete(f) \/ Truncate(f) \/ Close(f)
    PROVE  /\ Undisturbed /\ UNCHANGED watched /\ step \notin {"prime", "watch"}
           /\ file' \in [Files -> Content] /\ newest' \in [Files -> 1..Versions]
           /\ writing' \subseteq Files /\ unread' \subseteq Files /\ lost' \in BOOLEAN
           /\ f \in watched => Unseen(f)'
           /\ \A g \in Files \ {f} : /\ file'[g] = file[g] /\ newest'[g] = newest[g]
                                     /\ g \in writing' <=> g \in writing
                                     /\ Unseen(g) => Unseen(g)'
           /\ file'[f] = Bad <=> f \in writing'
           /\ \/ newest'[f] = newest[f] /\ file'[f] \in {Absent, Bad}
              \/ newest'[f] = newest[f] + 1 /\ file'[f] = newest'[f]
<1>1. TypeOK /\ Boot /\ Growing
  BY DEF IInv
<1>2. step \notin {"prime", "watch"}
  BY <1>1 DEF Orderly, Replace, Delete, Truncate, Close, CanWrite, Boot
<1>3. ASSUME Leaves(f)
      PROVE  /\ file' \in [Files -> Content] /\ newest' \in [Files -> 1..Versions]
             /\ newest'[f] = newest[f] + 1 /\ file'[f] = newest'[f] /\ file'[f] # Bad
             /\ \A g \in Files \ {f} : file'[g] = file[g] /\ newest'[g] = newest[g]
  <2>1. /\ newest' = [newest EXCEPT ![f] = @ + 1] /\ file' = [file EXCEPT ![f] = newest[f] + 1]
        /\ newest[f] < Versions
    BY <1>3 DEF Orderly, Leaves
  <2>2. file \in [Files -> Content] /\ newest \in [Files -> 1..Versions] /\ newest[f] \in 1..Versions
    BY <1>1 DEF TypeOK
  <2>3. newest[f] + 1 \in 1..Versions /\ newest[f] + 1 \in Content /\ newest[f] + 1 # Bad
    BY <2>1, <2>2, ReloadAssumption DEF Content, Bad
  <2>4. QED
    BY <2>1, <2>2, <2>3
<1>4. ASSUME Event(f)
      PROVE  /\ unread' \subseteq Files /\ lost' \in BOOLEAN /\ UNCHANGED watched
             /\ f \in watched => f \in unread' \/ lost'
             /\ \A g \in unread : g \in unread' \/ lost'
             /\ lost => lost'
  <2>1. lost \in BOOLEAN /\ unread \subseteq Files
    BY <1>1 DEF TypeOK
  <2>2. CASE (f \notin watched \/ lost) /\ UNCHANGED <<unread, lost>>
    BY <1>4, <2>1, <2>2 DEF Event
  <2>3. CASE f \in watched /\ ~lost /\ unread' = unread \cup {f} /\ UNCHANGED lost
    BY <1>4, <2>1, <2>3 DEF Event
  <2>4. CASE f \in watched /\ ~lost /\ unread' = {} /\ lost' = TRUE
    BY <1>4, <2>1, <2>4 DEF Event
  <2>5. QED
    BY <1>4, <2>2, <2>3, <2>4 DEF Event
<1>5. CASE Replace(f)
  <2>1. Undisturbed /\ Leaves(f) /\ Event(f) /\ f \notin writing /\ writing' = writing
    BY <1>5 DEF Replace
  <2>2. \A g \in Files : Unseen(g) => Unseen(g)'
    BY <1>4, <2>1 DEF Unseen
  <2>3. f \in watched => Unseen(f)'
    BY <1>4, <2>1 DEF Unseen
  <2>4. writing' \subseteq Files
    BY <1>1, <2>1 DEF TypeOK
  <2>5. QED
    BY <1>2, <1>3, <1>4, <2>1, <2>2, <2>3, <2>4
<1>6. CASE Delete(f)
  BY <1>1, <1>2, <1>4, <1>6, ReloadAssumption DEF Delete, TypeOK, Growing, Unseen, Content, Absent, Bad
<1>7. CASE Truncate(f)
  BY <1>1, <1>2, <1>7, ReloadAssumption DEF Truncate, kernel, TypeOK, Growing, Unseen, Content, Absent, Bad
<1>8. CASE Close(f)
  <2>1. Undisturbed /\ Leaves(f) /\ Event(f) /\ writing' = writing \ {f}
    BY <1>8 DEF Close
  <2>2. \A g \in Files \ {f} : Unseen(g) => Unseen(g)'
    BY <1>4, <2>1 DEF Unseen
  <2>3. f \in watched => Unseen(f)'
    BY <1>4, <2>1 DEF Unseen
  <2>4. writing' \subseteq Files
    BY <1>1, <2>1 DEF TypeOK
  <2>5. QED
    BY <1>2, <1>3, <1>4, <2>1, <2>2, <2>3, <2>4
<1>9. QED
  BY <1>5, <1>6, <1>7, <1>8

LEMMA WriterIInv ==
    ASSUME IInv, Orderly, NEW f \in Files, Replace(f) \/ Delete(f) \/ Truncate(f) \/ Close(f)
    PROVE  IInv'
<1>1. TypeOK /\ VisitsDue /\ ReadAtMode /\ Boot /\ AttemptIsFile /\ Growing /\ LoadIsValid /\ ValidOrPending
      /\ NoLostUpdate /\ MismatchIsNew
  BY DEF IInv
<1>2. UNCHANGED <<watched, polling, status, hash, loop, settings, app, last_app>>
  BY WriterEffect DEF Undisturbed
<1>3. Entry' = Entry /\ Entry \in Files /\ InAttempt' = InAttempt
  BY <1>1, <1>2, EntryOrder DEF Entry, loop, TypeOK, InAttempt
<1>4. step \notin {"prime", "watch"}
  BY WriterEffect
<1>5. /\ f \in watched => Unseen(f)'
      /\ \A g \in Files \ {f} : /\ file'[g] = file[g] /\ newest'[g] = newest[g]
                                /\ g \in writing' <=> g \in writing
                                /\ Unseen(g) => Unseen(g)'
      /\ file'[f] = Bad <=> f \in writing'
      /\ \/ newest'[f] = newest[f] /\ file'[f] \in {Absent, Bad}
         \/ newest'[f] = newest[f] + 1 /\ file'[f] = newest'[f]
  BY WriterEffect
<1>6. TypeOK'
  BY <1>1, <1>2, WriterEffect DEF TypeOK, loop, settings
<1>7. VisitsDue' /\ ReadAtMode' /\ Boot'
  BY <1>1, <1>2, <1>3, <1>4 DEF VisitsDue, ReadAtMode, Boot, loop
<1>8. AttemptIsFile' /\ LoadIsValid'
  BY <1>1, <1>2, <1>3, <1>5 DEF AttemptIsFile, LoadIsValid, Valid, Files, loop
<1>9. NoLostUpdate' /\ ValidOrPending'
  BY <1>1, <1>2, <1>5 DEF NoLostUpdate, ValidOrPending, Pending, Unseen, Valid, Files, TypeOK
<1>10. Growing'
  <2>1. \A g \in Files : newest[g] \in Nat /\ hash[g] \in Int /\ attempt \in Int
    BY <1>1 DEF TypeOK, Content, Absent, Bad
  <2>2. \A g \in Files : newest'[g] \in Nat /\ newest[g] <= newest'[g]
    BY <1>5, <2>1
  <2>3. QED
    BY <1>1, <1>2, <1>3, <1>5, <2>1, <2>2 DEF Growing, loop
<1>11. MismatchIsNew'
  <2>1. hash[Cpu] <= newest[Cpu] /\ newest[Cpu] \in Nat /\ hash[Cpu] \in Int
    BY <1>1 DEF Growing, TypeOK, Files, Content, Absent, Bad
  <2>2. file'[Cpu] = file[Cpu] \/ hash[Cpu] # file'[Cpu] \/ file'[Cpu] \in {Absent, Bad}
    BY <1>5, <2>1 DEF Files
  <2>3. CASE file'[Cpu] \in {Absent, Bad}
    BY <1>2, <2>3, <1>6, GivenType DEF MismatchIsNew, NoMismatch, TypeOK, Absent, Bad
  <2>4. QED
    BY <1>1, <1>2, <1>3, <2>2, <2>3 DEF MismatchIsNew, NoMismatch, Agrees, settings, loop
<1>12. QED
  BY <1>6, <1>7, <1>8, <1>9, <1>10, <1>11 DEF IInv

\* The parts of the invariant, by name.
LEMMA Parts == IInv <=> /\ TypeOK /\ VisitsDue /\ ReadAtMode /\ Boot /\ AttemptIsFile /\ Growing /\ LoadIsValid
                        /\ ValidOrPending /\ NoLostUpdate /\ MismatchIsNew
BY DEF IInv

LEMMA SwitchIInv == IInv /\ Switch => IInv'
<1> SUFFICES ASSUME IInv, Switch PROVE IInv'
  OBVIOUS
<1>1. UNCHANGED <<files, kernel, polling, status, hash, loop, settings, last_app>> /\ app' \in Apps
  BY DEF Switch
<1>2. TypeOK'
  BY <1>1, Parts DEF TypeOK, files, kernel, loop, settings
<1>3. QED
  BY <1>1, <1>2, Parts DEF IInv, VisitsDue, ReadAtMode, Boot, AttemptIsFile, Growing, LoadIsValid, ValidOrPending,
     NoLostUpdate, MismatchIsNew, NoMismatch, Agrees, Valid, Pending, Unseen, Entry, InAttempt, files, kernel, loop, settings

LEMMA ElapseIInv == ASSUME IInv, NEW f \in Files, Elapse(f) PROVE IInv'
<1>1. /\ UNCHANGED <<files, kernel, polling, hash, loop, settings, app, last_app>>
      /\ status[f] = "dirty" /\ status' = [status EXCEPT ![f] = "due"]
  BY DEF Elapse
<1>2. status \in [Files -> {"clean", "dirty", "due"}] /\ Entry \in Files
  BY Parts, EntryOrder DEF TypeOK
<1>3. TypeOK'
  BY <1>1, <1>2, Parts DEF TypeOK, files, kernel, loop, settings
<1>4. \A g \in Files : (status[g] = "due" => status'[g] = "due")
                       /\ (status'[g] # "clean" <=> status[g] # "clean")
  BY <1>1, <1>2
<1>5. VisitsDue' /\ ReadAtMode'
  BY <1>1, <1>2, <1>4, Parts DEF VisitsDue, ReadAtMode, Entry, loop
<1>6. NoLostUpdate' /\ ValidOrPending'
  BY <1>1, <1>4, Parts DEF NoLostUpdate, ValidOrPending, Pending, Valid, Files, files, kernel
<1>7. QED
  BY <1>1, <1>3, <1>5, <1>6, Parts DEF IInv, Boot, ReadAtMode, AttemptIsFile, Growing, LoadIsValid, MismatchIsNew,
     NoMismatch, Agrees, Valid, Unseen, Entry, InAttempt, files, kernel, loop, settings

LEMMA PrimeIInv == IInv /\ Prime => IInv'
<1> SUFFICES ASSUME IInv, Prime PROVE IInv'
  OBVIOUS
<1>1. /\ UNCHANGED <<files, kernel, polling, status, attempt, settings, app, last_app>>
      /\ step = "prime" /\ step' = "watch" /\ at' = 1 /\ hash' = file
  BY DEF Prime, At
<1>2. watched = {} /\ writing = {} /\ file = [f \in Files |-> 1] /\ NoMismatch
  BY <1>1, Parts DEF Boot
<1>3. TypeOK'
  BY <1>1, Parts DEF TypeOK, files, kernel, settings, Order
<1>4. \A f \in Files : hash'[f] <= newest[f]
  BY <1>1, <1>2, Parts DEF TypeOK
<1>5. QED
  BY <1>1, <1>2, <1>3, <1>4, Parts DEF IInv, VisitsDue, ReadAtMode, Boot, AttemptIsFile, Growing, LoadIsValid,
     ValidOrPending, NoLostUpdate, MismatchIsNew, NoMismatch, Agrees, InAttempt, files, kernel, settings

LEMMA WatchIInv == IInv /\ Watch => IInv'
<1> SUFFICES ASSUME IInv, Watch PROVE IInv'
  OBVIOUS
<1>1. /\ UNCHANGED <<files, unread, lost, status, hash, attempt, settings, app, last_app>>
      /\ step = "watch" /\ step' = "select" /\ at' = 1
      /\ watched' \subseteq Files /\ polling' \in BOOLEAN
  BY Parts DEF Watch, At, TypeOK
<1>2. file = [f \in Files |-> 1] /\ NoMismatch /\ hash = file
  BY <1>1, Parts DEF Boot
<1>3. TypeOK'
  BY <1>1, Parts DEF TypeOK, files, settings, Order
<1>4. Valid'
  BY <1>1, <1>2, ReloadAssumption DEF Valid, Files, files
<1>5. QED
  BY <1>1, <1>2, <1>3, <1>4, Parts DEF IInv, VisitsDue, ReadAtMode, Boot, AttemptIsFile, Growing, LoadIsValid,
     ValidOrPending, NoLostUpdate, MismatchIsNew, NoMismatch, Agrees, InAttempt, files, settings

LEMMA SelectIInv == IInv /\ Select => IInv'
<1> SUFFICES ASSUME IInv, Select PROVE IInv'
  OBVIOUS
<1>1. PICK told \in SUBSET Files :
        /\ status' = [f \in Files |-> IF f \in told THEN "dirty" ELSE status[f]]
        /\ \A f \in Files : lost \/ f \in unread => f \in told
  <2>1. PICK polls \in {FALSE} \cup {polling /\ \A f \in Files : status[f] # "due"} :
          status' = [f \in Files |->
            IF f \in (IF lost THEN Files ELSE unread) \cup {g \in Files : polls /\ file[g] # hash[g]}
            THEN "dirty" ELSE status[f]]
    BY DEF Select
  <2>2. (IF lost THEN Files ELSE unread) \cup {g \in Files : polls /\ file[g] # hash[g]}
           \in SUBSET Files
    BY Parts DEF TypeOK
  <2>3. QED
    BY <2>1, <2>2
<1>2. /\ UNCHANGED <<files, watched, polling, hash, attempt, settings, app, last_app>>
      /\ unread' = {} /\ lost' = FALSE /\ VisitFrom(1, status')
  BY DEF Select
<1>3. /\ step' \in {"visit", "foreground"} /\ at' \in 1..Len(Order)
      /\ step' = "visit" => status'[Entry'] = "due"
  BY <1>2, VisitFromType DEF Entry
<1>4. TypeOK'
  BY <1>1, <1>2, <1>3, Parts DEF TypeOK, files, settings
<1>5. \A f \in Files : Pending(f) => Pending(f)'
  BY <1>1, <1>2, Parts DEF Pending, files, TypeOK
<1>6. VisitsDue' /\ ReadAtMode' /\ Boot' /\ AttemptIsFile' /\ Growing' /\ LoadIsValid'
  BY <1>2, <1>3, Parts DEF VisitsDue, ReadAtMode, Boot, AttemptIsFile, Growing, LoadIsValid, InAttempt, files
<1>7. NoLostUpdate' /\ ValidOrPending'
  BY <1>2, <1>5, Parts DEF NoLostUpdate, ValidOrPending, Valid, Files, TypeOK, files
<1>8. MismatchIsNew'
  BY <1>2, <1>3, Parts DEF MismatchIsNew, NoMismatch, Agrees, Select, files, settings
<1>9. QED
  BY <1>4, <1>6, <1>7, <1>8, Parts DEF IInv

\* What holds at an entry that is due.
LEMMA AtEntry ==
    ASSUME IInv, step \in {"visit", "read", "check", "load"}
    PROVE  Entry \in Files /\ status[Entry] = "due" /\ at \in 1..2 /\ at + 1 \in 1..3
           /\ (Entry = Mode <=> at = 1) /\ Entry = Order[at]
<1>1. at \in 1..Len(Order)
  BY Parts DEF TypeOK
<1>2. Len(Order) = 2 /\ Entry \in Files /\ (Entry = Mode <=> at = 1)
  BY <1>1, EntryOrder
<1>3. status[Entry] = "due"
  BY Parts DEF VisitsDue
<1>4. Entry = Order[at]
  BY DEF Entry
<1>5. QED
  BY <1>1, <1>2, <1>3, <1>4

\* Where the pass goes after an attempt.
LEMMA AdvanceType ==
    ASSUME IInv, step \in {"visit", "check", "load"}, Advance
    PROVE  /\ step' \in {"visit", "foreground"} /\ at' \in 1..Len(Order)
           /\ step' = "visit" => status'[Entry'] = "due"
BY AtEntry, VisitFromType DEF Advance, Entry

LEMMA SameHashIInv == IInv /\ SameHash => IInv'
<1> SUFFICES ASSUME IInv, SameHash PROVE IInv'
  OBVIOUS
<1>1. /\ UNCHANGED <<files, kernel, polling, hash, attempt, settings, app, last_app>>
      /\ step = "visit" /\ Advance /\ file[Entry] # Absent /\ file[Entry] = hash[Entry]
      /\ status' = [status EXCEPT ![Entry] = "clean"]
  BY DEF SameHash
<1>2. Entry \in Files
  BY <1>1, AtEntry
<1>3. /\ step' \in {"visit", "foreground"} /\ at' \in 1..Len(Order)
      /\ step' = "visit" => status'[Entry'] = "due"
  BY <1>1, AdvanceType
<1>4. TypeOK'
  BY <1>1, <1>2, <1>3, Parts DEF TypeOK, files, kernel, settings
<1>5. VisitsDue' /\ ReadAtMode' /\ Boot' /\ AttemptIsFile' /\ Growing' /\ LoadIsValid'
  BY <1>1, <1>3, Parts DEF VisitsDue, ReadAtMode, Boot, AttemptIsFile, Growing, LoadIsValid, InAttempt, files, kernel
<1>6. \A f \in Files \ {Entry} : status'[f] = status[f]
  BY <1>1, <1>2, Parts DEF TypeOK
<1>7. NoLostUpdate'
  BY <1>1, <1>2, <1>6, Parts DEF NoLostUpdate, Pending, files, kernel
<1>8. ValidOrPending'
  <2>1. CASE Entry = Cpu
    <3>1. file[Cpu] \in {Bad, newest[Cpu]} /\ newest[Cpu] \in 1..Versions
          /\ (file[Cpu] = Bad => Cpu \in writing)
      BY <1>1, <2>1, Parts DEF Growing, TypeOK, Files
    <3>2. QED
      BY <1>1, <3>1 DEF ValidOrPending, Valid, Pending, files, kernel
  <2>2. CASE Entry # Cpu
    BY <1>1, <1>6, <2>2, Parts DEF ValidOrPending, Valid, Pending, Files, files, kernel
  <2>3. QED
    BY <2>1, <2>2
<1>9. MismatchIsNew'
  BY <1>1, Parts DEF MismatchIsNew, NoMismatch, Agrees, files, settings
<1>10. QED
  BY <1>4, <1>5, <1>7, <1>8, <1>9 DEF IInv

\* The steps of an attempt that change nothing but where it is.
LEMMA TakeIInv == IInv /\ Take => IInv'
<1> SUFFICES ASSUME IInv, Take PROVE IInv'
  OBVIOUS
<1>1. /\ UNCHANGED <<files, kernel, polling, status, hash, settings, app, last_app>>
      /\ step = "visit" /\ attempt' = file[Entry]
      /\ step' = (IF Entry = Mode THEN "read" ELSE "check") /\ at' = at
  BY DEF Take, At
<1>2. Entry \in Files /\ Entry' = Entry
  BY <1>1, AtEntry DEF Entry
<1>3. TypeOK'
  BY <1>1, <1>2, Parts DEF TypeOK, files, kernel, settings
<1>4. VisitsDue' /\ ReadAtMode' /\ AttemptIsFile' /\ LoadIsValid' /\ Boot'
  BY <1>1, <1>2, Parts DEF VisitsDue, ReadAtMode, AttemptIsFile, LoadIsValid, Boot, files, kernel, settings
<1>5. Growing'
  BY <1>1, <1>2, Parts DEF Growing, InAttempt, files, TypeOK, Absent, Bad
<1>6. NoLostUpdate' /\ ValidOrPending'
  BY <1>1, Parts DEF NoLostUpdate, ValidOrPending, Pending, Valid, files, kernel
<1>7. MismatchIsNew'
  BY <1>1, <1>2, Parts DEF MismatchIsNew, NoMismatch, Agrees, files, settings
<1>8. QED
  BY <1>3, <1>4, <1>5, <1>6, <1>7 DEF IInv

LEMMA ReadModeIInv == IInv /\ ReadMode => IInv'
<1> SUFFICES ASSUME IInv, ReadMode PROVE IInv'
  OBVIOUS
<1>1. /\ UNCHANGED <<files, kernel, polling, status, hash, attempt, loaded, loaded_mode, app, last_app>>
      /\ step = "read" /\ step' = "check" /\ at' = at /\ current_mode' = Line(file[Mode])
  BY DEF ReadMode, At
<1>2. Entry \in Files /\ Entry' = Entry
  BY <1>1, AtEntry DEF Entry
<1>3. Entry = Mode
  BY <1>1, Parts DEF ReadAtMode, IInv
<1>4. TypeOK'
  BY <1>1, ModesType, Parts DEF TypeOK, files, kernel
<1>5. VisitsDue' /\ ReadAtMode' /\ AttemptIsFile' /\ LoadIsValid' /\ Boot' /\ Growing'
  BY <1>1, <1>2, Parts DEF VisitsDue, ReadAtMode, AttemptIsFile, LoadIsValid, Boot, Growing, InAttempt, Unseen, files, kernel
<1>6. NoLostUpdate' /\ ValidOrPending'
  BY <1>1, Parts DEF NoLostUpdate, ValidOrPending, Pending, Valid, files, kernel
<1>7. MismatchIsNew'
  BY <1>1, <1>2, <1>3 DEF MismatchIsNew
<1>8. QED
  BY <1>4, <1>5, <1>6, <1>7 DEF IInv

LEMMA CheckPassesIInv == IInv /\ CheckPasses => IInv'
<1> SUFFICES ASSUME IInv, CheckPasses PROVE IInv'
  OBVIOUS
<1>1. /\ UNCHANGED <<files, kernel, polling, status, hash, attempt, settings, app, last_app>>
      /\ step = "check" /\ step' = "load" /\ at' = at /\ Valid
  BY DEF CheckPasses, At
<1>2. Entry \in Files /\ Entry' = Entry
  BY <1>1, AtEntry DEF Entry
<1>3. TypeOK'
  BY <1>1, Parts DEF TypeOK, files, kernel, settings
<1>4. VisitsDue' /\ ReadAtMode' /\ AttemptIsFile' /\ LoadIsValid' /\ Boot' /\ Growing'
  BY <1>1, <1>2, Parts DEF VisitsDue, ReadAtMode, AttemptIsFile, LoadIsValid, Boot, Growing, InAttempt,
     Unseen, Valid, files, kernel
<1>5. NoLostUpdate' /\ ValidOrPending'
  BY <1>1, Parts DEF NoLostUpdate, ValidOrPending, Pending, Valid, files, kernel
<1>6. MismatchIsNew'
  BY <1>1, <1>2, Parts DEF MismatchIsNew, NoMismatch, Agrees, files, settings
<1>7. QED
  BY <1>3, <1>4, <1>5, <1>6 DEF IInv

LEMMA CheckFailsIInv == IInv /\ CheckFails => IInv'
<1> SUFFICES ASSUME IInv, CheckFails PROVE IInv'
  OBVIOUS
<1>1. /\ UNCHANGED <<files, kernel, polling, hash, settings, app, last_app>>
      /\ step = "check" /\ ~Valid /\ Advance /\ attempt' = Absent
      /\ status' = [status EXCEPT ![Entry] = "dirty"]
  BY DEF CheckFails
<1>2. Entry \in Files
  BY <1>1, AtEntry
<1>3. /\ step' \in {"visit", "foreground"} /\ at' \in 1..Len(Order)
      /\ step' = "visit" => status'[Entry'] = "due"
  BY <1>1, AdvanceType
<1>4. TypeOK'
  BY <1>1, <1>2, <1>3, Parts DEF TypeOK, files, kernel, settings, Content
<1>5. VisitsDue' /\ ReadAtMode' /\ Boot' /\ AttemptIsFile' /\ Growing' /\ LoadIsValid'
  BY <1>1, <1>3, Parts DEF VisitsDue, ReadAtMode, Boot, AttemptIsFile, Growing, LoadIsValid, InAttempt,
     files, kernel
<1>6. \A f \in Files : Pending(f) => Pending(f)'
  BY <1>1, <1>2, Parts DEF TypeOK, Pending, files, kernel
<1>7. NoLostUpdate' /\ ValidOrPending'
  BY <1>1, <1>6, Parts DEF NoLostUpdate, ValidOrPending, Valid, Files, TypeOK, files, kernel
<1>8. MismatchIsNew'
  <2>1. current_mode \in Modes /\ file' = file /\ current_mode' = current_mode
    BY <1>1, Parts DEF TypeOK, files, settings
  <2>2. QED
    BY <1>1, <2>1, GivenType DEF MismatchIsNew, NoMismatch, Valid
<1>9. QED
  BY <1>4, <1>5, <1>7, <1>8 DEF IInv

\* What the attempt commits is what the file has, or the change is unseen.
LEMMA LoadIInv == IInv /\ Load => IInv'
<1> SUFFICES ASSUME IInv, Load PROVE IInv'
  OBVIOUS
<1>1. /\ UNCHANGED <<files, kernel, polling, current_mode, app, last_app>>
      /\ step = "load" /\ Advance /\ attempt' = Absent /\ LoadSettings(current_mode)
      /\ status' = [status EXCEPT ![Entry] = "clean"]
      /\ hash' = [hash EXCEPT ![Entry] = attempt]
  BY DEF Load
<1>2. Entry \in Files
  BY <1>1, AtEntry
<1>3. /\ step' \in {"visit", "foreground"} /\ at' \in 1..Len(Order)
      /\ step' = "visit" => status'[Entry'] = "due"
  BY <1>1, AdvanceType
<1>4. loaded' \in {Absent} \cup 1..Versions /\ loaded_mode' \in Modes \cup {NoSettings} /\ NoMismatch'
  BY <1>1, LoadSettingsType, Parts DEF TypeOK, files
<1>5. TypeOK'
  BY <1>1, <1>2, <1>3, <1>4, Parts DEF TypeOK, files, kernel, Content
<1>6. VisitsDue' /\ ReadAtMode' /\ Boot' /\ AttemptIsFile' /\ LoadIsValid'
  BY <1>1, <1>3 DEF VisitsDue, ReadAtMode, Boot, AttemptIsFile, LoadIsValid, InAttempt
<1>7. /\ \A f \in Files \ {Entry} : status'[f] = status[f] /\ hash'[f] = hash[f]
      /\ hash'[Entry] = attempt
  BY <1>1, <1>2, Parts DEF TypeOK
<1>8. Growing'
  BY <1>1, <1>2, <1>3, <1>7, Parts DEF Growing, InAttempt, files
<1>9. Entry \in watched => attempt = file[Entry] \/ Unseen(Entry)
  BY <1>1, Parts DEF AttemptIsFile, InAttempt
<1>10. NoLostUpdate'
  BY <1>1, <1>2, <1>7, <1>9, Parts DEF NoLostUpdate, Pending, Unseen, files, kernel
<1>11. ValidOrPending'
  BY <1>1, Parts DEF ValidOrPending, LoadIsValid, Pending, Unseen, Valid, files, kernel
<1>12. MismatchIsNew'
  BY <1>4 DEF MismatchIsNew
<1>13. QED
  BY <1>5, <1>6, <1>8, <1>10, <1>11, <1>12 DEF IInv

LEMMA ForegroundIInv == IInv /\ Foreground => IInv'
<1> SUFFICES ASSUME IInv, Foreground PROVE IInv'
  OBVIOUS
<1> DEFINE m == ForPackage(file[Mode], app)
<1>1. /\ UNCHANGED <<files, kernel, polling, status, hash, attempt, app>>
      /\ step = "foreground" /\ step' = "select" /\ at' = 1
  BY DEF Foreground, At
<1>2. m \in Modes
  BY ModesType, Parts DEF TypeOK
<1> HIDE DEF m
<1>3. \/ last_app' = app /\ current_mode' = m /\ LoadSettings(m)
      \/ UNCHANGED <<settings, last_app>>
  BY DEF Foreground, m
<1>4. /\ loaded' \in {Absent} \cup 1..Versions /\ loaded_mode' \in Modes \cup {NoSettings}
      /\ current_mode' \in Modes /\ last_app' \in Apps \cup {NoApp}
      /\ NoMismatch' \/ UNCHANGED settings
  BY <1>1, <1>2, <1>3, LoadSettingsType, Parts DEF TypeOK, settings, files
<1>5. TypeOK'
  BY <1>1, <1>4, Parts DEF TypeOK, files, kernel, Order
<1>6. VisitsDue' /\ ReadAtMode' /\ Boot' /\ AttemptIsFile' /\ LoadIsValid' /\ Growing'
  BY <1>1, Parts DEF VisitsDue, ReadAtMode, Boot, AttemptIsFile, LoadIsValid, Growing, InAttempt, files
<1>7. NoLostUpdate' /\ ValidOrPending'
  BY <1>1, Parts DEF NoLostUpdate, ValidOrPending, Pending, Valid, files, kernel
<1>8. MismatchIsNew'
  BY <1>1, <1>4, Parts DEF MismatchIsNew, NoMismatch, Agrees, files, settings
<1>9. QED
  BY <1>5, <1>6, <1>7, <1>8 DEF IInv

-----------------------------------------------------------------------------
LEMMA NextIInv == ASSUME Orderly, IInv, [Next]_vars PROVE IInv'
<1>1. CASE MainLoop
  BY <1>1, PrimeIInv, WatchIInv, SelectIInv, SameHashIInv, TakeIInv, ReadModeIInv, CheckPassesIInv,
     CheckFailsIInv, LoadIInv, ForegroundIInv DEF MainLoop
<1>2. CASE Writers
  BY <1>2, WriterIInv DEF Writers
<1>3. CASE Switch \/ \E f \in Files : Elapse(f)
  BY <1>3, SwitchIInv, ElapseIInv
<1>4. CASE UNCHANGED vars
  BY <1>4, Parts DEF IInv, VisitsDue, ReadAtMode, Boot, AttemptIsFile, Growing, LoadIsValid, ValidOrPending,
     NoLostUpdate, MismatchIsNew, NoMismatch, Agrees, TypeOK, Valid, Pending, Unseen, Entry, InAttempt, vars, files,
     kernel, loop, settings
<1>5. QED
  BY <1>1, <1>2, <1>3, <1>4 DEF Next

LEMMA ReloadInvariant == ASSUME Orderly PROVE Spec => []IInv
<1>1. Init => IInv
  BY InitIInv
<1>2. IInv /\ [Next]_vars => IInv'
  BY NextIInv
<1>3. QED
  BY <1>1, <1>2, PTL DEF Spec

\* With writers that begin after the watches and bring no content back, no write is
\* lost: an attempt's three readings and any overflow of the queue notwithstanding.
THEOREM NothingLost == ASSUME Orderly PROVE Spec => []NoLostUpdate
<1>1. IInv => NoLostUpdate
  BY DEF IInv
<1>2. QED
  BY <1>1, ReloadInvariant, PTL

\* And while what the CPU configuration gives for g_current_mode is not in force, or the
\* file does not parse, mode.txt or the CPU configuration is still to be looked at.
THEOREM ModeNotForgotten == ASSUME Orderly PROVE Spec => []SettingsFollowMode
<1>1. IInv => SettingsFollowMode
  <2> SUFFICES ASSUME IInv, Cpu \in watched, ~Pending(Mode), ~Pending(Cpu)
               PROVE  Valid /\ NoMismatch
    BY DEF SettingsFollowMode, NoMismatch
  <2>1. Valid
    BY Parts DEF ValidOrPending
  <2>2. hash[Cpu] = file[Cpu]
    BY Parts DEF NoLostUpdate, Files
  <2>3. ~(step \in {"check", "load"} /\ Entry = Mode)
    BY Parts DEF VisitsDue, Pending
  <2>4. QED
    BY <2>1, <2>2, <2>3, Parts DEF MismatchIsNew
<1>2. QED
  BY <1>1, ReloadInvariant, PTL

\* The variables keep their types.
THEOREM ReloadTypes == ASSUME Orderly PROVE Spec => []TypeOK
<1>1. IInv => TypeOK
  BY DEF IInv
<1>2. QED
  BY <1>1, ReloadInvariant, PTL
=============================================================================
