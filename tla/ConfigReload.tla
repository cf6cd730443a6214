---------------------------- MODULE ConfigReload ----------------------------
(***************************************************************************)
(* Hot reload of the configuration files, and the foreground check that    *)
(* follows mode.txt on its own.  Other processes replace, delete or        *)
(* rewrite in place; inotify reports it, or a poll of the hashes does where *)
(* inotify is not to be had.  The main loop marks the entries, lets the    *)
(* writes settle, and for an entry that is due hashes, checks and loads the *)
(* file: three readings, with the writers at work in between.              *)
(*                                                                         *)
(* A content is a version number and is its own hash.  The debounce, the   *)
(* cool-down and the retry's back-off are one thing here, a wait of unknown *)
(* length before a marked entry is due, so what holds holds for all of     *)
(* their values.                                                           *)
(***************************************************************************)
EXTENDS Integers, FiniteSets, Sequences

CONSTANTS
    Mode, Cpu,      \* mode.txt and the CPU configuration
    Versions,       \* the contents a file may have are 1..Versions
    Apps, NoApp, Modes,
    LineOf,         \* the global mode a version of mode.txt names
    ModeOf,         \* the mode it gives each package
    SettingsOf,     \* the modes a version of the CPU configuration has settings for
    NoSettings,     \* the settings of none
    WritesAtStart,  \* somebody writes before the watches are placed
    Reverts         \* somebody brings an earlier content back

Files == {Mode, Cpu}
\* The order in which process_pending_config_reloads visits the entries.
Order == <<Mode, Cpu>>
Balance == "balance"
Powersave == "powersave"

ASSUME ReloadAssumption ==
    /\ Mode # Cpu
    /\ Versions \in Nat \ {0} /\ NoApp \notin Apps
    /\ {Balance, Powersave} \subseteq Modes
    /\ LineOf \in [1..Versions -> Modes]
    /\ ModeOf \in [1..Versions -> [Apps -> Modes]]
    /\ SettingsOf \in [1..Versions -> SUBSET Modes] /\ NoSettings \notin Modes
    /\ WritesAtStart \in BOOLEAN /\ Reverts \in BOOLEAN

\* No file, and a file that is truncated or does not parse.
Absent == -1
Bad == 0
Content == {Absent, Bad} \cup 1..Versions

\* What the reload takes mode.txt to say, and what the foreground check does.
Line(c) == IF c \in 1..Versions THEN LineOf[c] ELSE Balance
ForPackage(c, a) == IF c \in 1..Versions THEN ModeOf[c][a] ELSE Powersave

\* The mode whose settings a CPU configuration gives for a mode: its own, else those of
\* balance, else none, as from a file that does not parse.
Given(c, m) ==
    LET settings_in == IF c \in 1..Versions THEN SettingsOf[c] ELSE {}
    IN  IF m \in settings_in THEN m ELSE IF Balance \in settings_in THEN Balance ELSE NoSettings

VARIABLES
    file,           \* the content of each file
    newest,         \* the newest version written to it
    writing,        \* files being rewritten in place
    unread,         \* files with an event in the kernel's queue
    lost,           \* the queue has overflowed
    watched,        \* the files whose directory is watched
    polling,        \* g_config_reload_poll_fallback
    status,         \* per entry: clean, dirty, or due after the wait
    hash,           \* last_hash, Absent when not hash_ready
    step, at,       \* where the main loop is, and the entry it visits
    attempt,        \* attempt_hash, during an attempt
    loaded,         \* the version of the CPU configuration in force, Absent before one is
    loaded_mode,    \* the mode whose settings are in force
    current_mode,   \* g_current_mode
    app, last_app   \* the package in front, and the last one handled

files == <<file, newest, writing>>
kernel == <<unread, lost, watched>>
settings == <<loaded, loaded_mode, current_mode>>
loop == <<step, at, attempt>>
vars == <<files, kernel, polling, status, hash, loop, settings, app, last_app>>

Entry == Order[at]

Init ==
    /\ file = [f \in Files |-> 1] /\ newest = file /\ writing = {}
    /\ unread = {} /\ lost = FALSE /\ watched = {}
    /\ polling = FALSE
    /\ status = [f \in Files |-> "clean"]
    /\ hash = [f \in Files |-> Absent]
    /\ step = "prime" /\ at = 1 /\ attempt = Absent
    /\ current_mode = Line(1) /\ loaded_mode = Given(1, Line(1))
    /\ loaded = IF loaded_mode = NoSettings THEN Absent ELSE 1
    /\ app \in Apps /\ last_app = NoApp

-----------------------------------------------------------------------------
(* The writers.                                                             *)

\* The kernel queues an event, or the queue overflows: from then on what else is in it
\* makes no difference.
Event(f) ==
    /\ \/ (f \notin watched \/ lost) /\ UNCHANGED <<unread, lost>>
       \/ f \in watched /\ ~lost /\ unread' = unread \cup {f} /\ UNCHANGED lost
       \/ f \in watched /\ ~lost /\ unread' = {} /\ lost' = TRUE
    /\ UNCHANGED watched

Undisturbed == UNCHANGED <<polling, status, hash, loop, settings, app, last_app>>

CanWrite == step \in {"prime", "watch"} => WritesAtStart

\* The content a writer leaves: a new one, or an old one brought back.
Leaves(f) ==
    \/ newest[f] < Versions /\ newest' = [newest EXCEPT ![f] = @ + 1]
       /\ file' = [file EXCEPT ![f] = newest[f] + 1]
    \/ Reverts /\ UNCHANGED newest
       /\ \E c \in 1..newest[f] : file' = [file EXCEPT ![f] = c]

\* A temporary file is renamed onto it: IN_MOVED_TO.
Replace(f) ==
    /\ CanWrite /\ f \notin writing
    /\ Leaves(f) /\ Event(f)
    /\ UNCHANGED writing /\ Undisturbed

\* IN_DELETE or IN_MOVED_FROM.
Delete(f) ==
    /\ CanWrite /\ f \notin writing /\ file[f] # Absent
    /\ file' = [file EXCEPT ![f] = Absent]
    /\ Event(f)
    /\ UNCHANGED <<newest, writing>> /\ Undisturbed

\* An editor truncates the file: IN_MODIFY, which is not subscribed to.
Truncate(f) ==
    /\ CanWrite /\ f \notin writing /\ file[f] \in 1..Versions
    /\ newest[f] < Versions \/ Reverts
    /\ file' = [file EXCEPT ![f] = Bad] /\ writing' = writing \cup {f}
    /\ UNCHANGED <<newest, kernel>> /\ Undisturbed

\* It has written the content: IN_CLOSE_WRITE.
Close(f) ==
    /\ f \in writing
    /\ Leaves(f) /\ Event(f)
    /\ writing' = writing \ {f} /\ Undisturbed

Writers == \E f \in Files : Replace(f) \/ Delete(f) \/ Truncate(f) \/ Close(f)

Switch ==
    /\ app' \in Apps \ {app}
    /\ UNCHANGED <<files, kernel, polling, status, hash, loop, settings, last_app>>

\* The wait of a marked entry is over.
Elapse(f) ==
    /\ status[f] = "dirty"
    /\ status' = [status EXCEPT ![f] = "due"]
    /\ UNCHANGED <<files, kernel, polling, hash, loop, settings, app, last_app>>

-----------------------------------------------------------------------------
(* The main loop.                                                           *)

At(s, i) == step' = s /\ at' = i

\* prime_config_reload_watch_hashes, when everything has been loaded.
Prime ==
    /\ step = "prime"
    /\ hash' = file
    /\ At("watch", 1)
    /\ UNCHANGED <<files, kernel, polling, status, attempt, settings, app, last_app>>

\* run_main_loop places a watch per directory, and falls back to the poll of all files
\* when one cannot be had.
Watch ==
    /\ step = "watch"
    /\ watched' \in SUBSET Files /\ polling' = (watched' # Files)
    /\ At("select", 1)
    /\ UNCHANGED <<files, unread, lost, status, hash, attempt, settings, app, last_app>>

\* The entry a pass attempts next; without one it goes on to the foreground.
VisitFrom(i, st) ==
    LET due == {j \in i..Len(Order) : st[Order[j]] = "due"}
    IN  IF due = {} THEN At("foreground", 1) ELSE At("visit", CHOOSE j \in due : \A k \in due : j <= k)

\* Mutant: the event of an overflow is skipped like one without a name.
SelectSkipsOverflow ==
    /\ step \in {"select", "foreground"}
    /\ \E polls \in {FALSE} \cup {polling /\ \A f \in Files : status[f] # "due"} :
        LET told == unread \cup {f \in Files : polls /\ file[f] # hash[f]}
        IN  status' = [f \in Files |-> IF f \in told THEN "dirty" ELSE status[f]]
    /\ unread' = {} /\ lost' = FALSE
    /\ VisitFrom(1, status')
    /\ UNCHANGED <<files, watched, polling, hash, attempt, settings, app, last_app>>

\* A pass begins.  handle_inotify_events reads what is queued, and after an overflow
\* all is marked; the poll marks what differs.  The debounce is shorter than the
\* interval of the poll: an entry that came due is visited before the next one.
\* The foreground check runs every 500 ms, the pass every 30: most have none.
Select ==
    /\ step \in {"select", "foreground"}
    /\ \E polls \in {FALSE} \cup {polling /\ \A f \in Files : status[f] # "due"} :
        LET told == (IF lost THEN Files ELSE unread)
                      \cup {f \in Files : polls /\ file[f] # hash[f]}
        IN  status' = [f \in Files |-> IF f \in told THEN "dirty" ELSE status[f]]
    /\ unread' = {} /\ lost' = FALSE
    /\ VisitFrom(1, status')
    /\ UNCHANGED <<files, watched, polling, hash, attempt, settings, app, last_app>>

Advance == VisitFrom(at + 1, status')

\* take_pending_config_reload finds the content it has.
SameHash ==
    /\ step = "visit"
    /\ file[Entry] # Absent /\ file[Entry] = hash[Entry]
    /\ status' = [status EXCEPT ![Entry] = "clean"]
    /\ Advance
    /\ UNCHANGED <<files, kernel, polling, hash, attempt, settings, app, last_app>>

\* It finds another: an attempt begins.
Take ==
    /\ step = "visit"
    /\ file[Entry] = Absent \/ file[Entry] # hash[Entry]
    /\ attempt' = file[Entry]
    /\ At(IF Entry = Mode THEN "read" ELSE "check", at)
    /\ UNCHANGED <<files, kernel, polling, status, hash, settings, app, last_app>>

\* The mode is taken over before anything else is known to be in order.
ReadMode ==
    /\ step = "read"
    /\ current_mode' = Line(file[Mode])
    /\ At("check", at)
    /\ UNCHANGED <<files, kernel, polling, status, hash, attempt, loaded, loaded_mode, app, last_app>>

\* Either attempt needs a CPU configuration that parses.
Valid == file[Cpu] \in 1..Versions

CheckPasses ==
    /\ step = "check" /\ Valid
    /\ At("load", at)
    /\ UNCHANGED <<files, kernel, polling, status, hash, attempt, settings, app, last_app>>

\* Mutant: the hash is committed before the load, and kept when it fails.
CheckFailsCommits ==
    /\ step = "check" /\ ~Valid
    /\ status' = [status EXCEPT ![Entry] = "clean"] /\ hash' = [hash EXCEPT ![Entry] = attempt]
    /\ attempt' = Absent
    /\ Advance
    /\ UNCHANGED <<files, kernel, polling, settings, app, last_app>>

\* finish_config_reload(false): the entry stays marked.
CheckFails ==
    /\ step = "check" /\ ~Valid
    /\ status' = [status EXCEPT ![Entry] = "dirty"]
    /\ attempt' = Absent
    /\ Advance
    /\ UNCHANGED <<files, kernel, polling, hash, settings, app, last_app>>

\* load_mode_settings_json: no effect from a file that gives nothing for the mode.  What
\* it takes from the other files, always for the mode itself, is left out.
LoadSettings(m) ==
    LET given == Given(file[Cpu], m)
    IN  IF given # NoSettings
        THEN loaded_mode' = given /\ loaded' = file[Cpu]
        ELSE UNCHANGED <<loaded_mode, loaded>>

\* The loader reads the file once more, and whether it had an effect or not,
\* finish_config_reload(true) commits the hash of the first reading.
Load ==
    /\ step = "load"
    /\ LoadSettings(current_mode)
    /\ status' = [status EXCEPT ![Entry] = "clean"]
    /\ hash' = [hash EXCEPT ![Entry] = attempt]
    /\ Advance
    /\ attempt' = Absent
    /\ UNCHANGED <<files, kernel, polling, current_mode, app, last_app>>

\* Mutant: only a new package applies the settings.
ForegroundIgnoresMode ==
    /\ step = "foreground"
    /\ IF app # last_app
       THEN LET m == ForPackage(file[Mode], app)
            IN  last_app' = app /\ current_mode' = m /\ LoadSettings(m)
       ELSE UNCHANGED <<settings, last_app>>
    /\ At("select", 1)
    /\ UNCHANGED <<files, kernel, polling, status, hash, attempt, app>>

\* process_foreground_app: a new package or a new mode for it applies the settings.
Foreground ==
    /\ step = "foreground"
    /\ LET m == ForPackage(file[Mode], app)
       IN  IF app # last_app \/ m # current_mode
           THEN last_app' = app /\ current_mode' = m /\ LoadSettings(m)
           ELSE UNCHANGED <<settings, last_app>>
    /\ At("select", 1)
    /\ UNCHANGED <<files, kernel, polling, status, hash, attempt, app>>

MainLoop ==
    \/ Prime \/ Watch \/ Select \/ SameHash \/ Take \/ ReadMode
    \/ CheckPasses \/ CheckFails \/ Load \/ Foreground

Next == MainLoop \/ Writers \/ Switch \/ \E f \in Files : Elapse(f)

\* The daemon runs on, the waits end, the check and, without watches, the poll recur.
Spec ==
    /\ Init /\ [][Next]_vars
    /\ WF_vars(MainLoop) /\ \A f \in Files : WF_vars(Elapse(f))
    /\ SF_vars(Foreground) /\ SF_vars(Select /\ status' # status)

-----------------------------------------------------------------------------
(* Properties.                                                              *)

TypeOK ==
    /\ file \in [Files -> Content] /\ newest \in [Files -> 1..Versions]
    /\ writing \subseteq Files /\ unread \subseteq Files
    /\ lost \in BOOLEAN /\ watched \subseteq Files /\ polling \in BOOLEAN
    /\ status \in [Files -> {"clean", "dirty", "due"}]
    /\ hash \in [Files -> Content] /\ loaded \in {Absent} \cup 1..Versions
    /\ step \in {"prime", "watch", "select", "visit", "read", "check", "load", "foreground"}
    /\ at \in 1..Len(Order) /\ attempt \in Content
    /\ loaded_mode \in Modes \cup {NoSettings} /\ current_mode \in Modes
    /\ app \in Apps /\ last_app \in Apps \cup {NoApp}

\* A change of this file is still to be looked at.
Pending(f) == status[f] # "clean" \/ f \in unread \cup writing \/ lost

\* No write is lost: with its directory watched, an entry that nothing is pending for
\* has committed the content the file has, whatever was written between the hash, the
\* check and the load of its last attempt, and even if the kernel dropped the event.
NoLostUpdate == \A f \in watched : Pending(f) \/ hash[f] = file[f]

\* What is in force is what the CPU configuration gives for g_current_mode.
Agrees == loaded_mode = Given(file[Cpu], current_mode) /\ loaded = file[Cpu]

\* The mode is taken over before it is known that its settings can be loaded, by the
\* reload and by the foreground check.  With the CPU configuration's directory watched
\* and nothing pending for mode.txt or for it, it parses, and if it has settings for
\* g_current_mode, its own or those of balance, they are in force: the current ones.
SettingsFollowMode ==
    Cpu \in watched =>
        \/ Pending(Mode) \/ Pending(Cpu)
        \/ Valid /\ (Given(file[Cpu], current_mode) # NoSettings => Agrees)

\* What the files say is in force.
InForce == current_mode = ForPackage(file[Mode], app) /\ Agrees

\* The CPU configuration parses and has settings for the mode of the package in front.
Loadable == writing = {} /\ Given(file[Cpu], ForPackage(file[Mode], app)) # NoSettings

\* Once the writers have left files that load, their contents come into force and
\* stay, with the watches, with one of them and with the poll: a failed attempt is made
\* again, and what the reload and the foreground check set for a mode ends with the
\* package's own.
Converges == \A a \in Apps : <>[](Loadable /\ app = a) => <>[]InForce

\* The comment at the reload says that its check of the JSON decides whether the load
\* can succeed, and that an entry whose load cannot stays marked: with nothing pending
\* the CPU configuration there is has been loaded.
LoadedOrPending ==
    Cpu \in watched => Pending(Mode) \/ Pending(Cpu) \/ loaded = file[Cpu]

\* The reload's log line says that a missing mode.txt falls back to balance.
MissingFallsBack ==
    <>[](file[Mode] = Absent /\ Loadable) => <>[](loaded_mode = Balance)
=============================================================================
