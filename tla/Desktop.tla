------------------------------- MODULE Desktop ------------------------------
(***************************************************************************)
(* The desktop shell, electron/main.js: the main process starts the Python *)
(* backend, probes it, opens the windows, restarts a backend that dies and *)
(* stops it when the application quits.                                    *)
(*                                                                         *)
(* Every spawn has one number, which also names the waitForBackend loop    *)
(* started with it.  Time is abstracted: a timer that runs may fire at any *)
(* later moment.  The port is a lock: the backend that binds it serves it. *)
(***************************************************************************)
EXTENDS Integers, FiniteSets, FiniteSetTheorems, TLAPS

CONSTANTS
  Darwin,        \* process.platform === 'darwin': windows may all be closed
  Hasty,         \* the dock icon is clicked while a start or a restart is due
  MaxRestarts,   \* BACKEND_MAX_RESTARTS
  MaxTries,      \* maxRetries of waitForBackend
  MaxCrashes,    \* bound: backends that die by themselves
  MaxSpawns      \* bound: backends ever started

Procs == 1..MaxSpawns
None == 0

VARIABLES
  phase,     \* of the application: off, boot, running, quitting, gone
  alive,     \* backend processes that run
  killed,    \* backends that were sent SIGTERM
  owner,     \* the backend that has bound the port, or None
  exits,     \* dead backends whose 'exit' event has not been handled
  pyProc,    \* pyProc
  timer,     \* backendRestartTimer is set
  count,     \* backendRestartCount
  waiters,   \* waitForBackend loops that have not settled
  main,      \* mainWindow is set
  windows,   \* windows on the screen
  told,      \* an error dialog has been shown
  spawned,   \* backends started so far
  crashes    \* backends that died by themselves so far

backend == <<alive, owner, exits, crashes>>
vars == <<phase, alive, killed, owner, exits, pyProc, timer, count, waiters,
          main, windows, told, spawned, crashes>>

Up == phase \in {"boot", "running", "quitting"}

Init ==
  /\ phase = "off"
  /\ alive = {} /\ killed = {} /\ owner = None /\ exits = {}
  /\ pyProc = None /\ timer = FALSE /\ count = 0 /\ waiters = {}
  /\ main = FALSE /\ windows = 0 /\ told = FALSE
  /\ spawned = 0 /\ crashes = 0

-----------------------------------------------------------------------------
\* startPythonBackend, and the waitForBackend that every caller puts after it.
\* A spawn that fails raises 'error' and never 'exit': pyProc stays set.
Spawn(kind) ==
  LET p == spawned + 1 IN
  /\ p \in Procs
  /\ spawned' = p
  /\ pyProc' = p
  /\ \/ alive' = alive \cup {p} /\ told' = told
     \/ alive' = alive /\ told' = TRUE
  /\ waiters' = waiters \cup {[proc |-> p, kind |-> kind, tries |-> 0]}
  /\ UNCHANGED <<killed, owner, exits, crashes>>

StopLeavesTimer ==                      \* mutant: the timer is not cleared
  /\ pyProc' = None
  /\ killed' = killed \cup (alive \cap {pyProc})
  /\ UNCHANGED timer

Stop ==
  /\ timer' = FALSE
  /\ pyProc' = None
  /\ killed' = killed \cup (alive \cap {pyProc})

\* app.quit(): 'before-quit' stops the backend before the windows close.
Quit ==
  /\ Stop
  /\ phase' = "quitting"

CreateWindow ==
  /\ main' = TRUE
  /\ windows' = windows + 1

ScheduleNothing == UNCHANGED <<timer, count, told>>       \* mutant: no guard process

ScheduleRestart ==
  IF timer THEN UNCHANGED <<timer, count, told>>
  ELSE /\ count' = count + 1
       /\ IF count' > MaxRestarts THEN told' = TRUE /\ UNCHANGED timer
                                  ELSE timer' = TRUE /\ UNCHANGED told

-----------------------------------------------------------------------------
\* app.whenReady: a free port, the menus, the backend; no port ends it all.
WhenReady ==
  /\ phase = "off"
  /\ \/ /\ phase' = "boot"
        /\ Spawn("boot")
        /\ UNCHANGED <<timer, count, main, windows>>
     \/ /\ Quit
        /\ told' = TRUE
        /\ UNCHANGED <<backend, count, waiters, main, windows, spawned>>

ExitAlwaysRestarts(p) ==           \* mutant: a deliberate stop is not told apart
  /\ Up
  /\ p \in exits
  /\ exits' = exits \ {p}
  /\ pyProc' = None
  /\ ScheduleRestart
  /\ UNCHANGED <<phase, alive, killed, owner, crashes, waiters, main, windows, spawned>>

\* The 'exit' handler of a backend: a null pyProc means it was stopped.
Exit(p) ==
  /\ Up
  /\ p \in exits
  /\ exits' = exits \ {p}
  /\ pyProc' = None
  /\ IF pyProc = None THEN UNCHANGED <<timer, count, told>> ELSE ScheduleRestart
  /\ UNCHANGED <<phase, alive, killed, owner, crashes, waiters, main, windows, spawned>>

RestartTimer ==
  /\ Up
  /\ timer
  /\ timer' = FALSE
  /\ Spawn("restart")
  /\ UNCHANGED <<phase, count, main, windows>>

-----------------------------------------------------------------------------
(***************************************************************************)
(* waitForBackend.  A refused probe costs one of maxRetries.  One that     *)
(* times out costs two, and its loop goes on twice: req.destroy() raises   *)
(* 'error', whose handler retries, and then the time-out retries as well.  *)
(***************************************************************************)
Cost == IF owner = None THEN {1} ELSE {1, 2}

Probe(w) ==
  /\ Up
  /\ owner # None
  /\ waiters' = waiters \ {w}
  /\ CASE w.kind = "restart" ->
            count' = 0 /\ UNCHANGED <<phase, main, windows>>
       [] w.kind = "boot" ->
            /\ CreateWindow
            /\ phase' = IF phase = "boot" THEN "running" ELSE phase
            /\ UNCHANGED count
       [] OTHER -> CreateWindow /\ UNCHANGED <<phase, count>>
  /\ UNCHANGED <<alive, killed, owner, exits, pyProc, timer, told, spawned, crashes>>

\* A wait that has failed: a restart only writes it down, a start gives up.
Reject(w) ==
  /\ waiters' = waiters \ {w}
  /\ IF w.kind = "restart"
     THEN UNCHANGED <<phase, killed, pyProc, timer, told>>
     ELSE Quit /\ told' = TRUE
  /\ UNCHANGED <<backend, count, main, windows, spawned>>

RetryForever(w) ==                 \* mutant: maxRetries is not looked at
  /\ Up
  /\ \E n \in Cost : waiters' = (waiters \ {w}) \cup {[w EXCEPT !.tries = @ + n]}
  /\ UNCHANGED <<phase, alive, killed, owner, exits, pyProc, timer, count,
                 main, windows, told, spawned, crashes>>

Retry(w) ==
  /\ Up
  /\ \E n \in Cost :
       IF w.tries + n >= MaxTries THEN Reject(w)
       ELSE /\ waiters' = (waiters \ {w}) \cup {[w EXCEPT !.tries = @ + n]}
            /\ UNCHANGED <<phase, alive, killed, owner, exits, pyProc, timer, count,
                           main, windows, told, spawned, crashes>>

\* The fifteen seconds that race the wait of a start; a restart has none.
StartTimesOut(w) ==
  /\ Up
  /\ w.kind # "restart"
  /\ Reject(w)

-----------------------------------------------------------------------------
Busy == timer \/ waiters # {}

ActivateAlwaysStarts ==            \* mutant: pyProc is not looked at
  /\ Darwin /\ Up /\ phase # "quitting" /\ ~main
  /\ Hasty \/ ~Busy
  /\ Spawn("activate")
  /\ UNCHANGED <<phase, timer, count, main, windows>>

\* The dock icon.
Activate ==
  /\ Darwin /\ Up /\ phase # "quitting" /\ ~main
  /\ Hasty \/ ~Busy
  /\ IF pyProc # None
     THEN /\ CreateWindow
          /\ UNCHANGED <<backend, killed, pyProc, waiters, told, spawned>>
     ELSE /\ Spawn("activate")
          /\ UNCHANGED <<main, windows>>
  /\ UNCHANGED <<phase, timer, count>>

\* Every window but the main one: the menus, the pages, the built-in browser.
Opens ==
  /\ windows' = windows + 1
  /\ UNCHANGED <<phase, backend, killed, pyProc, timer, count, waiters, main, told, spawned>>

Open == phase = "running" /\ windows < 2     \* bound: two windows at a time

OpenFromMenu == Open /\ (Darwin \/ windows > 0) /\ Opens   \* a menu bar without windows
OpenFromPage == Open /\ windows > 0 /\ Opens
OpenBrowser == Open /\ windows > 0 /\ Opens

\* 'closed', and 'window-all-closed' after the last one.
CloseWindow ==
  /\ Up
  /\ windows > 0
  /\ windows' = windows - 1
  /\ main' \in IF main THEN (IF windows = 1 THEN {FALSE} ELSE BOOLEAN) ELSE {FALSE}
  /\ IF windows' = 0 /\ ~Darwin THEN Quit ELSE UNCHANGED <<phase, killed, pyProc, timer>>
  /\ UNCHANGED <<backend, count, waiters, told, spawned>>

QuitByUser ==
  /\ Up
  /\ Quit
  /\ UNCHANGED <<backend, count, waiters, main, windows, told, spawned>>

\* The main process ends: no handler, timer or probe of it runs any more.
Gone ==
  /\ phase = "quitting"
  /\ phase' = "gone"
  /\ main' = FALSE /\ windows' = 0 /\ timer' = FALSE /\ waiters' = {} /\ exits' = {}
  /\ UNCHANGED <<alive, killed, owner, crashes, pyProc, count, told, spawned>>

-----------------------------------------------------------------------------
\* The backend process itself: it binds the port or ends because it cannot.
Leaves(p) ==
  /\ alive' = alive \ {p}
  /\ owner' = IF owner = p THEN None ELSE owner
  /\ exits' = IF Up THEN exits \cup {p} ELSE exits

shell == <<phase, killed, pyProc, timer, count, waiters, main, windows, told, spawned>>

Bind(p) ==
  /\ p \in alive /\ owner # p
  /\ IF owner = None THEN owner' = p /\ UNCHANGED <<alive, exits>> ELSE Leaves(p)
  /\ UNCHANGED <<crashes, shell>>

Crash(p) ==
  /\ p \in alive
  /\ crashes < MaxCrashes
  /\ crashes' = crashes + 1
  /\ Leaves(p)
  /\ UNCHANGED shell

Terminates(p) ==
  /\ p \in alive \cap killed
  /\ Leaves(p)
  /\ UNCHANGED <<crashes, shell>>

-----------------------------------------------------------------------------
Backend == \E p \in Procs : Bind(p) \/ Crash(p) \/ Terminates(p)
Waiting == \E w \in waiters : Probe(w) \/ Retry(w) \/ StartTimesOut(w)
User == Activate \/ OpenFromMenu \/ OpenFromPage \/ OpenBrowser \/ CloseWindow \/ QuitByUser

Next ==
  \/ WhenReady \/ RestartTimer \/ (\E p \in Procs : Exit(p))
  \/ Waiting \/ User \/ Gone \/ Backend

Spec == Init /\ [][Next]_vars

\* Timers fire, events are handled and processes run.
Fairness ==
  /\ WF_vars(WhenReady) /\ WF_vars(RestartTimer) /\ WF_vars(Gone)
  /\ WF_vars(Waiting)
  /\ \A p \in Procs : WF_vars(Exit(p)) /\ WF_vars(Bind(p)) /\ WF_vars(Terminates(p))

FairSpec == Spec /\ Fairness

-----------------------------------------------------------------------------
Wait == [proc: Procs, kind: {"boot", "restart", "activate"}, tries: 0..MaxTries-1]

\* Types of the variables.
TypeOK ==
  /\ phase \in {"off", "boot", "running", "quitting", "gone"}
  /\ alive \in SUBSET Procs /\ killed \in SUBSET Procs /\ exits \in SUBSET Procs
  /\ owner \in Procs \cup {None} /\ pyProc \in Procs \cup {None}
  /\ timer \in BOOLEAN /\ count \in Nat /\ waiters \in SUBSET Wait
  /\ main \in BOOLEAN /\ windows \in Nat /\ told \in BOOLEAN
  /\ spawned \in 0..MaxSpawns /\ crashes \in 0..MaxCrashes

(***************************************************************************)
(* There are never two backends that nobody has told to stop: main.js has  *)
(* three places that start one (first start, restart timer, dock icon) and *)
(* only pyProc and the timer to tell them apart.  Two would write the same *)
(* caches and manifests.                                                   *)
(***************************************************************************)
OneBackend == Cardinality(alive \ killed) <= 1

(***************************************************************************)
(* When the application has ended, every backend that is left was told to  *)
(* stop, whatever was being started, restarted or waited for at the time.  *)
(***************************************************************************)
NoOrphan == phase = "gone" => alive \subseteq killed

Down == phase = "running" /\ alive = {}
Healed == owner # None \/ told \/ phase # "running"

(***************************************************************************)
(* A running application without a backend gets one that serves again, or  *)
(* an error dialog, or ends: the guard process never loses a death.        *)
(***************************************************************************)
Heals == Down ~> Healed

(***************************************************************************)
(* At most MaxRestarts automatic restarts in one session (the comment at   *)
(* BACKEND_MAX_RESTARTS says per session; the code resets the count each   *)
(* time a backend answers, so it only bounds restarts in a row).           *)
(***************************************************************************)
RestartsPerSession == spawned <= MaxRestarts + 1
-----------------------------------------------------------------------------
(***************************************************************************)
(* Proofs, for any numbers of restarts, tries, crashes and spawns.         *)
(***************************************************************************)
Bounds == /\ MaxRestarts \in Nat /\ MaxTries \in Nat \ {0}
          /\ MaxCrashes \in Nat /\ MaxSpawns \in Nat

\* Before it is told to quit the shell has at most one backend, the one behind
\* pyProc, whether that runs or its 'exit' is yet to be handled; and the
\* restart timer only runs when it has none.  Afterwards it starts none.
Held ==
  /\ phase = "off" => alive = {} /\ exits = {} /\ pyProc = None /\ ~timer
  /\ phase \in {"boot", "running"} =>
       /\ alive \cup exits \subseteq {pyProc} \ {None}
       /\ alive \cap exits = {}
       /\ timer => pyProc = None
  /\ phase \in {"quitting", "gone"} => alive \subseteq killed /\ pyProc = None /\ ~timer

LEMMA StopTypes ==
  ASSUME TypeOK, Stop
  PROVE  timer' = FALSE /\ pyProc' = None /\ killed' \in SUBSET Procs
BY DEF Stop, TypeOK

LEMMA SpawnTypes ==
  ASSUME Bounds, TypeOK, NEW kind \in {"boot", "restart", "activate"}, Spawn(kind)
  PROVE  /\ spawned' \in Procs /\ pyProc' = spawned' /\ alive' \in SUBSET Procs
         /\ spawned' \in 0..MaxSpawns /\ told' \in BOOLEAN /\ waiters' \in SUBSET Wait
         /\ alive' \subseteq alive \cup {spawned'}
         /\ UNCHANGED <<killed, owner, exits, crashes>>
<1>1. spawned' = spawned + 1 /\ spawned + 1 \in Procs
  BY DEF Spawn
<1>2. spawned' \in 0..MaxSpawns
  BY <1>1 DEF Procs, Bounds
<1>3. [proc |-> spawned + 1, kind |-> kind, tries |-> 0] \in Wait
  <2>1. 0 \in 0..MaxTries-1
    BY DEF Bounds
  <2> QED
    BY <1>1, <2>1 DEF Wait
<1>4. waiters' = waiters \cup {[proc |-> spawned + 1, kind |-> kind, tries |-> 0]}
  BY DEF Spawn
<1>5. waiters' \in SUBSET Wait
  BY <1>3, <1>4 DEF TypeOK
<1>6. /\ told' \in BOOLEAN /\ alive' \in SUBSET Procs /\ alive' \subseteq alive \cup {spawned'}
      /\ pyProc' = spawned' /\ UNCHANGED <<killed, owner, exits, crashes>>
  BY <1>1 DEF Spawn, TypeOK
<1> QED
  BY <1>1, <1>2, <1>5, <1>6

LEMMA RejectTypes ==
  ASSUME TypeOK, NEW w \in waiters, Up, Reject(w)
  PROVE  TypeOK'
<1>1. waiters' \in SUBSET Wait
  BY DEF Reject, TypeOK
<1>2. /\ phase' \in {"boot", "running", "quitting"} /\ killed' \in SUBSET Procs
      /\ pyProc' \in Procs \cup {None} /\ timer' \in BOOLEAN /\ told' \in BOOLEAN
  BY DEF Reject, Quit, Stop, TypeOK, Up
<1> QED
  BY <1>1, <1>2 DEF Reject, backend, TypeOK

LEMMA RetryTypes ==
  ASSUME Bounds, TypeOK, NEW w \in waiters, Retry(w)
  PROVE  TypeOK'
<1>1. PICK n \in Cost :
        IF w.tries + n >= MaxTries THEN Reject(w)
        ELSE /\ waiters' = (waiters \ {w}) \cup {[w EXCEPT !.tries = @ + n]}
             /\ UNCHANGED <<phase, alive, killed, owner, exits, pyProc, timer, count,
                            main, windows, told, spawned, crashes>>
  BY DEF Retry
<1>2. CASE w.tries + n >= MaxTries
  BY <1>1, <1>2, RejectTypes DEF Retry
<1>3. CASE ~(w.tries + n >= MaxTries)
  <2>1. n \in {1, 2}
    BY DEF Cost
  <2>2. w \in Wait /\ w.tries \in 0..MaxTries-1
    BY DEF TypeOK, Wait
  <2>3. w.tries + n \in 0..MaxTries-1
    BY <1>3, <2>1, <2>2 DEF Bounds
  <2>4. [w EXCEPT !.tries = @ + n] \in Wait
    BY <2>2, <2>3 DEF Wait
  <2>5. waiters' \in SUBSET Wait
    BY <1>1, <1>3, <2>4 DEF TypeOK
  <2> QED
    BY <1>1, <1>3, <2>5 DEF TypeOK
<1> QED
  BY <1>2, <1>3

\* What a probe that is answered may change, whatever it was waited for.
LEMMA ProbeMoves ==
  ASSUME NEW w \in waiters, Probe(w), w.kind \in {"boot", "restart", "activate"}
  PROVE  /\ count' = count \/ count' = 0
         /\ (main' = main /\ windows' = windows) \/ CreateWindow
         /\ phase' = phase \/ (phase = "boot" /\ phase' = "running")
<1>1. CASE w.kind = "restart"
  <2>1. count' = 0 /\ UNCHANGED <<phase, main, windows>>
    BY <1>1 DEF Probe
  <2> QED
    BY <2>1
<1>2. CASE w.kind = "boot"
  <2>1. CreateWindow /\ phase' = (IF phase = "boot" THEN "running" ELSE phase) /\ UNCHANGED count
    BY <1>2 DEF Probe
  <2> QED
    BY <2>1
<1>3. CASE w.kind = "activate"
  <2>1. CreateWindow /\ UNCHANGED <<phase, count>>
    BY <1>3 DEF Probe
  <2> QED
    BY <2>1
<1> QED
  BY <1>1, <1>2, <1>3

LEMMA LeavesTypes ==
  ASSUME TypeOK, NEW p \in Procs, Leaves(p)
  PROVE  /\ alive' \in SUBSET Procs /\ exits' \in SUBSET Procs
         /\ owner' \in Procs \cup {None}
BY DEF Leaves, TypeOK

LEMMA NextTypes ==
  ASSUME Bounds, TypeOK, [Next]_vars
  PROVE  TypeOK'
<1>1. CASE WhenReady
  <2>1. CASE phase' = "boot" /\ Spawn("boot") /\ UNCHANGED <<timer, count, main, windows>>
    BY <2>1, SpawnTypes DEF TypeOK
  <2>2. CASE Quit /\ told' = TRUE /\ UNCHANGED <<backend, count, waiters, main, windows, spawned>>
    BY <2>2, StopTypes DEF Quit, backend, TypeOK
  <2> QED
    BY <1>1, <2>1, <2>2 DEF WhenReady
<1>2. CASE RestartTimer
  BY <1>2, SpawnTypes DEF RestartTimer, TypeOK
<1>3. ASSUME NEW p \in Procs, Exit(p) PROVE TypeOK'
  <2>1. timer' \in BOOLEAN /\ count' \in Nat /\ told' \in BOOLEAN
    <3>1. CASE UNCHANGED <<timer, count, told>>
      BY <3>1 DEF TypeOK
    <3>2. CASE ScheduleRestart /\ ~timer
      <4>1. count' = count + 1 /\ count \in Nat
        BY <3>2 DEF ScheduleRestart, TypeOK
      <4>2. (timer' = timer \/ timer' = TRUE) /\ (told' = told \/ told' = TRUE)
        BY <3>2 DEF ScheduleRestart
      <4>3. timer' \in BOOLEAN /\ told' \in BOOLEAN
        BY <4>2, Zenon DEF TypeOK
      <4> QED
        BY <4>1, <4>3
    <3> QED
      BY <1>3, <3>1, <3>2 DEF Exit, ScheduleRestart
  <2>2. /\ exits' \in SUBSET Procs /\ pyProc' = None
        /\ UNCHANGED <<phase, alive, killed, owner, crashes, waiters, main, windows, spawned>>
    BY <1>3 DEF Exit, TypeOK
  <2> QED
    BY <2>1, <2>2 DEF TypeOK
<1>4. ASSUME NEW w \in waiters, Probe(w) PROVE TypeOK'
  <2>1. /\ waiters' \in SUBSET Wait
        /\ UNCHANGED <<alive, killed, owner, exits, pyProc, timer, told, spawned, crashes>>
    BY <1>4 DEF Probe, TypeOK
  <2>2. w.kind \in {"boot", "restart", "activate"}
    BY DEF TypeOK, Wait
  <2>3. /\ count' = count \/ count' = 0
        /\ (main' = main /\ windows' = windows) \/ CreateWindow
        /\ phase' = phase \/ (phase = "boot" /\ phase' = "running")
    BY <1>4, <2>2, ProbeMoves
  <2>4. count' \in Nat /\ windows' \in Nat
    BY <2>3 DEF CreateWindow, TypeOK
  <2>5. main' \in BOOLEAN /\ phase' \in {"off", "boot", "running", "quitting", "gone"}
    BY <2>3 DEF CreateWindow, TypeOK
  <2> QED
    BY <2>1, <2>4, <2>5 DEF TypeOK
<1>5. ASSUME NEW w \in waiters, Retry(w) PROVE TypeOK'
  BY <1>5, RetryTypes
<1>6. ASSUME NEW w \in waiters, StartTimesOut(w) PROVE TypeOK'
  BY <1>6, RejectTypes DEF StartTimesOut
<1>7. CASE Activate
  <2>1. CASE pyProc # None
    BY <1>7, <2>1 DEF Activate, CreateWindow, backend, TypeOK
  <2>2. CASE pyProc = None
    BY <1>7, <2>2, SpawnTypes DEF Activate, TypeOK
  <2> QED
    BY <2>1, <2>2
<1>8. CASE OpenFromMenu \/ OpenFromPage \/ OpenBrowser
  BY <1>8 DEF OpenFromMenu, OpenFromPage, OpenBrowser, Opens, backend, TypeOK
<1>9. CASE CloseWindow
  <2>1. windows' \in Nat /\ main' \in BOOLEAN
    <3>1. windows' = windows - 1 /\ windows > 0 /\ windows \in Nat
      BY <1>9 DEF CloseWindow, TypeOK
    <3>2. main' \in BOOLEAN
      BY <1>9, Zenon DEF CloseWindow
    <3> QED
      BY <3>1, <3>2
  <2>2. /\ phase' \in {"off", "boot", "running", "quitting", "gone"}
        /\ killed' \in SUBSET Procs /\ pyProc' \in Procs \cup {None} /\ timer' \in BOOLEAN
    BY <1>9 DEF CloseWindow, Quit, Stop, TypeOK
  <2> QED
    BY <1>9, <2>1, <2>2 DEF CloseWindow, backend, TypeOK
<1>10. CASE QuitByUser
  BY <1>10, StopTypes DEF QuitByUser, Quit, backend, TypeOK
<1>11. CASE Gone
  BY <1>11 DEF Gone, TypeOK
<1>12. ASSUME NEW p \in Procs, Bind(p) PROVE TypeOK'
  BY <1>12, LeavesTypes DEF Bind, shell, TypeOK
<1>13. ASSUME NEW p \in Procs, Crash(p) PROVE TypeOK'
  BY <1>13, LeavesTypes DEF Crash, shell, TypeOK, Bounds
<1>14. ASSUME NEW p \in Procs, Terminates(p) PROVE TypeOK'
  BY <1>14, LeavesTypes DEF Terminates, shell, TypeOK
<1>15. CASE UNCHANGED vars
  BY <1>15 DEF vars, TypeOK
<1> QED
  BY <1>1, <1>2, <1>3, <1>4, <1>5, <1>6, <1>7, <1>8, <1>9, <1>10, <1>11, <1>12, <1>13,
     <1>14, <1>15 DEF Next, Waiting, User, Backend

LEMMA InitTypes ==
  ASSUME Bounds, Init
  PROVE  TypeOK
<1>1. /\ phase \in {"off", "boot", "running", "quitting", "gone"}
      /\ alive \in SUBSET Procs /\ killed \in SUBSET Procs /\ exits \in SUBSET Procs
      /\ owner \in Procs \cup {None} /\ pyProc \in Procs \cup {None}
      /\ waiters \in SUBSET Wait
  BY DEF Init
<1>2. timer \in BOOLEAN /\ main \in BOOLEAN /\ told \in BOOLEAN
  BY Zenon DEF Init
<1>3. count \in Nat /\ windows \in Nat /\ spawned \in 0..MaxSpawns /\ crashes \in 0..MaxCrashes
  BY DEF Init, Bounds
<1> QED
  BY <1>1, <1>2, <1>3 DEF TypeOK

\* Every variable of the shell and of its backends keeps its type: the tries of
\* a wait stay below maxRetries although a probe that times out costs two.
THEOREM TypeCorrect ==
  ASSUME Bounds
  PROVE  Spec => []TypeOK
<1>1. Init => TypeOK
  BY InitTypes
<1>2. TypeOK /\ [Next]_vars => TypeOK'
  BY NextTypes
<1> QED
  BY <1>1, <1>2, PTL DEF Spec

-----------------------------------------------------------------------------
\* A step that starts no backend: told to stop, the shell holds none.
LEMMA StopHolds ==
  ASSUME TypeOK, Held, phase # "gone", Stop, phase' = "quitting", UNCHANGED alive
  PROVE  Held'
<1>1. alive \subseteq {pyProc} \cup killed
  BY DEF Held, TypeOK
<1>2. alive' \subseteq killed'
  BY <1>1 DEF Stop
<1> QED
  BY <1>2 DEF Stop, Held

\* A first backend, started when there is none.
LEMMA SpawnHolds ==
  ASSUME Bounds, TypeOK, NEW kind \in {"boot", "restart", "activate"}, Spawn(kind),
         alive = {}, exits = {}, phase' \in {"boot", "running"}, timer' = FALSE
  PROVE  Held'
<1>1. pyProc' \in Procs /\ alive' \subseteq {pyProc'} /\ exits' = {}
  BY SpawnTypes
<1>2. pyProc' # None
  BY <1>1 DEF Procs, None
<1> QED
  BY <1>1, <1>2 DEF Held

LEMMA RejectHolds ==
  ASSUME TypeOK, Held, Up, NEW w \in waiters, Reject(w)
  PROVE  Held'
<1>1. CASE w.kind = "restart"
  BY <1>1 DEF Reject, Held, backend
<1>2. CASE w.kind # "restart"
  BY <1>2, StopHolds DEF Reject, Quit, backend, Up
<1> QED
  BY <1>1, <1>2

LEMMA LeavesHolds ==
  ASSUME TypeOK, Held, NEW p \in alive, Leaves(p), UNCHANGED <<phase, killed, pyProc, timer>>
  PROVE  Held'
<1>1. alive' = alive \ {p} /\ exits' \subseteq exits \cup {p}
  BY DEF Leaves
<1>2. phase # "off"
  BY DEF Held
<1> QED
  BY <1>1, <1>2 DEF Held

LEMMA NextHeld ==
  ASSUME Bounds, ~Hasty, TypeOK, Held, [Next]_vars
  PROVE  Held'
<1>1. CASE WhenReady
  <2>1. CASE phase' = "boot" /\ Spawn("boot") /\ UNCHANGED <<timer, count, main, windows>>
    BY <1>1, <2>1, SpawnHolds DEF WhenReady, Held, TypeOK
  <2>2. CASE Quit /\ told' = TRUE /\ UNCHANGED <<backend, count, waiters, main, windows, spawned>>
    BY <1>1, <2>2, StopHolds DEF WhenReady, Quit, backend
  <2> QED
    BY <1>1, <2>1, <2>2 DEF WhenReady
<1>2. CASE RestartTimer
  <2>1. phase \in {"boot", "running"} /\ pyProc = None
    BY <1>2 DEF RestartTimer, Up, Held
  <2>2. alive = {} /\ exits = {}
    BY <2>1 DEF Held
  <2> QED
    BY <1>2, <2>1, <2>2, SpawnHolds DEF RestartTimer
<1>3. ASSUME NEW p \in Procs, Exit(p) PROVE Held'
  <2>1. /\ p \in exits /\ exits' = exits \ {p} /\ pyProc' = None
        /\ UNCHANGED <<phase, alive, killed>>
    BY <1>3 DEF Exit
  <2>2. CASE phase \in {"boot", "running"}
    <3>1. exits \subseteq {p} /\ alive = {}
      BY <2>1, <2>2 DEF Held
    <3> QED
      BY <2>1, <2>2, <3>1 DEF Held
  <2>3. CASE phase = "quitting"
    <3>1. pyProc = None /\ ~timer
      BY <2>3 DEF Held
    <3>2. timer' = timer
      BY <1>3, <3>1 DEF Exit
    <3> QED
      BY <2>1, <2>3, <3>1, <3>2 DEF Held
  <2> QED
    BY <1>3, <2>2, <2>3 DEF Exit, Up
<1>4. ASSUME NEW w \in waiters, Probe(w) PROVE Held'
  <2>1. /\ UNCHANGED <<alive, killed, exits, pyProc, timer>>
        /\ phase' = phase \/ (phase = "boot" /\ phase' = "running")
    <3>1. w.kind \in {"boot", "restart", "activate"}
      BY DEF TypeOK, Wait
    <3> QED
      BY <1>4, <3>1, ProbeMoves DEF Probe
  <2> QED
    BY <2>1 DEF Held
<1>5. ASSUME NEW w \in waiters, Retry(w) PROVE Held'
  <2>1. CASE Reject(w)
    BY <1>5, <2>1, RejectHolds DEF Retry
  <2>2. CASE UNCHANGED <<phase, alive, killed, exits, pyProc, timer>>
    BY <2>2 DEF Held
  <2> QED
    BY <1>5, <2>1, <2>2 DEF Retry
<1>6. ASSUME NEW w \in waiters, StartTimesOut(w) PROVE Held'
  BY <1>6, RejectHolds DEF StartTimesOut
<1>7. CASE Activate
  <2>1. CASE pyProc # None
    BY <1>7, <2>1 DEF Activate, backend, Held
  <2>2. CASE pyProc = None
    <3>1. phase \in {"boot", "running"} /\ ~timer
      BY <1>7 DEF Activate, Up, Busy
    <3>2. alive = {} /\ exits = {}
      BY <2>2, <3>1 DEF Held
    <3>3. phase' = phase /\ timer' = FALSE /\ Spawn("activate")
      BY <1>7, <2>2, <3>1 DEF Activate, TypeOK
    <3> QED
      BY <3>1, <3>2, <3>3, SpawnHolds
  <2> QED
    BY <2>1, <2>2
<1>8. CASE OpenFromMenu \/ OpenFromPage \/ OpenBrowser
  BY <1>8 DEF OpenFromMenu, OpenFromPage, OpenBrowser, Opens, backend, Held
<1>9. CASE CloseWindow
  <2>1. CASE Quit
    BY <1>9, <2>1, StopHolds DEF CloseWindow, Quit, Up, backend
  <2>2. CASE UNCHANGED <<phase, killed, pyProc, timer>>
    BY <1>9, <2>2 DEF CloseWindow, backend, Held
  <2> QED
    BY <1>9, <2>1, <2>2 DEF CloseWindow
<1>10. CASE QuitByUser
  BY <1>10, StopHolds DEF QuitByUser, Quit, Up, backend
<1>11. CASE Gone
  BY <1>11 DEF Gone, Held
<1>12. ASSUME NEW p \in Procs, Bind(p) PROVE Held'
  <2>1. UNCHANGED <<phase, killed, pyProc, timer>> /\ p \in alive
    BY <1>12 DEF Bind, shell
  <2>2. CASE UNCHANGED <<alive, exits>>
    BY <2>1, <2>2 DEF Held
  <2>3. CASE Leaves(p)
    BY <2>1, <2>3, LeavesHolds
  <2> QED
    BY <1>12, <2>2, <2>3 DEF Bind
<1>13. ASSUME NEW p \in Procs, Crash(p) \/ Terminates(p) PROVE Held'
  BY <1>13, LeavesHolds DEF Crash, Terminates, shell
<1>14. CASE UNCHANGED vars
  BY <1>14 DEF vars, Held
<1> QED
  BY <1>1, <1>2, <1>3, <1>4, <1>5, <1>6, <1>7, <1>8, <1>9, <1>10, <1>11, <1>12, <1>13,
     <1>14 DEF Next, Waiting, User, Backend

LEMMA InitHeld == Init => Held
BY DEF Init, Held

LEMMA HeldMeansOne ==
  ASSUME TypeOK, Held
  PROVE  OneBackend /\ NoOrphan
<1>1. alive \ killed \subseteq {pyProc}
  BY DEF TypeOK, Held
<1>2. IsFiniteSet({pyProc}) /\ Cardinality({pyProc}) = 1
  BY FS_Singleton
<1>3. /\ Cardinality(alive \ killed) \in Nat
      /\ Cardinality(alive \ killed) <= Cardinality({pyProc})
  BY <1>1, <1>2, FS_Subset, FS_CardinalityType
<1>4. OneBackend
  BY <1>2, <1>3 DEF OneBackend
<1>5. NoOrphan
  BY DEF Held, NoOrphan
<1> QED
  BY <1>4, <1>5

\* Neither crashes, restarts, time-outs nor the dock icon ever make two backends
\* that nobody has told to stop, as long as the dock icon is not clicked while a
\* start or a restart is due (TLC shows a second backend when it is).
THEOREM NeverTwo ==
  ASSUME Bounds, ~Hasty
  PROVE  Spec => []OneBackend
<1>1. TypeOK /\ Held => OneBackend
  BY HeldMeansOne
<1>2. Init => TypeOK /\ Held
  BY InitTypes, InitHeld
<1>3. TypeOK /\ Held /\ [Next]_vars => (TypeOK /\ Held)'
  BY NextTypes, NextHeld
<1> QED
  BY <1>1, <1>2, <1>3, PTL DEF Spec

\* When the application has ended, whatever it was starting, restarting or
\* waiting for, each backend that is left has been told to stop.
THEOREM NoneLeftBehind ==
  ASSUME Bounds, ~Hasty
  PROVE  Spec => []NoOrphan
<1>1. TypeOK /\ Held => NoOrphan
  BY HeldMeansOne
<1>2. Init => TypeOK /\ Held
  BY InitTypes, InitHeld
<1>3. TypeOK /\ Held /\ [Next]_vars => (TypeOK /\ Held)'
  BY NextTypes, NextHeld
<1> QED
  BY <1>1, <1>2, <1>3, PTL DEF Spec
=============================================================================
