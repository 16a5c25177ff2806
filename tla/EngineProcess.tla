--------------------------- MODULE EngineProcess ---------------------------
(***************************************************************************)
(* The playback engine as the main process owns it (engine-lifecycle.mjs   *)
(* and its use in main.mjs): recovery of an orphan of an earlier run, the  *)
(* start, restarts after a crash, the reload once Apple's FairPlay         *)
(* libraries have been downloaded, the stop on quit; and the daily cleanup *)
(* of the config directory (config-cleanup.mjs), which runs before it.     *)
(***************************************************************************)
EXTENDS Naturals

CONSTANTS
  Files,         \* the FairPlay libraries of fairplay-libs.lock
  Main,          \* libandroidappmusic.so, the one a start looks for
  MaxEngines,    \* bound: engines spawned
  MaxFaults      \* bound: engines that crash, apps that crash, downloads and starts that fail

EngineAssumption == Main \in Files /\ MaxEngines \in Nat /\ MaxFaults \in Nat

None == 0

VARIABLES
  phase,      \* "up", "quitting" (isQuitting), "stopping" (stop()), "exited", "crashed"
  up, ending, \* the engines that serve the port; those told to end (SIGTERM)
  mine,       \* the engines of this run of the app
  child,      \* the lifecycle's child
  starting,   \* start(): "no", "recover", "killing", "port"
  timer,      \* restartTimer
  stop,       \* stop(): "no", "term" (waits for the engine), "killed" (killDelay is over)
  failed,     \* the user was told that the engine could not start
  libs,       \* the libraries on disk
  fetch,      \* the libraries the download has still to fetch; NotFetching
  lossless,   \* the engines that found all the libraries when they started
  onPause,    \* _reloadEngineOnPause
  playing,    \* _lastMprisStatus is "Playing"
  adopted,    \* orphans become children of pid 1
  spawned, faults

NotFetching == {"none"}
life == <<child, starting, timer, stop, failed>>
engines == <<up, ending, mine, lossless, spawned>>
download == <<libs, fetch, onPause>>
vars == <<phase, engines, life, download, playing, adopted, faults>>

Alive == up \union ending
Quitting == phase # "up"
Fault == faults < MaxFaults /\ faults' = faults + 1

Init ==
  /\ phase = "exited" /\ up = {} /\ ending = {} /\ mine = {} /\ child = None
  /\ starting = "no" /\ timer = FALSE /\ stop = "no" /\ failed = FALSE
  /\ libs \in {{}, Files} /\ fetch = NotFetching /\ lossless = {} /\ onPause = FALSE
  /\ playing = FALSE /\ adopted \in BOOLEAN /\ spawned = 0 /\ faults = 0

-----------------------------------------------------------------------------
(* Launch. *)

\* OBSOLETE names drm/rootfs, which holds the libraries; the cleanup runs once a day.
Cleanup == libs' \in {libs, {}}

\* startEngine, and ensureFairPlayLibs when the main library is missing.
Launch ==
  /\ phase \in {"exited", "crashed"} /\ phase' = "up" /\ Cleanup
  /\ fetch' = IF Main \in libs' THEN NotFetching ELSE Files
  /\ starting' = "recover" /\ timer' = FALSE /\ stop' = "no" /\ failed' = FALSE
  /\ child' = None /\ mine' = {} /\ onPause' = FALSE /\ playing' = FALSE
  /\ UNCHANGED <<up, ending, lossless, spawned, adopted, faults>>

Starts(s) == starting' = s /\ UNCHANGED <<phase, download, playing, adopted>>

\* Mutant: the orphan is told to end and not waited for.
RecoverOnly(orphans) ==
  /\ ending' = ending \union orphans /\ up' = up \ orphans /\ Starts("port")

\* recoverOrphanEngine: an orphan of this engine is told to end (SIGTERM).
Recover(orphans) ==
  /\ ending' = ending \union orphans /\ up' = up \ orphans
  /\ Starts(IF orphans = {} THEN "port" ELSE "killing")

\* isOwnedOrphan: the process is ours and its parent is pid 1.
Owned == IF adopted THEN Alive \ mine ELSE {}

RecoverOrphan ==
  /\ starting = "recover" /\ phase \notin {"exited", "crashed"} /\ Recover(Owned)
  /\ UNCHANGED <<mine, lossless, spawned, child, timer, stop, failed, faults>>

\* It has ended, or is killed after 2 s.
OrphanEnds ==
  /\ starting = "killing" /\ Starts("port") /\ ending' = ending \ Owned
  /\ UNCHANGED <<up, mine, lossless, spawned, child, timer, stop, failed, faults>>

\* prepare() waits for the port; it is free and the engine starts, unless the app is quitting.
Spawn ==
  /\ starting = "port" /\ (up = {} \/ Quitting) /\ Starts("no")
  /\ \/ /\ Quitting /\ UNCHANGED <<engines, child, timer, stop, failed, faults>>
     \/ /\ ~Quitting /\ spawned < MaxEngines /\ spawned' = spawned + 1
        /\ up' = up \union {spawned'} /\ mine' = mine \union {spawned'} /\ child' = spawned'
        /\ lossless' = IF libs = Files THEN lossless \union {spawned'} ELSE lossless
        /\ UNCHANGED <<ending, timer, stop, failed, faults>>

\* The port is still taken after 2 s, or the engine cannot be executed: the user is told.
StartFails ==
  /\ starting = "port" /\ ~Quitting /\ Starts("no") /\ failed' = TRUE
  /\ \/ up # {} /\ UNCHANGED faults
     \/ up = {} /\ Fault
  /\ UNCHANGED <<engines, child, timer, stop>>

-----------------------------------------------------------------------------
(* Ends and restarts. *)

\* Mutant: an exit is final.
StaysDown(i) == FALSE

\* finish(): the child's exit starts it again after a delay.
Restarts(i) == i = child /\ ~Quitting

Ends(i) ==
  /\ up' = up \ {i} /\ ending' = ending \ {i}
  /\ child' = IF child = i THEN None ELSE child
  /\ timer' = (timer \/ Restarts(i))
  /\ UNCHANGED <<phase, mine, lossless, spawned, starting, stop, failed, download, playing,
                 adopted>>

EngineEnds(i) == i \in ending /\ Ends(i) /\ UNCHANGED faults
EngineCrashes(i) == i \in up /\ Fault /\ Ends(i)

Restart ==
  /\ timer /\ timer' = FALSE
  /\ starting' = IF Quitting \/ child # None \/ starting # "no" THEN starting ELSE "recover"
  /\ UNCHANGED <<phase, engines, child, stop, failed, download, playing, adopted, faults>>

\* reload(): the exit that follows brings the engine back.
Reload ==
  IF Quitting \/ child = None THEN UNCHANGED <<up, ending>>
  ELSE up' = up \ {child} /\ ending' = ending \union {child}

-----------------------------------------------------------------------------
(* The FairPlay libraries. *)

Fetched(f) ==
  /\ f \in fetch /\ fetch # NotFetching /\ phase \notin {"exited", "crashed"}
  /\ fetch' = fetch \ {f}
  /\ \/ libs' = libs \union {f} /\ UNCHANGED faults
     \/ UNCHANGED libs /\ Fault
  /\ UNCHANGED <<phase, engines, life, onPause, playing, adopted>>

\* The libraries are complete: reloaded now, or at the next pause.
ReloadSoon(loud) ==
  IF loud THEN onPause' = TRUE /\ UNCHANGED <<up, ending>> ELSE Reload /\ UNCHANGED onPause

DownloadEnds ==
  /\ fetch = {} /\ fetch' = NotFetching /\ phase \notin {"exited", "crashed"}
  /\ IF libs = Files THEN ReloadSoon(playing) ELSE UNCHANGED <<up, ending, onPause>>
  /\ UNCHANGED <<phase, mine, lossless, spawned, life, libs, playing, adopted, faults>>

\* mpris:update.
PlayerIs(now) ==
  /\ phase \in {"up", "quitting"} /\ playing # now /\ playing' = now
  /\ IF onPause /\ ~now THEN onPause' = FALSE /\ Reload ELSE UNCHANGED <<onPause, up, ending>>
  /\ UNCHANGED <<phase, mine, lossless, spawned, life, libs, fetch, adopted, faults>>

-----------------------------------------------------------------------------
(* The end of the app. *)

BeforeQuit ==
  /\ phase = "up" /\ phase' = "quitting"
  /\ UNCHANGED <<engines, life, download, playing, adopted, faults>>

\* stop(): no restart, and once a start under way has ended the engine is told to end.
Stop ==
  /\ phase = "quitting" /\ phase' = "stopping" /\ timer' = FALSE
  /\ UNCHANGED <<engines, child, starting, stop, failed, download, playing, adopted, faults>>

StopTerm ==
  /\ phase = "stopping" /\ starting = "no" /\ stop = "no" /\ child # None /\ stop' = "term"
  /\ ending' = ending \union (up \intersect {child}) /\ up' = up \ {child}
  /\ UNCHANGED <<phase, mine, lossless, spawned, child, starting, timer, failed, download,
                 playing, adopted, faults>>

ForceEnd(i) == ending' = ending \ {i}

\* killDelay: SIGKILL.
StopKill ==
  /\ stop = "term" /\ child \in ending /\ stop' = "killed" /\ ForceEnd(child)
  /\ UNCHANGED <<phase, up, mine, lossless, spawned, child, starting, timer, failed, download,
                 playing, adopted, faults>>

Leaves(how) ==
  /\ phase' = how /\ child' = None /\ starting' = "no" /\ timer' = FALSE /\ stop' = "no"
  /\ fetch' = NotFetching
  /\ UNCHANGED <<up, ending, mine, lossless, spawned, failed, libs, onPause, playing, adopted>>

\* app.exit, when stop() is over.
Exit ==
  /\ phase = "stopping" /\ starting = "no"
  /\ child = None \/ stop = "killed" \/ (stop = "term" /\ child \notin Alive)
  /\ Leaves("exited") /\ UNCHANGED faults

AppCrashes == phase \in {"up", "quitting", "stopping"} /\ Fault /\ Leaves("crashed")

-----------------------------------------------------------------------------
Starting == RecoverOrphan \/ OrphanEnds \/ Spawn \/ StartFails \/ Restart
Stopping == Stop \/ StopTerm \/ StopKill \/ Exit
Ending == \E i \in 1..MaxEngines : EngineEnds(i)
Downloading == DownloadEnds \/ \E f \in Files : Fetched(f)
Next ==
  \/ Starting \/ Stopping \/ Ending \/ Downloading \/ Launch \/ BeforeQuit \/ AppCrashes
  \/ (\E i \in 1..MaxEngines : EngineCrashes(i)) \/ (\E now \in BOOLEAN : PlayerIs(now))

\* Timers, downloads and a process told to end get on; nobody has to launch, quit or pause.
Fairness ==
  /\ WF_vars(Starting) /\ WF_vars(Stopping) /\ WF_vars(Downloading)
  /\ \A i \in 1..MaxEngines : WF_vars(EngineEnds(i))

Spec == Init /\ [][Next]_vars /\ Fairness

-----------------------------------------------------------------------------
(* Properties. *)

TypeOK ==
  /\ phase \in {"up", "quitting", "stopping", "exited", "crashed"}
  /\ up \intersect ending = {} /\ Alive \union mine \union lossless \subseteq 1..spawned
  /\ child \in mine \union {None} /\ starting \in {"no", "recover", "killing", "port"}
  /\ stop \in {"no", "term", "killed"} /\ libs \subseteq Files
  /\ fetch = NotFetching \/ fetch \subseteq Files

\* Two engines never run at once, which would let both own the Apple session: an orphan of a
\* crashed app is gone before the next engine starts, and a restart follows an exit.
OneEngine == adopted => \A i, j \in Alive : i = j

\* An app that has quit leaves no engine of its own behind, whatever was starting, restarting
\* or reloading when it quit.
QuitLeavesNoEngine == phase = "exited" => mine \intersect Alive = {}

\* Why: an engine of this run that lives is the lifecycle's child, which is none while a start
\* is under way; an app that has ended starts nothing; and the port is waited for only once the
\* orphans are gone.
Gone == phase \in {"exited", "crashed"}
MineIsTheChild == ~Gone => mine \intersect Alive \subseteq {child}
ChildLives == child # None => child \in Alive \/ stop = "killed"
StartsAlone ==
  /\ starting # "no" => child = None
  /\ Gone => starting = "no" /\ ~timer
OrphansGoFirst ==
  adopted => /\ starting = "killing" => up = {}
             /\ starting = "port" => Alive = {}
             /\ \A i, j \in Alive : i = j
StopsTheChild ==
  /\ stop # "no" => phase = "stopping" /\ child \notin up
  /\ stop = "killed" => child \notin ending
IInv == /\ TypeOK /\ spawned \in 0..MaxEngines /\ MineIsTheChild /\ ChildLives
        /\ StartsAlone /\ OrphansGoFirst /\ StopsTheChild /\ QuitLeavesNoEngine

AppIsUp      == phase = "up"
EngineIsBack == child # None \/ failed \/ spawned = MaxEngines

\* While the app stays up, the engine comes back, unless the user was told that it cannot.
EngineComesBack == <>[]AppIsUp => []<>EngineIsBack

MayReload       == phase = "up" /\ libs = Files /\ ~playing
LosslessIsThere == child \in lossless \/ failed \/ spawned = MaxEngines

\* Once the libraries are complete and nothing plays, lossless playback becomes available
\* without a new launch.
LosslessArrives == <>[]MayReload => []<>LosslessIsThere

\* The cleanup removes only what "nothing reads".
LibrariesSurviveStart == [][libs = Files => libs' = Files]_vars
=============================================================================
