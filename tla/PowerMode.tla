------------------------------ MODULE PowerMode ------------------------------
(***************************************************************************)
(* How fast the page's timers run (engine-playback.js): a mode derived from  *)
(* the battery, held up by the system's power profile, lowered by a probe of *)
(* the frame rate.  The profile is read again when the window is looked at.   *)
(***************************************************************************)
EXTENDS Naturals, FiniteSets

CONSTANTS MaxChanges  \* bound: changes of battery and profile, and looks at the window

PowerAssumption == MaxChanges \in Nat

VARIABLES
  charging, level,  \* _isCharging ("unknown" before the battery answers) and _lastBatLevel: "none", "low", "high"
  profile, floor,   \* the system's profile, and _sysPowerFloor
  reads,            \* reads of the profile on their way, with what was read
  mode,             \* _powerMode
  probe,            \* the jitter probe: "waits", "measures", "done"
  poll,             \* the mode whose interval the poll of libvlc runs at, "off" without one
  held,             \* history: the mode when the floor was last raised to full
  changes

vars == <<charging, level, profile, floor, reads, mode, probe, poll, held, changes>>

Modes == {"full", "reduced", "minimal"}
Profiles == {"balanced", "quiet", "low-power"}  \* "performance" is as "balanced", "cool" as "quiet"

Init ==
  /\ charging = "unknown" /\ level = "none" /\ profile \in Profiles /\ floor = "none"
  /\ reads = {[n |-> 0, profile |-> profile]} /\ mode = "full" /\ probe = "waits" /\ poll = "off"
  /\ held = "full" /\ changes = 0

Change == changes < MaxChanges /\ changes' = changes + 1

\* startVLCPoll again, at the new interval.
Restarted(m) == IF poll = "off" THEN "off" ELSE m

\* _setPowerMode(m), with the floor and the charging state given.
SetMode(m, f, plugged) ==
  LET n == IF f = "reduced" /\ m = "minimal" THEN "reduced" ELSE m
      refused == \/ f = "full" /\ m # "full"
                 \/ plugged = "yes" /\ n # "full"
  IN IF refused THEN UNCHANGED <<mode, poll>>
     ELSE mode' = n /\ poll' = IF n = mode THEN poll ELSE Restarted(n)

\* _recomputePowerMode.
Recompute(f, plugged, l) ==
  IF plugged = "yes" THEN SetMode("full", f, plugged)
  ELSE IF plugged = "no" /\ l # "none" THEN SetMode(IF l = "high" THEN "reduced" ELSE "minimal", f, plugged)
  ELSE UNCHANGED <<mode, poll>>

\* The battery answers for the first time, or its charging or level changes.
Battery ==
  /\ Change
  /\ charging' \in {"yes", "no"} /\ level' \in {"low", "high"}
  /\ Recompute(floor, charging', level')
  /\ UNCHANGED <<profile, floor, reads, probe, held>>

\* There is no battery to ask.
NoBattery ==
  /\ charging = "unknown" /\ charging' = "yes"
  /\ UNCHANGED <<level, profile, floor, reads, mode, probe, poll, held, changes>>

\* The user chooses another profile, elsewhere; the window is looked at again, and the profile read.
OtherProfile ==
  /\ Change /\ profile' \in Profiles \ {profile}
  /\ UNCHANGED <<charging, level, floor, reads, mode, probe, poll, held>>
Look ==
  /\ Change /\ reads' = reads \union {[n |-> changes', profile |-> profile]}
  /\ UNCHANGED <<charging, level, profile, floor, mode, probe, poll, held>>

FloorOf(p) == CASE p = "balanced" -> "full" [] p = "quiet" -> "reduced" [] OTHER -> "none"

Recomputed(f) == Recompute(f, charging, level)

\* _applySysPowerProfile, in the order the answers come.
ProfileRead(r) ==
  /\ r \in reads /\ reads' = reads \ {r}
  /\ floor' = FloorOf(r.profile) /\ Recomputed(floor')
  /\ held' = IF floor' = "full" /\ floor # "full" THEN mode ELSE held
  /\ UNCHANGED <<charging, level, profile, probe, changes>>

\* probeJitter, 3 s after the start and unless charging; slow frames lower a full mode.
ProbeStarts ==
  /\ probe = "waits" /\ probe' = IF charging = "yes" THEN "done" ELSE "measures"
  /\ UNCHANGED <<charging, level, profile, floor, reads, mode, poll, held, changes>>
ProbeEnds ==
  /\ probe = "measures" /\ probe' = "done"
  /\ \/ mode = "full" /\ SetMode("reduced", floor, charging)
     \/ UNCHANGED <<mode, poll>>
  /\ UNCHANGED <<charging, level, profile, floor, reads, held, changes>>

\* A lossless track starts or ends.
PollStarts == poll = "off" /\ poll' = mode /\ UNCHANGED <<charging, level, profile, floor, reads, mode, probe, held, changes>>
PollStops  == poll # "off" /\ poll' = "off" /\ UNCHANGED <<charging, level, profile, floor, reads, mode, probe, held, changes>>

Next == \/ Battery \/ NoBattery \/ OtherProfile \/ Look \/ (\E r \in reads : ProfileRead(r))
        \/ ProbeStarts \/ ProbeEnds \/ PollStarts \/ PollStops
Spec == Init /\ [][Next]_vars

------------------------------------------------------------------------------
TypeOK ==
  /\ charging \in {"unknown", "yes", "no"} /\ level \in {"none", "low", "high"}
  /\ profile \in Profiles /\ floor \in {"none", "full", "reduced"} /\ mode \in Modes
  /\ probe \in {"waits", "measures", "done"} /\ poll \in Modes \union {"off"} /\ changes \in 0 .. MaxChanges
  /\ reads \subseteq [n : 0 .. MaxChanges, profile : Profiles] /\ held \in Modes

\* What the battery asks for.
Asked == IF charging = "yes" THEN "full"
         ELSE IF level = "high" \/ floor = "reduced" THEN "reduced" ELSE "minimal"

(* The mode is the battery's, in whatever order battery, profile and probe     *)
(* reported.  Only a profile that forbids to lower it may keep another: "full",  *)
(* or the mode that was lowered before the profile was known to be that one      *)
(* (154), and neither while the charger is in.  A poll of libvlc that was under   *)
(* way when the mode changed runs at the interval of the new one.                 *)
ModeIsTheBatterys ==
  /\ level # "none" =>
       \/ mode = Asked
       \/ floor = "full" /\ charging = "no" /\ mode \in {"full", held}
  /\ poll \in {"off", mode}

\* The inductive invariant: a battery that told its level told whether it charges, and under a full
\* floor, charger or not, the mode is full or the one of when the floor was raised.
IInv == /\ TypeOK /\ ModeIsTheBatterys /\ (level # "none" => charging # "unknown")
        /\ floor = "full" => mode \in {"full", held}

(* Expected to fail.  "performance / balanced profile: never throttle below   *)
(* full" (engine-playback.js:145): a mode that is lowered when the profile     *)
(* becomes balanced stays lowered, as _setPowerMode returns at once (154).     *)
FloorIsKept == floor = "full" => mode = "full"
==============================================================================
