--------------------------- MODULE MediaControls ---------------------------
(***************************************************************************)
(* The desktop's media controls (electron/main.mjs, the MPRIS part): what  *)
(* the page plays is shown by a player on the session's D-Bus.  The bus    *)
(* can close under the player at any write; the player is then thrown away *)
(* and made again, by a timer or by the page's next update, and what it    *)
(* showed has to be told to it anew.                                       *)
(***************************************************************************)
EXTENDS Naturals

CONSTANTS MaxUpdates,  \* bound: changes of what the page plays
          MaxFaults    \* bound: errors of the bus

ControlsAssumption == MaxUpdates \in Nat

Fields == {"status", "metadata", "volume"}

\* A new player says Stopped, nothing, and full volume.
Blank == [f \in Fields |-> 0]

VARIABLES
  last,       \* what the page said last of each field
  kept,       \* what the main process remembers of it
  playing,    \* the page plays, and so sends its position every second
  player,     \* "none", "handshake" or "up"
  shows,      \* what the player shows
  replays,    \* pending 400 ms timers of replayMprisState
  retry,      \* the reconnect timer, before which no player is made
  uncaught,   \* the "stream is closed" of an earlier write is on its way
  bus, updates, faults

vars == <<last, kept, playing, player, shows, replays, retry, uncaught, bus, updates, faults>>
env == <<bus, updates>>

Init ==
  /\ last = Blank /\ kept = Blank /\ playing = FALSE
  /\ player = "none" /\ shows = Blank /\ replays = 0 /\ retry = FALSE /\ uncaught = FALSE
  /\ bus \in BOOLEAN /\ updates = 0 /\ faults = 0

-----------------------------------------------------------------------------
(* The player. *)

\* createMprisPlayer: not without a session bus, nor before the reconnect timer is over.
CanCreate == bus /\ ~retry

Created(r) == player' = "handshake" /\ shows' = Blank /\ replays' = r

\* _destroyMprisPlayer
Destroyed == player' = "none" /\ shows' = Blank

\* A write to the player: before the handshake is over it may close the stream instead, which
\* is thrown from a socket handler some time later.
Write(fs, from, r) ==
  \/ /\ shows' = [f \in Fields |-> IF f \in fs THEN from[f] ELSE shows[f]]
     /\ replays' = r /\ UNCHANGED <<player, uncaught, faults>>
  \/ /\ player = "handshake" /\ fs # {} /\ faults < MaxFaults /\ faults' = faults + 1
     /\ uncaught' = TRUE /\ replays' = r /\ UNCHANGED <<player, shows>>

Kept(f) == f \in {"status", "metadata"}

\* mpris:update: remember the fields, and write them, or make a player and tell it later.
Update(fs, said) ==
  /\ last' = said
  /\ kept' = [f \in Fields |-> IF f \in fs /\ Kept(f) THEN said[f] ELSE kept[f]]
  /\ IF player # "none" THEN Write(fs, said, replays)
     ELSE /\ IF CanCreate THEN Created(replays + 1) ELSE UNCHANGED <<player, shows, replays>>
          /\ UNCHANGED <<uncaught, faults>>
  /\ UNCHANGED <<retry, bus>>

Changed(fs) == [f \in Fields |-> IF f \in fs THEN updates' ELSE last[f]]

\* The page starts or pauses, opens a track, or changes the volume.
PageChanges ==
  /\ updates < MaxUpdates /\ updates' = updates + 1 /\ replays < 2
  /\ \E f \in Fields : Update({f}, Changed({f})) /\ playing' \in (IF f = "status" THEN BOOLEAN ELSE {playing})

\* The position, every second while the page plays; it is never written to the player.
Tick == playing /\ replays < 2 /\ Update({}, last) /\ UNCHANGED <<playing, updates>>

Handshake ==
  /\ player = "handshake" /\ bus /\ player' = "up"
  /\ UNCHANGED <<last, kept, playing, shows, replays, retry, uncaught, env, faults>>

CreatedAgain == Created(replays + 1)

\* The reconnect timer.
RetryFires ==
  /\ retry /\ replays < 2 /\ retry' = FALSE
  /\ IF player = "none" /\ bus THEN CreatedAgain ELSE UNCHANGED <<player, shows, replays>>
  /\ UNCHANGED <<last, kept, playing, uncaught, env, faults>>

\* replayMprisState's timer tells whichever player there is by then.
Replay ==
  /\ replays > 0
  /\ IF player = "none" THEN replays' = replays - 1 /\ UNCHANGED <<player, shows, uncaught, faults>>
     ELSE Write({f \in Fields : Kept(f) /\ kept[f] # 0}, kept, replays - 1)
  /\ UNCHANGED <<last, kept, playing, retry, env>>

-----------------------------------------------------------------------------
(* The bus. *)

Fault == faults < MaxFaults /\ faults' = faults + 1

\* The player's 'error' event.
BusError ==
  /\ Fault /\ player # "none" /\ Destroyed /\ retry' = TRUE
  /\ UNCHANGED <<last, kept, playing, replays, uncaught, env>>

\* The 'error' event of a player already replaced: the current one stays.
LateError ==
  /\ Fault /\ ~retry /\ retry' = TRUE
  /\ UNCHANGED <<last, kept, playing, player, shows, replays, uncaught, env>>

\* uncaughtException: "stream is closed" or EPIPE throws the current player away, without a
\* timer.
StreamClosed ==
  /\ \/ uncaught /\ uncaught' = FALSE /\ UNCHANGED faults
     \/ player # "none" /\ Fault /\ UNCHANGED uncaught
  /\ Destroyed
  /\ UNCHANGED <<last, kept, playing, replays, retry, env>>

\* The session bus goes, with every player on it, or comes.
BusGoes ==
  /\ Fault /\ bus' = ~bus
  /\ IF bus /\ player # "none" THEN Destroyed /\ retry' = TRUE ELSE UNCHANGED <<player, shows, retry>>
  /\ UNCHANGED <<last, kept, playing, replays, uncaught, updates>>

StreamBreaks == uncaught /\ StreamClosed
Progress == Handshake \/ RetryFires \/ Replay \/ StreamBreaks
Next == PageChanges \/ Tick \/ Progress \/ BusError \/ LateError \/ StreamClosed \/ BusGoes

\* Timers fire, the bus answers, and the page reports its position.
Spec == Init /\ [][Next]_vars
  /\ WF_vars(Handshake) /\ WF_vars(RetryFires) /\ WF_vars(Replay) /\ WF_vars(StreamBreaks)
  /\ WF_vars(Tick)

-----------------------------------------------------------------------------
(* Properties. *)

TypeOK ==
  /\ last \in [Fields -> 0..MaxUpdates] /\ kept \in [Fields -> 0..MaxUpdates]
  /\ shows \in [Fields -> 0..MaxUpdates] /\ updates \in 0..MaxUpdates
  /\ player \in {"none", "handshake", "up"} /\ replays \in 0..2
  /\ playing \in BOOLEAN /\ retry \in BOOLEAN /\ uncaught \in BOOLEAN /\ bus \in BOOLEAN

Plays         == bus /\ playing
ControlsAgree == player = "up" /\ \A p \in {"status", "metadata"} : shows[p] = last[p]

\* While the page plays and the bus stays, the desktop comes to show what is played, whatever
\* closed in between.
ControlsCatchUp == <>[]Plays => <>[]ControlsAgree
=============================================================================
