---------------------------- MODULE UserCommands ----------------------------
(***************************************************************************)
(* What the user asks for outside Apple's own controls (engine-playback.js):  *)
(* keyboard shortcuts, whose keys can be changed in the settings; commands of *)
(* the desktop's media controls and of the mini player; and the heart, which  *)
(* is Apple's rating, kept in a cache, shown to the desktop and the mini      *)
(* player.  MusicKit tells of changes by events.                              *)
(***************************************************************************)
EXTENDS Naturals, FiniteSets

CONSTANTS
  Songs,       \* bound: the queue is songs 1..Songs
  Actions,     \* _HOTKEY_ACTIONS: "love" is one
  Keys,        \* keys pressed
  Default,     \* the key of each action by default
  Escape,      \* the key that ends a capture
  MaxUser,     \* bound: commands, key changes and dialogs
  MaxFaults    \* bound: requests that fail, and ratings changed elsewhere

CommandsAssumption ==
  /\ Songs \in Nat \ {0} /\ MaxUser \in Nat /\ MaxFaults \in Nat
  /\ "none" \notin Actions /\ Default \in [Actions -> Keys]

VARIABLES
  item, current,       \* mk.nowPlayingItem, and _currentAssetId, which follows it
  playing, deep,       \* the player plays; it is past 3 s of the song
  repeat, shuffle,     \* mk.repeatMode (0 none, 1 one, 2 all) and mk.shuffleMode
  events,              \* MusicKit's events not heard yet: "item", "repeat", "shuffle"
  rated, loved,        \* Apple's ratings, and _lovedState: "unknown", "yes", "no"
  toggles,             \* _toggleLove under way: [id, song, from, pc, want]
  suspect,             \* songs whose cached rating the page cannot know to be wrong (ghost)
  desktop, mini,       \* what they show: [song, rating]; [open, heart, repeat, shuffle]
  enabled, bindings,   \* _hotkeysEnabled and _hotkeyBindings, which are stored at each change
  capture, labels,     \* _hotkeyCapture: the action, on the present buttons or not; the buttons' text
  mixed,               \* a second capture, or a rebuilt dialog, took over from one (ghost)
  dialog, user, faults

player == <<item, current, playing, deep, repeat, shuffle, events>>
love   == <<rated, loved, toggles, suspect>>
shown  == <<desktop, mini>>
keys   == <<enabled, bindings, capture, labels, mixed, dialog>>
vars   == <<player, love, shown, keys, user, faults>>

Queue == 1 .. Songs
NoCapture == [action |-> "none", live |-> FALSE]
Asking == "Press a key"

Init ==
  /\ item = 1 /\ current = 1 /\ playing = FALSE /\ deep = FALSE /\ repeat = 0 /\ shuffle = FALSE /\ events = {}
  /\ rated \in [Queue -> BOOLEAN] /\ loved = [s \in Queue |-> "unknown"] /\ toggles = {} /\ suspect = {}
  /\ desktop = [song |-> 1, rating |-> "unknown"]
  /\ mini = [open |-> FALSE, heart |-> FALSE, repeat |-> 0, shuffle |-> FALSE]
  /\ enabled = TRUE /\ bindings = Default
  /\ capture = NoCapture /\ labels = Default /\ mixed = FALSE /\ dialog = FALSE
  /\ user = 0 /\ faults = 0

Act   == user < MaxUser /\ user' = user + 1
Fault == faults < MaxFaults /\ faults' = faults + 1
YesNo(b) == IF b THEN "yes" ELSE "no"

\* sendMprisMetadata of a song, with the cached love.
Metadata(s, cached) == [song |-> s, rating |-> cached[s]]

\* _pushMiniState.
MiniState(cached, r) == [mini EXCEPT !.heart = (cached[current] = "yes"), !.repeat = r, !.shuffle = shuffle]

------------------------------------------------------------------------------
\* _toggleLove: unknown, the rating is asked for first.
ToggleLove(from) ==
  /\ toggles' = toggles \union {[id |-> user', song |-> current, from |-> from,
                                 pc |-> IF loved[current] = "unknown" THEN "read" ELSE "write",
                                 want |-> loved[current] # "yes"]}
  /\ suspect' = IF \E t \in toggles : t.song = current THEN suspect \union {current} ELSE suspect
  /\ UNCHANGED <<rated, loved>>

\* The rating is read; one that cannot be is taken for none.
RatingRead(t) ==
  /\ t \in toggles /\ t.pc = "read"
  /\ \/ toggles' = (toggles \ {t}) \union {[t EXCEPT !.pc = "write", !.want = ~rated[t.song]]} /\ UNCHANGED faults
     \/ toggles' = (toggles \ {t}) \union {[t EXCEPT !.pc = "write", !.want = TRUE]} /\ Fault
  /\ UNCHANGED <<player, rated, loved, suspect, shown, keys, user>>

\* Apple records the rating.
RatingWritten(t) ==
  /\ t \in toggles /\ t.pc = "write"
  /\ toggles' = (toggles \ {t}) \union {[t EXCEPT !.pc = "answer"]}
  /\ rated' = [rated EXCEPT ![t.song] = t.want]
  /\ UNCHANGED <<player, loved, suspect, shown, keys, user, faults>>

\* After a command the mini player's state is pushed, whether the toggle succeeded or not.
PushedAfter(t, cached) == IF t.from = "command" THEN MiniState(cached, repeat) ELSE mini

\* _reemitMpris sends the song that plays now.
Reemit(t) == item

\* The answer: the cache follows, the desktop is sent the song that plays.
RatingAnswered(t) ==
  /\ t \in toggles /\ t.pc = "answer" /\ toggles' = toggles \ {t}
  /\ loved' = [loved EXCEPT ![t.song] = YesNo(t.want)]
  /\ desktop' = Metadata(Reemit(t), loved')
  /\ mini' = PushedAfter(t, loved')
  /\ UNCHANGED <<player, rated, suspect, keys, user, faults>>

AfterFailure(t) == loved

\* The request fails, before or after Apple recorded the rating.
RatingFails(t) ==
  /\ t \in toggles /\ t.pc \in {"write", "answer"} /\ Fault /\ toggles' = toggles \ {t}
  /\ loved' = AfterFailure(t) /\ mini' = PushedAfter(t, loved')
  /\ suspect' = IF t.pc = "answer" THEN suspect \union {t.song} ELSE suspect
  /\ UNCHANGED <<player, rated, desktop, keys, user>>

\* The user rates a song with Apple's own button, or on another device.
RatedElsewhere ==
  /\ Fault /\ \E s \in Queue : rated' = [rated EXCEPT ![s] = ~@] /\ suspect' = suspect \union {s}
  /\ UNCHANGED <<player, loved, toggles, shown, keys, user>>

------------------------------------------------------------------------------
\* MusicKit's player.
Play(on)   == playing' = on /\ UNCHANGED <<item, current, deep, repeat, shuffle, events>>
SeekTo(d)  == deep' = d /\ UNCHANGED <<item, current, playing, repeat, shuffle, events>>
MoveTo(s)  == /\ item' = s /\ deep' = FALSE /\ events' = events \union {"item"}
              /\ UNCHANGED <<current, playing, repeat, shuffle>>
Repeat(r)  == /\ repeat' = r /\ events' = (IF r = repeat THEN events ELSE events \union {"repeat"})
              /\ UNCHANGED <<item, current, playing, deep, shuffle>>
Shuffle(b) == /\ shuffle' = b /\ events' = (IF b = shuffle THEN events ELSE events \union {"shuffle"})
              /\ UNCHANGED <<item, current, playing, deep, repeat>>

\* nowPlayingItemDidChange: the metadata.
HearItem ==
  /\ "item" \in events /\ events' = events \ {"item"} /\ desktop' = Metadata(item, loved)
  /\ UNCHANGED <<item, current, playing, deep, repeat, shuffle, mini, love, keys, user, faults>>

\* The track is set up, and broadcast (_broadcastNowPlaying).
TrackSet ==
  /\ "item" \notin events /\ current # item /\ current' = item
  /\ mini' = [mini EXCEPT !.heart = (loved[item] = "yes"), !.repeat = repeat, !.shuffle = shuffle]
  /\ UNCHANGED <<item, playing, deep, repeat, shuffle, events, desktop, love, keys, user, faults>>

RepeatHeard == [mini EXCEPT !.repeat = repeat]

\* repeatModeDidChange and shuffleModeDidChange.
HearRepeat  == /\ "repeat" \in events /\ events' = events \ {"repeat"} /\ mini' = RepeatHeard
               /\ UNCHANGED <<item, current, playing, deep, repeat, shuffle, desktop, love, keys, user, faults>>
HearShuffle == /\ "shuffle" \in events /\ events' = events \ {"shuffle"} /\ mini' = [mini EXCEPT !.shuffle = shuffle]
               /\ UNCHANGED <<item, current, playing, deep, repeat, shuffle, desktop, love, keys, user, faults>>

\* The page's own controls.
PageControls ==
  /\ Act /\ \/ \E s \in Queue \ {item} : MoveTo(s)
            \/ \E r \in 0 .. 2 \ {repeat} : Repeat(r)
            \/ Shuffle(~shuffle)
            \/ SeekTo(TRUE)
  /\ UNCHANGED <<love, shown, keys, faults>>

\* The next mode of the mini player's repeat button.
Cycled == CASE repeat = 0 -> 2 [] repeat = 2 -> 1 [] OTHER -> 0

\* onMprisCmd.
Command ==
  /\ Act
  /\ \/ ToggleLove("command") /\ UNCHANGED <<player, shown>>
     \/ Play(~playing) /\ UNCHANGED <<love, shown>>
     \/ \E d \in BOOLEAN : SeekTo(d) /\ UNCHANGED <<love, shown>>
     \/ item < Songs /\ MoveTo(item + 1) /\ UNCHANGED <<love, shown>>
     \/ (IF deep THEN SeekTo(FALSE) ELSE item > 1 /\ MoveTo(item - 1)) /\ UNCHANGED <<love, shown>>
     \/ Repeat(Cycled) /\ mini' = MiniState(loved, Cycled) /\ UNCHANGED <<love, desktop>>
     \/ \E r \in 0 .. 2 : Repeat(r) /\ mini' = MiniState(loved, r) /\ UNCHANGED <<love, desktop>>
     \/ Shuffle(~shuffle) /\ UNCHANGED <<love, shown>>
  /\ UNCHANGED <<keys, faults>>

\* The mini player opens, and main asks for everything (onMiniSync).
OpenMini ==
  /\ Act /\ ~mini.open /\ desktop' = Metadata(item, loved)
  /\ mini' = [MiniState(loved, repeat) EXCEPT !.open = TRUE]
  /\ UNCHANGED <<player, love, keys, faults>>

------------------------------------------------------------------------------
\* _hotkeyRun.
Run(a) ==
  IF a = "love" THEN ToggleLove("key") /\ UNCHANGED player
  ELSE UNCHANGED love /\ (Play(~playing) \/ \E d \in BOOLEAN : SeekTo(d))

\* A key goes to the capture if there is one, else to the action bound to it.
Captured(k) ==
  LET a == capture.action
      b == IF k = Escape THEN bindings ELSE [bindings EXCEPT ![a] = k]
  IN /\ capture' = NoCapture /\ bindings' = b
     /\ labels' = IF capture.live THEN [labels EXCEPT ![a] = b[a]] ELSE labels
     /\ UNCHANGED <<player, love, enabled, mixed, dialog>>

Press(k) ==
  /\ Act
  /\ IF capture.action # "none" THEN Captured(k)
     ELSE /\ enabled /\ \E a \in Actions : bindings[a] = k /\ Run(a)
          /\ UNCHANGED keys
  /\ UNCHANGED <<shown, faults>>

\* The settings' section is built, again if the dialog was open: new buttons, the capture stays.
OpenSettings ==
  /\ Act /\ dialog' = TRUE /\ labels' = bindings
  /\ capture' = [capture EXCEPT !.live = FALSE] /\ mixed' = (mixed \/ capture.action # "none")
  /\ UNCHANGED <<player, love, shown, enabled, bindings, faults>>

\* closeSettings cancels a pending capture.
CaptureClosed == NoCapture
CloseSettings ==
  /\ dialog /\ dialog' = FALSE /\ capture' = CaptureClosed /\ mixed' = FALSE
  /\ UNCHANGED <<player, love, shown, enabled, bindings, labels, user, faults>>

\* A press of an action's button.
AskKey(a) ==
  /\ Act /\ dialog /\ capture' = [action |-> a, live |-> TRUE] /\ labels' = [labels EXCEPT ![a] = Asking]
  /\ mixed' = (mixed \/ capture.action \notin {"none", a})
  /\ UNCHANGED <<player, love, shown, enabled, bindings, dialog, faults>>

\* Reset to defaults.
ResetKeys ==
  /\ Act /\ dialog /\ bindings' = Default /\ labels' = Default
  /\ UNCHANGED <<player, love, shown, enabled, capture, mixed, dialog, faults>>

\* The toggle of all shortcuts.
Enable ==
  /\ Act /\ dialog /\ enabled' = ~enabled
  /\ UNCHANGED <<player, love, shown, bindings, capture, labels, mixed, dialog, faults>>

Answers == \E t \in toggles : RatingRead(t) \/ RatingWritten(t) \/ RatingAnswered(t) \/ RatingFails(t)
Hears   == HearItem \/ TrackSet \/ HearRepeat \/ HearShuffle
Next == \/ Answers \/ Hears \/ RatedElsewhere \/ PageControls \/ Command \/ OpenMini
        \/ (\E k \in Keys : Press(k)) \/ OpenSettings \/ CloseSettings
        \/ (\E a \in Actions : AskKey(a)) \/ ResetKeys \/ Enable
Spec == Init /\ [][Next]_vars

------------------------------------------------------------------------------
Ratings    == {"unknown", "yes", "no"}
Toggles    == [id : Nat, song : Queue, from : {"key", "command"}, pc : {"read", "write", "answer"},
               want : BOOLEAN]
MiniStates == [open : BOOLEAN, heart : BOOLEAN, repeat : 0 .. 2, shuffle : BOOLEAN]
Captures   == [action : Actions \union {"none"}, live : BOOLEAN]

TypeOK ==
  /\ item \in Queue /\ current \in Queue /\ repeat \in 0 .. 2
  /\ playing \in BOOLEAN /\ deep \in BOOLEAN /\ shuffle \in BOOLEAN
  /\ events \subseteq {"item", "repeat", "shuffle"}
  /\ rated \in [Queue -> BOOLEAN] /\ loved \in [Queue -> Ratings] /\ toggles \subseteq Toggles
  /\ suspect \subseteq Queue /\ desktop \in [song : Queue, rating : Ratings] /\ mini \in MiniStates
  /\ enabled \in BOOLEAN /\ bindings \in [Actions -> Keys]
  /\ capture \in Captures /\ labels \in [Actions -> Keys \union {Asking}]
  /\ mixed \in BOOLEAN /\ dialog \in BOOLEAN
  /\ user \in 0 .. MaxUser /\ faults \in 0 .. MaxFaults

(* The heart is Apple's: with nothing under way, the cached rating of a song  *)
(* is the recorded one, unless toggles of it overlapped, an answer was lost   *)
(* or it was rated elsewhere; a failed toggle leaves it as it was.            *)
LovedIsRated ==
  \A s \in Queue \ suspect :
    loved[s] # "unknown" /\ (\A t \in toggles : t.song # s) => loved[s] = YesNo(rated[s])

(* The desktop shows the song that plays and its cached rating, whichever     *)
(* song the last toggle was for; an open mini player the modes in force.      *)
ShownIsPlayed ==
  /\ "item" \notin events => desktop = Metadata(item, loved)
  /\ mini.open => /\ "repeat" \notin events => mini.repeat = repeat
                  /\ "shuffle" \notin events => mini.shuffle = shuffle

(* A key that was asked for is taken by the dialog that asked: none is taken  *)
(* once it is closed, and while it is open every button says what its action  *)
(* is bound to, except the one that waits.                                    *)
KeysAreTheDialogs ==
  /\ ~dialog => capture = NoCapture
  /\ dialog /\ ~mixed => \A a \in Actions : labels[a] = bindings[a] \/ (labels[a] = Asking /\ capture.action = a)

(* The inductive invariant they follow from. *)

\* A song's rating is written by one toggle, which knows it until it has been answered.
OneToggle ==
  /\ \A t, u \in toggles : t.song = u.song /\ t.song \notin suspect => t = u
  /\ \A t \in toggles : t.pc = "answer" /\ t.song \notin suspect => (rated[t.song] <=> t.want)
  /\ \A s \in Queue \ suspect :
       loved[s] # "unknown" /\ (\A t \in toggles : t.song = s => t.pc # "answer") =>
         loved[s] = YesNo(rated[s])

\* The one capture of a dialog is of its present buttons.
OneCapture == capture.action # "none" /\ ~mixed => capture.live

IInv == TypeOK /\ OneToggle /\ ShownIsPlayed /\ KeysAreTheDialogs /\ OneCapture
==============================================================================
