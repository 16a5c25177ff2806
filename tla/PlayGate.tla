------------------------------ MODULE PlayGate ------------------------------
(***************************************************************************)
(* A click on a play button of Apple's page (engine-playback.js, the click *)
(* listener of setup and what it installs).  The click opens a gate, for   *)
(* MusicKit may then touch the audio element, and wraps MusicKit's methods, *)
(* so that the move Apple's own handler asks for is made by Adam.  The gate *)
(* is closed, and the methods are put back, by whoever comes first: the     *)
(* track, the move, a timer, a rejected call or the valve of a slow move.   *)
(***************************************************************************)
EXTENDS Naturals, FiniteSets

CONSTANTS MaxClicks,  \* bound: clicks, each of which may wrap the methods
          MaxMoves,   \* bound: presses of next
          MaxFaults,  \* bound: calls MusicKit answers with no track
  MaxWrongs   \* bound: wrong tracks that come during a move

Layers == 1..MaxClicks
Apple == 0      \* MusicKit's own methods; a layer is known by the click that made it

VARIABLES
  g,       \* the gate, the methods and the move: see State
  kind,    \* the layers: of an AAC or of a VLC click, or not there yet
  under,   \* what was the method when the layer was put on it
  clicks, moves, faults, wrongs

vars == <<g, kind, under, clicks, moves, faults, wrongs>>

\* allow: _allowCDNTransition.  api: the methods of mk.  savedA, savedV: the methods that
\* _savedAacApiRestore and _mkApiSaved put back, if any.  known: the click's song is known.
\* lock, target, valve: _adamAdvancing, _adamGotoTarget and its timer.  direct: the song is
\* being opened at once.  calls: what is in flight.
State ==
  [vlc : BOOLEAN, allow : BOOLEAN, timer : {"none", "aac", "vlc"}, api : 0..MaxClicks,
   savedA : SUBSET (0..MaxClicks), savedV : SUBSET (0..MaxClicks), known : BOOLEAN,
   lock : BOOLEAN, target : BOOLEAN, valve : BOOLEAN, direct : BOOLEAN,
   calls : SUBSET ({"asked", "mk", "move", "retry", "vlcFetch"} \X (0..MaxClicks) \union ({"fetch"} \X Layers))]

Init ==
  /\ \E v \in BOOLEAN :
       g = [vlc |-> v, allow |-> FALSE, timer |-> "none", api |-> Apple, savedA |-> {}, savedV |-> {},
            known |-> FALSE, lock |-> FALSE, target |-> FALSE, valve |-> FALSE, direct |-> FALSE,
            calls |-> {}]
  /\ kind = [k \in Layers |-> "none"] /\ under = [k \in Layers |-> Apple]
  /\ clicks = 0 /\ moves = 0 /\ faults = 0 /\ wrongs = 0

-----------------------------------------------------------------------------
(* Closing the gate. *)

PutBack(saved, api) == IF saved = {} THEN api ELSE CHOOSE k \in saved : TRUE

RestoreVlc(s) == [s EXCEPT !.api = PutBack(s.savedV, s.api), !.savedV = {}]
\* Mutant: what is saved is forgotten, not put back.
ForgetAac(s) == [s EXCEPT !.savedA = {}]
RestoreAac(s) == [s EXCEPT !.api = PutBack(s.savedA, s.api), !.savedA = {}]

\* _aacCloseGate
AacCloseGate(s) == [RestoreAac(s) EXCEPT !.timer = "none", !.allow = FALSE, !.known = FALSE]

\* The timer of a VLC click, and the track that ends it.
VlcCloseGate(s) == [RestoreVlc(s) EXCEPT !.timer = "none", !.allow = FALSE, !.known = FALSE]

\* _closeCDNGate
CloseCDNGate(s) == IF s.allow THEN AacCloseGate(RestoreVlc(s)) ELSE s

-----------------------------------------------------------------------------
(* The moves. *)

InFlight(s, c, k) == [s EXCEPT !.calls = s.calls \union {<<c, k>>}]

\* _clearAdvancing
Unlocked(s) == [s EXCEPT !.lock = FALSE, !.valve = FALSE]

\* VLC is stopped and left to MusicKit.
Teardown(s) == [VlcCloseGate(s) EXCEPT !.vlc = FALSE]

\* The queue rebuilt by setQueue, which a layer still there intercepts: an AAC layer takes it
\* for a click of its own, finds the move busy and does nothing; a VLC layer does the same and
\* returns no promise, which ends _adamGoto with the lock held.
Rebuilt(s) ==
  CASE s.api = Apple -> InFlight(s, "move", Apple)
    [] s.api # Apple /\ kind[s.api] = "aac" -> [Unlocked(AacCloseGate(s)) EXCEPT !.allow = TRUE]
    [] s.api # Apple /\ kind[s.api] = "vlc" ->
         IF s.known \/ s.savedV = {} THEN s
         ELSE InFlight(Teardown(s), "move", Apple)

\* _adamGoto: nothing while a move is going on; otherwise to a track of MusicKit's queue, or
\* by a new queue.
Goto(s) ==
  IF s.lock THEN {s}
  ELSE LET m == [s EXCEPT !.lock = TRUE, !.target = TRUE, !.valve = TRUE, !.vlc = FALSE]
       IN {InFlight(m, "move", Apple), Rebuilt(m)}

\* _ownedGoto: the gate is closed for the methods' sake and opened again for the move.
OwnedGoto(s) == Goto([AacCloseGate(s) EXCEPT !.allow = TRUE])

\* _vlcGotoById: the song of the click is in the queue, or it is not.
VlcGotoById(s) == IF s.known THEN Goto(s) ELSE {}

\* setQueue of a layer, called by Apple's handler or by the layer above.
SetQueue[k \in 0..MaxClicks, s \in State] ==
  IF k = Apple THEN {InFlight(s, "mk", Apple)}
  ELSE IF kind[k] = "aac"
  THEN \* owned at once; after its tracks are fetched; or passed on
       OwnedGoto(s) \union {InFlight([s EXCEPT !.timer = "aac"], "fetch", k)}
         \union SetQueue[under[k], [s EXCEPT !.timer = "aac"]]
  ELSE IF s.savedV = {} THEN {s}   \* it throws
  ELSE \* the song is known to the queue; its playlist is fetched; or VLC is left for MusicKit
       VlcGotoById(s) \union {InFlight(s, "vlcFetch", Apple)}
         \union SetQueue[PutBack(s.savedV, Apple), Teardown(s)]

-----------------------------------------------------------------------------
(* Clicks. *)

Wrap(k, mode) == kind' = [kind EXCEPT ![k] = mode] /\ under' = [under EXCEPT ![k] = g.api]

\* In AAC mode: the methods are saved first, a leftover of the click before is cleared then.
\* The song, if the click names it, is opened at once, and MusicKit is told to play it.
ClickAac ==
  /\ ~g.vlc /\ ~g.allow /\ clicks < MaxClicks /\ clicks' = clicks + 1 /\ Wrap(clicks', "aac")
  /\ \E known \in BOOLEAN :
       LET s == [g EXCEPT !.allow = TRUE, !.timer = "aac", !.api = clicks', !.savedA = {g.api},
                          !.known = known, !.direct = g.direct \/ known,
                          !.calls = g.calls \union {<<"asked", Apple>>}]
       IN g' \in IF known /\ g.api = Apple THEN {InFlight(s, "mk", Apple)} ELSE {s}
  /\ UNCHANGED <<moves, faults, wrongs>>

\* In VLC mode, unless the methods are wrapped already.
ClickVlc ==
  /\ g.vlc /\ g.savedV = {} /\ clicks < MaxClicks /\ clicks' = clicks + 1 /\ Wrap(clicks', "vlc")
  /\ \E known \in BOOLEAN :
       g' = [g EXCEPT !.allow = TRUE, !.timer = "vlc", !.api = clicks', !.savedV = {g.api},
                      !.known = known, !.calls = g.calls \union {<<"asked", Apple>>}]
  /\ UNCHANGED <<moves, faults, wrongs>>

\* Apple's own handler of the click.
Asked ==
  /\ <<"asked", Apple>> \in g.calls
  /\ LET s == [g EXCEPT !.calls = g.calls \ {<<"asked", Apple>>}] IN g' \in SetQueue[s.api, s]
  /\ UNCHANGED <<kind, under, clicks, moves, faults, wrongs>>

\* The tracks of an album or a playlist are there, or not.
Fetched(k) ==
  /\ <<"fetch", k>> \in g.calls
  /\ LET s == [g EXCEPT !.calls = g.calls \ {<<"fetch", k>>}]
     IN g' \in OwnedGoto(s) \union SetQueue[under[k], [s EXCEPT !.timer = "aac"]]
  /\ UNCHANGED <<kind, under, clicks, moves, faults, wrongs>>

\* By then the methods may have been put back, and there is nothing to call.
VlcFetched ==
  /\ <<"vlcFetch", Apple>> \in g.calls
  /\ LET s == [g EXCEPT !.calls = g.calls \ {<<"vlcFetch", Apple>>}]
     IN g' \in IF s.savedV = {} THEN {s} ELSE SetQueue[PutBack(s.savedV, Apple), s]
  /\ UNCHANGED <<kind, under, clicks, moves, faults, wrongs>>

\* Next, previous, or the end of a track, which an open gate suppresses.
Move ==
  /\ moves < MaxMoves /\ moves' = moves + 1 /\ ~g.allow /\ g' \in Goto(g)
  /\ UNCHANGED <<kind, under, clicks, faults, wrongs>>

-----------------------------------------------------------------------------
(* What ends it. *)

\* nowPlayingItemDidChange with the track: the methods of a VLC click are put back, the gate
\* is closed, and the track is opened - as lossless, as AAC, or it already is being opened.
Arrives(s) ==
  LET a == [Unlocked(s) EXCEPT !.target = FALSE]
      b == IF a.savedV = {} THEN a ELSE VlcCloseGate(a)
      c == CloseCDNGate(b)
  IN {[c EXCEPT !.vlc = v, !.allow = IF v THEN FALSE ELSE c.allow] : v \in BOOLEAN}
       \union IF c.direct THEN {[RestoreAac(c) EXCEPT !.timer = "none"]} ELSE {}

\* MusicKit answers a call of its own: with the track, with a rejection, or never.
MkAnswers ==
  /\ <<"mk", Apple>> \in g.calls
  /\ LET s == [g EXCEPT !.calls = g.calls \ {<<"mk", Apple>>}]
     IN \/ g' \in Arrives(s) /\ UNCHANGED faults
        \/ /\ faults < MaxFaults /\ faults' = faults + 1
           /\ g' \in {s, IF s.savedA = {} THEN s ELSE AacCloseGate(s)}
  /\ UNCHANGED <<kind, under, clicks, moves, wrongs>>

\* It answers a move: with the track, or the lock is free and no track comes.
MoveAnswers ==
  /\ <<"move", Apple>> \in g.calls
  /\ LET s == Unlocked([g EXCEPT !.calls = g.calls \ {<<"move", Apple>>}])
     IN \/ g' \in Arrives(s) /\ UNCHANGED faults
        \/ faults < MaxFaults /\ faults' = faults + 1 /\ g' = s
  /\ UNCHANGED <<kind, under, clicks, moves, wrongs>>

\* A wrong track during a move: dropped, the gate closed, and the move tried again.
Spurious ==
  /\ g.target /\ wrongs < MaxWrongs /\ wrongs' = wrongs + 1
  /\ IF g.allow \/ g.savedV # {}
     THEN LET s == [RestoreVlc(g) EXCEPT !.allow = FALSE, !.timer = "none"]
          IN g' = IF s.lock THEN s ELSE InFlight(s, "retry", Apple)
     ELSE UNCHANGED g
  /\ UNCHANGED <<kind, under, clicks, moves, faults>>

Retry ==
  /\ <<"retry", Apple>> \in g.calls
  /\ g' \in Goto([g EXCEPT !.calls = g.calls \ {<<"retry", Apple>>}])
  /\ UNCHANGED <<kind, under, clicks, moves, faults, wrongs>>

\* The song opened at once is there: the gate is closed, the methods are left to the track.
DirectOpens ==
  /\ g.direct /\ g' \in {[g EXCEPT !.direct = FALSE, !.allow = FALSE], [g EXCEPT !.direct = FALSE]}
  /\ UNCHANGED <<kind, under, clicks, moves, faults, wrongs>>

TimerFires ==
  /\ g.timer # "none" /\ g' = IF g.timer = "aac" THEN AacCloseGate(g) ELSE VlcCloseGate(g)
  /\ UNCHANGED <<kind, under, clicks, moves, faults, wrongs>>

\* The valve of a move that takes 6 s.
Valve ==
  /\ g.valve /\ g' = [Unlocked(g) EXCEPT !.target = FALSE, !.allow = FALSE]
  /\ UNCHANGED <<kind, under, clicks, moves, faults, wrongs>>

Answers == Asked \/ (\E k \in Layers : Fetched(k)) \/ VlcFetched \/ MkAnswers \/ MoveAnswers \/ Retry \/ DirectOpens
Next == ClickAac \/ ClickVlc \/ Move \/ Answers \/ Spurious \/ TimerFires \/ Valve

Spec == Init /\ [][Next]_vars /\ WF_vars(Answers) /\ WF_vars(TimerFires) /\ WF_vars(Valve)

-----------------------------------------------------------------------------
(* Properties. *)

TypeOK == g \in State

Quiet == ~g.allow /\ g.timer = "none" /\ g.calls = {} /\ ~g.lock /\ ~g.target

\* "clear any leftover from previous click": with the gate closed and nothing under way
\* MusicKit's methods are its own.
LeftoversAreCleared == Quiet => g.api = Apple

AtMostOneClick   == clicks <= 1 /\ wrongs = 0
MethodsAreApples == g.api = Apple

\* After a single click, and no wrong track, MusicKit's own methods are back in the end,
\* whoever closes the gate, and whether MusicKit answers or not.
MethodsComeBack == []AtMostOneClick => []<>MethodsAreApples

NoMove == ~g.lock

\* Whatever a layer does with a move, and whether MusicKit answers or not, next and previous
\* work again.
MoveEnds == []<>NoMove
=============================================================================
