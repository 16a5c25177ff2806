------------------------------ MODULE Scrobbles ------------------------------
(***************************************************************************)
(* Scrobbling.  The page tells the main process what plays and, once a song's *)
(* threshold has passed, that it was played (engine-playback.js); the main    *)
(* process holds the accounts and posts for them (main.mjs): Last.fm, joined  *)
(* with a token the user approves in a window, and ListenBrainz, joined with  *)
(* a token the user pastes.                                                   *)
(***************************************************************************)
EXTENDS Naturals, FiniteSets

CONSTANTS MaxPlays,  \* bound: songs played
          MaxJoins,  \* bound: tokens asked for or pasted
          MaxFaults  \* bound: calls over the network that fail

ScrobblesAssumption == MaxPlays \in Nat /\ MaxJoins \in Nat

Plays == 1..MaxPlays
Services == {"lastfm", "lb"}
None == 0

VARIABLES
  play,      \* the song that plays
  timers,    \* timeouts set and not cleared, by song
  timer,     \* _scrobbleTimer: the song of the timeout the page knows
  connected, \* _lastfmConnected and _lbConnected
  account,   \* the store: lastfm_sk, lb_token, as the token they came with
  mail,      \* messages to the main process it has not handled
  token,     \* _lastfmPendingToken
  approved,  \* tokens the user approved at Last.fm, or that ListenBrainz knows
  calls,     \* the settings' calls whose answers are awaited: [op, service, token, done, ok]
  heard,     \* history: scrobbles that reached a service, and how often
  joins, faults

vars == <<play, timers, timer, connected, account, mail, token, approved, calls, heard, joins, faults>>

Init ==
  /\ play = None /\ timers = {} /\ timer = None
  /\ connected = [s \in Services |-> FALSE] /\ account = [s \in Services |-> None]
  /\ mail = {} /\ token = None /\ approved = {} /\ calls = {}
  /\ heard = [s \in Services |-> [p \in Plays |-> 0]] /\ joins = 0 /\ faults = 0

Fault == faults < MaxFaults /\ faults' = faults + 1

-----------------------------------------------------------------------------
(* The page. *)

Post(kind, p) == mail' = mail \union {[kind |-> kind, play |-> p, to |-> s] : s \in {x \in Services : connected[x]}}

\* _scrobbleOnTrackChange: a song with no names, or shorter than 30 s, sets no timeout.
Change ==
  /\ play < MaxPlays /\ play' = play + 1
  /\ IF \E s \in Services : connected[s]
     THEN \/ UNCHANGED mail /\ timers' = timers \ {timer} /\ timer' = None
          \/ Post("playing", play') /\ timers' = timers \ {timer} /\ timer' = None
          \/ Post("playing", play') /\ timers' = (timers \ {timer}) \union {play'} /\ timer' = play'
     ELSE timers' = timers \ {timer} /\ timer' = None /\ UNCHANGED mail
  /\ UNCHANGED <<connected, account, token, approved, calls, heard, joins, faults>>

\* The threshold has passed: the services connected now are told.
Threshold(p) ==
  /\ p \in timers /\ timers' = timers \ {p}
  /\ IF timer = p THEN timer' = None /\ Post("scrobble", p) ELSE UNCHANGED <<timer, mail>>
  /\ UNCHANGED <<play, connected, account, token, approved, calls, heard, joins, faults>>

\* The settings' buttons: Connect and Finish connecting (Last.fm), Connect (ListenBrainz), Disconnect.
Ask(op, s, t) ==
  calls' = calls \union {[op |-> op, service |-> s, token |-> t, done |-> FALSE, ok |-> FALSE]}
Busy(s) == \E c \in calls : c.service = s

Join(s) ==
  /\ ~connected[s] /\ ~Busy(s) /\ joins < MaxJoins /\ joins' = joins + 1 /\ Ask("join", s, joins')
  /\ UNCHANGED <<play, timers, timer, connected, account, mail, token, approved, heard, faults>>
Finish ==
  /\ ~connected["lastfm"] /\ ~Busy("lastfm") /\ token # None /\ Ask("session", "lastfm", token)
  /\ UNCHANGED <<play, timers, timer, connected, account, mail, token, approved, heard, joins, faults>>
Disconnect(s) ==
  /\ connected[s] /\ ~Busy(s) /\ Ask("leave", s, None)
  /\ UNCHANGED <<play, timers, timer, connected, account, mail, token, approved, heard, joins, faults>>

\* Their answers: connected once the service accepted, not any more once the account is gone.
Answered(c) ==
  /\ c \in calls /\ c.done /\ calls' = calls \ {c}
  /\ connected' = [connected EXCEPT ![c.service] =
       c.op # "leave" /\ (@ \/ (c.ok /\ (c.op = "session" \/ c.service = "lb")))]
  /\ UNCHANGED <<play, timers, timer, account, mail, token, approved, heard, joins, faults>>

-----------------------------------------------------------------------------
(* The main process. *)

Done(c, ok) == calls' = (calls \ {c}) \union {[c EXCEPT !.done = TRUE, !.ok = ok]}

\* lastfm:auth: a token, whose page is opened for the user.
Auth(c) ==
  /\ c \in calls /\ ~c.done /\ c.op = "join" /\ c.service = "lastfm"
  /\ \/ token' = c.token /\ Done(c, TRUE) /\ UNCHANGED faults
     \/ Fault /\ Done(c, FALSE) /\ UNCHANGED token
  /\ UNCHANGED <<play, timers, timer, connected, account, mail, approved, heard, joins>>

Approve ==
  /\ token # None /\ token \notin approved /\ approved' = approved \union {token}
  /\ UNCHANGED <<play, timers, timer, connected, account, mail, token, calls, heard, joins, faults>>

\* lastfm:session: Last.fm gives a key for an approved token.
Session(c) ==
  /\ c \in calls /\ ~c.done /\ c.op = "session"
  /\ \/ /\ c.token \in approved /\ account' = [account EXCEPT !["lastfm"] = c.token] /\ token' = None
        /\ Done(c, TRUE) /\ UNCHANGED faults
     \/ c.token \notin approved /\ Done(c, FALSE) /\ UNCHANGED <<account, token, faults>>
     \/ Fault /\ Done(c, FALSE) /\ UNCHANGED <<account, token>>
  /\ UNCHANGED <<play, timers, timer, connected, mail, approved, heard, joins>>

\* lb:set-token, then lb:status: kept before it is asked about, and taken for valid when it cannot be.
SetToken(c) ==
  /\ c \in calls /\ ~c.done /\ c.op = "join" /\ c.service = "lb"
  /\ account' = [account EXCEPT !["lb"] = c.token]
  /\ \/ approved' = approved \union {c.token} /\ Done(c, TRUE) /\ UNCHANGED faults
     \/ Done(c, FALSE) /\ UNCHANGED <<approved, faults>>
     \/ Fault /\ Done(c, TRUE) /\ UNCHANGED approved
  /\ UNCHANGED <<play, timers, timer, connected, mail, token, heard, joins>>

\* lastfm:disconnect, lb:disconnect
Leave(c) ==
  /\ c \in calls /\ ~c.done /\ c.op = "leave"
  /\ account' = [account EXCEPT ![c.service] = None] /\ Done(c, TRUE)
  /\ UNCHANGED <<play, timers, timer, connected, mail, token, approved, heard, joins, faults>>

\* lastfm:nowplaying, lastfm:scrobble, lb:...: posted for the account there is, tried once.
Handle(x) ==
  /\ x \in mail /\ mail' = mail \ {x}
  /\ \/ /\ x.kind = "scrobble" /\ account[x.to] # None
        /\ heard' = [heard EXCEPT ![x.to][x.play] = @ + 1] /\ UNCHANGED faults
     \/ (x.kind = "playing" \/ account[x.to] = None) /\ UNCHANGED <<heard, faults>>
     \/ Fault /\ UNCHANGED heard
  /\ UNCHANGED <<play, timers, timer, connected, account, token, approved, calls, joins>>

Next ==
  \/ Change \/ (\E p \in Plays : Threshold(p)) \/ Finish \/ Approve
  \/ \E s \in Services : Join(s) \/ Disconnect(s)
  \/ \E c \in calls : Answered(c) \/ Auth(c) \/ Session(c) \/ SetToken(c) \/ Leave(c)
  \/ \E x \in mail : Handle(x)

Spec == Init /\ [][Next]_vars

-----------------------------------------------------------------------------
(* Properties. *)

Messages == [kind : {"playing", "scrobble"}, play : Plays, to : Services]
CallTypes == [op : {"join", "session", "leave"}, service : Services, token : 0..MaxJoins,
              done : BOOLEAN, ok : BOOLEAN]

TypeOK ==
  /\ play \in 0..MaxPlays /\ timers \subseteq Plays /\ timer \in Plays \union {None}
  /\ connected \in [Services -> BOOLEAN] /\ account \in [Services -> 0..MaxJoins]
  /\ token \in 0..MaxJoins /\ joins \in 0..MaxJoins
  /\ mail \subseteq Messages /\ calls \subseteq CallTypes /\ heard \in [Services -> [Plays -> Nat]]

\* A song is scrobbled at most once to a service, and only while it plays: a timeout set for a song that
\* was left before its threshold tells nobody (_scrobbleOnTrackChange, 5600-5629).
ScrobblesAreEarned ==
  /\ \A s \in Services, p \in Plays : heard[s][p] <= 1
  /\ timers \subseteq {play}

\* With no call on its way, the page takes Last.fm for connected exactly when the store holds a session.
PageKnowsTheAccount == ~Busy("lastfm") => (connected["lastfm"] <=> account["lastfm"] # None)

(* The inductive invariant they follow from. *)

\* The page knows the one timeout there is, which is of the song that plays.
OneTimer == timers \subseteq {timer} /\ timer \in {None, play}

\* A scrobble on its way has not been heard, and the song of a timeout has none on its way.
Scrobbled(s, p) == heard[s][p] # 0 \/ [kind |-> "scrobble", play |-> p, to |-> s] \in mail
ScrobbledOnce ==
  \A s \in Services, p \in Plays :
    /\ heard[s][p] <= 1
    /\ [kind |-> "scrobble", play |-> p, to |-> s] \in mail => heard[s][p] = 0
    /\ Scrobbled(s, p) => p <= play /\ p \notin timers

\* A service has one call at a time, and what Last.fm's will change is not changed yet.
OneCall == \A c, d \in calls : c.service = d.service => c = d
CallsAreConsistent ==
  \A c \in calls :
    /\ c.op = "session" => c.service = "lastfm" /\ c.token # None
    /\ c.service = "lastfm" /\ c.op # "leave" =>
         /\ ~connected["lastfm"]
         /\ account["lastfm"] # None <=> c.op = "session" /\ c.done /\ c.ok
    /\ c.service = "lastfm" /\ c.op = "leave" => (account["lastfm"] = None <=> c.done)

IInv == /\ TypeOK /\ OneTimer /\ ScrobbledOnce /\ OneCall /\ CallsAreConsistent
        /\ PageKnowsTheAccount
=============================================================================
