-------------------------- MODULE DiscordPresence --------------------------
(***************************************************************************)
(* Discord Rich Presence (electron/main.mjs and the page's part of it):    *)
(* the main process looks for Discord on a list of local sockets, shakes   *)
(* hands, and shows what is played.  Discord comes and goes, and so does   *)
(* the user's wish to be seen.                                             *)
(***************************************************************************)
EXTENDS Naturals

CONSTANTS Paths,     \* number of sockets Discord may listen on
          MaxSocks,  \* bound: connections tried
          MaxSongs,  \* bound: changes of what is played, and presses of the toggle
          MaxFaults  \* bound: Discord comes, goes, or closes a connection

PresenceAssumption == Paths \in Nat \ {0} /\ MaxSocks \in Nat /\ MaxSongs \in Nat

None == 0
Socks == 1..MaxSocks

VARIABLES
  wanted,    \* the page's toggle
  song,      \* what the page plays
  enabled, pending, ready, connecting, timer,   \* _discord...
  socket,    \* _discordSocket
  socks,     \* every connection: the path it tries, how far it is, and what Discord shows for it
  up,        \* the path Discord listens on, if it runs; one Discord at a time
  presses, faults

page == <<wanted, song, presses>>
main == <<enabled, pending, ready, connecting, timer, socket>>
vars == <<page, main, socks, up, faults>>

Unused == [path |-> None, at |-> "unused", shows |-> None]
Tried(k) == socks[k].at # "unused"

Init ==
  /\ wanted \in BOOLEAN /\ song = 1 /\ enabled = FALSE /\ pending = None /\ ready = FALSE
  /\ connecting = FALSE /\ timer = FALSE /\ socket = None /\ socks = [k \in Socks |-> Unused]
  /\ up \in {{}} \union {{p} : p \in 1..Paths} /\ presses = 0 /\ faults = 0

\* The next unused connection; the bound stops a run, never the code.
Fresh == {k \in Socks : ~Tried(k) /\ \A l \in Socks : l < k => Tried(l)}
CanTry == Fresh # {}

-----------------------------------------------------------------------------
(* The connection. *)

Trying(ss, k, p) == [ss EXCEPT ![k] = [path |-> p, at |-> "trying", shows |-> None]]

\* _discordConnect
Connect ==
  IF connecting \/ ready THEN UNCHANGED <<connecting, socks>>
  ELSE connecting' = TRUE /\ \E k \in Fresh : socks' = Trying(socks, k, 1)

Closed(ss, k) == [ss EXCEPT ![k].at = "closed", ![k].shows = None]

\* tryNext of the search that k belongs to.
TryNext(k) ==
  IF socks[k].path < Paths
  THEN \E l \in Fresh : socks' = Trying(Closed(socks, k), l, socks[k].path + 1)
  ELSE socks' = Closed(socks, k)

NoLongerReady == FALSE

\* _discordOnClose, whichever socket it was: the known one is destroyed with it.
OnClose(ss) ==
  /\ ready' = NoLongerReady /\ connecting' = FALSE /\ socket' = None /\ timer' = (timer \/ enabled)
  /\ socks' = IF socket = None THEN ss ELSE Closed(ss, socket)

\* _discordSendActivity; Discord shows it once hands are shaken.
Send(ss, s, a) ==
  IF s # None /\ ss[s].at = "ready" THEN [ss EXCEPT ![s].shows = a] ELSE ss

\* A connection that is tried finds Discord, or goes on to the next path.
Answered(k) ==
  /\ socks[k].at = "trying"
  /\ IF socks[k].path \in up
     THEN /\ socket' = k /\ connecting' = FALSE /\ socks' = [socks EXCEPT ![k].at = "open"]
     ELSE /\ TryNext(k) /\ connecting' = (connecting /\ socks[k].path < Paths)
          /\ UNCHANGED socket
  /\ UNCHANGED <<page, enabled, pending, ready, timer, up, faults>>

SendPending(ss, s, a) == IF a = None THEN ss ELSE Send(ss, s, a)

\* READY
Ready(k) ==
  /\ socks[k].at = "open" /\ ready' = TRUE
  /\ socks' = SendPending([socks EXCEPT ![k].at = "ready"], socket, pending)
  /\ UNCHANGED <<page, enabled, pending, connecting, timer, socket, up, faults>>

\* The 5 s timer; a local Discord has answered by then.
Answers == \A k \in Socks : socks[k].at \notin {"trying", "open"}

TimerFires ==
  /\ timer /\ Answers /\ timer' = FALSE /\ Connect
  /\ UNCHANGED <<page, enabled, pending, ready, socket, up, faults>>

Live(k) == socks[k].at \in {"open", "ready"}

\* Discord closes a connection, or it breaks: then 'error' also runs tryNext, whose handler
\* has stayed since the search.
Breaks(k) ==
  /\ Live(k) /\ faults < MaxFaults /\ faults' = faults + 1
  /\ \/ OnClose(Closed(socks, k))
     \/ /\ socks[k].path < Paths /\ ready' = NoLongerReady /\ connecting' = FALSE
        /\ socket' = None /\ timer' = (timer \/ enabled)
        /\ \E l \in Fresh : socks' = Trying(IF socket = None THEN Closed(socks, k)
                                            ELSE Closed(Closed(socks, k), socket), l, socks[k].path + 1)
  /\ UNCHANGED <<page, enabled, pending, up>>

\* Discord starts, or ends once nothing is connected to it; a search takes no time beside that.
Discord ==
  /\ faults < MaxFaults /\ faults' = faults + 1 /\ \A k \in Socks : socks[k].at # "trying"
  /\ IF up = {} THEN \E p \in 1..Paths : up' = {p}
     ELSE (\A k \in Socks : ~Live(k)) /\ up' = {}
  /\ UNCHANGED <<page, main, socks>>

-----------------------------------------------------------------------------
(* The page. *)

\* The search that a broken socket's error handler starts does not count as connecting; the
\* page's next update comes when it is over.
Quiet == \A k \in Socks : socks[k].at = "trying" => connecting

\* discord:update: Discord is looked for if there is neither a socket nor a search.
Update(s) ==
  /\ enabled' = TRUE /\ pending' = s /\ UNCHANGED <<ready, timer, socket>>
  /\ IF socket = None /\ ~connecting
     THEN Connect
     ELSE /\ socks' = IF ready THEN Send(socks, socket, s) ELSE socks
          /\ UNCHANGED connecting

\* Another song, or a pause.
Plays ==
  /\ Quiet /\ presses < MaxSongs /\ presses' = presses + 1 /\ song' = song + 1 /\ UNCHANGED <<wanted, up, faults>>
  /\ IF wanted THEN Update(song') ELSE UNCHANGED <<main, socks>>

\* The 10 s refresh.
Refresh == Quiet /\ wanted /\ Update(song) /\ UNCHANGED <<page, up, faults>>

NothingPending == None

\* The toggle, and discord:disable.
Toggle ==
  /\ Quiet /\ presses < MaxSongs /\ presses' = presses + 1 /\ wanted' = ~wanted /\ UNCHANGED <<song, up, faults>>
  /\ IF wanted'
     THEN Update(song)
     ELSE /\ enabled' = FALSE /\ pending' = NothingPending /\ timer' = FALSE /\ socket' = None /\ ready' = FALSE
          /\ connecting' = (connecting /\ socket = None)
          /\ socks' = IF socket = None THEN socks ELSE Closed(socks, socket)

Searches == \E k \in Socks : Answered(k) \/ Ready(k)
Next == Searches \/ TimerFires \/ (\E k \in Socks : Breaks(k)) \/ Discord \/ Plays \/ Refresh \/ Toggle

Spec == Init /\ [][Next]_vars /\ WF_vars(Searches) /\ WF_vars(TimerFires) /\ WF_vars(Refresh)

-----------------------------------------------------------------------------
(* Properties. *)

Connections == [path : 0..Paths, shows : 0..song,
                at : {"unused", "trying", "open", "ready", "closed"}]
TypeOK ==
  /\ wanted \in BOOLEAN /\ enabled \in BOOLEAN /\ ready \in BOOLEAN /\ connecting \in BOOLEAN
  /\ timer \in BOOLEAN /\ up \subseteq 1..Paths
  /\ presses \in 0..MaxSongs /\ song \in 1..presses + 1 /\ pending \in 0..song
  /\ socket \in {None} \union Socks
  /\ socks \in [Socks -> Connections]

\* A user who does not want to be seen is not: no connection that stays shows a song.
UnseenIsUnseen == ~wanted => \A k \in Socks : socks[k].shows = None

\* Why: there is one connection or one search, never both; the connection that lives is the one
\* the main process knows, and it alone can show a song, which nobody asked for while unseen.
OneConnection ==
  /\ socket # None => Live(socket) /\ \A k \in Socks : socks[k].at # "trying"
  /\ \A k \in Socks : Live(k) => k = socket
  /\ \A k, l \in Socks : socks[k].at = "trying" /\ socks[l].at = "trying" => k = l
  /\ \A k \in Socks : socks[k].at = "ready" => ready
ShownOnTheSocket == \A k \in Socks : socks[k].shows # None => socks[k].at = "ready"
IInv == /\ TypeOK /\ OneConnection /\ ShownOnTheSocket /\ UnseenIsUnseen
        /\ ~wanted => pending = None

MayShow   == up # {} /\ wanted /\ CanTry
SongShown == \E k \in Socks : socks[k].shows = song /\ \A l \in Socks : socks[l].shows \in {None, song}

\* Once Discord runs, it shows the song that plays to who wants it, and only that.
SongIsShown == <>[]MayShow => <>[]SongShown
=============================================================================
