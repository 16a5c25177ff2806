---------------------------- MODULE SessionMemory ----------------------------
(***************************************************************************)
(* What the page remembers of a session (engine-playback.js): a snapshot of   *)
(* the queue for "Resume on launch", marked in memory and flushed on a timer, *)
(* and the history of the songs played.  Both are kept by the main process'   *)
(* encrypted store, which the page's calls reach in order and one by one.     *)
(***************************************************************************)
EXTENDS Naturals, Sequences, SequencesExt

CONSTANTS Tracks,     \* songs of the queue, 1..n: a song's place is the song
          HistMax,    \* _HIST_MAX
          MaxMoves,   \* bound: moves to another song
          MaxToggles, \* bound: changes of the two settings, and restarts
          MaxCalls,   \* bound: calls waiting when a timer or a pause makes one more
          MaxFaults   \* bound: calls the store fails

MemoryAssumption == HistMax \in Nat \ {0} /\ 0 \notin Tracks

None == 0

VARIABLES
  place,    \* _sessionItemIdx, which a move sets at once
  asset,    \* _currentAssetId, which the song's track change sets later
  enabled,  \* _resumeEnabled
  state, dirty,  \* _resumeState, _resumeDirty
  history,  \* _queueHistory
  ipc,      \* calls to the store that it has not taken yet
  clearing, \* settings turned off whose stored value is awaited: each then clears the snapshot
  pref, stored, storedHist, \* the store
  moves, toggles, faults

vars == <<place, asset, enabled, state, dirty, history, ipc, clearing, pref, stored, storedHist, moves, toggles, faults>>

Call(op, v) == [op |-> op, val |-> v]
Unsaved == <<>>
Snapshots == [place : Tracks, asset : Tracks]
Kept      == {Unsaved} \union {<<s>> : s \in Snapshots}
Histories == {h \in Seq(Tracks) : Len(h) <= HistMax}
Calls     == [op : {"write"}, val : Kept] \union [op : {"pref"}, val : BOOLEAN] \union
             [op : {"hist"}, val : Histories]

Init ==
  /\ place = None /\ asset = None /\ enabled = TRUE /\ state = Unsaved /\ dirty = FALSE /\ history = <<>>
  /\ ipc = <<>> /\ clearing = 0 /\ pref = TRUE /\ stored = Unsaved /\ storedHist = <<>>
  /\ moves = 0 /\ toggles = 0 /\ faults = 0

\* _resumeMark, and _resumeFlush after it: the snapshot and the call that writes it, if any.
Marks == enabled /\ asset' # None
Flush(calls) ==
  IF Marks THEN state' = <<[place |-> place', asset |-> asset']>> /\ dirty' = FALSE /\ ipc' = Append(calls, Call("write", state'))
  ELSE /\ dirty' = FALSE /\ UNCHANGED state
       /\ ipc' = IF dirty /\ state # Unsaved THEN Append(calls, Call("write", state)) ELSE calls

\* _histPush: the song left is put first, unless it is there.
Pushed == IF asset = None \/ (history # <<>> /\ history[1] = asset) THEN history
          ELSE SubSeq(<<asset>> \o history, 1, IF Len(history) < HistMax THEN Len(history) + 1 ELSE HistMax)

-----------------------------------------------------------------------------

\* A move: the session's place is set, MusicKit announces that the song changes.
Move(t) ==
  /\ moves < MaxMoves /\ moves' = moves + 1 /\ place' = t /\ asset' = asset
  /\ history' = Pushed /\ ipc' = IF history' # history THEN Append(ipc, Call("hist", history')) ELSE ipc
  /\ UNCHANGED <<enabled, state, dirty, clearing, pref, stored, storedHist, toggles, faults>>

\* The track change that follows has a session: _broadcastNowPlaying.
Broadcast ==
  /\ place # None /\ asset # place /\ asset' = place /\ UNCHANGED place /\ Flush(ipc)
  /\ UNCHANGED <<enabled, history, clearing, pref, stored, storedHist, moves, toggles, faults>>

\* timeupdate: in memory only.
TimeUpdate ==
  /\ enabled /\ asset # None /\ state' = <<[place |-> place, asset |-> asset]>> /\ dirty' = TRUE
  /\ UNCHANGED <<place, asset, enabled, history, ipc, clearing, pref, stored, storedHist, moves, toggles, faults>>

\* The flush timer, a hidden page, pagehide: what was marked is written.
FlushTimer ==
  /\ Len(ipc) < MaxCalls /\ dirty /\ state # Unsaved /\ dirty' = FALSE /\ ipc' = Append(ipc, Call("write", state))
  /\ UNCHANGED <<place, asset, enabled, state, history, clearing, pref, stored, storedHist, moves, toggles, faults>>

\* The audio pauses.
Pause ==
  /\ Len(ipc) < MaxCalls /\ asset # None /\ UNCHANGED <<place, asset>> /\ Flush(ipc)
  /\ UNCHANGED <<enabled, history, clearing, pref, stored, storedHist, moves, toggles, faults>>

\* The settings: "Resume on launch" takes effect at once, and clears once its value is stored.
Toggle ==
  /\ toggles < MaxToggles /\ toggles' = toggles + 1 /\ enabled' = ~enabled
  /\ ipc' = Append(ipc, Call("pref", ~enabled))
  /\ UNCHANGED <<place, asset, state, dirty, history, clearing, pref, stored, storedHist, moves, faults>>

\* Mutant: the clear leaves what was marked.
ForgetStored ==
  /\ clearing > 0 /\ clearing' = clearing - 1 /\ ipc' = Append(ipc, Call("write", Unsaved))
  /\ UNCHANGED <<place, asset, enabled, state, dirty, history, pref, stored, storedHist, moves, toggles, faults>>

\* _resumeClear
Clear ==
  /\ clearing > 0 /\ clearing' = clearing - 1
  /\ state' = Unsaved /\ dirty' = FALSE /\ ipc' = Append(ipc, Call("write", Unsaved))
  /\ UNCHANGED <<place, asset, enabled, history, pref, stored, storedHist, moves, toggles, faults>>

\* _histClear
ClearHistory ==
  /\ history # <<>> /\ toggles < MaxToggles /\ toggles' = toggles + 1
  /\ history' = <<>> /\ ipc' = Append(ipc, Call("hist", <<>>))
  /\ UNCHANGED <<place, asset, enabled, state, dirty, clearing, pref, stored, storedHist, moves, faults>>

\* The store takes a call, or fails it; a failed settings call is caught, and the clear goes on.
StoreTakes ==
  /\ ipc # <<>> /\ ipc' = Tail(ipc)
  /\ LET c == Head(ipc) IN
       /\ clearing' = IF c.op = "pref" /\ c.val = FALSE THEN clearing + 1 ELSE clearing
       /\ \/ /\ pref' = IF c.op = "pref" THEN c.val ELSE pref
             /\ stored' = IF c.op = "write" THEN c.val ELSE stored
             /\ storedHist' = IF c.op = "hist" THEN c.val ELSE storedHist
             /\ UNCHANGED faults
          \/ faults < MaxFaults /\ faults' = faults + 1 /\ UNCHANGED <<pref, stored, storedHist>>
  /\ UNCHANGED <<place, asset, enabled, state, dirty, history, moves, toggles>>

HistoryRead(failed) == IF failed THEN <<>> ELSE storedHist   \* _histLoadAsync

\* The page is loaded again: the settings and the history are read first (_resumeSetup, setupQueueHistory).
\* A read that fails counts as nothing stored.
Reload ==
  /\ toggles < MaxToggles /\ toggles' = toggles + 1 /\ ipc = <<>> /\ clearing = 0
  /\ place' = None /\ asset' = None /\ enabled' = pref /\ state' = Unsaved /\ dirty' = FALSE
  /\ \/ history' = HistoryRead(FALSE) /\ UNCHANGED faults
     \/ faults < MaxFaults /\ faults' = faults + 1 /\ history' = HistoryRead(TRUE)
  /\ UNCHANGED <<ipc, clearing, pref, stored, storedHist, moves>>

\* _resumePlay: the chip of a stored snapshot rebuilds the session; its song's track change follows.
Resume ==
  /\ moves < MaxMoves /\ moves' = moves + 1 /\ asset = None /\ stored # Unsaved /\ enabled
  /\ place' = stored[1].asset
  /\ UNCHANGED <<asset, enabled, state, dirty, history, ipc, clearing, pref, stored, storedHist, toggles, faults>>

Next ==
  \/ (\E t \in Tracks : Move(t)) \/ Broadcast \/ TimeUpdate \/ FlushTimer \/ Pause \/ Toggle \/ Clear \/ ClearHistory
  \/ StoreTakes \/ Reload \/ Resume

Spec == Init /\ [][Next]_vars

-----------------------------------------------------------------------------
(* Properties. *)

TypeOK ==
  /\ place \in Tracks \union {None} /\ asset \in Tracks \union {None}
  /\ enabled \in BOOLEAN /\ dirty \in BOOLEAN /\ pref \in BOOLEAN
  /\ state \in Kept /\ stored \in Kept /\ (dirty => state # Unsaved)
  /\ history \in Histories /\ storedHist \in Histories
  /\ ipc \in Seq(Calls) /\ clearing \in Nat /\ faults \in Nat

Idle == ipc = <<>> /\ clearing = 0 /\ faults = 0

\* A user who turns "Resume on launch" off leaves nothing behind: once the calls are through, no snapshot is
\* stored and none is marked that a later flush would write, whatever song changes, pauses and flushes came
\* while the setting's value was being stored (10426-10432, _resumeClear 5326-5329).
OffLeavesNothing == Idle /\ ~enabled => stored = Unsaved /\ state = Unsaved

\* What is stored of the songs played is what the page shows.
HistoryIsStored == Idle => storedHist = history

(* The inductive invariant they follow from. *)

\* Of the calls of one kind the last is of value v, and with none on its way v is what is held.
Settles(calls, op, held, v) ==
  /\ (\A i \in DOMAIN calls : calls[i].op # op) => held = v
  /\ \A i \in DOMAIN calls :
       calls[i].op = op /\ (\A j \in DOMAIN calls : j > i => calls[j].op # op) => calls[i].val = v

\* The store comes to hold the setting and the history of the page.
StoreFollows ==
  faults = 0 => Settles(ipc, "pref", pref, enabled) /\ Settles(ipc, "hist", storedHist, history)

\* A snapshot that is off is yet to be cleared, or it is cleared and stays so.
OffIsCleared ==
  faults = 0 /\ ~enabled =>
    \/ clearing > 0
    \/ \E i \in DOMAIN ipc : ipc[i] = Call("pref", FALSE)
    \/ state = Unsaved /\ Settles(ipc, "write", stored, Unsaved)

IInv == TypeOK /\ (asset # None => place # None) /\ StoreFollows /\ OffIsCleared
=============================================================================
