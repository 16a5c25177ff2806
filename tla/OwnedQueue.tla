----------------------------- MODULE OwnedQueue -----------------------------
(***************************************************************************)
(* The queue the player owns (electron/src/engine-playback.js, setup):     *)
(* the containers of tracks that were played, the moves within them        *)
(* (_adamGoto, _adamNext, _adamPrev, _ownedGoto), and the listener of      *)
(* MusicKit's nowPlayingItemDidChange, which tells the item of a move from *)
(* stray ones, keeps the position, and opens the track.                    *)
(* MusicKit carries out one call after another and reports what plays as   *)
(* soon as it changes; a call may fail, or never answer.                   *)
(***************************************************************************)
EXTENDS Naturals, Sequences, SequencesExt

CONSTANTS
  Lists,       \* the track lists that may be clicked
  Videos,      \* the tracks that are music videos
  MaxPresses,  \* bound: presses of next and previous, clicks, and moves by MusicKit
  MaxFaults,   \* bound: calls that fail or never answer
  MaxStrays    \* bound: reports of the old track during a call

Tracks == UNION {ToSet(l) : l \in Lists}
NoItem == "none"
NoPlace == [c |-> 0, i |-> 0]

VARIABLES
  containers,  \* _sessionContainers
  place,       \* _sessionContainerIdx, _sessionItemIdx (from 1)
  advancing, valve,    \* _adamAdvancing; _adamAdvancingTimer runs
  target,      \* _adamGotoTargetId
  nav, pending,        \* _adamNavInternal; _adamPendingCI and II
  gate,        \* _allowCDNTransition
  retry,       \* the move is to be tried again in 250 ms
  polls,       \* listeners that wait for an item to settle
  mkQueue, now,        \* MusicKit: its queue, its nowPlayingItem
  calls,       \* MusicKit: calls it has to carry out
  opened,      \* the item handleTrackChange was last called for
  repeat,      \* mk.repeatMode
  presses, faults, strays

moving == <<advancing, valve, target, nav, pending, gate, retry>>
mk     == <<mkQueue, now, calls>>
vars   == <<containers, place, moving, polls, mk, opened, repeat, presses, faults, strays>>

Init ==
  /\ containers = <<>> /\ place = NoPlace
  /\ advancing = FALSE /\ valve = FALSE /\ target = NoItem
  /\ nav = FALSE /\ pending = NoPlace /\ gate = FALSE /\ retry = FALSE /\ polls = 0
  /\ mkQueue = <<>> /\ now = NoItem /\ calls = <<>>
  /\ opened = NoItem /\ repeat \in {"none", "one", "all"}
  /\ presses = 0 /\ faults = 0 /\ strays = 0

Position(l, t) == CHOOSE i \in DOMAIN l : l[i] = t /\ \A j \in 1..(i - 1) : l[j] # t
Item(p)  == containers[p.c][p.i]
Current  == IF place.c = 0 THEN <<>> ELSE containers[place.c]
Place(c, i) == [c |-> c, i |-> i]

-----------------------------------------------------------------------------
(* Moves. *)

\* _sessionFlatIds
FlatIds(cs) == FlattenSeq(cs)

\* How MusicKit is told: by index when it has the track, else with a queue of its own.
MkCalls(cs, t) ==
  IF t \in Videos THEN <<[do |-> "set", queue |-> <<t>>, item |-> t]>>
  ELSE IF t \in ToSet(mkQueue) THEN <<[do |-> "go", queue |-> <<>>, item |-> t]>>
  ELSE <<[do |-> "set", queue |-> SelectSeq(FlatIds(cs), LAMBDA x : x \notin Videos),
          item |-> t]>>

\* The lock of _adamGoto.
Free == ~advancing

\* _adamGoto, to place p of the containers cs.
Goto(cs, p) ==
  IF ~Free THEN UNCHANGED <<moving, calls>>
  ELSE /\ advancing' = TRUE /\ valve' = TRUE
       /\ target' = cs[p.c][p.i] /\ nav' = TRUE /\ pending' = p
       /\ calls' = calls \o MkCalls(cs, cs[p.c][p.i])
       /\ UNCHANGED <<gate, retry>>

Presses == presses < MaxPresses /\ presses' = presses + 1

\* _adamNext's target: within the container, around it, or the next container.
NextPlace(manual) ==
  IF repeat = "one" /\ ~manual THEN place
  ELSE IF place.i + 1 <= Len(Current) THEN Place(place.c, place.i + 1)
  ELSE IF repeat = "all" THEN Place(place.c, 1)
  ELSE IF place.c + 1 <= Len(containers) THEN Place(place.c + 1, 1)
  ELSE NoPlace

\* What MusicKit has loaded beyond the container.
Fresh == SelectSeq(mkQueue, LAMBDA t : t \notin ToSet(Current))

\* _adamNext, by the user or at the end of a track.
Next_(manual) ==
  /\ Presses /\ place # NoPlace
  /\ LET p == NextPlace(manual)
     IN IF p # NoPlace THEN Goto(containers, p) /\ UNCHANGED containers
        ELSE IF Fresh # <<>>
        THEN /\ containers' = [containers EXCEPT ![place.c] = @ \o Fresh]
             /\ Goto(containers', Place(place.c, place.i + 1))
        ELSE UNCHANGED <<containers, moving, calls>>
  /\ UNCHANGED <<place, polls, mkQueue, now, opened, repeat, faults, strays>>

\* _adamPrev
Prev ==
  /\ Presses
  /\ \/ place.i > 1 /\ Goto(containers, Place(place.c, place.i - 1))
     \/ /\ place.i = 1 /\ place.c > 1
        /\ Goto(containers, Place(place.c - 1, Len(containers[place.c - 1])))
  /\ UNCHANGED <<containers, place, polls, mkQueue, now, opened, repeat, faults, strays>>

\* _ownedGoto: the clicked list becomes a container, or its container is used again.
OwnedGoto(l) ==
  /\ Presses
  /\ LET known == {c \in DOMAIN containers : containers[c] = l}
         c == IF known = {} THEN Len(containers) + 1
              ELSE CHOOSE x \in known : \A y \in known : x <= y
     IN /\ containers' = IF known = {} THEN Append(containers, l) ELSE containers
        /\ \E i \in DOMAIN l : IF Free
             THEN /\ advancing' = TRUE /\ valve' = TRUE /\ gate' = TRUE
                  /\ target' = l[i] /\ nav' = TRUE /\ pending' = Place(c, Position(l, l[i]))
                  /\ calls' = calls \o MkCalls(containers', l[i])
                  /\ UNCHANGED retry
             ELSE gate' = TRUE /\ UNCHANGED <<advancing, valve, target, nav, pending, retry, calls>>
  /\ UNCHANGED <<place, polls, mkQueue, now, opened, repeat, faults, strays>>

\* The move that was tried again.
Retry ==
  /\ retry /\ retry' = FALSE
  /\ IF ~Free \/ pending = NoPlace THEN UNCHANGED <<advancing, valve, target, nav, pending, calls>>
     ELSE /\ advancing' = TRUE /\ valve' = TRUE /\ target' = Item(pending) /\ nav' = TRUE
          /\ calls' = calls \o MkCalls(containers, Item(pending)) /\ UNCHANGED pending
  /\ UNCHANGED <<containers, place, gate, polls, mkQueue, now, opened, repeat, presses, faults, strays>>

\* _adamGoto's timer of 6 s, which _clearAdvancing stops.
Valve ==
  /\ valve /\ valve' = FALSE /\ advancing' = FALSE
  /\ target' = NoItem /\ gate' = FALSE /\ nav' = FALSE /\ pending' = NoPlace
  /\ UNCHANGED <<containers, place, retry, polls, mk, opened, repeat, presses, faults, strays>>

-----------------------------------------------------------------------------
(* nowPlayingItemDidChange. *)

\* What of MusicKit's queue q a container lacks is appended to it.
Extended(l, q) == l \o SelectSeq(q, LAMBDA t : t \notin ToSet(l))

\* Mutant: another container is resumed at its start.
StartOf(c, t) == Place(c, 1)

\* The place of an item in container c.
PlaceIn(c, t) == Place(c, Position(containers[c], t))

\* MusicKit's queue becomes a container.
Adopted(q) == Append(containers, q)

\* Where an item is that no move of ours asked for: where it was, the next place, elsewhere
\* in the container, in another container (the latest first), in the container grown by
\* MusicKit's queue q, or in a new one.
Located(t, q) ==
  LET others == {c \in DOMAIN containers : c # place.c /\ t \in ToSet(containers[c])}
      grown  == Len(Current) >= 2 /\ ToSet(Current) \subseteq ToSet(q)
  IN IF Len(Current) >= place.i /\ place.i > 0 /\ Current[place.i] = t
     THEN [cs |-> containers, at |-> place]
     ELSE IF Len(Current) > place.i /\ Current[place.i + 1] = t
     THEN [cs |-> containers, at |-> Place(place.c, place.i + 1)]
     ELSE IF t \in ToSet(Current)
     THEN [cs |-> containers, at |-> PlaceIn(place.c, t)]
     ELSE IF others # {}
     THEN LET c == CHOOSE x \in others : \A y \in others : y <= x
          IN [cs |-> containers, at |-> PlaceIn(c, t)]
     ELSE IF grown
     THEN LET l == Extended(Current, q)
          IN [cs |-> [containers EXCEPT ![place.c] = l], at |-> Place(place.c, Position(l, t))]
     ELSE [cs |-> Adopted(q), at |-> Place(Len(containers) + 1, Position(q, t))]

\* The filter: an item that is not the target of the move.
Spurious(t) == t # target

\* The listener once its item has settled: position, queue, handleTrackChange.
Settle(t, q, internal, pend) ==
  LET found == IF internal /\ pend # NoPlace THEN [cs |-> containers, at |-> pend]
               ELSE Located(t, q)
  IN IF t = NoItem THEN UNCHANGED <<containers, place, opened>> /\ pending' = pend
     ELSE /\ place' = found.at
          /\ containers' = [found.cs EXCEPT ![found.at.c] = Extended(@, q)]
          /\ pending' = IF internal THEN NoPlace ELSE pend
          /\ opened' = t

\* The listener for item t, MusicKit's queue being q.
Listener(t, q) ==
  IF target # NoItem /\ (t = NoItem \/ Spurious(t))
  THEN /\ IF t = NoItem \/ ~gate THEN UNCHANGED <<gate, retry>>
          ELSE gate' = FALSE /\ retry' = (retry \/ (pending # NoPlace /\ ~advancing))
       /\ UNCHANGED <<containers, place, advancing, valve, target, nav, pending, polls, opened>>
  ELSE /\ target' = NoItem /\ valve' = FALSE /\ advancing' = FALSE
       /\ IF t = NoItem
          THEN polls' = polls + 1
               /\ UNCHANGED <<containers, place, nav, pending, gate, retry, opened>>
          ELSE /\ Settle(t, q, nav, pending) /\ nav' = FALSE /\ gate' = FALSE
               /\ UNCHANGED <<retry, polls>>

\* A listener that found no item reads it again until there is one, for 250 ms.
PollEnds ==
  /\ polls > 0 /\ polls' = polls - 1
  /\ Settle(now, mkQueue, nav, pending) /\ nav' = FALSE
  /\ gate' = (gate /\ now = NoItem)
  /\ UNCHANGED <<advancing, valve, target, retry, mk, repeat, presses, faults, strays>>

\* queueItemsDidChange: the active container grows with MusicKit's queue.
QueueItems ==
  /\ place # NoPlace /\ Extended(Current, mkQueue) # Current
  /\ containers' = [containers EXCEPT ![place.c] = Extended(@, mkQueue)]
  /\ UNCHANGED <<place, moving, polls, mk, opened, repeat, presses, faults, strays>>

\* Mutant: an item counts as opened once a move to it is under way.
UnopenedAndUnasked == now # opened /\ target = NoItem

\* The item that plays was never opened.
Unopened == now # opened

\* playbackStateDidChange's timer: an item that plays and was never opened.
Fallback ==
  /\ now # NoItem /\ Unopened /\ opened' = now /\ gate' = FALSE
  /\ UNCHANGED <<containers, place, advancing, valve, target, nav, pending, retry, polls, mk,
                 repeat, presses, faults, strays>>

-----------------------------------------------------------------------------
(* MusicKit. *)

Call == Head(calls)
Faults == faults < MaxFaults /\ faults' = faults + 1

\* setQueue: the queue is replaced and nothing plays for a moment.
MkSets ==
  /\ calls # <<>> /\ Call.do = "set"
  /\ mkQueue' = Call.queue /\ now' = NoItem
  /\ calls' = <<[Call EXCEPT !.do = "go"]>> \o Tail(calls)
  /\ Listener(NoItem, mkQueue')
  /\ UNCHANGED <<repeat, presses, faults, strays>>

\* changeToMediaAtIndex or play: the item plays.
MkGoes ==
  /\ calls # <<>> /\ Call.do = "go" /\ now' = Call.item
  /\ calls' = <<[Call EXCEPT !.do = "done"]>> \o Tail(calls)
  /\ Listener(now', mkQueue)
  /\ UNCHANGED <<mkQueue, repeat, presses, faults, strays>>

\* The call fails, which _adamGoto does not notice.
MkFails ==
  /\ calls # <<>> /\ Call.do # "done" /\ Faults
  /\ calls' = <<[Call EXCEPT !.do = "done"]>> \o Tail(calls)
  /\ UNCHANGED <<containers, place, moving, polls, mkQueue, now, opened, repeat, presses, strays>>

\* The call never answers.
MkHangs ==
  /\ calls # <<>> /\ Call.do # "done" /\ Faults /\ calls' = Tail(calls)
  /\ UNCHANGED <<containers, place, moving, polls, mkQueue, now, opened, repeat, presses, strays>>

\* The old item is reported once more.
MkStrays ==
  /\ calls # <<>> /\ Call.do = "go" /\ now # NoItem
  /\ strays < MaxStrays /\ strays' = strays + 1
  /\ Listener(now, mkQueue)
  /\ UNCHANGED <<mk, repeat, presses, faults>>

\* The end of the call: _adamGoto goes on and clears the lock, whosever it is by then.
GotoEnds ==
  /\ calls # <<>> /\ Call.do = "done" /\ calls' = Tail(calls)
  /\ advancing' = FALSE /\ valve' = FALSE
  /\ UNCHANGED <<containers, place, target, nav, pending, gate, retry, polls, mkQueue, now,
                 opened, repeat, presses, faults, strays>>

\* MusicKit plays another item by itself: of its queue, or of a list clicked elsewhere.
MkMoves ==
  /\ Presses
  /\ \E l \in Lists \union ({mkQueue} \ {<<>>}) : \E t \in ToSet(l) :
       now' = t /\ mkQueue' = l /\ Listener(t, l)
  /\ UNCHANGED <<calls, repeat, faults, strays>>

-----------------------------------------------------------------------------
Moves == Next_(TRUE) \/ Next_(FALSE) \/ Prev \/ (\E l \in Lists : OwnedGoto(l))
Timers == Retry \/ Valve \/ PollEnds \/ Fallback
MusicKit == MkSets \/ MkGoes \/ MkFails \/ MkHangs \/ MkStrays \/ GotoEnds \/ MkMoves
Next == Moves \/ Timers \/ QueueItems \/ MusicKit

\* Timers fire and MusicKit carries out its calls.
Fairness ==
  /\ WF_vars(Retry) /\ WF_vars(Valve) /\ WF_vars(PollEnds) /\ WF_vars(Fallback)
  /\ WF_vars(MkSets \/ MkGoes \/ GotoEnds)

Spec == Init /\ [][Next]_vars /\ Fairness

-----------------------------------------------------------------------------
(* Properties. *)

Places == {NoPlace} \union {Place(c, i) : c \in DOMAIN containers, i \in 1..10}
TypeOK ==
  /\ containers \in Seq(Seq(Tracks)) /\ {place, pending} \subseteq Places
  /\ place # NoPlace => place.i \in DOMAIN Current
  /\ {advancing, valve, nav, gate, retry} \subseteq BOOLEAN
  /\ {target, now, opened} \subseteq Tracks \union {NoItem}
  /\ mkQueue \in Seq(Tracks)

AtRest == calls = <<>> /\ polls = 0 /\ ~retry /\ target = NoItem

\* At rest the position is that of the track that plays, whatever moves, clicks, stray events
\* and moves of MusicKit's own came before, as long as no call was lost: next and previous
\* start from what is heard.
PositionIsTheTrack ==
  AtRest /\ faults = 0 /\ now # NoItem => place # NoPlace /\ Item(place) = now

ItemIsOpen == opened = now \/ now = NoItem

\* What plays is opened, although its event may be filtered or never come.
EveryItemOpens == []<>ItemIsOpen

\* A move that has ended is not waited for for ever (the timer of 6 s).
MovesAreForgotten == []<>(target = NoItem)
=============================================================================
