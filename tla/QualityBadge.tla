---------------------------- MODULE QualityBadge ----------------------------
(***************************************************************************)
(* The quality badges of the player (engine-playback.js): the one in the   *)
(* title's marquee slot, which Apple Music rebuilds at will, and the one   *)
(* in the now-playing overlay.  showQualityBadge is called with null when  *)
(* a session is torn down and with the codec when the next one is known.   *)
(* Labels and colours are abstracted to the codec.                         *)
(***************************************************************************)
EXTENDS Integers

CONSTANTS MaxShows,  \* calls of showQualityBadge by the player
          MaxDom     \* times the page rebuilds the slot or the overlay

BadgeAssumption == MaxShows \in Nat /\ MaxDom \in Nat

VARIABLES
  info,     \* _qualityBadgeInfo.codec
  later,    \* optimistic badges due in 80 ms
  slot,     \* the marquee slot is in the document
  made,     \* badge elements made so far
  attached, \* those in the document
  lit,      \* those with display 'inline-flex'
  retry,    \* the badge _slotBadgeRetry will insert, 0: no timer
  watched,  \* the badge _slotBadgeObs watches over, 0: no observer
  overlay,  \* a now-playing overlay is in the document
  np,       \* its badge: "none", "detached", "attached"
  npShows,  \* what it shows; "null" when hidden
  shows, doms

bar == <<slot, made, attached, lit, retry, watched>>
over == <<overlay, np, npShows>>
vars == <<info, later, bar, over, shows, doms>>

Codecs == {"null", "alac", "aac"}
Badges == 1..(2 * MaxShows)

Init ==
  /\ info = "null" /\ later = 0 /\ slot \in BOOLEAN /\ made = 0 /\ attached = {} /\ lit = {}
  /\ retry = 0 /\ watched = 0 /\ overlay = FALSE /\ np = "none" /\ npShows = "null"
  /\ shows = 0 /\ doms = 0

(* _insertBadgeIntoSlot: the retry and the observer are for one badge.     *)
Insert(b) ==
  IF slot THEN attached' = attached \cup {b} /\ watched' = b /\ retry' = 0
  ELSE retry' = b /\ watched' = 0 /\ UNCHANGED attached

NpContent(codec) == IF codec = "alac" THEN "alac" ELSE "null"
SyncBadge == npShows' = IF np = "none" THEN npShows ELSE NpContent(info')

(* showQualityBadge(codec): the badge is looked up in the document, so one *)
(* that is detached or not inserted yet is replaced, and is not hidden.    *)
ShowQualityBadge(codec) ==
  /\ info' = codec
  /\ \/ codec = "alac" /\ attached # {} /\ lit' = lit \cup attached /\ UNCHANGED <<made, attached, retry, watched>>
     \/ /\ codec = "alac" /\ attached = {} /\ made' = made + 1 /\ lit' = lit \cup {made + 1} /\ Insert(made + 1)
     \/ codec # "alac" /\ lit' = lit \ attached /\ UNCHANGED <<made, attached, retry, watched>>
  /\ SyncBadge

PlayerShows ==
  /\ shows < MaxShows /\ shows' = shows + 1 /\ \E codec \in Codecs :
       ShowQualityBadge(codec) /\ later' = IF codec = "null" /\ later < 2 THEN later + 1 ELSE later
  /\ UNCHANGED <<slot, overlay, np, doms>>

(* "If a real session confirms the codec first, the timeout is a no-op."   *)
OptimisticDue ==
  /\ later > 0 /\ later' = later - 1
  /\ \/ /\ info = "null" /\ made < 2 * MaxShows /\ ShowQualityBadge("alac")
     \/ /\ info # "null" /\ UNCHANGED <<info, made, attached, lit, retry, watched, npShows>>
  /\ UNCHANGED <<slot, overlay, np, shows, doms>>

RetryDue ==
  /\ retry # 0 /\ Insert(retry)
  /\ UNCHANGED <<info, later, slot, made, lit, over, shows, doms>>

(* The observer is told of a style change of the slot or the marquee line; *)
(* if the badge is gone it is inserted again.                              *)
SlotChanges ==
  /\ watched # 0 /\ watched \notin attached /\ Insert(watched)
  /\ UNCHANGED <<info, later, slot, made, lit, over, shows, doms>>

----------------------------------------------------------------------------
(* Apple Music rebuilds its player bar; overlays come and go.              *)

SlotGoes ==
  /\ slot /\ doms < MaxDom /\ doms' = doms + 1 /\ slot' = FALSE /\ attached' = {}
  /\ UNCHANGED <<info, later, made, lit, retry, watched, over, shows>>
SlotComes ==
  /\ ~slot /\ slot' = TRUE
  /\ UNCHANGED <<info, later, made, attached, lit, retry, watched, over, shows, doms>>

OverlayComes ==
  /\ ~overlay /\ overlay' = TRUE
  /\ UNCHANGED <<info, later, bar, np, npShows, shows, doms>>
OverlayGoes ==
  /\ overlay /\ doms < MaxDom /\ doms' = doms + 1 /\ overlay' = FALSE
  /\ np' = IF np = "attached" THEN "detached" ELSE np
  /\ UNCHANGED <<info, later, bar, npShows, shows>>

Forgets(state) == IF state = "detached" THEN "none" ELSE state

(* _check, every 300 ms: a lost badge is forgotten, an attached one brought *)
(* up to date, a missing one attached.                                     *)
NpCheck ==
  /\ IF Forgets(np) # "none" THEN np' = Forgets(np) /\ npShows' = NpContent(info)
     ELSE /\ np' = IF overlay THEN "attached" ELSE "none"
          /\ npShows' = IF overlay THEN NpContent(info) ELSE npShows
  /\ UNCHANGED <<info, later, bar, overlay, shows, doms>>

----------------------------------------------------------------------------
Next ==
  \/ PlayerShows \/ OptimisticDue \/ RetryDue \/ SlotChanges
  \/ SlotGoes \/ SlotComes \/ OverlayComes \/ OverlayGoes \/ NpCheck
Spec == Init /\ [][Next]_vars /\ WF_vars(OptimisticDue) /\ WF_vars(RetryDue) /\ WF_vars(NpCheck)

TypeOK ==
  /\ info \in Codecs /\ later \in 0..2 /\ slot \in BOOLEAN /\ made \in 0..(2 * MaxShows)
  /\ attached \subseteq 1..made /\ lit \subseteq 1..made /\ retry \in 0..made /\ watched \in 0..made
  /\ overlay \in BOOLEAN /\ np \in {"none", "detached", "attached"} /\ npShows \in Codecs

(* However the page's rebuilds interleave with retries, the observer and   *)
(* new tracks, the player bar never holds two badges.                      *)
OneBadge == \A b, c \in attached : b = c

(* Why there is one: a badge is inserted where none is, and the one in the  *)
(* slot is the one watched over; each call makes a badge at most.          *)
IInv ==
  /\ TypeOK /\ shows \in 0..MaxShows /\ made + later <= shows
  /\ ~slot \/ retry # 0 => attached = {}
  /\ attached \subseteq {watched}

NpWanted(codec) == overlay /\ info = codec
NpShown(codec)  == np = "attached" /\ npShows = NpContent(codec)

(* The overlay's badge comes to show the codec of the track: 300 ms after  *)
(* the overlay opened, was replaced, or the codec became known.            *)
NpBadgeFollows == \A codec \in Codecs : NpWanted(codec) ~> (~NpWanted(codec) \/ NpShown(codec))

(* Expected to fail.  "Re-slot if the badge was detached"                  *)
(* (engine-playback.js:1378): a badge the page's rebuild orphaned is put   *)
(* back.  But it is looked up in the document, where a detached badge is   *)
(* not found, so a new one is made, with one more click listener on the    *)
(* document.                                                               *)
BadgeIsReslotted == made <= 1
=============================================================================
