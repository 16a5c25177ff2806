----------------------------------- MODULE MCPage ----------------------------
(***************************************************************************)
(* The modules of what the page shows, of the window behind it, and of how *)
(* the page follows the engine: its events, the library, the sign-in and   *)
(* the downloads, side by side.  As in MCPlayer, a behaviour is of one     *)
(* part, chosen at the start among Parts, and v1, v2, ... stand for the    *)
(* variables of its module, in their order.                                *)
(***************************************************************************)
EXTENDS Integers, Sequences, WellFoundedInduction, TLAPS

CONSTANTS
  Parts,   \* the parts a run asks about
  \* The engine's events
  EventsRingSize, EventsChSize, EventsWireSize, EventsMaxChanges, EventsMaxIds, EventsMaxFaults,
  \* A music video's overlay
  OverlayTiers, OverlayVariantLists, OverlayMaxInputs, OverlayMaxOthers,
  \* The library
  LibraryLast, LibrarySize, LibraryCap, LibraryMaxItems, LibraryMaxChanges, LibraryMaxSyncs,
  LibraryMaxClicks, LibraryMaxFaults,
  \* Downloads
  PanelMaxJobs, PanelMaxUser, PanelMaxFaults,
  \* Signing in
  AccountMaxTries, AccountMaxFaults,
  \* The context menus
  MenuItems, MenuLinked, MenuPage, MenuMaxMenus, MenuMaxAsks, MenuMaxUser,
  \* The window's backdrop
  BehindAttempts, BehindBlurs, BehindMaxUser, BehindMaxFaults,
  \* The settings dialog
  SettingsMaxUser, SettingsMaxDrm,
  \* The decorations
  DecorAlbums, DecorMaxDom, DecorMaxTogs, DecorMaxFaults,
  \* The quality badge
  BadgeMaxShows, BadgeMaxDom

VARIABLES part,   \* the part this behaviour is of
          v1, v2, v3, v4, v5, v6, v7, v8, v9, v10, v11, v12, v13, v14, v15, v16, v17, v18, v19,
          v20, v21, v22, v23, v24   \* its variables, in their order of declaration

vars == <<part, v1, v2, v3, v4, v5, v6, v7, v8, v9, v10, v11, v12, v13, v14, v15, v16, v17, v18,
          v19, v20, v21, v22, v23, v24>>

-----------------------------------------------------------------------------
(* The engine's events (EventStream), and that its invariant holds at the start and is kept by
   each step. *)
Events == INSTANCE EventStream WITH
  RingSize <- EventsRingSize, ChSize <- EventsChSize, WireSize <- EventsWireSize,
  MaxChanges <- EventsMaxChanges, MaxIds <- EventsMaxIds, MaxFaults <- EventsMaxFaults,
  drm <- v1, changed <- v2, seq <- v3, log <- v4, sub <- v5, wire <- v6, up <- v7, lastId <- v8,
  got <- v9, page <- v10, faults <- v11

\* The DRM event a message is, by its ID.
EventsOne(e) == IF e.type = "drm" THEN {e.id} ELSE {}

LEMMA EventsAppendFacts ==
  ASSUME NEW s \in Seq(Events!Event), NEW e \in Events!Event
  PROVE  /\ Append(s, e) \in Seq(Events!Event) /\ Len(Append(s, e)) = Len(s) + 1
         /\ \A i \in DOMAIN Append(s, e) :
              \/ i = Len(s) + 1 /\ Append(s, e)[i] = e
              \/ i \in DOMAIN s /\ Append(s, e)[i] = s[i]
         /\ \A i \in DOMAIN s : i \in DOMAIN Append(s, e) /\ Append(s, e)[i] = s[i]
         /\ Len(s) + 1 \in DOMAIN Append(s, e) /\ Append(s, e)[Len(s) + 1] = e
  OBVIOUS

LEMMA EventsAppendLength ==
  ASSUME NEW s \in Seq(Events!Event), NEW e \in Events!Event
  PROVE  Len(s) \in Nat /\ DOMAIN s = 1 .. Len(s) /\ DOMAIN Append(s, e) = 1 .. Len(s) + 1
  OBVIOUS

LEMMA EventsTailFacts ==
  ASSUME NEW s \in Seq(Events!Event), s # <<>>
  PROVE  /\ Tail(s) \in Seq(Events!Event) /\ Len(Tail(s)) = Len(s) - 1
         /\ Head(s) \in Events!Event /\ 1 \in DOMAIN s /\ Head(s) = s[1]
         /\ \A i \in DOMAIN Tail(s) : i + 1 \in DOMAIN s /\ Tail(s)[i] = s[i + 1]
         /\ \A i \in DOMAIN s : i = 1 \/ (i - 1 \in DOMAIN Tail(s) /\ s[i] = Tail(s)[i - 1])
<1>1. Len(s) \in Nat /\ Len(s) # 0 /\ DOMAIN s = 1 .. Len(s)
  OBVIOUS
<1>2. Tail(s) \in Seq(Events!Event) /\ Len(Tail(s)) = Len(s) - 1
  BY <1>1
<1>3. DOMAIN Tail(s) = 1 .. Len(s) - 1
  BY <1>2
<1>4. \A i \in 1 .. Len(s) - 1 : Tail(s)[i] = s[i + 1]
  BY <1>1
<1>5. \A i \in DOMAIN Tail(s) : i + 1 \in DOMAIN s /\ Tail(s)[i] = s[i + 1]
  BY <1>1, <1>3, <1>4
<1>6. ASSUME NEW i \in DOMAIN s, i # 1 PROVE i - 1 \in DOMAIN Tail(s) /\ s[i] = Tail(s)[i - 1]
  <2>1. PICK k \in 1 .. Len(s) - 1 : i = k + 1
    BY <1>1, <1>6
  <2> QED BY <1>3, <1>4, <2>1
<1>7. Head(s) \in Events!Event /\ 1 \in DOMAIN s /\ Head(s) = s[1]
  BY <1>1
<1>8. \A i \in DOMAIN s : i = 1 \/ (i - 1 \in DOMAIN Tail(s) /\ s[i] = Tail(s)[i - 1])
  BY <1>6
<1> QED BY <1>2, <1>5, <1>7, <1>8, Zenon

LEMMA EventsEmptyFacts ==
  /\ <<>> \in Seq(Events!Event) /\ Len(<<>>) = 0 /\ Events!Drm(<<>>) = {} /\ Events!Rises(<<>>)
  /\ Events!InOrder(<<>>)
  /\ \A t : Events!AllFit(<<>>, t) /\ Events!AllFit(t, <<>>)
<1>1. DOMAIN <<>> = {}
  OBVIOUS
<1>2. <<>> \in Seq(Events!Event) /\ Len(<<>>) = 0
  OBVIOUS
<1> QED BY <1>1, <1>2 DEF Events!Drm, Events!Rises, Events!InOrder, Events!AllFit

LEMMA EventsDrmIs ==
  ASSUME NEW s \in Seq(Events!Event)
  PROVE  /\ Events!Drm(s) \subseteq 1 .. EventsMaxIds
         /\ \A x : x \in Events!Drm(s) <=> \E i \in DOMAIN s : s[i].type = "drm" /\ s[i].id = x
<1>1. \A i \in DOMAIN s : s[i] \in Events!Event
  OBVIOUS
<1> QED BY <1>1 DEF Events!Drm, Events!Event

LEMMA EventsEventsAre ==
  ASSUME NEW s \in Seq(Events!Event)
  PROVE  \A i \in DOMAIN s : s[i] \in Events!Event /\ s[i].v \in Nat /\
           s[i].id \in 1 .. EventsMaxIds
<1>1. \A i \in DOMAIN s : s[i] \in Events!Event
  OBVIOUS
<1> QED BY <1>1 DEF Events!Event

\* A message written at the end of a sequence of messages.
LEMMA EventsDrmAppend ==
  ASSUME NEW s \in Seq(Events!Event), NEW e \in Events!Event
  PROVE  Events!Drm(Append(s, e)) = Events!Drm(s) \union EventsOne(e)
<1>0. Append(s, e) \in Seq(Events!Event)
  BY EventsAppendFacts
<1>1. ASSUME NEW x \in Events!Drm(Append(s, e)) PROVE x \in Events!Drm(s) \union EventsOne(e)
  <2>1. PICK i \in DOMAIN Append(s, e) : Append(s, e)[i].type = "drm" /\ Append(s, e)[i].id = x
    BY <1>0, EventsDrmIs
  <2>2. CASE Append(s, e)[i] = e
    BY <2>1, <2>2 DEF EventsOne
  <2>3. CASE i \in DOMAIN s /\ Append(s, e)[i] = s[i]
    BY <2>1, <2>3, EventsDrmIs
  <2> QED BY <2>2, <2>3, EventsAppendFacts
<1>2. ASSUME NEW x \in Events!Drm(s) PROVE x \in Events!Drm(Append(s, e))
  <2>1. PICK i \in DOMAIN s : s[i].type = "drm" /\ s[i].id = x
    BY EventsDrmIs
  <2>2. i \in DOMAIN Append(s, e) /\ Append(s, e)[i] = s[i]
    BY EventsAppendFacts
  <2> QED BY <1>0, <2>1, <2>2, EventsDrmIs
<1>3. ASSUME NEW x \in EventsOne(e) PROVE x \in Events!Drm(Append(s, e))
  <2>1. e.type = "drm" /\ x = e.id
    BY DEF EventsOne
  <2>2. PICK k \in DOMAIN Append(s, e) : Append(s, e)[k] = e
    BY EventsAppendFacts
  <2>3. Append(s, e)[k].type = "drm" /\ Append(s, e)[k].id = x
    BY <2>1, <2>2
  <2> QED BY <1>0, <2>3, EventsDrmIs
<1> QED BY <1>1, <1>2, <1>3

LEMMA EventsRisesAppend ==
  ASSUME NEW s \in Seq(Events!Event), NEW e \in Events!Event, Events!Rises(s),
         Events!Below(Events!Drm(s), EventsOne(e))
  PROVE  Events!Rises(Append(s, e))
<1> SUFFICES ASSUME NEW i \in DOMAIN Append(s, e), NEW j \in DOMAIN Append(s, e), i < j,
                    Append(s, e)[i].type = "drm", Append(s, e)[j].type = "drm"
             PROVE  Append(s, e)[i].id < Append(s, e)[j].id
  BY DEF Events!Rises
<1>0. Len(s) \in Nat /\ DOMAIN s = 1 .. Len(s) /\ i \in 1 .. Len(s) + 1 /\ j \in 1 .. Len(s) + 1
  BY EventsAppendLength
<1>1. CASE j \in DOMAIN s /\ Append(s, e)[j] = s[j]
  <2>1. i \in DOMAIN s /\ Append(s, e)[i] = s[i]
    BY <1>0, <1>1, EventsAppendFacts
  <2> QED BY <1>1, <2>1 DEF Events!Rises
<1>2. CASE j = Len(s) + 1 /\ Append(s, e)[j] = e
  <2>1. i \in DOMAIN s /\ Append(s, e)[i] = s[i]
    BY <1>0, <1>2, EventsAppendFacts
  <2>2. s[i].id \in Events!Drm(s) /\ e.id \in EventsOne(e)
    BY <1>2, <2>1, EventsDrmIs DEF EventsOne
  <2> QED BY <1>2, <2>1, <2>2 DEF Events!Below
<1> QED BY <1>1, <1>2, EventsAppendFacts

LEMMA EventsInOrderAppend ==
  ASSUME NEW s \in Seq(Events!Event), NEW e \in Events!Event, Events!InOrder(s),
         \A i \in DOMAIN s : Events!Fits(s[i], e)
  PROVE  Events!InOrder(Append(s, e))
<1> SUFFICES ASSUME NEW i \in DOMAIN Append(s, e), NEW j \in DOMAIN Append(s, e), i < j
             PROVE  Events!Fits(Append(s, e)[i], Append(s, e)[j])
  BY DEF Events!InOrder
<1>0. Len(s) \in Nat /\ DOMAIN s = 1 .. Len(s) /\ i \in 1 .. Len(s) + 1 /\ j \in 1 .. Len(s) + 1
  BY EventsAppendLength
<1>1. i \in DOMAIN s /\ Append(s, e)[i] = s[i]
  BY <1>0, EventsAppendFacts
<1>2. CASE j \in DOMAIN s /\ Append(s, e)[j] = s[j]
  BY <1>1, <1>2 DEF Events!InOrder
<1>3. CASE Append(s, e)[j] = e
  BY <1>1, <1>3
<1> QED BY <1>2, <1>3, EventsAppendFacts

LEMMA EventsAllFitAppend ==
  ASSUME NEW s \in Seq(Events!Event), NEW e \in Events!Event, NEW t
  PROVE  /\ Events!AllFit(s, t) /\ (\A j \in DOMAIN t : Events!Fits(e, t[j])) =>
              Events!AllFit(Append(s, e), t)
         /\ Events!AllFit(t, s) /\ (\A i \in DOMAIN t : Events!Fits(t[i], e)) =>
              Events!AllFit(t, Append(s, e))
<1>1. \A i \in DOMAIN Append(s, e) :
        Append(s, e)[i] = e \/ (i \in DOMAIN s /\ Append(s, e)[i] = s[i])
  BY EventsAppendFacts
<1> QED BY <1>1 DEF Events!AllFit

\* The first message of a sequence taken from it.
LEMMA EventsDrmTail ==
  ASSUME NEW s \in Seq(Events!Event), s # <<>>
  PROVE  Events!Drm(s) = EventsOne(Head(s)) \union Events!Drm(Tail(s))
<1>0. Tail(s) \in Seq(Events!Event)
  BY EventsTailFacts
<1>1. ASSUME NEW x \in Events!Drm(s) PROVE x \in EventsOne(Head(s)) \union Events!Drm(Tail(s))
  <2>1. PICK i \in DOMAIN s : s[i].type = "drm" /\ s[i].id = x
    BY EventsDrmIs
  <2>2. CASE i = 1
    BY <2>1, <2>2, EventsTailFacts DEF EventsOne
  <2>3. CASE i - 1 \in DOMAIN Tail(s) /\ s[i] = Tail(s)[i - 1]
    BY <1>0, <2>1, <2>3, EventsDrmIs
  <2> QED BY <2>2, <2>3, EventsTailFacts
<1>2. ASSUME NEW x \in EventsOne(Head(s)) PROVE x \in Events!Drm(s)
  <2>1. Head(s).type = "drm" /\ x = Head(s).id
    BY DEF EventsOne
  <2> QED BY <2>1, EventsTailFacts, EventsDrmIs
<1>3. ASSUME NEW x \in Events!Drm(Tail(s)) PROVE x \in Events!Drm(s)
  <2>1. PICK i \in DOMAIN Tail(s) : Tail(s)[i].type = "drm" /\ Tail(s)[i].id = x
    BY <1>0, EventsDrmIs
  <2>2. i + 1 \in DOMAIN s /\ s[i + 1] = Tail(s)[i]
    BY EventsTailFacts
  <2> QED BY <2>1, <2>2, EventsDrmIs
<1> QED BY <1>1, <1>2, <1>3

LEMMA EventsRisesTail ==
  ASSUME NEW s \in Seq(Events!Event), s # <<>>, Events!Rises(s)
  PROVE  Events!Rises(Tail(s)) /\ Events!Below(EventsOne(Head(s)), Events!Drm(Tail(s)))
<1>0. Tail(s) \in Seq(Events!Event) /\ Len(s) \in Nat /\ DOMAIN s = 1 .. Len(s) /\
        DOMAIN Tail(s) = 1 .. Len(s) - 1
  BY EventsTailFacts
<1>1. ASSUME NEW i \in DOMAIN Tail(s), NEW j \in DOMAIN Tail(s), i < j,
             Tail(s)[i].type = "drm", Tail(s)[j].type = "drm"
      PROVE  Tail(s)[i].id < Tail(s)[j].id
  <2>1. i + 1 \in DOMAIN s /\ j + 1 \in DOMAIN s /\ i + 1 < j + 1 /\ Tail(s)[i] = s[i + 1] /\
          Tail(s)[j] = s[j + 1]
    BY <1>0, <1>1, EventsTailFacts
  <2> QED BY <1>1, <2>1 DEF Events!Rises
<1>2. ASSUME NEW x \in EventsOne(Head(s)), NEW y \in Events!Drm(Tail(s))
      PROVE  x < y
  <2>1. Head(s).type = "drm" /\ x = Head(s).id
    BY DEF EventsOne
  <2>2. PICK j \in DOMAIN Tail(s) : Tail(s)[j].type = "drm" /\ Tail(s)[j].id = y
    BY <1>0, EventsDrmIs
  <2>3. j + 1 \in DOMAIN s /\ 1 \in DOMAIN s /\ 1 < j + 1 /\ s[j + 1] = Tail(s)[j] /\
          s[1] = Head(s)
    BY <1>0, EventsTailFacts
  <2> QED BY <2>1, <2>2, <2>3 DEF Events!Rises
<1> QED BY <1>1, <1>2 DEF Events!Rises, Events!Below

LEMMA EventsInOrderTail ==
  ASSUME NEW s \in Seq(Events!Event), s # <<>>, Events!InOrder(s)
  PROVE  Events!InOrder(Tail(s)) /\ \A j \in DOMAIN Tail(s) : Events!Fits(Head(s), Tail(s)[j])
<1>0. Tail(s) \in Seq(Events!Event) /\ Len(s) \in Nat /\ DOMAIN s = 1 .. Len(s) /\
        DOMAIN Tail(s) = 1 .. Len(s) - 1
  BY EventsTailFacts
<1>1. ASSUME NEW i \in DOMAIN Tail(s), NEW j \in DOMAIN Tail(s), i < j
      PROVE  Events!Fits(Tail(s)[i], Tail(s)[j])
  <2>1. i + 1 \in DOMAIN s /\ j + 1 \in DOMAIN s /\ i + 1 < j + 1 /\ Tail(s)[i] = s[i + 1] /\
          Tail(s)[j] = s[j + 1]
    BY <1>0, <1>1, EventsTailFacts
  <2> QED BY <2>1 DEF Events!InOrder
<1>2. ASSUME NEW j \in DOMAIN Tail(s)
      PROVE  Events!Fits(Head(s), Tail(s)[j])
  <2>1. 1 \in DOMAIN s /\ j + 1 \in DOMAIN s /\ 1 < j + 1 /\ Head(s) = s[1] /\
          Tail(s)[j] = s[j + 1]
    BY <1>0, EventsTailFacts
  <2> QED BY <2>1 DEF Events!InOrder
<1> QED BY <1>1, <1>2 DEF Events!InOrder

LEMMA EventsAllFitTail ==
  ASSUME NEW s \in Seq(Events!Event), s # <<>>, NEW t
  PROVE  /\ Events!AllFit(s, t) => Events!AllFit(Tail(s), t) /\
              \A j \in DOMAIN t : Events!Fits(Head(s), t[j])
         /\ Events!AllFit(t, s) => Events!AllFit(t, Tail(s)) /\
              \A i \in DOMAIN t : Events!Fits(t[i], Head(s))
<1>1. \A i \in DOMAIN Tail(s) : i + 1 \in DOMAIN s /\ Tail(s)[i] = s[i + 1]
  BY EventsTailFacts
<1>2. 1 \in DOMAIN s /\ Head(s) = s[1]
  BY EventsTailFacts
<1> QED BY <1>1, <1>2 DEF Events!AllFit


\* What no gap says of the IDs read, on the wire, to be replayed and in the channel.
EventsBetween(open, from, G, W, T, C, L) ==
  /\ Events!Below(G, W) /\ Events!Below(G \union W, T) /\ Events!Below(G \union W \union T, C)
  /\ LET hand == G \union W \union T \union C
         owed == {id \in L : id > from}
     IN IF open THEN hand = owed ELSE hand \subseteq owed /\ Events!Below(hand, owed \ hand)
EventsAllRise == Events!Rises(v9) /\ Events!Rises(v6) /\ Events!Rises(v5.todo) /\
  Events!Rises(v5.ch)

LEMMA EventsNoGapIs ==
  Events!NoGap <=> (v5.st # "none" =>
                      /\ EventsAllRise
                      /\ EventsBetween(v5.open, v5.from, Events!Drm(v9), Events!Drm(v6),
                           Events!Drm(v5.todo), Events!Drm(v5.ch), Events!Drm(v4)))
BY DEF Events!NoGap, EventsAllRise, EventsBetween, Events!InHand, Events!Owed
LEMMA EventsNoGapNext ==
  Events!NoGap' <=> (v5'.st # "none" =>
                      /\ EventsAllRise'
                      /\ EventsBetween(v5'.open, v5'.from, Events!Drm(v9'), Events!Drm(v6'),
                           Events!Drm(v5'.todo), Events!Drm(v5'.ch), Events!Drm(v4')))
BY DEF Events!NoGap, EventsAllRise, EventsBetween, Events!InHand, Events!Owed

LEMMA EventsFromWireToGot ==
  ASSUME NEW o, NEW f, NEW G, NEW W, NEW T, NEW C, NEW L, NEW H,
         EventsBetween(o, f, G, H \union W, T, C, L),
         Events!Below(H, W)
  PROVE  EventsBetween(o, f, G \union H, W, T, C, L)
<1>1. Events!Below(G \union H, W) /\ Events!Below((G \union H) \union W, T) /\
        Events!Below((G \union H) \union W \union T, C)
  BY DEF EventsBetween, Events!Below
<1>2. (G \union H) \union W \union T \union C = G \union (H \union W) \union T \union C
  OBVIOUS
<1> QED BY <1>1, <1>2 DEF EventsBetween
LEMMA EventsFromTodoToWire ==
  ASSUME NEW o, NEW f, NEW G, NEW W, NEW T, NEW C, NEW L, NEW H,
         EventsBetween(o, f, G, W, H \union T, C, L),
         Events!Below(H, T)
  PROVE  EventsBetween(o, f, G, W \union H, T, C, L)
<1>1. Events!Below(G, W \union H) /\ Events!Below(G \union (W \union H), T) /\
        Events!Below(G \union (W \union H) \union T, C)
  BY DEF EventsBetween, Events!Below
<1>2. G \union (W \union H) \union T \union C = G \union W \union (H \union T) \union C
  OBVIOUS
<1> QED BY <1>1, <1>2 DEF EventsBetween
LEMMA EventsFromChToWire ==
  ASSUME NEW o, NEW f, NEW G, NEW W, NEW C, NEW L, NEW H,
         EventsBetween(o, f, G, W, {}, H \union C, L), Events!Below(H, C)
  PROVE  EventsBetween(o, f, G, W \union H, {}, C, L)
<1>1. Events!Below(G, W \union H) /\ Events!Below(G \union (W \union H), {}) /\
        Events!Below(G \union (W \union H) \union {}, C)
  BY DEF EventsBetween, Events!Below
<1>2. G \union (W \union H) \union {} \union C = G \union W \union {} \union (H \union C)
  OBVIOUS
<1> QED BY <1>1, <1>2 DEF EventsBetween

\* What the messages on their way are to the page and the log.
EventsIsBehind(e, p) == e.v < p.v /\ e.id > p.snap
EventsComesTo(m, d, l, p) ==
  /\ m.v <= d /\ (m.type = "drm" => ~EventsIsBehind(m, p))
  /\ \A k \in DOMAIN l : l[k].id > m.id => l[k].v >= m.v
  /\ \A k \in DOMAIN l : EventsIsBehind(l[k], p) => l[k].id < m.id
EventsAllCome(s, d, l, p) == \A i \in DOMAIN s : EventsComesTo(s[i], d, l, p)
EventsLogIsBehind(l, p, last) == \A k \in DOMAIN l : EventsIsBehind(l[k], p) => l[k].id <= last
EventsAllAhead(d, l, p, last) ==
  /\ EventsAllCome(v6, d, l, p) /\ EventsAllCome(v5.todo, d, l, p) /\ EventsAllCome(v5.ch, d, l, p)
  /\ EventsLogIsBehind(l, p, last)

LEMMA EventsPageIsAheadIs ==
  Events!PageIsAhead <=> /\ v10.mode = "waiting" => v10.v = 0 /\ v10.snap = 0
                         /\ EventsAllAhead(v1, v4, v10, v8)
BY DEF Events!PageIsAhead, EventsAllAhead, EventsAllCome, EventsLogIsBehind, EventsComesTo,
   EventsIsBehind, Events!Comes, Events!Behind
LEMMA EventsPageIsAheadNext ==
  Events!PageIsAhead' <=> /\ v10'.mode = "waiting" => v10'.v = 0 /\ v10'.snap = 0
                          /\ EventsAllCome(v6', v1', v4', v10')
                          /\ EventsAllCome(v5'.todo, v1', v4', v10')
                          /\ EventsAllCome(v5'.ch, v1', v4', v10')
                          /\ EventsLogIsBehind(v4', v10', v8')
BY DEF Events!PageIsAhead, EventsAllCome, EventsLogIsBehind, EventsComesTo, EventsIsBehind,
   Events!Comes, Events!Behind

LEMMA EventsAllComeAppend ==
  ASSUME NEW s \in Seq(Events!Event), NEW e \in Events!Event, NEW d, NEW l, NEW p,
         EventsAllCome(s, d, l, p), EventsComesTo(e, d, l, p)
  PROVE  EventsAllCome(Append(s, e), d, l, p)
<1> SUFFICES ASSUME NEW i \in DOMAIN Append(s, e) PROVE EventsComesTo(Append(s, e)[i], d, l, p)
  BY DEF EventsAllCome
<1>1. CASE Append(s, e)[i] = e
  BY <1>1
<1>2. CASE i \in DOMAIN s /\ Append(s, e)[i] = s[i]
  BY <1>2 DEF EventsAllCome
<1> QED BY <1>1, <1>2, EventsAppendFacts
LEMMA EventsAllComeTail ==
  ASSUME NEW s \in Seq(Events!Event), s # <<>>, NEW d, NEW l, NEW p, EventsAllCome(s, d, l, p)
  PROVE  EventsAllCome(Tail(s), d, l, p) /\ EventsComesTo(Head(s), d, l, p)
<1>1. ASSUME NEW i \in DOMAIN Tail(s) PROVE EventsComesTo(Tail(s)[i], d, l, p)
  <2>1. i + 1 \in DOMAIN s /\ Tail(s)[i] = s[i + 1]
    BY EventsTailFacts
  <2> QED BY <2>1 DEF EventsAllCome
<1>2. 1 \in DOMAIN s /\ Head(s) = s[1]
  BY EventsTailFacts
<1> QED BY <1>1, <1>2 DEF EventsAllCome

LEMMA EventsTypes ==
  ASSUME Events!EventsAssumption, Events!IInv
  PROVE  /\ v4 \in Seq(Events!Event) /\ v6 \in Seq(Events!Event) /\ v9 \in Seq(Events!Event)
         /\ v5 \in Events!Subs
         /\ v5.ch \in Seq(Events!Event) /\ v5.todo \in Seq(Events!Event)
         /\ v3 \in Nat /\ v1 \in Nat /\ EventsMaxIds \in Nat /\ v3 <= EventsMaxIds
         /\ v8 \in 0 .. EventsMaxIds
         /\ v5.v \in Nat /\ v5.from \in Nat
         /\ v10 \in [mode : {"waiting", "resolved", "listening"}, snap : 0 .. EventsMaxIds, v :
              Nat]
  BY DEF Events!EventsAssumption, Events!IInv, Events!TypeOK, Events!Subs

\* The DRM events in hand are events of the log.
LEMMA EventsHandIsOld ==
  ASSUME Events!EventsAssumption, Events!IInv, v5.st # "none"
  PROVE  /\ \A x \in Events!Drm(v4) : x <= v3
         /\ \A i \in DOMAIN v5.todo : v5.todo[i].id <= v3 /\ v5.todo[i].type = "drm"
         /\ \A i \in DOMAIN v5.ch : v5.ch[i].id <= v3 /\ v5.ch[i].type = "drm"
         /\ \A i \in DOMAIN v6 : v6[i].id <= v3
         /\ Events!Drm(v5.todo) \union Events!Drm(v5.ch) \subseteq Events!Drm(v4)
<1>1. ASSUME NEW x \in Events!Drm(v4) PROVE x <= v3
  <2>1. PICK i \in DOMAIN v4 : v4[i].type = "drm" /\ v4[i].id = x
    BY EventsTypes, EventsDrmIs
  <2> QED BY <2>1 DEF Events!IInv, Events!LogRises
<1>2. Events!InHand \subseteq Events!Owed
  BY DEF Events!IInv, Events!NoGap
<1>3. Events!Drm(v5.todo) \union Events!Drm(v5.ch) \subseteq Events!Drm(v4)
  BY <1>2 DEF Events!InHand, Events!Owed
<1>4. ASSUME NEW i \in DOMAIN v5.todo PROVE v5.todo[i].id <= v3 /\ v5.todo[i].type = "drm"
  <2>1. v5.todo[i].type = "drm"
    BY DEF Events!IInv, Events!SubIsOpen
  <2>2. v5.todo[i].id \in Events!Drm(v5.todo)
    BY <2>1, EventsTypes, EventsDrmIs
  <2> QED BY <1>1, <1>3, <2>1, <2>2
<1>5. ASSUME NEW i \in DOMAIN v5.ch PROVE v5.ch[i].id <= v3 /\ v5.ch[i].type = "drm"
  <2>1. v5.ch[i].type = "drm"
    BY DEF Events!IInv, Events!SubIsOpen
  <2>2. v5.ch[i].id \in Events!Drm(v5.ch)
    BY <2>1, EventsTypes, EventsDrmIs
  <2> QED BY <1>1, <1>3, <2>1, <2>2
<1>6. \A i \in DOMAIN v6 : v6[i].id <= v3
  BY DEF Events!IInv, Events!SubIsOpen
<1> QED BY <1>1, <1>3, <1>4, <1>5, <1>6

LEMMA EventsInitEstablishes ==
  ASSUME Events!EventsAssumption, Events!Init
  PROVE  Events!IInv
<1>1. /\ v1 = 1 /\ v3 = 0 /\ v4 = <<>> /\ v6 = <<>> /\ v9 = <<>> /\ v8 = 0 /\ v5 = Events!NoSub
      /\ v10 = [mode |-> "waiting", snap |-> 0, v |-> 0]
  BY DEF Events!Init
<1>2. v2 \in BOOLEAN /\ v7 \in BOOLEAN /\ ~v7
  BY DEF Events!Init
<1>3. /\ v5.st = "none" /\ v5.ch = <<>> /\ v5.todo = <<>> /\ ~v5.open /\ v5.v = 0 /\ v5.gap = FALSE
      /\ v5.from = 0 /\ v5 \in Events!Subs
  <2>1. Events!NoSub \in Events!Subs
    BY EventsEmptyFacts DEF Events!NoSub, Events!Subs
  <2> QED BY <1>1, <2>1 DEF Events!NoSub
<1>4. Len(v5.ch) <= EventsChSize /\ Len(v6) <= EventsWireSize
  BY <1>1, <1>3, EventsEmptyFacts DEF Events!EventsAssumption
<1>5. v10 \in [mode : {"waiting", "resolved", "listening"}, snap : 0 .. EventsMaxIds, v : Nat] /\
        v10.v <= v1
  BY <1>1 DEF Events!EventsAssumption
<1>6. Events!TypeOK
  BY <1>1, <1>2, <1>3, <1>4, <1>5, EventsEmptyFacts DEF Events!TypeOK, Events!EventsAssumption
<1>7. DOMAIN <<>> = {}
  OBVIOUS
<1>8. Events!LogRises /\ Events!SubIsOpen /\ Events!NoGap
  BY <1>1, <1>2, <1>3, <1>7 DEF Events!LogRises, Events!SubIsOpen, Events!NoGap
<1>9. Events!ComesInOrder
  BY <1>1, <1>3, EventsEmptyFacts DEF Events!ComesInOrder
<1>10. Events!PageIsAhead
  BY <1>1, <1>3, <1>7 DEF Events!PageIsAhead
<1> QED BY <1>6, <1>8, <1>9, <1>10 DEF Events!IInv


LEMMA EventsGrouped ==
  ASSUME Events!IInv
  PROVE  /\ Events!TypeOK /\ Events!LogRises /\ Events!SubIsOpen /\ Events!NoGap
         /\ Events!ComesInOrder /\ Events!PageIsAhead
         /\ EventsAllAhead(v1, v4, v10, v8)
  BY EventsPageIsAheadIs DEF Events!IInv

\* Steps that leave the messages where they are.
LEMMA EventsChangeKeeps ==
  ASSUME Events!EventsAssumption, Events!IInv, Events!Change
  PROVE  Events!IInv' /\ Events!NotBack
<1> USE DEF Events!EventsAssumption
<1>1. /\ v1' = v1 + 1 /\ v1 < EventsMaxChanges /\ v3' = v3 /\ v4' = v4 /\ v5' = v5 /\ v6' = v6
      /\ v8' = v8 /\ v9' = v9 /\ v10' = v10
  BY DEF Events!Change, Events!client
<1>2. v2' \in BOOLEAN /\ v7' \in BOOLEAN /\ (v7' <=> v7)
  BY DEF Events!Change, Events!client, Events!IInv, Events!TypeOK
<1>3. v1 \in Nat /\ v10.v \in Nat /\ v5.v \in Nat
  BY EventsTypes
<1>4. Events!TypeOK'
  BY <1>1, <1>2, EventsGrouped DEF Events!TypeOK
<1>5. Events!LogRises'
  <2>1. \A i \in DOMAIN v4 : v4[i].v \in Nat
    BY EventsTypes, EventsEventsAre
  <2> QED BY <1>1, <1>3, <2>1, EventsGrouped DEF Events!LogRises
<1>6. Events!SubIsOpen' /\ Events!NoGap' /\ Events!ComesInOrder'
  <2>1. Events!SubIsOpen'
    BY <1>1, <1>2, <1>3, EventsGrouped DEF Events!SubIsOpen
  <2>2. Events!NoGap' /\ Events!ComesInOrder'
    BY <1>1, EventsGrouped DEF Events!NoGap, Events!InHand, Events!Owed, Events!ComesInOrder
  <2> QED BY <2>1, <2>2
<1>7. ASSUME NEW s \in Seq(Events!Event), EventsAllCome(s, v1, v4, v10)
      PROVE  EventsAllCome(s, v1 + 1, v4, v10)
  <2>1. \A i \in DOMAIN s : s[i].v \in Nat
    BY EventsEventsAre
  <2> QED BY <1>3, <1>7, <2>1 DEF EventsAllCome, EventsComesTo
<1>8. Events!PageIsAhead'
  <2>1. /\ EventsAllCome(v6, v1 + 1, v4, v10) /\ EventsAllCome(v5.todo, v1 + 1, v4, v10)
        /\ EventsAllCome(v5.ch, v1 + 1, v4, v10)
    BY <1>7, EventsTypes, EventsGrouped DEF EventsAllAhead
  <2> QED BY <1>1, <2>1, EventsGrouped, EventsPageIsAheadNext,
             EventsPageIsAheadIs DEF EventsAllAhead
<1>9. Events!NotBack
  BY <1>1, <1>3 DEF Events!NotBack
<1> QED BY <1>4, <1>5, <1>6, <1>8, <1>9 DEF Events!IInv

LEMMA EventsReadStatusKeeps ==
  ASSUME Events!EventsAssumption, Events!IInv, Events!ReadStatus
  PROVE  Events!IInv' /\ Events!NotBack
<1>1. /\ v1' = v1 /\ v3' = v3 /\ v4' = v4 /\ v6' = v6
      /\ v8' = v8 /\ v9' = v9 /\ v10' = v10 /\ v5.st = "subscribed"
  BY DEF Events!ReadStatus, Events!client, Events!engine
<1>2. v2' \in BOOLEAN /\ v7' \in BOOLEAN /\ (v7' <=> v7) /\ (v5'.open <=> v5.open) /\
        (v5'.gap <=> v5.gap)
  BY EventsTypes DEF Events!ReadStatus, Events!client, Events!engine, Events!IInv, Events!TypeOK,
     Events!Subs
<1>3. v1 \in Nat /\ v10.v \in Nat
  BY EventsTypes
<1>4. /\ v5'.st = "read" /\ v5'.v = v1 /\ v5'.ch = v5.ch /\ v5'.todo = v5.todo
      /\ v5'.from = v5.from
      /\ v5' \in Events!Subs
  BY <1>3, EventsTypes DEF Events!ReadStatus, Events!Subs
<1>5. Events!TypeOK' /\ Events!LogRises'
  BY <1>1, <1>2, <1>4, EventsGrouped DEF Events!TypeOK, Events!LogRises
<1>6. Events!SubIsOpen'
  BY <1>1, <1>2, <1>3, <1>4, EventsGrouped DEF Events!SubIsOpen
<1>7. Events!NoGap' /\ Events!ComesInOrder'
  BY <1>1, <1>2, <1>4, EventsGrouped DEF Events!NoGap, Events!InHand, Events!Owed,
     Events!ComesInOrder
<1>8. Events!PageIsAhead'
  BY <1>1, <1>4, EventsGrouped, EventsPageIsAheadNext, EventsPageIsAheadIs DEF EventsAllAhead
<1>9. Events!NotBack
  BY <1>1, <1>3 DEF Events!NotBack
<1> QED BY <1>5, <1>6, <1>7, <1>8, <1>9 DEF Events!IInv

LEMMA EventsListenKeeps ==
  ASSUME Events!EventsAssumption, Events!IInv, Events!Listen
  PROVE  Events!IInv' /\ Events!NotBack
<1>1. /\ v1' = v1 /\ v3' = v3 /\ v4' = v4 /\ v6' = v6 /\ v5' = v5 /\ v8' = v8 /\ v9' = v9
  BY DEF Events!Listen, Events!engine
<1>2. v2' \in BOOLEAN /\ v7' \in BOOLEAN /\ (v7' <=> v7)
  BY DEF Events!Listen, Events!engine, Events!IInv, Events!TypeOK
<1>3. v1 \in Nat /\ v10.v \in Nat
  BY EventsTypes
<1>4. /\ v10'.mode = "listening" /\ v10'.v = v10.v /\ v10'.snap = v10.snap
      /\ v10' \in [mode : {"waiting", "resolved", "listening"}, snap : 0 .. EventsMaxIds, v : Nat]
  BY EventsTypes DEF Events!Listen
<1>5. Events!TypeOK' /\ Events!LogRises' /\ Events!SubIsOpen'
  BY <1>1, <1>2, <1>4, EventsGrouped DEF Events!TypeOK, Events!LogRises, Events!SubIsOpen
<1>6. Events!NoGap' /\ Events!ComesInOrder'
  BY <1>1, EventsGrouped DEF Events!NoGap, Events!InHand, Events!Owed, Events!ComesInOrder
<1>7. Events!PageIsAhead'
  BY <1>1, <1>4, EventsGrouped DEF Events!PageIsAhead, Events!Comes, Events!Behind
<1>8. Events!NotBack
  BY <1>3, <1>4 DEF Events!NotBack
<1> QED BY <1>5, <1>6, <1>7, <1>8 DEF Events!IInv

LEMMA EventsStreamEndsKeeps ==
  ASSUME Events!EventsAssumption, Events!IInv, Events!StreamEnds
  PROVE  Events!IInv' /\ Events!NotBack
<1>1. /\ v1' = v1 /\ v3' = v3 /\ v4' = v4 /\ v6' = v6 /\ v5' = v5 /\ v8' = v8 /\ v9' = v9
      /\ v10' = v10 /\ v5.st = "none" /\ v6 = <<>>
  BY DEF Events!StreamEnds, Events!engine
<1>2. v2' \in BOOLEAN /\ v7' \in BOOLEAN /\ ~v7'
  BY DEF Events!StreamEnds, Events!engine, Events!IInv, Events!TypeOK
<1>3. Events!TypeOK' /\ Events!LogRises' /\ Events!SubIsOpen'
  BY <1>1, <1>2, EventsGrouped DEF Events!TypeOK, Events!LogRises, Events!SubIsOpen
<1>4. Events!NoGap' /\ Events!ComesInOrder'
  BY <1>1, EventsGrouped DEF Events!NoGap, Events!ComesInOrder
<1>5. Events!PageIsAhead'
  BY <1>1, EventsGrouped DEF Events!PageIsAhead, Events!Comes, Events!Behind
<1>6. Events!NotBack
  BY <1>1, EventsTypes DEF Events!NotBack
<1> QED BY <1>3, <1>4, <1>5, <1>6 DEF Events!IInv

LEMMA EventsNoSubIs ==
  /\ Events!NoSub.st = "none" /\ Events!NoSub.ch = <<>> /\ Events!NoSub.todo = <<>>
  /\ ~Events!NoSub.open /\ Events!NoSub.v = 0
  /\ Events!NoSub \in Events!Subs
<1>1. Events!NoSub \in Events!Subs
  BY EventsEmptyFacts DEF Events!NoSub, Events!Subs
<1> QED BY <1>1 DEF Events!NoSub

LEMMA EventsCutKeeps ==
  ASSUME Events!EventsAssumption, Events!IInv, Events!Cut
  PROVE  Events!IInv' /\ Events!NotBack
<1>1. /\ v1' = v1 /\ v3' = v3 /\ v4' = v4 /\ v6' = <<>> /\ v5' = Events!NoSub /\ v8' = v8
      /\ v9' = v9
      /\ v10' = v10
  BY DEF Events!Cut, Events!engine
<1>2. v2' \in BOOLEAN /\ v7' \in BOOLEAN /\ ~v7'
  BY DEF Events!Cut, Events!engine, Events!IInv, Events!TypeOK
<1>3. Events!TypeOK'
  <2>1. Len(v5'.ch) <= EventsChSize /\ Len(v6') <= EventsWireSize /\ v6' \in Seq(Events!Event)
    BY <1>1, EventsEmptyFacts, EventsNoSubIs DEF Events!EventsAssumption
  <2> QED BY <1>1, <1>2, <2>1, EventsNoSubIs, EventsGrouped DEF Events!TypeOK
<1>4. Events!LogRises' /\ Events!SubIsOpen'
  <2>1. v1 \in Nat /\ DOMAIN <<>> = {}
    BY EventsTypes
  <2> QED BY <1>1, <1>2, <2>1, EventsNoSubIs, EventsGrouped DEF Events!LogRises, Events!SubIsOpen
<1>5. Events!NoGap' /\ Events!ComesInOrder'
  BY <1>1, EventsNoSubIs, EventsEmptyFacts DEF Events!NoGap, Events!ComesInOrder
<1>6. Events!PageIsAhead'
  <2>1. DOMAIN <<>> = {}
    OBVIOUS
  <2> QED BY <1>1, <2>1, EventsNoSubIs, EventsGrouped DEF Events!PageIsAhead, Events!Behind
<1>7. Events!NotBack
  BY <1>1, EventsTypes DEF Events!NotBack
<1> QED BY <1>3, <1>4, <1>5, <1>6, <1>7 DEF Events!IInv

LEMMA EventsRestartKeeps ==
  ASSUME Events!EventsAssumption, Events!IInv, Events!Restart
  PROVE  Events!IInv' /\ Events!NotBack
<1>1. /\ v1' = v1 + 1 /\ v1 < EventsMaxChanges /\ v3' = 0 /\ v4' = <<>> /\ v6' = v6
      /\ v5' = Events!NoSub
      /\ v8' = v8 /\ v9' = v9 /\ v10' = v10
  BY DEF Events!Restart, Events!client
<1>2. v2' \in BOOLEAN /\ v7' \in BOOLEAN /\ (v7' <=> v7)
  BY DEF Events!Restart, Events!client, Events!IInv, Events!TypeOK
<1>3. v1 \in Nat /\ v10.v \in Nat /\ DOMAIN <<>> = {} /\ EventsMaxIds \in Nat
  BY EventsTypes
<1>4. Events!TypeOK'
  <2>1. Len(v5'.ch) <= EventsChSize /\ v4' \in Seq(Events!Event) /\ v3' \in 0 .. EventsMaxIds
    BY <1>1, <1>3, EventsEmptyFacts, EventsNoSubIs DEF Events!EventsAssumption
  <2>2. v1' \in 1 .. EventsMaxChanges /\ v10'.v <= v1'
    BY <1>1, <1>3, EventsGrouped DEF Events!TypeOK, Events!EventsAssumption
  <2> QED BY <1>1, <1>2, <2>1, <2>2, EventsNoSubIs, EventsGrouped DEF Events!TypeOK
<1>5. Events!LogRises' /\ Events!SubIsOpen'
  BY <1>1, <1>2, <1>3, EventsNoSubIs, EventsGrouped DEF Events!LogRises, Events!SubIsOpen
<1>6. Events!NoGap' /\ Events!ComesInOrder'
  BY <1>1, EventsNoSubIs, EventsEmptyFacts, EventsGrouped DEF Events!NoGap, Events!ComesInOrder
<1>7. Events!PageIsAhead'
  <2>1. \A i \in DOMAIN v6 : v6[i].v \in Nat
    BY EventsTypes, EventsEventsAre
  <2>2. EventsAllCome(v6, v1 + 1, <<>>, v10)
    BY <1>3, <2>1, EventsGrouped DEF EventsAllAhead, EventsAllCome, EventsComesTo
  <2>3. EventsAllCome(<<>>, v1 + 1, <<>>, v10) /\ EventsLogIsBehind(<<>>, v10, v8)
    BY <1>3 DEF EventsAllCome, EventsLogIsBehind
  <2> QED BY <1>1, <2>2, <2>3, EventsNoSubIs, EventsGrouped, EventsPageIsAheadNext,
             EventsPageIsAheadIs
<1>8. Events!NotBack
  BY <1>1, <1>3 DEF Events!NotBack
<1> QED BY <1>4, <1>5, <1>6, <1>7, <1>8 DEF Events!IInv


\* An event of the handler's own is written: it has a new ID, and shows no state later than the
\* present one.
LEMMA EventsNewIsWritten ==
  ASSUME Events!EventsAssumption, Events!IInv, v5.st # "none",
         NEW type \in {"snapshot", "truncated", "lagged", "ping"},
         NEW v \in Nat, v <= v1, Events!WriteNew(type, v)
  PROVE  /\ v3' = v3 + 1 /\ v3' \in 0 .. EventsMaxIds /\ v6' \in Seq(Events!Event)
         /\ Len(v6') <= EventsWireSize
         /\ Events!Drm(v6') = Events!Drm(v6) /\ (Events!Rises(v6) => Events!Rises(v6')) /\
              Events!InOrder(v6')
         /\ Events!AllFit(v6', v5.todo) /\ Events!AllFit(v6', v5.ch)
         /\ EventsAllCome(v6', v1, v4, v10)
         /\ \A i \in DOMAIN v6' : v6'[i].id <= v3'
<1> DEFINE e == [type |-> type, id |-> v3 + 1, v |-> v]
<1>1. /\ v3 < EventsMaxIds /\ v3' = v3 + 1 /\ Len(v6) < EventsWireSize /\ v6' = Append(v6, e)
  BY DEF Events!WriteNew, Events!Write
<1>2. e \in Events!Event
  <2>1. v3 + 1 \in 1 .. EventsMaxIds
    BY <1>1, EventsTypes
  <2> QED BY <2>1 DEF Events!Event
<1>3. e.type # "drm" /\ e.type = type /\ e.id = v3 + 1 /\ e.v = v
  OBVIOUS
<1> HIDE DEF e
<1>4. v3 \in Nat /\ EventsMaxIds \in Nat /\ v6 \in Seq(Events!Event) /\
        v5.todo \in Seq(Events!Event) /\ v5.ch \in Seq(Events!Event)
  BY EventsTypes
<1>5. EventsOne(e) = {}
  BY <1>3 DEF EventsOne
<1>6. v3' \in 0 .. EventsMaxIds
  BY <1>1, <1>4
<1>7. v6' \in Seq(Events!Event) /\ Len(v6') <= EventsWireSize
  <2>1. Len(v6') = Len(v6) + 1 /\ Len(v6) \in Nat /\ v6' \in Seq(Events!Event)
    BY <1>1, <1>2, <1>4, EventsAppendFacts, EventsAppendLength
  <2> QED BY <1>1, <2>1 DEF Events!EventsAssumption
<1>8. Events!Drm(v6') = Events!Drm(v6)
  BY <1>1, <1>2, <1>4, <1>5, EventsDrmAppend
<1>9. Events!Rises(v6) => Events!Rises(v6')
  BY <1>1, <1>2, <1>4, <1>5, EventsRisesAppend DEF Events!Below
<1>10. Events!InOrder(v6')
  <2>1. \A i \in DOMAIN v6 : Events!Fits(v6[i], e)
    <3>1. \A i \in DOMAIN v6 : v6[i].id <= v3 /\ v6[i].id \in Nat
      BY <1>4, EventsHandIsOld, EventsEventsAre
    <3> QED BY <1>3, <1>4, <3>1 DEF Events!Fits
  <2> QED BY <1>1, <1>2, <1>4, <2>1, EventsInOrderAppend, EventsGrouped DEF Events!ComesInOrder
<1>11. Events!AllFit(v6', v5.todo) /\ Events!AllFit(v6', v5.ch)
  <2>1. ASSUME NEW t \in Seq(Events!Event), \A i \in DOMAIN t : t[i].id <= v3
        PROVE  \A i \in DOMAIN t : Events!Fits(e, t[i])
    <3>1. \A i \in DOMAIN t : t[i].id \in Nat
      BY EventsEventsAre
    <3> QED BY <1>3, <1>4, <2>1, <3>1 DEF Events!Fits
  <2>2. (\A i \in DOMAIN v5.todo : Events!Fits(e, v5.todo[i])) /\
          (\A i \in DOMAIN v5.ch : Events!Fits(e, v5.ch[i]))
    BY <1>4, <2>1, EventsHandIsOld
  <2> QED BY <1>1, <1>2, <1>4, <2>2, EventsAllFitAppend, EventsGrouped DEF Events!ComesInOrder
<1>12. EventsAllCome(v6', v1, v4, v10)
  <2>1. \A k \in DOMAIN v4 : v4[k].id <= v3 /\ v4[k].id \in Nat
    BY EventsEventsAre, EventsTypes, EventsGrouped DEF Events!LogRises
  <2>2. EventsComesTo(e, v1, v4, v10)
    BY <1>3, <1>4, <2>1 DEF EventsComesTo
  <2> QED BY <1>1, <1>2, <1>4, <2>2, EventsAllComeAppend, EventsGrouped DEF EventsAllAhead
<1>13. \A i \in DOMAIN v6' : v6'[i].id <= v3'
  <2>1. \A i \in DOMAIN v6 : v6[i].id <= v3 /\ v6[i].id \in Nat
    BY <1>4, EventsHandIsOld, EventsEventsAre
  <2>2. \A i \in DOMAIN v6' : v6'[i] = e \/ (i \in DOMAIN v6 /\ v6'[i] = v6[i])
    BY <1>1, <1>2, <1>4, EventsAppendFacts
  <2> QED BY <1>1, <1>3, <1>4, <2>1, <2>2
<1> QED BY <1>1, <1>6, <1>7, <1>8, <1>9, <1>10, <1>11, <1>12, <1>13

\* What such a step leaves true, with the handler going on to its next state.
LEMMA EventsHandlerKeeps ==
  ASSUME Events!EventsAssumption, Events!IInv, v5.st # "none",
         NEW type \in {"snapshot", "truncated", "lagged", "ping"},
         NEW v \in Nat, v <= v1, Events!WriteNew(type, v),
           UNCHANGED <<v1, v2, v4, Events!client, v11>>,
         v5' = v5 \/ (\E st \in {"truncated", "replay", "live", "none"} :
           v5' = [v5 EXCEPT !.st = st]),
         v5'.st = "none" => v5.todo = <<>> /\ v5.ch = <<>> /\ ~v5.open,
         v5.todo # <<>> => v5'.st \in {"subscribed", "read", "replay"} /\ ~v5.gap
  PROVE  Events!IInv' /\ Events!NotBack
<1>1. v1' = v1 /\ v4' = v4 /\ v8' = v8 /\ v9' = v9 /\ v10' = v10
  BY DEF Events!client
<1>2. v2' \in BOOLEAN /\ v7' \in BOOLEAN /\ (v7' <=> v7)
  BY DEF Events!client, Events!IInv, Events!TypeOK
<1>3. /\ v5'.v = v5.v /\ v5'.ch = v5.ch /\ v5'.todo = v5.todo /\ v5'.from = v5.from
      /\ v5' \in Events!Subs
  BY EventsTypes DEF Events!Subs
<1>4. (v5'.open <=> v5.open) /\ (v5'.gap <=> v5.gap)
  BY EventsTypes DEF Events!Subs
<1>5. v1 \in Nat /\ v10.v \in Nat /\ v3 \in Nat /\ v5.from \in Nat
  BY EventsTypes
<1>6. Events!TypeOK'
  BY <1>1, <1>2, <1>3, EventsNewIsWritten, EventsGrouped DEF Events!TypeOK
<1>7. Events!LogRises'
  <2>0. v4 \in Seq(Events!Event)
    BY EventsTypes
  <2>1. \A i \in DOMAIN v4 : v4[i].id \in Nat
    BY <2>0, EventsEventsAre
  <2> QED BY <1>1, <1>5, <2>1, EventsNewIsWritten, EventsGrouped DEF Events!LogRises
<1>8. Events!SubIsOpen'
  <2>1. v5'.from <= v3'
    BY <1>3, <1>5, EventsNewIsWritten, EventsGrouped DEF Events!SubIsOpen
  <2>2. v7
    BY EventsGrouped DEF Events!SubIsOpen
  <2>3. \A i \in DOMAIN v6' : v6'[i].id <= v3'
    BY EventsNewIsWritten
  <2> QED BY <1>1, <1>2, <1>3, <1>4, <2>1, <2>2, <2>3, EventsGrouped DEF Events!SubIsOpen
<1>9. Events!NoGap'
  <2>1. Events!Rises(v9) /\ Events!Rises(v6) /\ Events!Rises(v5.todo) /\ Events!Rises(v5.ch)
    BY EventsGrouped DEF Events!NoGap
  <2>2. Events!Rises(v6') /\ Events!Drm(v6') = Events!Drm(v6)
    BY <2>1, EventsNewIsWritten
  <2>3. EventsAllRise'
    BY <1>1, <1>3, <2>1, <2>2 DEF EventsAllRise
  <2>4. EventsBetween(v5.open, v5.from, Events!Drm(v9), Events!Drm(v6), Events!Drm(v5.todo),
          Events!Drm(v5.ch), Events!Drm(v4))
    BY EventsNoGapIs, EventsGrouped
  <2>5. EventsBetween(v5'.open, v5'.from, Events!Drm(v9'), Events!Drm(v6'), Events!Drm(v5'.todo),
          Events!Drm(v5'.ch), Events!Drm(v4'))
    BY <1>1, <1>3, <1>4, <2>2, <2>4 DEF EventsBetween
  <2> QED BY <2>3, <2>5, EventsNoGapNext
<1>10. Events!ComesInOrder'
  BY <1>3, EventsNewIsWritten, EventsGrouped DEF Events!ComesInOrder
<1>11. Events!PageIsAhead'
  BY <1>1, <1>3, EventsNewIsWritten, EventsGrouped, EventsPageIsAheadNext,
     EventsPageIsAheadIs DEF EventsAllAhead
<1>12. Events!NotBack
  BY <1>1, <1>5 DEF Events!NotBack
<1> QED BY <1>6, <1>7, <1>8, <1>9, <1>10, <1>11, <1>12 DEF Events!IInv

LEMMA EventsWriteNewKeeps ==
  ASSUME Events!EventsAssumption, Events!IInv, Events!WriteSnapshot \/ Events!WriteTruncated \/
         Events!Ping \/ Events!WriteLagged
  PROVE  Events!IInv' /\ Events!NotBack
<1>0. v5 \in Events!Subs /\ v5.v \in Nat /\ v5.v <= v1 /\ v1 \in Nat
  BY EventsTypes, EventsGrouped DEF Events!SubIsOpen
<1>1. v5.todo # <<>> => v5.st \in {"subscribed", "read", "replay"} /\ ~v5.gap
  BY EventsGrouped DEF Events!SubIsOpen
<1>2. CASE Events!WriteSnapshot
  <2>1. /\ v5.st = "read" /\ Events!WriteNew("snapshot", v5.v)
        /\ UNCHANGED <<v1, v2, v4, Events!client, v11>>
        /\ v5' = [v5 EXCEPT !.st = IF v5.gap THEN "truncated" ELSE "replay"]
    BY <1>2 DEF Events!WriteSnapshot
  <2>2. /\ \E st \in {"truncated", "replay", "live", "none"} : v5' = [v5 EXCEPT !.st = st]
        /\ v5'.st = (IF v5.gap THEN "truncated" ELSE "replay")
    BY <1>0, <2>1 DEF Events!Subs
  <2> QED BY <1>0, <1>1, <2>1, <2>2, EventsHandlerKeeps
<1>3. CASE Events!WriteTruncated
  <2>1. /\ v5.st = "truncated" /\ Events!WriteNew("truncated", 0)
        /\ UNCHANGED <<v1, v2, v4, Events!client, v11>>
        /\ v5' = [v5 EXCEPT !.st = "live"]
    BY <1>3 DEF Events!WriteTruncated
  <2>2. v5'.st = "live" /\ 0 <= v1 /\
          \E st \in {"truncated", "replay", "live", "none"} : v5' = [v5 EXCEPT !.st = st]
    BY <1>0, <2>1 DEF Events!Subs
  <2> QED BY <1>0, <1>1, <2>1, <2>2, EventsHandlerKeeps
<1>4. CASE Events!Ping
  <2>1. /\ v5.st = "live" /\ Events!WriteNew("ping", 0)
        /\ UNCHANGED <<v1, v2, v4, Events!client, v11>>
        /\ v5' = v5 /\ 0 <= v1
    BY <1>0, <1>4 DEF Events!Ping
  <2> QED BY <1>0, <1>1, <2>1, EventsHandlerKeeps
<1>5. CASE Events!WriteLagged
  <2>1. /\ v5.st = "live" /\ ~v5.open /\ v5.ch = <<>> /\ Events!WriteNew("lagged", 0)
        /\ UNCHANGED <<v1, v2, v4, Events!client, v11>> /\ v5' = [v5 EXCEPT !.st = "none"]
    BY <1>5 DEF Events!WriteLagged
  <2>2. v5'.st = "none" /\ 0 <= v1 /\
          \E st \in {"truncated", "replay", "live", "none"} : v5' = [v5 EXCEPT !.st = st]
    BY <1>0, <2>1 DEF Events!Subs
  <2> QED BY <1>0, <1>1, <2>1, <2>2, EventsHandlerKeeps
<1> QED BY <1>2, <1>3, <1>4, <1>5


LEMMA EventsEmitKeeps ==
  ASSUME Events!EventsAssumption, Events!IInv, Events!Emit
  PROVE  Events!IInv' /\ Events!NotBack
<1>1. PICK e : e = [type |-> "drm", id |-> v3 + 1, v |-> v1]
  OBVIOUS
<1>2. e.type = "drm" /\ e.id = v3 + 1 /\ e.v = v1
  BY <1>1
<1>3. /\ v4' = Append(v4, e) /\ v5' = Events!FanOut(e) /\ v1' = v1 /\ v3' = v3 + 1
      /\ v3 < EventsMaxIds
      /\ v6' = v6 /\ v8' = v8 /\ v9' = v9 /\ v10' = v10
  BY <1>1 DEF Events!Emit, Events!client
<1>4. v2' \in BOOLEAN /\ v7' \in BOOLEAN /\ (v7' <=> v7)
  BY DEF Events!Emit, Events!client, Events!IInv, Events!TypeOK
<1>5. /\ v1 \in Nat /\ v3 \in Nat /\ v10.v \in Nat /\ v10.snap \in Nat /\ v5.from \in Nat
      /\ v10.v <= v1
      /\ EventsMaxIds \in Nat
  BY EventsTypes, EventsGrouped DEF Events!TypeOK
<1>6. e \in Events!Event /\ EventsOne(e) = {v3 + 1}
  <2>1. v3 + 1 \in 1 .. EventsMaxIds
    BY <1>3, <1>5
  <2> QED BY <1>1, <1>2, <1>5, <2>1 DEF Events!Event, EventsOne
<1>7. v4 \in Seq(Events!Event) /\ v6 \in Seq(Events!Event) /\ v5.todo \in Seq(Events!Event) /\
        v5.ch \in Seq(Events!Event)
  BY EventsTypes
<1>8. /\ v5'.st = v5.st /\ v5'.v = v5.v /\ v5'.todo = v5.todo /\ v5'.from = v5.from
      /\ v5' \in Events!Subs
      /\ (v5'.gap <=> v5.gap)
  <2>1. Append(v5.ch, e) \in Seq(Events!Event)
    BY <1>6, <1>7, EventsAppendFacts
  <2> QED BY <1>3, <2>1, EventsTypes DEF Events!FanOut, Events!Subs
<1>9. \/ v5.open /\ v5'.open /\ v5'.ch = Append(v5.ch, e) /\ Len(v5.ch) < EventsChSize
      \/ ~v5'.open /\ v5'.ch = v5.ch
  BY <1>3, EventsTypes DEF Events!FanOut, Events!Subs
<1>10. /\ \A i \in DOMAIN v4 : v4[i].id \in Nat /\ v4[i].v \in Nat /\ v4[i].id <= v3 /\
            v4[i].v <= v1
       /\ \A i \in DOMAIN v4' : v4'[i] = e \/ (i \in DOMAIN v4 /\ v4'[i] = v4[i])
  <2>1. \A i \in DOMAIN v4 : v4[i].id \in Nat /\ v4[i].v \in Nat
    BY <1>7, EventsEventsAre
  <2> QED BY <1>3, <1>6, <1>7, <2>1, EventsAppendFacts, EventsGrouped DEF Events!LogRises
<1>11. v5.open => v5.st # "none"
  BY EventsGrouped DEF Events!SubIsOpen
<1>12. v5.st # "none" =>
         /\ \A i \in DOMAIN v5.todo : v5.todo[i].id <= v3 /\ v5.todo[i].id \in Nat /\
              v5.todo[i].v \in Nat
         /\ \A i \in DOMAIN v5.ch : v5.ch[i].id <= v3 /\ v5.ch[i].id \in Nat /\ v5.ch[i].v \in Nat
         /\ \A i \in DOMAIN v6 : v6[i].id <= v3 /\ v6[i].id \in Nat /\ v6[i].v \in Nat
  BY <1>7, EventsHandIsOld, EventsEventsAre
<1>13. Events!TypeOK'
  <2>1. Len(v5'.ch) <= EventsChSize
    <3>1. CASE v5'.ch = Append(v5.ch, e) /\ Len(v5.ch) < EventsChSize
      <4>1. Len(v5'.ch) = Len(v5.ch) + 1 /\ Len(v5.ch) \in Nat
        BY <1>6, <1>7, <3>1, EventsAppendFacts, EventsAppendLength
      <4> QED BY <3>1, <4>1 DEF Events!EventsAssumption
    <3> QED BY <1>9, <3>1, EventsGrouped DEF Events!TypeOK
  <2>2. v4' \in Seq(Events!Event) /\ v3' \in 0 .. EventsMaxIds
    BY <1>3, <1>5, <1>6, <1>7, EventsAppendFacts
  <2> QED BY <1>3, <1>4, <1>8, <2>1, <2>2, EventsGrouped DEF Events!TypeOK
<1>14. Events!LogRises'
  <2>1. \A i \in DOMAIN v4' : v4'[i].type = "drm" /\ v4'[i].id <= v3' /\ v4'[i].v <= v1'
    BY <1>2, <1>3, <1>5, <1>10, EventsGrouped DEF Events!LogRises
  <2>2. ASSUME NEW i \in DOMAIN v4', NEW j \in DOMAIN v4', i < j
        PROVE  v4'[i].id < v4'[j].id /\ v4'[i].v <= v4'[j].v
    <3>1. i \in DOMAIN v4 /\ v4'[i] = v4[i]
      <4>1. Len(v4) \in Nat /\ DOMAIN v4 = 1 .. Len(v4) /\ DOMAIN v4' = 1 .. Len(v4) + 1
        BY <1>3, <1>6, <1>7, EventsAppendLength
      <4>2. i \in DOMAIN v4
        BY <2>2, <4>1
      <4> QED BY <1>3, <1>6, <1>7, <4>2, EventsAppendFacts
    <3>2. CASE v4'[j] = e
      BY <1>2, <1>5, <1>10, <3>1, <3>2
    <3>3. CASE j \in DOMAIN v4 /\ v4'[j] = v4[j]
      BY <2>2, <3>1, <3>3, EventsGrouped DEF Events!LogRises
    <3> QED BY <1>10, <3>2, <3>3
  <2> QED BY <2>1, <2>2 DEF Events!LogRises
<1>15. Events!SubIsOpen'
  <2>1. \A i \in DOMAIN v5'.ch : v5'.ch[i].type = "drm"
    <3>1. CASE v5'.ch = Append(v5.ch, e)
      <4>1. \A i \in DOMAIN v5'.ch : v5'.ch[i] = e \/ (i \in DOMAIN v5.ch /\ v5'.ch[i] = v5.ch[i])
        BY <1>6, <1>7, <3>1, EventsAppendFacts
      <4> QED BY <1>2, <4>1, EventsGrouped DEF Events!SubIsOpen
    <3> QED BY <1>9, <3>1, EventsGrouped DEF Events!SubIsOpen
  <2>2. v5'.st = "none" => v5'.todo = <<>> /\ v5'.ch = <<>> /\ ~v5'.open
    BY <1>8, <1>9, <1>11, EventsGrouped DEF Events!SubIsOpen
  <2>3. v5'.st # "none" => v7' /\ v5'.from <= v3' /\ \A i \in DOMAIN v6' : v6'[i].id <= v3'
    BY <1>3, <1>4, <1>5, <1>8, <1>12, EventsGrouped DEF Events!SubIsOpen
  <2> QED BY <1>3, <1>4, <1>8, <2>1, <2>2, <2>3, EventsGrouped DEF Events!SubIsOpen
<1>16. Events!NoGap'
  <2> SUFFICES ASSUME v5'.st # "none"
               PROVE  /\ EventsAllRise'
                      /\ EventsBetween(v5'.open, v5'.from, Events!Drm(v9'), Events!Drm(v6'),
                           Events!Drm(v5'.todo), Events!Drm(v5'.ch), Events!Drm(v4'))
    BY EventsNoGapNext
  <2>1. /\ EventsAllRise /\ v5.st # "none"
        /\ EventsBetween(v5.open, v5.from, Events!Drm(v9), Events!Drm(v6), Events!Drm(v5.todo),
             Events!Drm(v5.ch), Events!Drm(v4))
    BY <1>8, EventsNoGapIs, EventsGrouped
  <2>2. Events!Drm(v4') = Events!Drm(v4) \union {v3 + 1} /\ \A x \in Events!Drm(v4) : x <= v3 /\
          x \in Nat
    <3>1. Events!Drm(v4') = Events!Drm(v4) \union {v3 + 1}
      BY <1>3, <1>6, <1>7, EventsDrmAppend
    <3>2. Events!Drm(v4) \subseteq 1 .. EventsMaxIds
      BY <1>7, EventsDrmIs
    <3> QED BY <2>1, <3>1, <3>2, EventsHandIsOld
  <2>3. v5.from <= v3
    BY <2>1, EventsGrouped DEF Events!SubIsOpen
  <2>4. PICK hand :
           hand = Events!Drm(v9) \union Events!Drm(v6)
                    \union Events!Drm(v5.todo) \union Events!Drm(v5.ch)
    OBVIOUS
  <2>5. hand \subseteq Events!Drm(v4) /\
          {id \in Events!Drm(v4) : id > v5.from} \union {v3 + 1} = {id \in Events!Drm(v4') :
            id > v5.from}
    <3>1. hand \subseteq Events!Drm(v4)
      BY <2>1, <2>4 DEF EventsBetween
    <3>2. v3 + 1 > v5.from
      BY <1>5, <2>3
    <3> QED BY <2>2, <3>1, <3>2
  <2>6. CASE v5.open /\ v5'.open /\ v5'.ch = Append(v5.ch, e)
    <3>1. Events!Drm(v5'.ch) = Events!Drm(v5.ch) \union {v3 + 1}
      BY <1>6, <1>7, <2>6, EventsDrmAppend
    <3>2. Events!Below(hand, {v3 + 1})
      BY <1>5, <2>2, <2>5 DEF Events!Below
    <3>3. EventsAllRise'
      <4>1. Events!Below(Events!Drm(v5.ch), EventsOne(e))
        BY <1>6, <2>4, <3>2 DEF Events!Below
      <4>2. Events!Rises(v5'.ch)
        BY <1>6, <1>7, <2>1, <2>6, <4>1, EventsRisesAppend DEF EventsAllRise
      <4> QED BY <1>3, <1>8, <2>1, <4>2 DEF EventsAllRise
    <3>4. Events!Below(Events!Drm(v9) \union Events!Drm(v6) \union Events!Drm(v5.todo),
            Events!Drm(v5'.ch))
      BY <2>1, <2>4, <3>1, <3>2 DEF EventsBetween, Events!Below
    <3>5. hand = {id \in Events!Drm(v4) : id > v5.from}
      BY <2>1, <2>4, <2>6 DEF EventsBetween
    <3>6. Events!Drm(v9) \union Events!Drm(v6)
            \union Events!Drm(v5.todo) \union Events!Drm(v5'.ch) =
            {id \in Events!Drm(v4') : id > v5.from}
      BY <2>4, <2>5, <3>1, <3>5
    <3> QED BY <1>3, <1>8, <2>1, <2>6, <3>3, <3>4, <3>6 DEF EventsBetween
  <2>7. CASE ~v5'.open /\ v5'.ch = v5.ch
    <3>1. EventsAllRise'
      BY <1>3, <1>8, <2>1, <2>7 DEF EventsAllRise
    <3>2. /\ hand \subseteq {id \in Events!Drm(v4) : id > v5.from}
          /\ Events!Below(hand, {id \in Events!Drm(v4) : id > v5.from} \ hand)
      BY <2>1, <2>4 DEF EventsBetween, Events!Below
    <3>3. Events!Below(hand, {id \in Events!Drm(v4') : id > v5.from} \ hand)
      <4>1. Events!Below(hand, {v3 + 1})
        BY <1>5, <2>2, <2>5 DEF Events!Below
      <4> QED BY <2>5, <3>2, <4>1 DEF Events!Below
    <3>4. hand \subseteq {id \in Events!Drm(v4') : id > v5.from}
      BY <2>5, <3>2
    <3> QED BY <1>3, <1>8, <2>1, <2>4, <2>7, <3>1, <3>3, <3>4 DEF EventsBetween
  <2> QED BY <1>9, <2>6, <2>7
<1>17. ASSUME v5.open /\ v5'.open /\ v5'.ch = Append(v5.ch, e) PROVE Events!ComesInOrder'
  <2>1. ASSUME NEW t \in Seq(Events!Event), EventsAllCome(t, v1, v4, v10),
               \A i \in DOMAIN t : t[i].id <= v3 /\ t[i].id \in Nat /\ t[i].v \in Nat
        PROVE  \A i \in DOMAIN t : Events!Fits(t[i], e)
    BY <1>2, <1>5, <2>1 DEF EventsAllCome, EventsComesTo, Events!Fits
  <2>2. /\ \A i \in DOMAIN v6 : Events!Fits(v6[i], e) 
        /\ \A i \in DOMAIN v5.todo : Events!Fits(v5.todo[i], e)
        /\ \A i \in DOMAIN v5.ch : Events!Fits(v5.ch[i], e)
    BY <1>7, <1>11, <1>12, <1>17, <2>1, EventsGrouped DEF EventsAllAhead
  <2>3. Events!InOrder(v5'.ch)
    BY <1>6, <1>7, <1>17, <2>2, EventsInOrderAppend, EventsGrouped DEF Events!ComesInOrder
  <2>4. Events!AllFit(v6, v5'.ch) /\ Events!AllFit(v5.todo, v5'.ch)
    BY <1>6, <1>7, <1>17, <2>2, EventsAllFitAppend, EventsGrouped DEF Events!ComesInOrder
  <2> QED BY <1>3, <1>8, <2>3, <2>4, EventsGrouped DEF Events!ComesInOrder
<1>18. Events!ComesInOrder'
  <2>1. CASE v5'.ch = v5.ch
    BY <1>3, <1>8, <2>1, EventsGrouped DEF Events!ComesInOrder
  <2> QED BY <1>9, <1>17, <2>1
<1>19. Events!PageIsAhead'
  <2>1. ASSUME NEW t \in Seq(Events!Event), EventsAllCome(t, v1, v4, v10)
        PROVE  EventsAllCome(t, v1', v4', v10)
    <3>1. \A i \in DOMAIN t : t[i].v \in Nat /\ t[i].v <= v1
      BY <2>1, EventsEventsAre DEF EventsAllCome, EventsComesTo
    <3>2. ~EventsIsBehind(e, v10)
      BY <1>2, <1>5 DEF EventsIsBehind
    <3> QED BY <1>2, <1>3, <1>5, <1>10, <2>1, <3>1, <3>2 DEF EventsAllCome, EventsComesTo
  <2>2. /\ EventsAllCome(v6, v1', v4', v10) /\ EventsAllCome(v5.todo, v1', v4', v10)
        /\ EventsAllCome(v5.ch, v1', v4', v10)
    BY <1>7, <2>1, EventsGrouped DEF EventsAllAhead
  <2>3. EventsComesTo(e, v1', v4', v10)
    <3>1. ~EventsIsBehind(e, v10)
      BY <1>2, <1>5 DEF EventsIsBehind
    <3>2. \A k \in DOMAIN v4' : v4'[k].id <= v3 + 1 /\ v4'[k].id \in Nat
      BY <1>2, <1>5, <1>10
    <3>3. \A k \in DOMAIN v4' : EventsIsBehind(v4'[k], v10) => v4'[k].id <= v3 /\ v4'[k].id \in Nat
      BY <1>10, <3>1
    <3> QED BY <1>2, <1>3, <1>5, <3>1, <3>2, <3>3 DEF EventsComesTo
  <2>4. EventsAllCome(v5'.ch, v1', v4', v10)
    BY <1>6, <1>7, <1>9, <2>2, <2>3, EventsAllComeAppend
  <2>5. EventsLogIsBehind(v4', v10, v8)
    <3>1. ~EventsIsBehind(e, v10)
      BY <1>2, <1>5 DEF EventsIsBehind
    <3> QED BY <1>10, <3>1, EventsGrouped DEF EventsAllAhead, EventsLogIsBehind
  <2> QED BY <1>3, <1>8, <2>2, <2>4, <2>5, EventsGrouped, EventsPageIsAheadNext,
             EventsPageIsAheadIs
<1>20. Events!NotBack
  BY <1>3, <1>5 DEF Events!NotBack
<1> QED BY <1>13, <1>14, <1>15, <1>16, <1>18, <1>19, <1>20 DEF Events!IInv


LEMMA EventsSubSeqLength ==
  ASSUME NEW N \in Nat, NEW n \in 0 .. N
  PROVE  (IF n + 1 <= N THEN N - (n + 1) + 1 ELSE 0) = N - n
  OBVIOUS

LEMMA EventsSubscribeKeeps ==
  ASSUME Events!EventsAssumption, Events!IInv, Events!Subscribe
  PROVE  Events!IInv' /\ Events!NotBack
<1>1. PICK from : from = IF Events!Missed THEN v3 ELSE v8
  OBVIOUS
<1>2. PICK n \in 0 .. Len(v4) :
        /\ \A i \in DOMAIN v4 : i > n <=> v4[i].id > from
        /\ v5' = [st |-> "subscribed", open |-> TRUE, ch |-> <<>>, gap |-> Events!Missed /\ v8 # 0,
                  v |-> 0, todo |-> SubSeq(v4, n + 1, Len(v4)), from |-> from]
  BY <1>1 DEF Events!Subscribe
<1>3. /\ v1' = v1 /\ v3' = v3 /\ v4' = v4 /\ v6' = v6 /\ v8' = v8 /\ v10' = v10
      /\ v9' = <<>>
  BY DEF Events!Subscribe, Events!engine
<1>4. v2' \in BOOLEAN /\ v7' /\ ~v7
  BY DEF Events!Subscribe, Events!engine, Events!IInv, Events!TypeOK
<1>5. v6 = <<>>
  BY <1>4, EventsGrouped DEF Events!SubIsOpen
<1>6. v4 \in Seq(Events!Event) /\ Len(v4) \in Nat /\ DOMAIN v4 = 1 .. Len(v4) /\ v3 \in Nat /\
        v1 \in Nat
  <2>1. v4 \in Seq(Events!Event) /\ v3 \in Nat /\ v1 \in Nat
    BY EventsTypes
  <2> QED BY <2>1
<1>7. from \in Nat /\ from <= v3 /\ (Events!Missed => from = v3) /\ (~Events!Missed => from = v8)
  BY <1>1, <1>6, EventsTypes DEF Events!Missed
<1>8. PICK todo : todo = SubSeq(v4, n + 1, Len(v4))
  OBVIOUS
<1>9. todo \in Seq(Events!Event) /\ Len(todo) = Len(v4) - n /\ DOMAIN todo = 1 .. Len(v4) - n
  <2>1. n + 1 \in 1 .. Len(v4) + 1 /\ n \in Nat
    BY <1>6
  <2>2. todo \in Seq(Events!Event)
    BY <1>6, <1>8, <2>1
  <2>3. Len(todo) = Len(v4) - n
    <3>1. Len(todo) = IF n + 1 <= Len(v4) THEN Len(v4) - (n + 1) + 1 ELSE 0
      BY <1>6, <1>8, <2>1
    <3> QED BY <1>6, <3>1, EventsSubSeqLength
  <2>4. DOMAIN todo = 1 .. Len(todo)
    BY <2>2
  <2> QED BY <2>2, <2>3, <2>4
<1>10. \A i \in DOMAIN todo : n + i \in DOMAIN v4 /\ n + i > n /\ todo[i] = v4[n + i]
  <2>1. n \in Nat /\ Len(v4) \in Nat
    BY <1>6
  <2>2. \A i \in 1 .. Len(v4) - n : todo[i] = v4[n + 1 + i - 1]
    BY <1>6, <1>8, <2>1
  <2>3. \A i \in 1 .. Len(v4) - n : n + 1 + i - 1 = n + i /\ n + i \in 1 .. Len(v4) /\ n + i > n
    BY <2>1
  <2> QED BY <1>6, <1>9, <2>2, <2>3
<1>11. \A k \in DOMAIN v4 : k > n => k - n \in DOMAIN todo /\ v4[k] = todo[k - n]
  <2>1. n \in Nat
    BY <1>6
  <2> SUFFICES ASSUME NEW k \in DOMAIN v4, k > n PROVE k - n \in DOMAIN todo /\ v4[k] = todo[k - n]
    OBVIOUS
  <2>2. PICK i \in 1 .. Len(v4) - n : k = n + i
    BY <1>6, <2>1
  <2>3. k - n = i
    BY <2>1, <2>2
  <2> QED BY <1>9, <1>10, <2>2, <2>3
<1>12. /\ v5'.st = "subscribed" /\ v5'.open /\ v5'.ch = <<>> /\ v5'.v = 0 /\ v5'.todo = todo
       /\ v5'.from = from /\ (v5'.gap <=> (Events!Missed /\ v8 # 0))
  BY <1>2, <1>8
<1>13. v5' \in Events!Subs
  <2>1. (Events!Missed /\ v8 # 0) \in BOOLEAN
    OBVIOUS
  <2> QED BY <1>2, <1>7, <1>8, <1>9, <2>1, EventsEmptyFacts DEF Events!Subs
<1>14. \A i \in DOMAIN todo : todo[i].type = "drm" /\ todo[i].id > from /\ todo[i].id <= v3 /\
         todo[i].id \in Nat
  <2>1. \A i \in DOMAIN todo : todo[i].id \in Nat
    BY <1>9, EventsEventsAre
  <2> QED BY <1>2, <1>10, <2>1, EventsGrouped DEF Events!LogRises
<1>15. Events!Missed => todo = <<>>
  <2>1. ASSUME Events!Missed PROVE DOMAIN todo = {}
    <3>1. \A i \in DOMAIN todo : FALSE
      BY <1>6, <1>7, <1>14, <2>1
    <3> QED BY <3>1
  <2>2. ASSUME DOMAIN todo = {} PROVE todo = <<>>
    <3>1. Len(todo) = 0
      <4>1. Len(todo) \in Nat /\ DOMAIN todo = 1 .. Len(todo)
        BY <1>9
      <4>2. Len(todo) \in 1 .. Len(todo) \/ Len(todo) = 0
        BY <4>1
      <4> QED BY <2>2, <4>1, <4>2
    <3> QED BY <1>9, <3>1
  <2> QED BY <2>1, <2>2
<1>16. Events!TypeOK'
  <2>1. Len(v5'.ch) <= EventsChSize /\ v9' \in Seq(Events!Event) /\ v7' \in BOOLEAN
    BY <1>3, <1>4, <1>12, EventsEmptyFacts DEF Events!EventsAssumption
  <2> QED BY <1>3, <1>4, <1>13, <2>1, EventsGrouped DEF Events!TypeOK
<1>17. Events!LogRises'
  BY <1>3, EventsGrouped DEF Events!LogRises
<1>18. Events!SubIsOpen'
  <2>1. v5'.todo # <<>> => ~v5'.gap
    BY <1>12, <1>15
  <2>2. DOMAIN <<>> = {}
    OBVIOUS
  <2> QED BY <1>3, <1>4, <1>5, <1>6, <1>7, <1>12, <1>14, <2>1, <2>2 DEF Events!SubIsOpen
<1>19. \A i, j \in DOMAIN todo : i < j => todo[i].id < todo[j].id /\ todo[i].v <= todo[j].v
  <2> SUFFICES ASSUME NEW i \in DOMAIN todo, NEW j \in DOMAIN todo, i < j
               PROVE  todo[i].id < todo[j].id /\ todo[i].v <= todo[j].v
    OBVIOUS
  <2>1. n + i < n + j
    BY <1>6, <1>9
  <2> QED BY <1>10, <2>1, EventsGrouped DEF Events!LogRises
<1>20. Events!Drm(todo) = {id \in Events!Drm(v4) : id > from}
  <2>1. ASSUME NEW x \in Events!Drm(todo) PROVE x \in Events!Drm(v4) /\ x > from
    <3>1. PICK i \in DOMAIN todo : todo[i].type = "drm" /\ todo[i].id = x
      BY <1>9, EventsDrmIs
    <3>2. n + i \in DOMAIN v4 /\ v4[n + i] = todo[i]
      BY <1>10
    <3> QED BY <1>6, <1>14, <3>1, <3>2, EventsDrmIs
  <2>2. ASSUME NEW x \in Events!Drm(v4), x > from PROVE x \in Events!Drm(todo)
    <3>1. PICK k \in DOMAIN v4 : v4[k].type = "drm" /\ v4[k].id = x
      BY <1>6, EventsDrmIs
    <3>2. k - n \in DOMAIN todo /\ v4[k] = todo[k - n]
      BY <1>2, <1>11, <2>2, <3>1
    <3> QED BY <1>9, <3>1, <3>2, EventsDrmIs
  <2> QED BY <2>1, <2>2
<1>21. Events!NoGap'
  <2>1. Events!Rises(todo)
    BY <1>14, <1>19 DEF Events!Rises
  <2>2. EventsAllRise'
    BY <1>3, <1>5, <1>12, <2>1, EventsEmptyFacts DEF EventsAllRise
  <2>3. EventsBetween(TRUE, from, {}, {}, Events!Drm(todo), {}, Events!Drm(v4))
    BY <1>20 DEF EventsBetween, Events!Below
  <2>4. EventsBetween(v5'.open, v5'.from, Events!Drm(v9'), Events!Drm(v6'), Events!Drm(v5'.todo),
          Events!Drm(v5'.ch), Events!Drm(v4'))
    BY <1>3, <1>5, <1>12, <2>3, EventsEmptyFacts DEF EventsBetween
  <2> QED BY <2>2, <2>4, EventsNoGapNext
<1>22. Events!ComesInOrder'
  <2>1. Events!InOrder(todo)
    BY <1>14, <1>19 DEF Events!InOrder, Events!Fits
  <2> QED BY <1>3, <1>5, <1>12, <2>1, EventsEmptyFacts DEF Events!ComesInOrder
<1>23. EventsAllCome(todo, v1, v4, v10)
  <2> SUFFICES ASSUME NEW i \in DOMAIN todo PROVE EventsComesTo(todo[i], v1, v4, v10)
    BY DEF EventsAllCome
  <2>1. v8 = from
    BY <1>7, <1>15
  <2>2. n + i \in DOMAIN v4 /\ todo[i] = v4[n + i]
    BY <1>10
  <2>3. todo[i].v <= v1
    BY <2>2, EventsGrouped DEF Events!LogRises
  <2>4. ASSUME NEW k \in DOMAIN v4, EventsIsBehind(v4[k], v10) PROVE v4[k].id < todo[i].id
    <3>1. v4[k].id <= from /\ v4[k].id \in Nat
      BY <1>6, <2>1, <2>4, EventsEventsAre, EventsGrouped DEF EventsAllAhead, EventsLogIsBehind
    <3> QED BY <1>7, <1>14, <3>1
  <2>5. ~EventsIsBehind(todo[i], v10)
    BY <1>14, <2>2, <2>4
  <2>6. ASSUME NEW k \in DOMAIN v4, v4[k].id > todo[i].id PROVE v4[k].v >= todo[i].v
    <3>1. k > n + i
      <4>1. CASE k = n + i
        BY <1>14, <2>2, <2>6, <4>1
      <4>2. CASE k < n + i
        <5>1. v4[k].id < v4[n + i].id /\ v4[k].id \in Nat
          BY <1>6, <2>2, <4>2, EventsEventsAre, EventsGrouped DEF Events!LogRises
        <5> QED BY <1>14, <2>2, <2>6, <5>1
      <4> QED BY <1>6, <2>2, <4>1, <4>2
    <3>2. v4[k].v \in Nat /\ todo[i].v \in Nat /\ v4[n + i].v <= v4[k].v
      BY <1>6, <1>9, <2>2, <3>1, EventsEventsAre, EventsGrouped DEF Events!LogRises
    <3> QED BY <2>2, <3>2
  <2> QED BY <2>3, <2>4, <2>5, <2>6 DEF EventsComesTo
<1>24. Events!PageIsAhead'
  <2>1. DOMAIN <<>> = {}
    OBVIOUS
  <2>2. EventsAllCome(<<>>, v1, v4, v10)
    BY <2>1 DEF EventsAllCome
  <2> QED BY <1>3, <1>5, <1>12, <1>23, <2>2, EventsGrouped, EventsPageIsAheadNext,
             EventsPageIsAheadIs DEF EventsAllAhead
<1>25. Events!NotBack
  BY <1>3, EventsTypes DEF Events!NotBack
<1> QED BY <1>16, <1>17, <1>18, <1>21, <1>22, <1>24, <1>25 DEF Events!IInv


\* An event of the log is written from the list to be replayed, or from the channel.
LEMMA EventsWriteReplayKeeps ==
  ASSUME Events!EventsAssumption, Events!IInv, Events!WriteReplay
  PROVE  Events!IInv' /\ Events!NotBack
<1>1. /\ v1' = v1 /\ v3' = v3 /\ v4' = v4 /\ v8' = v8 /\ v9' = v9 /\ v10' = v10
      /\ v5.st = "replay"
  BY DEF Events!WriteReplay, Events!engine, Events!client
<1>2. v2' \in BOOLEAN /\ v7' \in BOOLEAN /\ (v7' <=> v7)
  BY DEF Events!WriteReplay, Events!engine, Events!client, Events!IInv, Events!TypeOK
<1>3. v4 \in Seq(Events!Event) /\ v6 \in Seq(Events!Event) /\ v5.todo \in Seq(Events!Event) /\
        v5.ch \in Seq(Events!Event)
  BY EventsTypes
<1>4. Events!NotBack
  BY <1>1, EventsTypes DEF Events!NotBack
<1>5. Events!LogRises'
  BY <1>1, EventsGrouped DEF Events!LogRises
<1>6. ASSUME v5.todo = <<>> PROVE Events!IInv'
  <2>1. v5' = [v5 EXCEPT !.st = "live"] /\ v6' = v6
    BY <1>6 DEF Events!WriteReplay
  <2>2. /\ v5'.st = "live" /\ v5'.v = v5.v /\ v5'.todo = v5.todo /\ v5'.ch = v5.ch
        /\ v5'.from = v5.from
        /\ v5' \in Events!Subs
    BY <2>1, EventsTypes DEF Events!Subs
  <2>3. (v5'.open <=> v5.open) /\ (v5'.gap <=> v5.gap)
    BY <2>1, EventsTypes DEF Events!Subs
  <2>4. Events!TypeOK'
    BY <1>1, <1>2, <2>1, <2>2, EventsGrouped DEF Events!TypeOK
  <2>5. Events!SubIsOpen'
    BY <1>1, <1>2, <1>6, <2>1, <2>2, <2>3, EventsGrouped DEF Events!SubIsOpen
  <2>6. Events!NoGap' /\ Events!ComesInOrder'
    BY <1>1, <2>1, <2>2, <2>3, EventsGrouped DEF Events!NoGap, Events!InHand, Events!Owed,
       Events!ComesInOrder
  <2>7. Events!PageIsAhead'
    BY <1>1, <2>1, <2>2, EventsGrouped, EventsPageIsAheadNext,
       EventsPageIsAheadIs DEF EventsAllAhead
  <2> QED BY <1>5, <2>4, <2>5, <2>6, <2>7 DEF Events!IInv
<1>7. ASSUME v5.todo # <<>> PROVE Events!IInv'
  <2>1. PICK e : e = Head(v5.todo)
    OBVIOUS
  <2>2. e \in Events!Event /\ 1 \in DOMAIN v5.todo /\ e = v5.todo[1] /\ e.type = "drm" /\
          e.id <= v3 /\ EventsOne(e) = {e.id}
    BY <1>1, <1>3, <1>7, <2>1, EventsTailFacts, EventsHandIsOld DEF EventsOne
  <2>3. e = [type |-> "drm", id |-> e.id, v |-> e.v]
    BY <2>2 DEF Events!Event
  <2>4. /\ v6' = Append(v6, e) /\ Len(v6) < EventsWireSize
        /\ v5' = [v5 EXCEPT !.todo = Tail(v5.todo)]
    BY <1>7, <2>1, <2>3 DEF Events!WriteReplay, Events!Write
  <2>5. PICK rest : rest = Tail(v5.todo)
    OBVIOUS
  <2>6. rest \in Seq(Events!Event)
    BY <1>3, <1>7, <2>5, EventsTailFacts
  <2>7. /\ v5'.st = "replay" /\ v5'.v = v5.v /\ v5'.todo = rest /\ v5'.ch = v5.ch
        /\ v5'.from = v5.from
        /\ v5' \in Events!Subs
    BY <1>1, <2>4, <2>5, <2>6, EventsTypes DEF Events!Subs
  <2>8. (v5'.open <=> v5.open) /\ (v5'.gap <=> v5.gap)
    BY <2>4, EventsTypes DEF Events!Subs
  <2>9. v6' \in Seq(Events!Event) /\ Len(v6') <= EventsWireSize
    <3>1. Len(v6') = Len(v6) + 1 /\ Len(v6) \in Nat /\ v6' \in Seq(Events!Event)
      BY <1>3, <2>2, <2>4, EventsAppendFacts, EventsAppendLength
    <3> QED BY <2>4, <3>1 DEF Events!EventsAssumption
  <2>10. Events!TypeOK'
    BY <1>1, <1>2, <2>7, <2>9, EventsGrouped DEF Events!TypeOK
  <2>11. Events!SubIsOpen'
    <3>1. \A i \in DOMAIN rest : rest[i].type = "drm"
      <4>1. \A i \in DOMAIN rest : i + 1 \in DOMAIN v5.todo /\ rest[i] = v5.todo[i + 1]
        BY <1>3, <1>7, <2>5, EventsTailFacts
      <4> QED BY <4>1, EventsGrouped DEF Events!SubIsOpen
    <3>2. \A i \in DOMAIN v6' : v6'[i].id <= v3
      <4>1. \A i \in DOMAIN v6' : v6'[i] = e \/ (i \in DOMAIN v6 /\ v6'[i] = v6[i])
        BY <1>3, <2>2, <2>4, EventsAppendFacts
      <4> QED BY <1>1, <2>2, <4>1, EventsGrouped DEF Events!SubIsOpen
    <3> QED BY <1>1, <1>2, <1>7, <2>7, <2>8, <3>1, <3>2, EventsGrouped DEF Events!SubIsOpen
  <2>12. /\ EventsAllRise
         /\ EventsBetween(v5.open, v5.from, Events!Drm(v9), Events!Drm(v6), Events!Drm(v5.todo),
              Events!Drm(v5.ch), Events!Drm(v4))
    BY <1>1, EventsNoGapIs, EventsGrouped
  <2>13. Events!Drm(v5.todo) = {e.id} \union Events!Drm(rest) /\
           Events!Below({e.id}, Events!Drm(rest)) /\ Events!Rises(rest)
    BY <1>3, <1>7, <2>1, <2>2, <2>5, <2>12, EventsDrmTail, EventsRisesTail DEF EventsAllRise
  <2>14. Events!Drm(v6') = Events!Drm(v6) \union {e.id}
    BY <1>3, <2>2, <2>4, EventsDrmAppend
  <2>15. Events!Rises(v6')
    <3>1. Events!Below(Events!Drm(v6), EventsOne(e))
      BY <2>2, <2>12, <2>13 DEF EventsBetween, Events!Below
    <3> QED BY <1>3, <2>2, <2>4, <2>12, <3>1, EventsRisesAppend DEF EventsAllRise
  <2>16. Events!NoGap'
    <3>1. EventsBetween(v5.open, v5.from, Events!Drm(v9), Events!Drm(v6) \union {e.id},
            Events!Drm(rest), Events!Drm(v5.ch), Events!Drm(v4))
      BY <2>12, <2>13, EventsFromTodoToWire
    <3>2. EventsBetween(v5'.open, v5'.from, Events!Drm(v9'), Events!Drm(v6'),
            Events!Drm(v5'.todo), Events!Drm(v5'.ch), Events!Drm(v4'))
      BY <1>1, <2>7, <2>8, <2>14, <3>1 DEF EventsBetween
    <3>3. EventsAllRise'
      BY <1>1, <2>7, <2>12, <2>13, <2>15 DEF EventsAllRise
    <3> QED BY <3>2, <3>3, EventsNoGapNext
  <2>17. Events!ComesInOrder'
    <3>1. Events!InOrder(rest) /\ \A j \in DOMAIN rest : Events!Fits(e, rest[j])
      BY <1>3, <1>7, <2>1, <2>5, EventsInOrderTail, EventsGrouped DEF Events!ComesInOrder
    <3>2. Events!AllFit(v6, rest) /\ \A i \in DOMAIN v6 : Events!Fits(v6[i], e)
      BY <1>3, <1>7, <2>1, <2>5, EventsAllFitTail, EventsGrouped DEF Events!ComesInOrder
    <3>3. Events!AllFit(rest, v5.ch) /\ \A j \in DOMAIN v5.ch : Events!Fits(e, v5.ch[j])
      BY <1>3, <1>7, <2>1, <2>5, EventsAllFitTail, EventsGrouped DEF Events!ComesInOrder
    <3>4. Events!InOrder(v6')
      BY <1>3, <2>2, <2>4, <3>2, EventsInOrderAppend, EventsGrouped DEF Events!ComesInOrder
    <3>5. Events!AllFit(v6', rest) /\ Events!AllFit(v6', v5.ch)
      BY <1>3, <2>2, <2>4, <3>1, <3>2, <3>3, EventsAllFitAppend,
         EventsGrouped DEF Events!ComesInOrder
    <3> QED BY <2>7, <3>1, <3>3, <3>4, <3>5, EventsGrouped DEF Events!ComesInOrder
  <2>18. Events!PageIsAhead'
    <3>1. EventsAllCome(rest, v1, v4, v10) /\ EventsComesTo(e, v1, v4, v10)
      BY <1>3, <1>7, <2>1, <2>5, EventsAllComeTail, EventsGrouped DEF EventsAllAhead
    <3>2. EventsAllCome(v6', v1, v4, v10)
      BY <1>3, <2>2, <2>4, <3>1, EventsAllComeAppend, EventsGrouped DEF EventsAllAhead
    <3> QED BY <1>1, <2>7, <3>1, <3>2, EventsGrouped, EventsPageIsAheadNext,
               EventsPageIsAheadIs DEF EventsAllAhead
  <2> QED BY <1>5, <2>10, <2>11, <2>16, <2>17, <2>18 DEF Events!IInv
<1> QED BY <1>4, <1>6, <1>7

LEMMA EventsWriteEventKeeps ==
  ASSUME Events!EventsAssumption, Events!IInv, Events!WriteEvent
  PROVE  Events!IInv' /\ Events!NotBack
<1>1. /\ v1' = v1 /\ v3' = v3 /\ v4' = v4 /\ v8' = v8 /\ v9' = v9 /\ v10' = v10
      /\ v5.st = "live" /\ v5.ch # <<>> /\ v5.todo = <<>>
  BY EventsGrouped DEF Events!WriteEvent, Events!engine, Events!client, Events!SubIsOpen
<1>2. v2' \in BOOLEAN /\ v7' \in BOOLEAN /\ (v7' <=> v7)
  BY DEF Events!WriteEvent, Events!engine, Events!client, Events!IInv, Events!TypeOK
<1>3. v4 \in Seq(Events!Event) /\ v6 \in Seq(Events!Event) /\ v5.todo \in Seq(Events!Event) /\
        v5.ch \in Seq(Events!Event)
  BY EventsTypes
<1>4. Events!NotBack
  BY <1>1, EventsTypes DEF Events!NotBack
<1>5. Events!LogRises'
  BY <1>1, EventsGrouped DEF Events!LogRises
<1>6. PICK e : e = Head(v5.ch)
  OBVIOUS
<1>7. e \in Events!Event /\ 1 \in DOMAIN v5.ch /\ e = v5.ch[1] /\ e.type = "drm" /\ e.id <= v3 /\
        EventsOne(e) = {e.id}
  BY <1>1, <1>3, <1>6, EventsTailFacts, EventsHandIsOld DEF EventsOne
<1>8. e = [type |-> "drm", id |-> e.id, v |-> e.v]
  BY <1>7 DEF Events!Event
<1>9. /\ v6' = Append(v6, e) /\ Len(v6) < EventsWireSize /\ v5' = [v5 EXCEPT !.ch = Tail(v5.ch)]
  BY <1>6, <1>8 DEF Events!WriteEvent, Events!Write
<1>10. PICK rest : rest = Tail(v5.ch)
  OBVIOUS
<1>11. rest \in Seq(Events!Event)
  BY <1>1, <1>3, <1>10, EventsTailFacts
<1>12. /\ v5'.st = "live" /\ v5'.v = v5.v /\ v5'.ch = rest /\ v5'.todo = v5.todo
       /\ v5'.from = v5.from
      /\ v5' \in Events!Subs
  BY <1>1, <1>9, <1>10, <1>11, EventsTypes DEF Events!Subs
<1>13. (v5'.open <=> v5.open) /\ (v5'.gap <=> v5.gap)
  BY <1>9, EventsTypes DEF Events!Subs
<1>14. v6' \in Seq(Events!Event) /\ Len(v6') <= EventsWireSize
  <2>1. Len(v6') = Len(v6) + 1 /\ Len(v6) \in Nat /\ v6' \in Seq(Events!Event)
    BY <1>3, <1>7, <1>9, EventsAppendFacts, EventsAppendLength
  <2> QED BY <1>9, <2>1 DEF Events!EventsAssumption
<1>15. Events!TypeOK'
  <2>1. Len(v5'.ch) <= EventsChSize
    <3>1. Len(rest) = Len(v5.ch) - 1 /\ Len(v5.ch) \in Nat
      BY <1>1, <1>3, <1>10, EventsTailFacts
    <3> QED BY <1>12, <3>1, EventsGrouped DEF Events!TypeOK, Events!EventsAssumption
  <2> QED BY <1>1, <1>2, <1>12, <1>14, <2>1, EventsGrouped DEF Events!TypeOK
<1>16. Events!SubIsOpen'
  <2>1. \A i \in DOMAIN rest : rest[i].type = "drm"
    <3>1. \A i \in DOMAIN rest : i + 1 \in DOMAIN v5.ch /\ rest[i] = v5.ch[i + 1]
      BY <1>1, <1>3, <1>10, EventsTailFacts
    <3> QED BY <3>1, EventsGrouped DEF Events!SubIsOpen
  <2>2. \A i \in DOMAIN v6' : v6'[i].id <= v3
    <3>1. \A i \in DOMAIN v6' : v6'[i] = e \/ (i \in DOMAIN v6 /\ v6'[i] = v6[i])
      BY <1>3, <1>7, <1>9, EventsAppendFacts
    <3> QED BY <1>1, <1>7, <3>1, EventsGrouped DEF Events!SubIsOpen
  <2> QED BY <1>1, <1>2, <1>12, <1>13, <2>1, <2>2, EventsGrouped DEF Events!SubIsOpen
<1>17. /\ EventsAllRise
       /\ EventsBetween(v5.open, v5.from, Events!Drm(v9), Events!Drm(v6), Events!Drm(v5.todo),
            Events!Drm(v5.ch), Events!Drm(v4))
  BY <1>1, EventsNoGapIs, EventsGrouped
<1>18. Events!Drm(v5.ch) = {e.id} \union Events!Drm(rest) /\
         Events!Below({e.id}, Events!Drm(rest)) /\ Events!Rises(rest)
  BY <1>1, <1>3, <1>6, <1>7, <1>10, <1>17, EventsDrmTail, EventsRisesTail DEF EventsAllRise
<1>19. Events!Drm(v6') = Events!Drm(v6) \union {e.id}
  BY <1>3, <1>7, <1>9, EventsDrmAppend
<1>20. Events!Rises(v6')
  <2>1. Events!Below(Events!Drm(v6), EventsOne(e))
    BY <1>7, <1>17, <1>18 DEF EventsBetween, Events!Below
  <2> QED BY <1>3, <1>7, <1>9, <1>17, <2>1, EventsRisesAppend DEF EventsAllRise
<1>21. Events!NoGap'
  <2>1. EventsBetween(v5.open, v5.from, Events!Drm(v9), Events!Drm(v6) \union {e.id}, {},
          Events!Drm(rest), Events!Drm(v4))
    BY <1>1, <1>17, <1>18, EventsFromChToWire, EventsEmptyFacts
  <2>2. EventsBetween(v5'.open, v5'.from, Events!Drm(v9'), Events!Drm(v6'), Events!Drm(v5'.todo),
          Events!Drm(v5'.ch), Events!Drm(v4'))
    BY <1>1, <1>12, <1>13, <1>19, <2>1, EventsEmptyFacts DEF EventsBetween
  <2>3. EventsAllRise'
    BY <1>1, <1>12, <1>17, <1>18, <1>20 DEF EventsAllRise
  <2> QED BY <2>2, <2>3, EventsNoGapNext
<1>22. Events!ComesInOrder'
  <2>1. Events!InOrder(rest) /\ \A j \in DOMAIN rest : Events!Fits(e, rest[j])
    BY <1>1, <1>3, <1>6, <1>10, EventsInOrderTail, EventsGrouped DEF Events!ComesInOrder
  <2>2. Events!AllFit(v6, rest) /\ \A i \in DOMAIN v6 : Events!Fits(v6[i], e)
    BY <1>1, <1>3, <1>6, <1>10, EventsAllFitTail, EventsGrouped DEF Events!ComesInOrder
  <2>3. Events!AllFit(v6', v5.todo) /\ Events!AllFit(v5.todo, rest)
    BY <1>1, EventsEmptyFacts
  <2>4. Events!InOrder(v6')
    BY <1>3, <1>7, <1>9, <2>2, EventsInOrderAppend, EventsGrouped DEF Events!ComesInOrder
  <2>5. Events!AllFit(v6', rest)
    BY <1>3, <1>7, <1>9, <2>1, <2>2, EventsAllFitAppend, EventsGrouped DEF Events!ComesInOrder
  <2> QED BY <1>12, <2>1, <2>3, <2>4, <2>5, EventsGrouped DEF Events!ComesInOrder
<1>23. Events!PageIsAhead'
  <2>1. EventsAllCome(rest, v1, v4, v10) /\ EventsComesTo(e, v1, v4, v10)
    BY <1>1, <1>3, <1>6, <1>10, EventsAllComeTail, EventsGrouped DEF EventsAllAhead
  <2>2. EventsAllCome(v6', v1, v4, v10)
    BY <1>3, <1>7, <1>9, <2>1, EventsAllComeAppend, EventsGrouped DEF EventsAllAhead
  <2> QED BY <1>1, <1>12, <2>1, <2>2, EventsGrouped, EventsPageIsAheadNext,
             EventsPageIsAheadIs DEF EventsAllAhead
<1> QED BY <1>4, <1>5, <1>15, <1>16, <1>21, <1>22, <1>23 DEF Events!IInv


\* What a message does to the page.
LEMMA EventsSeenIs ==
  ASSUME Events!EventsAssumption, Events!IInv, NEW e \in Events!Event,
         EventsComesTo(e, v1, v4, v10)
  PROVE  /\ Events!Seen(e) \in [mode : {"waiting", "resolved", "listening"}, snap :
              0 .. EventsMaxIds, v : Nat]
         /\ \/ v10.v = 0 /\ v10.snap = 0 /\ Events!Seen(e).mode = "resolved" /\
                 Events!Seen(e).v = e.v /\ Events!Seen(e).snap = e.id
            \/ /\ e.type = "drm" /\ v10.mode = "listening" /\ e.id > v10.snap
               /\ Events!Seen(e).mode = "listening" /\ Events!Seen(e).v = e.v
               /\ Events!Seen(e).snap = v10.snap
            \/ Events!Seen(e) = v10
<1>1. /\ v10 \in [mode : {"waiting", "resolved", "listening"}, snap : 0 .. EventsMaxIds, v : Nat]
      /\ e.id \in 1 .. EventsMaxIds /\ e.v \in Nat
  BY EventsTypes DEF Events!Event
<1>2. CASE e.type = "snapshot" /\ v10.mode = "waiting"
  <2>1. Events!Seen(e) = [mode |-> "resolved", snap |-> e.id, v |-> e.v]
    BY <1>2 DEF Events!Seen
  <2>2. v10.v = 0 /\ v10.snap = 0
    BY <1>2, EventsGrouped DEF Events!PageIsAhead
  <2> QED BY <1>1, <2>1, <2>2
<1>3. CASE e.type = "drm" /\ v10.mode = "listening" /\ Events!Fresh(e)
  <2>1. Events!Seen(e) = [v10 EXCEPT !.v = e.v]
    BY <1>3 DEF Events!Seen
  <2> QED BY <1>1, <1>3, <2>1 DEF Events!Fresh
<1>4. CASE ~(e.type = "snapshot" /\ v10.mode = "waiting") /\
             ~(e.type = "drm" /\ v10.mode = "listening" /\ Events!Fresh(e))
  <2>1. Events!Seen(e) = v10
    BY <1>4 DEF Events!Seen
  <2> QED BY <1>1, <2>1
<1> QED BY <1>2, <1>3, <1>4

LEMMA EventsReceiveKeeps ==
  ASSUME Events!EventsAssumption, Events!IInv, Events!Receive
  PROVE  Events!IInv' /\ Events!NotBack
<1>1. PICK e : e = Head(v6)
  OBVIOUS
<1>2. PICK rest : rest = Tail(v6)
  OBVIOUS
<1>3. /\ v7 /\ v6 # <<>> /\ v8' = e.id /\ v10' = Events!Seen(e) /\ v6' = rest
      /\ v9' = (IF e.type = "drm" THEN Append(v9, e) ELSE v9)
      /\ v1' = v1 /\ v3' = v3 /\ v4' = v4 /\ v5' = v5
  BY <1>1, <1>2 DEF Events!Receive, Events!engine
<1>4. v2' \in BOOLEAN /\ v7'
  BY DEF Events!Receive, Events!engine, Events!IInv, Events!TypeOK
<1>5. /\ v4 \in Seq(Events!Event) /\ v6 \in Seq(Events!Event) /\ v5.todo \in Seq(Events!Event)
      /\ v5.ch \in Seq(Events!Event)
      /\ v9 \in Seq(Events!Event)
  BY EventsTypes
<1>6. /\ rest \in Seq(Events!Event) /\ e \in Events!Event /\ Len(rest) = Len(v6) - 1
      /\ Len(v6) \in Nat
      /\ 1 \in DOMAIN v6 /\ e = v6[1]
      /\ \A i \in DOMAIN rest : i + 1 \in DOMAIN v6 /\ rest[i] = v6[i + 1]
  BY <1>1, <1>2, <1>3, <1>5, EventsTailFacts
<1>7. e.id \in 1 .. EventsMaxIds /\ e.v \in Nat /\ e.id \in Nat
  BY <1>6 DEF Events!Event
<1>8. EventsAllCome(rest, v1, v4, v10) /\ EventsComesTo(e, v1, v4, v10)
  BY <1>1, <1>2, <1>3, <1>5, EventsAllComeTail, EventsGrouped DEF EventsAllAhead
<1>9. /\ v10.v \in Nat /\ v10.snap \in Nat /\ v1 \in Nat
      /\ v10' \in [mode : {"waiting", "resolved", "listening"}, snap : 0 .. EventsMaxIds, v : Nat]
  BY <1>3, <1>6, <1>8, EventsSeenIs, EventsTypes
<1>10. \/ v10.v = 0 /\ v10.snap = 0 /\ v10'.mode = "resolved" /\ v10'.v = e.v /\ v10'.snap = e.id
       \/ /\ e.type = "drm" /\ v10.mode = "listening" /\ e.id > v10.snap
          /\ v10'.mode = "listening" /\ v10'.v = e.v /\ v10'.snap = v10.snap
       \/ v10' = v10
  BY <1>3, <1>6, <1>8, EventsSeenIs
<1>11. Events!NotBack
  <2>1. e.type = "drm" /\ e.id > v10.snap => e.v >= v10.v
    BY <1>7, <1>8, <1>9 DEF EventsComesTo, EventsIsBehind
  <2> QED BY <1>7, <1>9, <1>10, <2>1 DEF Events!NotBack
<1>12. Events!TypeOK'
  <2>1. v10'.v <= v1
    BY <1>7, <1>8, <1>9, <1>10, EventsGrouped DEF Events!TypeOK, EventsComesTo
  <2>2. v9' \in Seq(Events!Event)
    BY <1>3, <1>5, <1>6, EventsAppendFacts
  <2>3. Len(v6') <= EventsWireSize
    BY <1>3, <1>6, EventsGrouped DEF Events!TypeOK, Events!EventsAssumption
  <2>4. v8' \in 0 .. EventsMaxIds
    BY <1>3, <1>7
  <2> QED BY <1>3, <1>4, <1>6, <1>9, <2>1, <2>2, <2>3, <2>4, EventsGrouped DEF Events!TypeOK
<1>13. Events!LogRises'
  BY <1>3, EventsGrouped DEF Events!LogRises
<1>14. Events!SubIsOpen'
  <2>1. v5.st # "none" => \A i \in DOMAIN rest : rest[i].id <= v3
    BY <1>6, EventsGrouped DEF Events!SubIsOpen
  <2> QED BY <1>3, <1>4, <2>1, EventsGrouped DEF Events!SubIsOpen
<1>15. Events!NoGap'
  <2> SUFFICES ASSUME v5'.st # "none"
               PROVE  /\ EventsAllRise'
                      /\ EventsBetween(v5'.open, v5'.from, Events!Drm(v9'), Events!Drm(v6'),
                           Events!Drm(v5'.todo), Events!Drm(v5'.ch), Events!Drm(v4'))
    BY EventsNoGapNext
  <2>1. /\ EventsAllRise
        /\ EventsBetween(v5.open, v5.from, Events!Drm(v9), Events!Drm(v6), Events!Drm(v5.todo),
             Events!Drm(v5.ch), Events!Drm(v4))
    BY <1>3, EventsNoGapIs, EventsGrouped
  <2>2. Events!Drm(v6) = EventsOne(e) \union Events!Drm(rest) /\ Events!Rises(rest) /\
          Events!Below(EventsOne(e), Events!Drm(rest))
    BY <1>1, <1>2, <1>3, <1>5, <2>1, EventsDrmTail, EventsRisesTail DEF EventsAllRise
  <2>3. Events!Drm(v9') = Events!Drm(v9) \union EventsOne(e)
    <3>1. CASE e.type = "drm"
      BY <1>3, <1>5, <1>6, <3>1, EventsDrmAppend
    <3>2. CASE e.type # "drm"
      BY <1>3, <3>2 DEF EventsOne
    <3> QED BY <3>1, <3>2
  <2>4. Events!Rises(v9')
    <3>1. Events!Below(Events!Drm(v9), EventsOne(e))
      BY <2>1, <2>2 DEF EventsBetween, Events!Below
    <3>2. CASE e.type = "drm"
      BY <1>3, <1>5, <1>6, <2>1, <3>1, <3>2, EventsRisesAppend DEF EventsAllRise
    <3>3. CASE e.type # "drm"
      BY <1>3, <2>1, <3>3 DEF EventsAllRise
    <3> QED BY <3>2, <3>3
  <2>5. EventsBetween(v5.open, v5.from, Events!Drm(v9) \union EventsOne(e), Events!Drm(rest),
          Events!Drm(v5.todo), Events!Drm(v5.ch), Events!Drm(v4))
    BY <2>1, <2>2, EventsFromWireToGot
  <2> QED BY <1>3, <2>1, <2>2, <2>3, <2>4, <2>5 DEF EventsAllRise
<1>16. /\ Events!InOrder(rest) /\ Events!AllFit(rest, v5.todo) /\ Events!AllFit(rest, v5.ch)
       /\ \A i \in DOMAIN rest : Events!Fits(e, rest[i])
       /\ \A i \in DOMAIN v5.todo : Events!Fits(e, v5.todo[i])
       /\ \A i \in DOMAIN v5.ch : Events!Fits(e, v5.ch[i])
  BY <1>1, <1>2, <1>3, <1>5, EventsInOrderTail, EventsAllFitTail,
     EventsGrouped DEF Events!ComesInOrder
<1>17. Events!ComesInOrder'
  BY <1>3, <1>16, EventsGrouped DEF Events!ComesInOrder
<1>18. \A k \in DOMAIN v4 : EventsIsBehind(v4[k], v10') => v4[k].id <= e.id
  <2> SUFFICES ASSUME NEW k \in DOMAIN v4, EventsIsBehind(v4[k], v10') PROVE v4[k].id <= e.id
    OBVIOUS
  <2>1. v4[k].id \in Nat /\ v4[k].v \in Nat
    BY <1>5, EventsEventsAre
  <2>2. v4[k].id > e.id => v4[k].v >= e.v
    BY <1>8 DEF EventsComesTo
  <2>3. CASE v10'.v = e.v
    BY <1>7, <2>1, <2>2, <2>3 DEF EventsIsBehind
  <2>4. CASE v10' = v10
    BY <1>7, <1>8, <2>1, <2>4 DEF EventsComesTo
  <2> QED BY <1>10, <2>3, <2>4
<1>19. ASSUME NEW t \in Seq(Events!Event), EventsAllCome(t, v1, v4, v10), \A i \in DOMAIN t :
              Events!Fits(e, t[i])
       PROVE  EventsAllCome(t, v1, v4, v10')
  <2> SUFFICES ASSUME NEW i \in DOMAIN t PROVE EventsComesTo(t[i], v1, v4, v10')
    BY DEF EventsAllCome
  <2>1. t[i].id \in Nat /\ t[i].v \in Nat
    BY EventsEventsAre
  <2>2. EventsComesTo(t[i], v1, v4, v10) /\ Events!Fits(e, t[i])
    BY <1>19 DEF EventsAllCome
  <2>3. CASE v10' = v10
    BY <2>2, <2>3
  <2>4. CASE v10'.v = e.v /\ v10'.snap = e.id /\ v10.v = 0
    <3>1. t[i].type = "drm" => ~EventsIsBehind(t[i], v10')
      BY <1>7, <2>1, <2>2, <2>4 DEF Events!Fits, EventsIsBehind
    <3>2. \A k \in DOMAIN v4 : ~EventsIsBehind(v4[k], v10')
      <4> SUFFICES ASSUME NEW k \in DOMAIN v4, EventsIsBehind(v4[k], v10') PROVE FALSE
        OBVIOUS
      <4>1. v4[k].id \in Nat /\ v4[k].id > e.id
        BY <1>5, <2>4, EventsEventsAre DEF EventsIsBehind
      <4> QED BY <1>7, <1>18, <4>1
    <3> QED BY <2>2, <3>1, <3>2 DEF EventsComesTo
  <2>5. CASE e.type = "drm" /\ v10'.v = e.v /\ v10'.snap = v10.snap
    <3>1. e.id < t[i].id
      BY <2>2, <2>5 DEF Events!Fits
    <3>2. t[i].type = "drm" => ~EventsIsBehind(t[i], v10')
      BY <1>7, <2>1, <2>2, <2>5, <3>1 DEF Events!Fits, EventsIsBehind
    <3>3. \A k \in DOMAIN v4 : EventsIsBehind(v4[k], v10') => v4[k].id < t[i].id
      <4>1. \A k \in DOMAIN v4 : v4[k].id \in Nat
        BY <1>5, EventsEventsAre
      <4> QED BY <1>7, <1>18, <2>1, <3>1, <4>1
    <3> QED BY <2>2, <3>2, <3>3 DEF EventsComesTo
  <2> QED BY <1>10, <2>3, <2>4, <2>5
<1>20. Events!PageIsAhead'
  <2>1. EventsAllCome(rest, v1, v4, v10') /\ EventsAllCome(v5.todo, v1, v4, v10') /\
          EventsAllCome(v5.ch, v1, v4, v10')
    BY <1>5, <1>6, <1>8, <1>16, <1>19, EventsGrouped DEF EventsAllAhead
  <2>2. EventsLogIsBehind(v4, v10', e.id)
    BY <1>18 DEF EventsLogIsBehind
  <2>3. v10'.mode = "waiting" => v10'.v = 0 /\ v10'.snap = 0
    BY <1>10, EventsGrouped DEF Events!PageIsAhead
  <2> QED BY <1>3, <2>1, <2>2, <2>3, EventsPageIsAheadNext
<1> QED BY <1>11, <1>12, <1>13, <1>14, <1>15, <1>17, <1>20 DEF Events!IInv

LEMMA EventsStutterKeeps ==
  ASSUME Events!EventsAssumption, Events!IInv, UNCHANGED Events!vars
  PROVE  Events!IInv' /\ Events!NotBack
<1>1. /\ v1' = v1 /\ v3' = v3 /\ v4' = v4 /\ v5' = v5 /\ v6' = v6
      /\ v8' = v8 /\ v9' = v9 /\ v10' = v10
  BY DEF Events!vars
<1>2. v2' \in BOOLEAN /\ v7' \in BOOLEAN /\ (v7' <=> v7)
  BY DEF Events!vars, Events!IInv, Events!TypeOK
<1>3. Events!TypeOK' /\ Events!LogRises' /\ Events!SubIsOpen'
  BY <1>1, <1>2, EventsGrouped DEF Events!TypeOK, Events!LogRises, Events!SubIsOpen
<1>4. Events!NoGap' /\ Events!ComesInOrder'
  BY <1>1, EventsGrouped DEF Events!NoGap, Events!InHand, Events!Owed, Events!ComesInOrder
<1>5. Events!PageIsAhead'
  BY <1>1, EventsGrouped DEF Events!PageIsAhead, Events!Comes, Events!Behind
<1>6. Events!NotBack
  BY <1>1, EventsTypes DEF Events!NotBack
<1> QED BY <1>3, <1>4, <1>5, <1>6 DEF Events!IInv

LEMMA EventsStepPreserves ==
  ASSUME Events!EventsAssumption, Events!IInv, Events!Next \/ UNCHANGED Events!vars
  PROVE  Events!IInv' /\ Events!NotBack
BY EventsStutterKeeps, EventsChangeKeeps, EventsEmitKeeps, EventsSubscribeKeeps,
   EventsReadStatusKeeps, EventsWriteNewKeeps, EventsWriteReplayKeeps,
   EventsWriteEventKeeps, EventsReceiveKeeps, EventsListenKeeps, EventsStreamEndsKeeps,
   EventsCutKeeps, EventsRestartKeeps DEF Events!Next


-----------------------------------------------------------------------------
(* A music video's overlay (MvOverlay), and that its invariant holds at the start and is kept by
   each step. *)
Overlay == INSTANCE MvOverlay WITH
  Tiers <- OverlayTiers, VariantLists <- OverlayVariantLists, MaxInputs <- OverlayMaxInputs,
  MaxOthers <- OverlayMaxOthers, phase <- v1, bound <- v2, started <- v3, ui <- v4, vid <- v5,
  full <- v6, fit <- v7, refit <- v8, caps <- v9, lyrics <- v10, changed <- v11,
  scrubbing <- v12, thumb <- v13, heights <- v14, height <- v15, hold <- v16, race <- v17,
  ref <- v18, inputs <- v19, others <- v20

\* The greatest of some heights.
LEMMA OverlayHighestIsOne ==
  ASSUME NEW n \in Nat, NEW S \in SUBSET (0..n), S # {}
  PROVE  Overlay!Highest(S) \in S /\ \A k \in S : k <= Overlay!Highest(S)
<1> DEFINE T == {n - k : k \in S}
<1>1. T \subseteq Nat /\ T # {}
  <2>1. \A k \in S : n - k \in Nat
    OBVIOUS
  <2> QED BY <2>1
<1>2. \E t \in T : \A k \in T : ~(<<k, t>> \in OpToRel(<, Nat))
  <2> HIDE DEF T
  <2> QED BY <1>1, NatLessThanWellFounded, WFMin
<1>3. PICK t \in T : \A k \in T : t <= k
  <2> HIDE DEF T
  <2>1. PICK t \in T : \A k \in T : ~(<<k, t>> \in OpToRel(<, Nat))
    BY <1>2
  <2>2. \A k \in T : k \in Nat /\ t \in Nat
    BY <1>1
  <2>3. \A k \in T : ~(k < t)
    BY <2>1, <2>2 DEF OpToRel
  <2>4. \A k \in T : t <= k
    BY <2>2, <2>3
  <2> QED BY <2>4
<1>4. PICK h \in S : t = n - h
  OBVIOUS
<1>5. \A k \in S : k <= h
  <2>1. ASSUME NEW k \in S PROVE k <= h
    <3>1. n - k \in T
      OBVIOUS
    <3>2. n - h <= n - k /\ k \in Nat /\ h \in Nat
      BY <1>3, <1>4, <3>1
    <3> QED BY <3>2
  <2> QED BY <2>1
<1> QED BY <1>4, <1>5 DEF Overlay!Highest

\* The least of some heights.
LEMMA OverlayLeastIsOne ==
  ASSUME NEW S \in SUBSET Nat, S # {}
  PROVE  \E h \in S : \A k \in S : h <= k
<1>1. \E h \in S : \A k \in S : ~(<<k, h>> \in OpToRel(<, Nat))
  BY NatLessThanWellFounded, WFMin
<1>2. PICK h \in S : \A k \in S : ~(<<k, h>> \in OpToRel(<, Nat))
  BY <1>1
<1>3. \A k \in S : ~(k < h)
  BY <1>2 DEF OpToRel
<1> QED BY <1>3

LEMMA OverlayHeightsAreBounded ==
  ASSUME Overlay!OverlayAssumption
  PROVE  /\ OverlayTiers # {} /\ OverlayTiers \subseteq Nat \ {0}
         /\ \E n \in Nat : OverlayTiers \subseteq 0..n /\
              \A s \in OverlayVariantLists : s \subseteq 0..n
<1>1. PICK n \in OverlayTiers \union UNION OverlayVariantLists :
         n \in Nat /\ OverlayTiers \subseteq 1..n /\
           \A s \in OverlayVariantLists : s \subseteq 1..n
  BY DEF Overlay!OverlayAssumption
<1>2. 1..n \subseteq 0..n /\ 1..n \subseteq Nat \ {0}
  BY <1>1
<1> QED BY <1>1, <1>2 DEF Overlay!OverlayAssumption

\* A higher limit gives no lower variant.
LEMMA OverlayBestGrows ==
  ASSUME Overlay!OverlayAssumption, NEW s \in OverlayVariantLists, NEW a \in Nat, NEW b \in Nat,
         a <= b
  PROVE  Overlay!Best(s, a) \in Nat /\ Overlay!Best(s, a) <= Overlay!Best(s, b)
<1>1. PICK n \in Nat : OverlayTiers \subseteq 0..n /\
             \A t \in OverlayVariantLists : t \subseteq 0..n
  BY OverlayHeightsAreBounded
<1> DEFINE A == {0} \union {h \in s : h <= a}
           B == {0} \union {h \in s : h <= b}
<1>2. A \in SUBSET (0..n) /\ B \in SUBSET (0..n) /\ A # {} /\ B # {}
  BY <1>1
<1>3. A \subseteq B
  <2>1. \A h \in s : h \in Nat
    BY <1>1
  <2>2. \A h \in s : h <= a => h <= b
    BY <2>1
  <2> QED BY <2>2
<1>4. Overlay!Best(s, a) = Overlay!Highest(A) /\ Overlay!Best(s, b) = Overlay!Highest(B)
  BY DEF Overlay!Best
<1> HIDE DEF A, B
<1>5. Overlay!Highest(A) \in A /\ \A k \in B : k <= Overlay!Highest(B)
  BY <1>2, OverlayHighestIsOne
<1>6. Overlay!Highest(A) \in Nat
  <2>1. A \subseteq Nat
    BY <1>2
  <2> QED BY <1>5, <2>1
<1> QED BY <1>3, <1>4, <1>5, <1>6

\* Each variant is given by the item with the least of the tiers that give it.
LEMMA OverlayOneItemGives ==
  ASSUME Overlay!OverlayAssumption, NEW s \in OverlayVariantLists, s # {},
         NEW t \in OverlayTiers, Overlay!Best(s, t) # 0
  PROVE  \E i \in Overlay!Options(s) : \A j \in Overlay!Options(s) :
           Overlay!Best(s, j) = Overlay!Best(s, t) <=> j = i
<1>1. OverlayTiers \subseteq Nat
  BY OverlayHeightsAreBounded
<1>2. PICK n \in Nat : OverlayTiers \subseteq 0..n
  BY OverlayHeightsAreBounded
<1> DEFINE Lower(j) == {u \in OverlayTiers : u < j}
           OverlaySame == {u \in OverlayTiers : Overlay!Best(s, u) = Overlay!Best(s, t)}
<1>3. PICK i \in OverlaySame : \A k \in OverlaySame : i <= k
  <2>1. OverlaySame \in SUBSET Nat /\ OverlaySame # {}
    BY <1>1
  <2> HIDE DEF OverlaySame
  <2> QED BY <2>1, OverlayLeastIsOne
<1>4. Overlay!Options(s) = {j \in OverlayTiers : Overlay!Best(s, j) # 0 /\
        (Lower(j) # {} => Overlay!Best(s, j) > Overlay!Best(s, Overlay!Highest(Lower(j))))}
  BY DEF Overlay!Options
<1>5. \A j \in OverlayTiers : Lower(j) # {} =>
        Overlay!Highest(Lower(j)) \in Lower(j) /\
          \A k \in Lower(j) : k <= Overlay!Highest(Lower(j))
  <2>1. ASSUME NEW j \in OverlayTiers, Lower(j) # {}
        PROVE  Overlay!Highest(Lower(j)) \in Lower(j) /\
                 \A k \in Lower(j) : k <= Overlay!Highest(Lower(j))
    <3>1. Lower(j) \in SUBSET (0..n)
      BY <1>2
    <3> HIDE DEF Lower
    <3> QED BY <2>1, <3>1, OverlayHighestIsOne
  <2> QED BY <2>1
<1>6. \A a, b \in OverlayTiers : a <= b =>
        Overlay!Best(s, a) \in Nat /\ Overlay!Best(s, b) \in Nat /\
          Overlay!Best(s, a) <= Overlay!Best(s, b)
  <2>1. ASSUME NEW a \in OverlayTiers, NEW b \in OverlayTiers, a <= b
        PROVE  Overlay!Best(s, a) \in Nat /\ Overlay!Best(s, b) \in Nat /\
                 Overlay!Best(s, a) <= Overlay!Best(s, b)
    <3>1. a \in Nat /\ b \in Nat /\ b <= b
      BY <1>1
    <3>2. Overlay!Best(s, a) \in Nat /\ Overlay!Best(s, a) <= Overlay!Best(s, b)
      BY <2>1, <3>1, OverlayBestGrows
    <3>3. Overlay!Best(s, b) \in Nat
      BY <3>1, OverlayBestGrows
    <3> QED BY <3>2, <3>3
  <2> QED BY <2>1
<1>7. i \in OverlayTiers /\ Overlay!Best(s, i) = Overlay!Best(s, t)
  OBVIOUS
<1>8. i \in Overlay!Options(s)
  <2>1. ASSUME Lower(i) # {} PROVE Overlay!Best(s, i) > Overlay!Best(s, Overlay!Highest(Lower(i)))
    <3> DEFINE u == Overlay!Highest(Lower(i))
    <3>1. u \in OverlayTiers /\ u < i
      BY <1>5, <1>7, <2>1
    <3> HIDE DEF u
    <3>2. u \in Nat /\ i \in Nat /\ u <= i
      BY <1>1, <1>7, <3>1
    <3>3. Overlay!Best(s, u) \in Nat /\ Overlay!Best(s, i) \in Nat /\
            Overlay!Best(s, u) <= Overlay!Best(s, i)
      BY <1>6, <1>7, <3>1, <3>2
    <3>4. u \notin OverlaySame
      BY <1>3, <3>1, <3>2
    <3>5. Overlay!Best(s, u) # Overlay!Best(s, i)
      BY <1>7, <3>1, <3>4
    <3> QED BY <3>3, <3>5 DEF u
  <2> QED BY <1>4, <1>7, <2>1
<1>9. ASSUME NEW j \in Overlay!Options(s), Overlay!Best(s, j) = Overlay!Best(s, t), j # i
      PROVE  FALSE
  <2>1. j \in OverlayTiers /\ j \in OverlaySame
    BY <1>4, <1>9
  <2>2. i \in Nat /\ j \in Nat /\ i < j
    BY <1>1, <1>3, <1>7, <1>9, <2>1
  <2>3. i \in Lower(j)
    BY <1>7, <2>2
  <2> DEFINE u == Overlay!Highest(Lower(j))
  <2>4. u \in OverlayTiers /\ u < j /\ i <= u /\ Overlay!Best(s, j) > Overlay!Best(s, u)
    BY <1>4, <1>5, <2>1, <2>3
  <2> HIDE DEF u
  <2>5. u \in Nat
    BY <1>1, <2>4
  <2>6. Overlay!Best(s, i) \in Nat /\ Overlay!Best(s, u) \in Nat /\ Overlay!Best(s, j) \in Nat /\
          Overlay!Best(s, i) <= Overlay!Best(s, u)
    <3>1. u <= j
      BY <2>2, <2>4, <2>5
    <3> QED BY <1>6, <1>7, <2>1, <2>4, <3>1
  <2> QED BY <1>7, <1>9, <2>4, <2>6
<1> QED BY <1>7, <1>8, <1>9

\* An item of the menu is a tier; the highest of some items is one.
LEMMA OverlayOptionsAreTiers ==
  ASSUME Overlay!OverlayAssumption, NEW s
  PROVE  Overlay!Options(s) \subseteq OverlayTiers /\
           (Overlay!Options(s) # {} => Overlay!Highest(Overlay!Options(s)) \in Overlay!Options(s))
<1>1. Overlay!Options(s) \subseteq OverlayTiers
  BY DEF Overlay!Options
<1>2. PICK n \in Nat : OverlayTiers \subseteq 0..n
  BY OverlayHeightsAreBounded
<1>3. Overlay!Options(s) \in SUBSET (0..n)
  BY <1>1, <1>2
<1> QED BY <1>1, <1>3, OverlayHighestIsOne

-----------------------------------------------------------------------------
\* The controls as they stand while the session is at p, and without regard to what fades.
OverlayUiFree(u) == /\ u \in Overlay!UiTypes /\ (u.open <=> u.menu)
                    /\ u.focus = "item" => u.menu /\ u.item \in Overlay!Options(v14)
OverlayUiGood(u, p) == /\ u \in Overlay!UiTypes /\ (u.menu => p # "gone" /\ u.scrim = "shown")
                       /\ p # "gone" => (u.open <=> u.menu)
                       /\ u.focus = "item" => u.menu /\ u.item \in Overlay!Options(v14)
OverlayVidGood(v, p) == v \in Overlay!VidTypes /\ (p # "gone" /\ ~v.news => (v.icon <=> v.paused))

LEMMA OverlayShowsControls ==
  ASSUME NEW p, NEW u
  PROVE  /\ OverlayUiGood(u, p) => OverlayUiGood(Overlay!ShowControls(u), p)
         /\ p # "gone" /\ OverlayUiFree(u) => OverlayUiGood(Overlay!ShowControls(u), p)
         /\ u \in Overlay!UiTypes =>
              Overlay!ShowControls(u).focus = u.focus /\ Overlay!ShowControls(u).item = u.item /\
                Overlay!ShowControls(u).menu = u.menu
BY DEF OverlayUiGood, OverlayUiFree, Overlay!ShowControls, Overlay!UiTypes

LEMMA OverlayHidesControls ==
  ASSUME NEW p, NEW u, OverlayUiGood(u, p)
  PROVE  OverlayUiGood(Overlay!HideControls(u), p)
BY DEF OverlayUiGood, Overlay!HideControls, Overlay!Hidden, Overlay!UiTypes

LEMMA OverlayClosesMenu ==
  ASSUME NEW p, NEW u, u \in Overlay!UiTypes, NEW restore \in BOOLEAN
  PROVE  OverlayUiGood(Overlay!CloseMenu(u, restore), p) /\
           OverlayUiGood([Overlay!Hidden(u) EXCEPT !.open = FALSE], p)
<1> DEFINE c == [Overlay!Hidden(u) EXCEPT !.open = FALSE]
<1>1. c \in Overlay!UiTypes /\ ~c.open /\ ~c.menu /\ c.focus # "item"
  BY DEF Overlay!Hidden, Overlay!UiTypes
<1>2. Overlay!CloseMenu(u, restore) = IF restore THEN [c EXCEPT !.focus = "button"] ELSE c
  BY DEF Overlay!CloseMenu
<1> HIDE DEF c
<1>3. OverlayUiGood(c, p)
  BY <1>1 DEF OverlayUiGood
<1>4. LET d == [c EXCEPT !.focus = "button"] IN d \in Overlay!UiTypes /\ ~d.open /\ ~d.menu /\
        d.focus # "item"
  BY <1>1 DEF Overlay!UiTypes
<1>5. OverlayUiGood(Overlay!CloseMenu(u, restore), p)
  BY <1>2, <1>3, <1>4 DEF OverlayUiGood
<1> QED BY <1>3, <1>5 DEF c

LEMMA OverlayOpensMenu ==
  ASSUME Overlay!OverlayAssumption, NEW u, OverlayUiFree(u)
  PROVE  OverlayUiFree(Overlay!OpenMenu(u))
<1> DEFINE o == Overlay!Options(v14)
           f == IF o = {} THEN u.focus ELSE "item"
           i == IF o = {} THEN u.item ELSE IF v15 \in o THEN v15 ELSE Overlay!Highest(o)
<1>1. o \subseteq OverlayTiers /\ (o # {} => Overlay!Highest(o) \in o)
  BY OverlayOptionsAreTiers
<1>2. Overlay!OpenMenu(u) = [u EXCEPT !.open = TRUE, !.menu = TRUE, !.focus = f, !.item = i]
  BY DEF Overlay!OpenMenu
<1>3. f \in {"page", "button", "item"} /\ i \in {0} \union OverlayTiers /\ (f = "item" => i \in o)
  BY <1>1 DEF OverlayUiFree, Overlay!UiTypes
<1> HIDE DEF o, f, i
<1> QED BY <1>2, <1>3 DEF OverlayUiFree, Overlay!UiTypes, o

LEMMA OverlayGoodIsFree ==
  ASSUME NEW p, p # "gone", NEW u, OverlayUiGood(u, p)
  PROVE  OverlayUiFree(u)
BY DEF OverlayUiGood, OverlayUiFree

\* What the focused element's listener leaves is fit for the document's.
LEMMA OverlayFocusKeyFits ==
  ASSUME Overlay!OverlayAssumption, NEW p, p # "gone", OverlayUiGood(v4, p),
         NEW k \in Overlay!Keyboard,
         ~(v4.focus = "item" /\ k \in {"Enter", "space"}), NEW u \in Overlay!FocusKey(k, v4)
  PROVE  OverlayUiFree(u) /\ (k # "volume" => OverlayUiGood(u, p)) /\
           (k = "Tab" /\ v4.focus = "item" => u.focus # "item")
<1>1. OverlayUiFree(v4) /\ v4 \in Overlay!UiTypes
  BY OverlayGoodIsFree DEF OverlayUiGood
<1>2. CASE v4.focus = "button"
  <2>1. u = Overlay!ButtonKey(k, v4)
    BY <1>2 DEF Overlay!FocusKey
  <2>2. CASE k \in {"Enter", "space"}
    <3>1. u = Overlay!ClickButton(v4)
      BY <2>1, <2>2 DEF Overlay!ButtonKey
    <3>2. u = Overlay!ShowControls(Overlay!CloseMenu(v4, FALSE)) \/
            u = Overlay!ShowControls(Overlay!OpenMenu(v4))
      BY <3>1 DEF Overlay!ClickButton
    <3>4. OverlayUiGood(Overlay!CloseMenu(v4, FALSE), p)
      BY <1>1, OverlayClosesMenu
    <3>5. OverlayUiFree(Overlay!OpenMenu(v4))
      BY <1>1, OverlayOpensMenu
    <3>3. OverlayUiGood(u, p)
      BY <3>2, <3>4, <3>5, OverlayShowsControls
    <3> QED BY <1>2, <3>3, OverlayGoodIsFree
  <2>3. CASE k = "Escape"
    <3>1. u = Overlay!CloseMenu(v4, TRUE)
      BY <2>1, <2>3 DEF Overlay!ButtonKey
    <3>2. OverlayUiGood(u, p)
      BY <1>1, <3>1, OverlayClosesMenu
    <3> QED BY <1>2, <3>2, OverlayGoodIsFree
  <2>4. CASE k = "volume"
    <3>1. u = Overlay!OpenMenu(v4)
      BY <2>1, <2>4 DEF Overlay!ButtonKey
    <3> QED BY <1>1, <2>4, <3>1, OverlayOpensMenu
  <2>5. CASE k \notin {"Enter", "space", "Escape", "volume"}
    <3>1. u = v4
      BY <2>1, <2>5 DEF Overlay!ButtonKey
    <3> QED BY <1>1, <1>2, <3>1
  <2> QED BY <2>2, <2>3, <2>4, <2>5
<1>3. CASE v4.focus = "item"
  <2>1. u \in Overlay!MenuKey(k, v4)
    BY <1>3 DEF Overlay!FocusKey
  <2>2. CASE k \in {"Escape", "Tab"}
    <3>1. u = Overlay!CloseMenu(v4, TRUE)
      BY <2>1, <2>2 DEF Overlay!MenuKey
    <3>2. OverlayUiGood(u, p)
      BY <1>1, <3>1, OverlayClosesMenu
    <3>3. u.focus = "button"
      BY <1>1, <3>1 DEF Overlay!CloseMenu, Overlay!Hidden, Overlay!UiTypes
    <3> QED BY <3>2, <3>3, OverlayGoodIsFree
  <2>3. CASE k = "volume"
    <3>1. PICK t \in Overlay!Options(v14) : u = [v4 EXCEPT !.item = t]
      BY <2>1, <2>3 DEF Overlay!MenuKey
    <3>2. t \in OverlayTiers
      BY OverlayOptionsAreTiers
    <3>3. OverlayUiFree(u)
      BY <1>1, <3>1, <3>2 DEF OverlayUiFree, Overlay!UiTypes
    <3> QED BY <2>3, <3>3
  <2>4. CASE k \notin {"Escape", "Tab", "volume"}
    <3>1. u = v4
      BY <2>1, <2>4 DEF Overlay!MenuKey
    <3> QED BY <1>1, <2>4, <3>1
  <2> QED BY <2>2, <2>3, <2>4
<1>4. CASE v4.focus \notin {"button", "item"}
  <2>1. u = v4
    BY <1>4 DEF Overlay!FocusKey
  <2> QED BY <1>1, <1>4, <2>1
<1> QED BY <1>2, <1>3, <1>4

\* Tab moves the focus, but not within a menu.
LEMMA OverlayFocusedFits ==
  ASSUME NEW p, NEW k, NEW u, OverlayUiFree(u), k # "volume" =>
         OverlayUiGood(u, p), NEW f \in Overlay!Focused(k, u)
  PROVE  OverlayUiFree(f) /\ (k # "volume" => OverlayUiGood(f, p))
<1>1. CASE f = u
  BY <1>1
<1>2. CASE f # u
  <2>1. PICK g \in {"page", "button"} : f = [u EXCEPT !.focus = g] /\ k = "Tab"
    BY <1>2 DEF Overlay!Focused
  <2>2. OverlayUiGood(u, p)
    BY <2>1
  <2> QED BY <2>1, <2>2 DEF OverlayUiFree, OverlayUiGood, Overlay!UiTypes
<1> QED BY <1>1, <1>2

-----------------------------------------------------------------------------
\* The session; the picture; captions; lyrics; the scrim; the qualities; the scrubber.
OverlaySessionOK == v1 \in {"up", "run", "gone", "left"} /\ v2 \in BOOLEAN /\ v6 \in BOOLEAN /\
  v19 \in Nat
OverlayCapsOK == v9 \in Overlay!CapsTypes /\ Overlay!CaptionsAreTrue
OverlayTrackOK == v10 \in {"asked", "text", "none", "track", "revoked", "late"} /\
  Overlay!TrackIsGivenBack
OverlayFitOK == v8 \subseteq {"event", "pass"} /\ Overlay!ScrimIsFitted
OverlayQualityOK == /\ v14 \in OverlayVariantLists /\ v15 \in OverlayTiers
                    /\ Overlay!Options(v14) # {} => v15 \in Overlay!Options(v14)
OverlayScrubOK == v13 \in {"mine", "held", "zero", "apple", "next"} /\
  v18 \in {"mine", "none", "next"}
OverlayUiOK == OverlayUiGood(v4, v1)
OverlayVidOK == OverlayVidGood(v5, v1)

LEMMA OverlayParts == Overlay!IInv <=>
  OverlaySessionOK /\ OverlayCapsOK /\ OverlayTrackOK /\ OverlayFitOK /\ OverlayQualityOK /\
    OverlayScrubOK /\ OverlayUiOK /\ OverlayVidOK
<1>1. Overlay!CaptionsAreTrue \in BOOLEAN /\ Overlay!TrackIsGivenBack \in BOOLEAN /\
        Overlay!ScrimIsFitted \in BOOLEAN
  BY DEF Overlay!CaptionsAreTrue, Overlay!TrackIsGivenBack, Overlay!ScrimIsFitted
<1>2. OverlayUiOK <=> v4 \in Overlay!UiTypes /\ Overlay!MenuIsWithControls /\
        Overlay!FocusIsInTheMenu
  BY DEF OverlayUiOK, OverlayUiGood, Overlay!MenuIsWithControls, Overlay!FocusIsInTheMenu,
     Overlay!There
<1>3. OverlayVidOK <=> v5 \in Overlay!VidTypes /\ Overlay!IconIsTrue
  BY DEF OverlayVidOK, OverlayVidGood, Overlay!IconIsTrue, Overlay!There
<1>4. Overlay!MenuIsWithControls \in BOOLEAN /\ Overlay!FocusIsInTheMenu \in BOOLEAN /\
        Overlay!IconIsTrue \in BOOLEAN
  BY DEF Overlay!MenuIsWithControls, Overlay!FocusIsInTheMenu, Overlay!IconIsTrue
<1> HIDE DEF OverlayUiOK, OverlayVidOK
<1> QED BY <1>1, <1>2, <1>3, <1>4, Zenon DEF Overlay!IInv, Overlay!TypeOK, OverlaySessionOK,
           OverlayCapsOK, OverlayTrackOK, OverlayFitOK, OverlayQualityOK, OverlayScrubOK
LEMMA OverlayPartsNext ==
  OverlaySessionOK' /\ OverlayCapsOK' /\ OverlayTrackOK' /\ OverlayFitOK' /\ OverlayQualityOK' /\
    OverlayScrubOK' /\ OverlayUiOK' /\ OverlayVidOK' => Overlay!IInv'
<1>1. OverlayUiOK' => (v4 \in Overlay!UiTypes /\ Overlay!MenuIsWithControls /\
        Overlay!FocusIsInTheMenu)'
  BY DEF OverlayUiOK, OverlayUiGood, Overlay!MenuIsWithControls, Overlay!FocusIsInTheMenu,
     Overlay!There
<1>2. OverlayVidOK' => (v5 \in Overlay!VidTypes /\ Overlay!IconIsTrue)'
  BY DEF OverlayVidOK, OverlayVidGood, Overlay!IconIsTrue, Overlay!There
<1> QED BY <1>1, <1>2 DEF Overlay!IInv, Overlay!TypeOK, OverlaySessionOK, OverlayCapsOK,
           OverlayTrackOK, OverlayFitOK, OverlayQualityOK, OverlayScrubOK

LEMMA OverlayInitEstablishes ==
  ASSUME Overlay!OverlayAssumption, Overlay!Init
  PROVE  Overlay!IInv
<1>1. OverlaySessionOK /\ OverlayScrubOK /\ OverlayFitOK
  BY DEF Overlay!Init, OverlaySessionOK, OverlayScrubOK, OverlayFitOK, Overlay!ScrimIsFitted
<1>2. OverlayUiOK /\ OverlayVidOK
  BY DEF Overlay!Init, OverlayUiOK, OverlayUiGood, Overlay!UiTypes, OverlayVidOK, OverlayVidGood,
     Overlay!VidTypes
<1>3. OverlayCapsOK /\ OverlayTrackOK
  BY DEF Overlay!Init, OverlayCapsOK, Overlay!CapsTypes, Overlay!CaptionsAreTrue, OverlayTrackOK,
     Overlay!TrackIsGivenBack
<1>4. OverlayQualityOK
  <2>1. PICK h \in OverlayTiers : v15 = Overlay!Snapped(v14, h)
    BY DEF Overlay!Init
  <2>2. Overlay!Options(v14) \subseteq OverlayTiers /\
          (Overlay!Options(v14) # {} =>
            Overlay!Highest(Overlay!Options(v14)) \in Overlay!Options(v14))
    BY OverlayOptionsAreTiers
  <2>3. v15 = h \/ v15 \in Overlay!Options(v14)
    BY <2>1, <2>2 DEF Overlay!Snapped
  <2>4. Overlay!Options(v14) # {} => v15 \in Overlay!Options(v14)
    BY <2>1, <2>2 DEF Overlay!Snapped
  <2> QED BY <2>2, <2>3, <2>4 DEF Overlay!Init, OverlayQualityOK
<1> QED BY <1>1, <1>2, <1>3, <1>4, OverlayParts

\* What a step leaves alone stays as it was.
OverlaySame == UNCHANGED <<v1, v2, v6, v14>>

LEMMA OverlayCapsStay == OverlayCapsOK /\ UNCHANGED <<v9, v1>> => OverlayCapsOK'
BY DEF OverlayCapsOK, Overlay!CaptionsAreTrue, Overlay!There
LEMMA OverlayTrackStays == OverlayTrackOK /\ UNCHANGED <<v10, v1>> => OverlayTrackOK'
BY DEF OverlayTrackOK, Overlay!TrackIsGivenBack
LEMMA OverlayFitStays == OverlayFitOK /\ UNCHANGED <<v7, v8, v1>> => OverlayFitOK'
BY DEF OverlayFitOK, Overlay!ScrimIsFitted, Overlay!There
LEMMA OverlayQualityStays == OverlayQualityOK /\ UNCHANGED <<v14, v15>> => OverlayQualityOK'
BY DEF OverlayQualityOK
LEMMA OverlayUiStays == OverlayUiOK /\ UNCHANGED <<v4, v1, v14>> => OverlayUiOK'
BY DEF OverlayUiOK, OverlayUiGood
LEMMA OverlayUiBecomes ==
  ASSUME NEW u, OverlayUiGood(u, v1), v4' = u, UNCHANGED <<v1, v14>>
  PROVE  OverlayUiOK'
BY DEF OverlayUiOK, OverlayUiGood
LEMMA OverlayVidStays == OverlayVidOK /\ UNCHANGED <<v5, v1>> => OverlayVidOK'
BY DEF OverlayVidOK, OverlayVidGood
LEMMA OverlayVidBecomes ==
  ASSUME NEW v, OverlayVidGood(v, v1), v5' = v, UNCHANGED v1
  PROVE  OverlayVidOK'
BY DEF OverlayVidOK, OverlayVidGood

\* A session ends, or one without a cleanup is left.
LEMMA OverlayAborted ==
  ASSUME OverlaySessionOK, OverlayCapsOK, OverlayTrackOK, OverlayFitOK, OverlayScrubOK,
         OverlayVidOK, NEW u, OverlayUiGood(u, v1),
         NEW v, OverlayVidGood(v, v1),
         NEW m \in {"mine", "held", "zero", "apple", "next"}, Overlay!Abort(u, v, m),
           UNCHANGED <<v2, v14>>,
         v19' \in Nat
  PROVE  OverlaySessionOK' /\ OverlayCapsOK' /\ OverlayTrackOK' /\ OverlayFitOK' /\
           OverlayScrubOK' /\ OverlayUiOK' /\ OverlayVidOK'
<1>1. CASE v1 = "run"
  <2>1. /\ v1' = "gone" /\ v13' = m /\ v6' = FALSE /\ v8' = v8 \ {"event"} /\ UNCHANGED v7
        /\ v4' = [Overlay!Hidden(u) EXCEPT !.scrim = "theirs", !.timer = FALSE, !.focus = "page"]
        /\ v5' = [v5 EXCEPT !.paused = TRUE, !.news = FALSE]
        /\ v9' = [v9 EXCEPT !.news = FALSE, !.subs = FALSE]
        /\ v10' = IF v10 = "track" THEN "revoked" ELSE v10
        /\ v18' = IF v18 = "mine" THEN "none" ELSE v18
    BY <1>1, Zenon DEF Overlay!Abort
  <2>2. OverlaySessionOK' /\ OverlayScrubOK' /\ OverlayFitOK'
    BY <2>1 DEF OverlaySessionOK, OverlayScrubOK, OverlayFitOK, Overlay!ScrimIsFitted,
       Overlay!There
  <2>3. OverlayCapsOK'
    BY <2>1 DEF OverlayCapsOK, Overlay!CapsTypes, Overlay!CaptionsAreTrue, Overlay!There
  <2>4. OverlayTrackOK'
    BY <2>1 DEF OverlayTrackOK, Overlay!TrackIsGivenBack
  <2>5. OverlayUiOK'
    BY <2>1 DEF OverlayUiOK, OverlayUiGood, Overlay!UiTypes, Overlay!Hidden
  <2>6. OverlayVidOK'
    BY <2>1 DEF OverlayVidOK, OverlayVidGood, Overlay!VidTypes
  <2> QED BY <2>2, <2>3, <2>4, <2>5, <2>6
<1>2. CASE v1 # "run"
  <2>1. /\ v1' = (IF v1 = "up" THEN "left" ELSE v1) /\ v13' = m
        /\ v10' = IF v1 = "up" /\ v10 = "track" THEN "revoked" ELSE v10
        /\ v4' = u /\ v5' = v /\ UNCHANGED <<v6, v7, v8, v9, v18>>
    BY <1>2 DEF Overlay!Abort, Overlay!screen
  <2>2. v1' # "gone" <=> v1 # "gone"
    BY <2>1 DEF OverlaySessionOK
  <2>3. OverlaySessionOK' /\ OverlayScrubOK' /\ OverlayFitOK'
    BY <2>1, <2>2 DEF OverlaySessionOK, OverlayScrubOK, OverlayFitOK, Overlay!ScrimIsFitted,
       Overlay!There
  <2>4. OverlayCapsOK'
    BY <2>1, <2>2 DEF OverlayCapsOK, Overlay!CaptionsAreTrue, Overlay!There
  <2>5. OverlayTrackOK'
    BY <1>2, <2>1 DEF OverlayTrackOK, Overlay!TrackIsGivenBack, OverlaySessionOK
  <2>6. OverlayUiOK' /\ OverlayVidOK'
    BY <2>1, <2>2 DEF OverlayUiOK, OverlayUiGood, OverlayVidOK, OverlayVidGood
  <2> QED BY <2>3, <2>4, <2>5, <2>6
<1> QED BY <1>1, <1>2

\* The play button's event follows a toggle.
LEMMA OverlayTogglesFine ==
  ASSUME OverlaySessionOK, OverlayVidOK
  PROVE  OverlayVidGood(Overlay!Toggled, v1)
BY DEF Overlay!Toggled, OverlayVidOK, OverlayVidGood, Overlay!VidTypes

LEMMA OverlayKeyPreserves ==
  ASSUME Overlay!OverlayAssumption, Overlay!IInv, NEW k \in Overlay!Keyboard, Overlay!Key(k)
  PROVE  Overlay!IInv' /\ Overlay!NextIsFree
<1>0. OverlaySessionOK /\ OverlayCapsOK /\ OverlayTrackOK /\ OverlayFitOK /\ OverlayQualityOK /\
        OverlayScrubOK /\ OverlayUiOK /\ OverlayVidOK
  BY OverlayParts
<1>1. PICK u \in Overlay!FocusKey(k, v4) : \E f \in Overlay!Focused(k, u) :
             Overlay!DocumentKey(k, f)
  BY DEF Overlay!Key
<1>2. PICK f \in Overlay!Focused(k, u) : Overlay!DocumentKey(k, f)
  BY <1>1
<1>3. /\ v1 # "gone" /\ ~(v4.focus = "item" /\ k \in {"Enter", "space"}) /\ v19' = v19 + 1
      /\ UNCHANGED <<v14, v15>>
  BY DEF Overlay!Key, Overlay!There, Overlay!Input
<1>4. OverlayUiFree(f) /\ (k # "volume" => OverlayUiGood(f, v1))
  <2>1. OverlayUiFree(u) /\ (k # "volume" => OverlayUiGood(u, v1))
    BY <1>0, <1>1, <1>3, OverlayFocusKeyFits DEF OverlayUiOK
  <2> QED BY <2>1, <1>2, OverlayFocusedFits
<1>5. v19' \in Nat /\ v19' # v19
  BY <1>0, <1>3 DEF OverlaySessionOK
<1>6. OverlayQualityOK' /\ Overlay!NextIsFree
  BY <1>0, <1>3, <1>5, OverlayQualityStays DEF Overlay!NextIsFree
<1>7. CASE k = "full" \/ (k = "Escape" /\ v6)
  <2>1. /\ v6' = ~v6 /\ v8' = v8 \union {"event"} /\ v7' = FALSE
        /\ v4' = f /\ UNCHANGED <<v1, v2, v5, v9, v10, v13, v18>>
    BY <1>2, <1>7 DEF Overlay!DocumentKey, Overlay!session
  <2>2. OverlaySessionOK' /\ OverlayFitOK'
    <3>1. v6' \in BOOLEAN
      BY <1>0, <2>1 DEF OverlaySessionOK
    <3> QED BY <1>0, <1>5, <2>1, <3>1 DEF OverlaySessionOK, OverlayFitOK, Overlay!ScrimIsFitted
  <2>3. OverlayUiOK'
    BY <1>3, <1>4, <1>7, <2>1, OverlayUiBecomes
  <2>4. OverlayVidOK' /\ OverlayCapsOK' /\ OverlayTrackOK' /\ OverlayScrubOK'
    BY <1>0, <2>1, OverlayVidStays, OverlayCapsStay, OverlayTrackStays DEF OverlayScrubOK
  <2> QED BY <1>6, <2>2, <2>3, <2>4, OverlayPartsNext
<1>8. CASE k = "Escape" /\ ~v6
  <2>1. Overlay!Abort(f, v5, v13) /\ UNCHANGED v2
    BY <1>2, <1>8 DEF Overlay!DocumentKey
  <2>2. OverlaySessionOK' /\ OverlayCapsOK' /\ OverlayTrackOK' /\ OverlayFitOK' /\
          OverlayScrubOK' /\ OverlayUiOK' /\ OverlayVidOK'
    BY <1>0, <1>3, <1>4, <1>5, <1>8, <2>1, OverlayAborted DEF OverlayVidOK, OverlayScrubOK
  <2> QED BY <1>6, <2>2, OverlayPartsNext
<1>9. CASE k = "space"
  <2>1. /\ v5' = Overlay!Toggled /\ v4' = IF v2 THEN Overlay!ShowControls(f) ELSE f
        /\ UNCHANGED <<v1, v2, v6, v7, v8, v9, v10, v13, v18>>
    BY <1>2, <1>9 DEF Overlay!DocumentKey, Overlay!session, Overlay!screen
  <2>2. OverlayUiOK'
    <3>1. OverlayUiGood(f, v1) /\ OverlayUiGood(Overlay!ShowControls(f), v1)
      BY <1>4, <1>9, OverlayShowsControls
    <3> QED BY <1>3, <2>1, <3>1, OverlayUiBecomes
  <2>3. OverlayVidOK'
    BY <1>0, <2>1, OverlayTogglesFine, OverlayVidBecomes
  <2>4. OverlaySessionOK' /\ OverlayCapsOK' /\ OverlayTrackOK' /\ OverlayFitOK' /\ OverlayScrubOK'
    BY <1>0, <1>5, <2>1, OverlayCapsStay, OverlayTrackStays, OverlayFitStays DEF OverlaySessionOK,
       OverlayScrubOK
  <2> QED BY <1>6, <2>2, <2>3, <2>4, OverlayPartsNext
<1>10. CASE k \notin {"full", "Escape", "space"}
  <2>1. v4' = Overlay!ShowControls(f) /\ UNCHANGED <<v1, v2, v6, v5, v7, v8, v9, v10, v13, v18>>
    BY <1>2, <1>10 DEF Overlay!DocumentKey, Overlay!session, Overlay!screen
  <2>2. OverlayUiOK'
    <3>1. OverlayUiGood(Overlay!ShowControls(f), v1)
      BY <1>3, <1>4, OverlayShowsControls
    <3> QED BY <1>3, <2>1, <3>1, OverlayUiBecomes
  <2>3. OverlaySessionOK' /\ OverlayVidOK' /\ OverlayCapsOK' /\ OverlayTrackOK' /\
          OverlayFitOK' /\ OverlayScrubOK'
    BY <1>0, <1>5, <2>1, OverlayVidStays, OverlayCapsStay, OverlayTrackStays,
       OverlayFitStays DEF OverlaySessionOK, OverlayScrubOK
  <2> QED BY <1>6, <2>2, <2>3, OverlayPartsNext
<1> QED BY <1>7, <1>8, <1>9, <1>10

LEMMA OverlayChoosePreserves ==
  ASSUME Overlay!OverlayAssumption, Overlay!IInv, Overlay!Choose
  PROVE  Overlay!IInv' /\ Overlay!NextIsFree
<1>0. OverlaySessionOK /\ OverlayCapsOK /\ OverlayTrackOK /\ OverlayFitOK /\ OverlayQualityOK /\
        OverlayScrubOK /\ OverlayUiOK /\ OverlayVidOK
  BY OverlayParts
<1>1. v1 # "gone" /\ v4.menu /\ v19' = v19 + 1
  BY DEF Overlay!Choose, Overlay!There, Overlay!Input
<1>2. v4 \in Overlay!UiTypes /\ OverlayUiGood(Overlay!ShowControls(v4), v1) /\
        Overlay!ShowControls(v4) \in Overlay!UiTypes
  BY <1>0, OverlayShowsControls DEF OverlayUiOK, OverlayUiGood
<1>3. \E t \in Overlay!Options(v14) : \E u \in {v4, Overlay!ShowControls(v4)} :
        \E v \in {v5, Overlay!Toggled} : Overlay!ChooseQuality(t, u, v)
  <2>1. CASE \E t \in Overlay!Options(v14) : Overlay!ChooseQuality(t, v4, v5)
    BY <2>1
  <2>2. CASE v4.focus = "item" /\ Overlay!ChooseQuality(v4.item, Overlay!ShowControls(v4), v5)
    BY <1>0, <2>2 DEF OverlayUiOK, OverlayUiGood
  <2>3. CASE v4.focus = "item" /\ Overlay!ChooseQuality(v4.item,
               IF v2 THEN Overlay!ShowControls(v4) ELSE v4, Overlay!Toggled)
    <3>1. v4.item \in Overlay!Options(v14)
      BY <1>0, <2>3 DEF OverlayUiOK, OverlayUiGood
    <3>2. (IF v2 THEN Overlay!ShowControls(v4) ELSE v4) \in {v4, Overlay!ShowControls(v4)}
      OBVIOUS
    <3> QED BY <2>3, <3>1, <3>2
  <2> QED BY <2>1, <2>2, <2>3 DEF Overlay!Choose
<1>4. PICK t \in Overlay!Options(v14), u \in {v4, Overlay!ShowControls(v4)},
             v \in {v5, Overlay!Toggled} : Overlay!ChooseQuality(t, u, v)
  BY <1>3
<1>5. v15' = t /\ Overlay!Abort([Overlay!Hidden(u) EXCEPT !.open = FALSE], v, "zero") /\
        UNCHANGED <<v2, v14>>
  BY <1>4 DEF Overlay!ChooseQuality
<1>6. OverlayUiGood([Overlay!Hidden(u) EXCEPT !.open = FALSE], v1) /\ OverlayVidGood(v, v1)
  <2>1. u \in Overlay!UiTypes
    BY <1>2, <1>4
  <2>2. OverlayVidGood(v, v1)
    BY <1>0, <1>4, OverlayTogglesFine DEF OverlayVidOK
  <2> QED BY <2>1, <2>2, OverlayClosesMenu
<1>7. v19' \in Nat /\ v19' # v19
  BY <1>0, <1>1 DEF OverlaySessionOK
<1>8. OverlaySessionOK' /\ OverlayCapsOK' /\ OverlayTrackOK' /\ OverlayFitOK' /\
        OverlayScrubOK' /\ OverlayUiOK' /\ OverlayVidOK'
  <2> DEFINE w == [Overlay!Hidden(u) EXCEPT !.open = FALSE]
  <2> HIDE DEF w
  <2> QED BY <1>0, <1>5, <1>6, <1>7, OverlayAborted DEF w
<1>9. OverlayQualityOK'
  <2>1. t \in OverlayTiers
    BY OverlayOptionsAreTiers
  <2> QED BY <1>0, <1>5, <2>1 DEF OverlayQualityOK
<1>10. Overlay!NextIsFree
  BY <1>7 DEF Overlay!NextIsFree
<1> QED BY <1>8, <1>9, <1>10, OverlayPartsNext

LEMMA OverlayStepPreserves ==
  ASSUME Overlay!OverlayAssumption, Overlay!IInv, Overlay!Next \/ UNCHANGED Overlay!vars
  PROVE  Overlay!IInv' /\ Overlay!NextIsFree
<1>0. OverlaySessionOK /\ OverlayCapsOK /\ OverlayTrackOK /\ OverlayFitOK /\ OverlayQualityOK /\
        OverlayScrubOK /\ OverlayUiOK /\ OverlayVidOK
  BY OverlayParts
<1> USE OverlayPartsNext, OverlayCapsStay, OverlayTrackStays, OverlayFitStays,
      OverlayQualityStays, OverlayUiStays, OverlayVidStays
<1>i. Overlay!Input => v19' \in Nat /\ v19' # v19
  BY <1>0 DEF Overlay!Input, OverlaySessionOK
<1>n. Overlay!Quiet \/ Overlay!Other => v19' = v19
  BY DEF Overlay!Quiet, Overlay!Other
<1>f. v13' = v13 \/ v19' # v19 \/ v13' # "zero" => Overlay!NextIsFree
  BY DEF Overlay!NextIsFree
<1>u. \A u : OverlayUiGood(u, v1) /\ v4' = u /\ UNCHANGED <<v1, v14>> => OverlayUiOK'
  BY OverlayUiBecomes
<1>v. \A v : OverlayVidGood(v, v1) /\ v5' = v /\ UNCHANGED v1 => OverlayVidOK'
  BY OverlayVidBecomes
<1>s. OverlayUiGood(Overlay!ShowControls(v4), v1) /\ OverlayVidGood(Overlay!Toggled, v1)
  BY <1>0, OverlayShowsControls, OverlayTogglesFine DEF OverlayUiOK
<1>1. CASE Overlay!ExitClick \/ Overlay!TrackChange
  <2>1. /\ Overlay!Abort(v4, v5, v13) /\ UNCHANGED <<v2, v14, v15>> /\ v19' \in Nat
    BY <1>0, <1>1, <1>i, <1>n DEF Overlay!ExitClick, Overlay!TrackChange, OverlaySessionOK
  <2>2. OverlaySessionOK' /\ OverlayCapsOK' /\ OverlayTrackOK' /\ OverlayFitOK' /\
          OverlayScrubOK' /\ OverlayUiOK' /\ OverlayVidOK'
    BY <1>0, <2>1, OverlayAborted DEF OverlayUiOK, OverlayVidOK, OverlayScrubOK
  <2>3. v13' = v13
    BY <2>1 DEF Overlay!Abort
  <2> QED BY <1>0, <1>f, <2>1, <2>2, <2>3
<1>2. CASE Overlay!AudioOpens \/ Overlay!VideoOpens \/ Overlay!Start
  <2>1. /\ UNCHANGED <<v6, v14, v15, v4, v5, v7, v8, v9, v10, v13, v18, v19>>
        /\ v2' \in {v2, TRUE} /\ v1 # "gone" /\ v1' # "gone"
        /\ v1' = v1 \/ (v1 = "up" /\ v1' = "run")
    BY <1>2, <1>n DEF Overlay!AudioOpens, Overlay!VideoOpens, Overlay!Start, Overlay!screen,
       Overlay!quality
  <2>2. OverlaySessionOK' /\ OverlayScrubOK'
    BY <1>0, <2>1 DEF OverlaySessionOK, OverlayScrubOK
  <2>3. OverlayCapsOK' /\ OverlayFitOK' /\ OverlayQualityOK'
    BY <1>0, <2>1 DEF OverlayCapsOK, Overlay!CaptionsAreTrue, OverlayFitOK, Overlay!ScrimIsFitted,
       OverlayQualityOK, Overlay!There
  <2>4. OverlayTrackOK'
    BY <1>0, <2>1 DEF OverlayTrackOK, Overlay!TrackIsGivenBack
  <2>5. OverlayUiOK' /\ OverlayVidOK'
    BY <1>0, <2>1 DEF OverlayUiOK, OverlayUiGood, OverlayVidOK, OverlayVidGood
  <2> QED BY <1>f, <2>1, <2>2, <2>3, <2>4, <2>5
<1>3. CASE Overlay!Moved \/ Overlay!SyncPlayIcon
  <2>1. UNCHANGED <<v1, v2, v6, v14, v15, v4, v7, v8, v9, v10, v13, v18, v19>>
    BY <1>3, <1>n DEF Overlay!Moved, Overlay!SyncPlayIcon, Overlay!session, Overlay!screen,
       Overlay!quality
  <2>2. OverlayVidOK'
    <3>1. CASE Overlay!Moved
      BY <1>0, <2>1, <3>1 DEF Overlay!Moved, Overlay!There, OverlayVidOK, OverlayVidGood,
         Overlay!VidTypes
    <3>2. CASE Overlay!SyncPlayIcon
      BY <1>0, <2>1, <3>2 DEF Overlay!SyncPlayIcon, OverlayVidOK, OverlayVidGood, Overlay!VidTypes
    <3> QED BY <1>3, <3>1, <3>2
  <2> QED BY <1>0, <1>f, <2>1, <2>2 DEF OverlaySessionOK, OverlayScrubOK
<1>4. CASE Overlay!CueChanges \/ Overlay!CueChange \/ Overlay!WireCCBtn \/ Overlay!ToggleCC
  <2>1. /\ UNCHANGED <<v1, v2, v6, v14, v15, v4, v5, v7, v8, v10, v13, v18>> /\ v19' \in Nat
    BY <1>0, <1>4, <1>i, <1>n DEF Overlay!CueChanges, Overlay!CueChange, Overlay!WireCCBtn,
       Overlay!ToggleCC, Overlay!session, Overlay!screen, Overlay!quality, OverlaySessionOK
  <2>2. OverlayCapsOK'
    <3>1. CASE Overlay!CueChanges
      BY <1>0, <2>1, <3>1 DEF Overlay!CueChanges, OverlayCapsOK, Overlay!CapsTypes,
         Overlay!CaptionsAreTrue, Overlay!There
    <3>2. CASE Overlay!CueChange
      BY <1>0, <2>1, <3>2 DEF Overlay!CueChange, Overlay!RenderSubs, OverlayCapsOK,
         Overlay!CapsTypes, Overlay!CaptionsAreTrue, Overlay!There
    <3>3. CASE Overlay!WireCCBtn
      BY <1>0, <2>1, <3>3 DEF Overlay!WireCCBtn, OverlayCapsOK, Overlay!CapsTypes,
         Overlay!CaptionsAreTrue, Overlay!There
    <3>4. CASE Overlay!ToggleCC
      BY <1>0, <2>1, <3>4 DEF Overlay!ToggleCC, Overlay!RenderSubs, OverlayCapsOK,
         Overlay!CapsTypes, Overlay!CaptionsAreTrue, Overlay!There
    <3> QED BY <1>4, <3>1, <3>2, <3>3, <3>4
  <2> QED BY <1>0, <1>f, <2>1, <2>2 DEF OverlaySessionOK, OverlayScrubOK
<1>5. CASE Overlay!LyricsAnswer
  <2>1. UNCHANGED <<v1, v2, v6, v14, v15, v4, v5, v7, v8, v9, v13, v18, v19>>
    BY <1>5, <1>n DEF Overlay!LyricsAnswer, Overlay!session, Overlay!screen, Overlay!quality
  <2>2. OverlayTrackOK'
    BY <1>0, <1>5, <2>1 DEF Overlay!LyricsAnswer, OverlayTrackOK, Overlay!TrackIsGivenBack
  <2> QED BY <1>0, <1>f, <2>1, <2>2 DEF OverlaySessionOK, OverlayScrubOK
<1>6. CASE Overlay!Refits
  <2>1. UNCHANGED <<v1, v2, v6, v14, v15, v4, v5, v9, v10, v13, v18, v19>>
    BY <1>6, <1>n DEF Overlay!Refits, Overlay!FullscreenChange, Overlay!SecondPass,
       Overlay!session, Overlay!quality
  <2>2. OverlayFitOK'
    BY <1>0, <1>6, <2>1 DEF Overlay!Refits, Overlay!FullscreenChange, Overlay!SecondPass,
       OverlayFitOK, Overlay!ScrimIsFitted, Overlay!There
  <2> QED BY <1>0, <1>f, <2>1, <2>2 DEF OverlaySessionOK, OverlayScrubOK
<1>7. CASE Overlay!AppleHides \/ Overlay!HideTimer \/ Overlay!MouseMove \/
             Overlay!ContainerClick \/ Overlay!QualityClick \/ Overlay!VolumeInput
  <2>1. UNCHANGED <<v1, v2, v6, v14, v15, v5, v7, v8, v9, v10, v13, v18>> /\ v19' \in Nat
    BY <1>0, <1>7, <1>i, <1>n
       DEF Overlay!AppleHides, Overlay!HideTimer, Overlay!MouseMove, Overlay!ContainerClick,
           Overlay!QualityClick, Overlay!VolumeInput, Overlay!session, Overlay!screen,
           Overlay!quality, OverlaySessionOK
  <2>2. OverlayUiOK'
    <3>1. CASE Overlay!AppleHides
      <4>1. OverlayUiGood([v4 EXCEPT !.scrim = IF v4.may THEN @ ELSE "shown"], v1)
        BY <1>0 DEF OverlayUiOK, OverlayUiGood, Overlay!UiTypes
      <4> QED BY <1>u, <2>1, <3>1, <4>1 DEF Overlay!AppleHides
    <3>2. CASE Overlay!HideTimer
      <4>1. OverlayUiGood([v4 EXCEPT !.timer = FALSE], v1)
        BY <1>0 DEF OverlayUiOK, OverlayUiGood, Overlay!UiTypes
      <4>2. OverlayUiGood(Overlay!HideControls(v4), v1)
        BY <1>0, OverlayHidesControls DEF OverlayUiOK
      <4> QED BY <1>u, <2>1, <3>2, <4>1, <4>2 DEF Overlay!HideTimer
    <3>3. CASE Overlay!MouseMove \/ Overlay!VolumeInput
      BY <1>s, <1>u, <2>1, <3>3 DEF Overlay!MouseMove, Overlay!VolumeInput
    <3>4. CASE Overlay!ContainerClick
      <4>1. OverlayUiGood(Overlay!CloseMenu(v4, FALSE), v1)
        BY <1>0, OverlayClosesMenu DEF OverlayUiOK, OverlayUiGood
      <4> QED BY <1>0, <1>u, <2>1, <3>4, <4>1 DEF Overlay!ContainerClick, OverlayUiOK
    <3>5. CASE Overlay!QualityClick
      <4> DEFINE b == [v4 EXCEPT !.focus = "button"]
      <4>1. v1 # "gone" /\ v4' = Overlay!ClickButton(b)
        BY <3>5 DEF Overlay!QualityClick, Overlay!There
      <4>2. OverlayUiGood(b, v1) /\ b \in Overlay!UiTypes
        BY <1>0 DEF OverlayUiOK, OverlayUiGood, Overlay!UiTypes
      <4> HIDE DEF b
      <4>3. OverlayUiGood(Overlay!CloseMenu(b, FALSE), v1)
        BY <4>2, OverlayClosesMenu
      <4>4. OverlayUiFree(Overlay!OpenMenu(b))
        BY <4>1, <4>2, OverlayGoodIsFree, OverlayOpensMenu
      <4>5. OverlayUiGood(Overlay!ClickButton(b), v1)
        BY <4>1, <4>3, <4>4, OverlayShowsControls DEF Overlay!ClickButton
      <4> QED BY <1>u, <2>1, <4>1, <4>5
    <3> QED BY <1>7, <3>1, <3>2, <3>3, <3>4, <3>5
  <2> QED BY <1>0, <1>f, <2>1, <2>2 DEF OverlaySessionOK, OverlayScrubOK
<1>8. CASE Overlay!ScrimClick
  <2>1. /\ UNCHANGED <<v1, v2, v6, v14, v15, v7, v8, v9, v10, v13, v18>> /\ v19' \in Nat
        /\ v5' = Overlay!Toggled
    BY <1>8, <1>i DEF Overlay!ScrimClick, Overlay!session, Overlay!screen, Overlay!quality
  <2> DEFINE c == [v4 EXCEPT !.focus = "page"]
  <2>2. v4' = Overlay!ShowControls(c) \/ v4' = c
    BY <1>8 DEF Overlay!ScrimClick
  <2>3. OverlayUiGood(c, v1)
    BY <1>0 DEF OverlayUiOK, OverlayUiGood, Overlay!UiTypes
  <2> HIDE DEF c
  <2>4. OverlayUiOK'
    BY <1>u, <2>1, <2>2, <2>3, OverlayShowsControls
  <2>5. OverlayVidOK'
    BY <1>s, <1>v, <2>1
  <2> QED BY <1>0, <1>f, <2>1, <2>4, <2>5 DEF OverlaySessionOK, OverlayScrubOK
<1>9. CASE Overlay!AppleWrites \/ Overlay!HoldTick \/ Overlay!HoldTimeout \/
             Overlay!QualityRace \/ Overlay!NextBuilt \/ Overlay!ScrubStart \/
               Overlay!ScrubEnd \/ Overlay!UpdateProgress
  <2>1. /\ UNCHANGED <<v1, v2, v6, v14, v15, v4, v5, v7, v8, v9, v10>> /\ v19' \in Nat
    BY <1>0, <1>9, <1>i, <1>n DEF Overlay!AppleWrites, Overlay!HoldTick, Overlay!HoldTimeout,
       Overlay!QualityRace, Overlay!NextBuilt, Overlay!ScrubStart, Overlay!ScrubEnd,
       Overlay!UpdateProgress, Overlay!session, Overlay!screen, Overlay!quality, OverlaySessionOK
  <2>2. /\ v13' \in {v13, "apple", "zero", "next", "mine"} /\ v18' \in {v18, "next"}
        /\ v13' = v13 \/ v13' # "zero" \/ (v18 = "none" /\ v18' = v18)
    BY <1>9 DEF Overlay!AppleWrites, Overlay!HoldTick, Overlay!HoldTimeout, Overlay!QualityRace,
       Overlay!NextBuilt, Overlay!ScrubStart, Overlay!ScrubEnd, Overlay!UpdateProgress,
       Overlay!quality
  <2>3. OverlayScrubOK' /\ Overlay!NextIsFree
    BY <1>0, <2>2 DEF OverlayScrubOK, Overlay!NextIsFree
  <2> QED BY <1>0, <2>1, <2>3 DEF OverlaySessionOK
<1>10. CASE Overlay!ScrubInput
  <2>1. /\ UNCHANGED <<v1, v2, v6, v14, v15, v5, v7, v8, v9, v10, v18>> /\ v19' \in Nat
        /\ v13' \in {"held", "mine"} /\ v4' = Overlay!ShowControls(v4)
    BY <1>10, <1>i DEF Overlay!ScrubInput, Overlay!session, Overlay!screen, Overlay!quality
  <2>2. OverlayScrubOK' /\ Overlay!NextIsFree
    BY <1>0, <2>1 DEF OverlayScrubOK, Overlay!NextIsFree
  <2> QED BY <1>0, <1>s, <1>u, <2>1, <2>2 DEF OverlaySessionOK
<1>11. ASSUME NEW k \in Overlay!Keyboard, Overlay!Key(k) PROVE Overlay!IInv' /\ Overlay!NextIsFree
  BY <1>11, OverlayKeyPreserves
<1>12. CASE Overlay!Choose
  BY <1>12, OverlayChoosePreserves
<1>13. CASE UNCHANGED Overlay!vars
  <2>1. UNCHANGED <<v1, v2, v6, v14, v15, v4, v5, v7, v8, v9, v10, v13, v18, v19>>
    BY <1>13 DEF Overlay!vars, Overlay!session, Overlay!screen, Overlay!quality
  <2> QED BY <1>0, <1>f, <2>1 DEF OverlaySessionOK, OverlayScrubOK
<1> QED BY <1>1, <1>2, <1>3, <1>4, <1>5, <1>6, <1>7, <1>8, <1>9, <1>10, <1>11, <1>12,
           <1>13 DEF Overlay!Next, Overlay!Events, Overlay!User

LEMMA OverlayQualityHolds ==
  ASSUME Overlay!OverlayAssumption, Overlay!IInv
  PROVE  Overlay!QualityIsOffered
BY OverlayOneItemGives DEF Overlay!IInv, Overlay!TypeOK, Overlay!QualityIsOffered


-----------------------------------------------------------------------------
(* The library (LibrarySync), and that its invariant holds at the start and is kept by
   each step. *)
Library == INSTANCE LibrarySync WITH
  Last <- LibraryLast, Size <- LibrarySize, Cap <- LibraryCap, MaxItems <- LibraryMaxItems,
  MaxChanges <- LibraryMaxChanges, MaxSyncs <- LibraryMaxSyncs, MaxClicks <- LibraryMaxClicks,
  MaxFaults <- LibraryMaxFaults, library <- v1, signed <- v2, token <- v3, timer <- v4,
  listening <- v5, auto <- v6, asked <- v7, syncs <- v8, presses <- v9, button <- v10,
  pressed <- v11, cache <- v12, fresh <- v13, disk <- v14, engineToken <- v15, pushes <- v16,
  stream <- v17, crossed <- v18, albums <- v19, changes <- v20, faults <- v21

\* The start-up check, the syncs under way, the caches, and the token.
LibraryStartOK ==
  /\ v4 \in BOOLEAN /\ v7 \in BOOLEAN /\ v5 \in Nat
  /\ v6 \in {"idle", "status", "sync"} /\ Library!AutoSyncOnce
LibrarySyncsOK ==
  /\ v1 \in Library!Items /\ v8 \subseteq Library!Syncs /\ Library!SyncsGetTheLibrary
  /\ \A s \in v8 : s.posted => s.at > LibraryLast
LibraryCachesOK ==
  /\ v12 \in Library!Caches /\ v14 \in Library!Caches /\ v13 \in BOOLEAN
  /\ Library!SyncedIsTheLibrary /\ Library!SavedIsTheLibrary
LibraryTokenOK ==
  /\ v3 \in 0 .. v20 + 1 /\ v20 \in 0 .. LibraryMaxChanges
  /\ v15 \in 0 .. v3 /\ v16 \subseteq 0 .. v3
  /\ v2 \in BOOLEAN /\ v17 \in BOOLEAN /\ v18 \in BOOLEAN
  /\ Library!EngineHasTheToken /\ Library!TokenIsPushed
LibraryButtonOK == v10 \in {"none", "ready", "syncing"} /\ v9 \in Nat /\ v11 \in Nat
LibraryClicksOK == v19 \in 0 .. LibraryMaxClicks

LEMMA LibraryParts ==
  ASSUME Library!IInv
  PROVE  LibraryStartOK /\ LibrarySyncsOK /\ LibraryCachesOK /\ LibraryTokenOK /\
           LibraryButtonOK /\ LibraryClicksOK /\ Library!OneAutoSync
BY DEF Library!IInv, Library!TypeOK, LibraryStartOK, LibrarySyncsOK, LibraryCachesOK,
   LibraryTokenOK, LibraryButtonOK, LibraryClicksOK
LEMMA LibraryPartsNext ==
  LibraryStartOK' /\ LibrarySyncsOK' /\ LibraryCachesOK' /\ LibraryTokenOK' /\
    LibraryButtonOK' /\ LibraryClicksOK' /\ Library!OneAutoSync' => Library!IInv'
BY DEF Library!IInv, Library!TypeOK, LibraryStartOK, LibrarySyncsOK, LibraryCachesOK,
   LibraryTokenOK, LibraryButtonOK, LibraryClicksOK

LEMMA LibraryInitEstablishes ==
  ASSUME Library!LibraryAssumption, Library!Init
  PROVE  Library!IInv
<1> USE DEF Library!LibraryAssumption
<1>1. LibraryStartOK
  <2>1. v4 /\ v5 = 0 /\ v6 = "idle" /\ ~v7
    BY DEF Library!Init
  <2>2. v4 \in BOOLEAN /\ v7 \in BOOLEAN
    BY DEF Library!Init
  <2>3. Library!AutoSyncOnce
    BY <2>1 DEF Library!AutoSyncOnce
  <2> QED BY <2>1, <2>2, <2>3 DEF LibraryStartOK
<1>2. v1 \in Library!Items /\ Library!Empty \in Library!Items
  BY DEF Library!Init, Library!Items, Library!Empty
<1>3. LibrarySyncsOK /\ Library!OneAutoSync
  BY <1>2 DEF Library!Init, LibrarySyncsOK, Library!SyncsGetTheLibrary, Library!OneAutoSync
<1>4. LibraryCachesOK
  BY <1>2 DEF Library!Init, LibraryCachesOK, Library!Caches, Library!Nothing,
     Library!SyncedIsTheLibrary, Library!SavedIsTheLibrary, Library!Holds, Library!Empty
<1>5. LibraryTokenOK
  <2>1. /\ v3 = (IF v2 THEN 1 ELSE 0) /\ v16 = (IF v2 THEN {1} ELSE {})
        /\ v15 = 0 /\ v20 = 0 /\ LibraryMaxChanges \in Nat
    BY DEF Library!Init
  <2>2. v2 \in BOOLEAN /\ v17 \in BOOLEAN /\ v18 \in BOOLEAN
    BY DEF Library!Init
  <2>3. Library!EngineHasTheToken /\ Library!TokenIsPushed
    BY <2>1, <2>2 DEF Library!EngineHasTheToken, Library!TokenIsPushed
  <2>4. v3 \in 0 .. v20 + 1 /\ v20 \in 0 .. LibraryMaxChanges
    BY <2>1, <2>2
  <2>5. v15 \in 0 .. v3 /\ v16 \subseteq 0 .. v3
    BY <2>1, <2>2
  <2> QED BY <2>2, <2>3, <2>4, <2>5 DEF LibraryTokenOK
<1>6. LibraryButtonOK /\ LibraryClicksOK
  <2>1. v19 = 0 /\ LibraryMaxClicks \in Nat /\ v9 = 0 /\ v11 = 0 /\ v10 = "none"
    BY DEF Library!Init
  <2> QED BY <2>1 DEF LibraryButtonOK, LibraryClicksOK
<1> QED BY <1>1, <1>2, <1>3, <1>4, <1>5, <1>6
        DEF Library!IInv, Library!TypeOK, LibraryStartOK, LibrarySyncsOK, LibraryCachesOK,
            LibraryTokenOK, LibraryButtonOK, LibraryClicksOK

-----------------------------------------------------------------------------
\* A group none of whose variables changes keeps its part.
LEMMA LibraryStartStays ==
  ASSUME LibraryStartOK, UNCHANGED Library!start PROVE LibraryStartOK'
BY DEF LibraryStartOK, Library!AutoSyncOnce, Library!start
LEMMA LibrarySyncsStay ==
  ASSUME LibrarySyncsOK, Library!OneAutoSync, UNCHANGED <<v1, v8>>, UNCHANGED <<v6, v7>>
  PROVE  LibrarySyncsOK' /\ Library!OneAutoSync'
BY DEF LibrarySyncsOK, Library!SyncsGetTheLibrary, Library!GotTheLibrary, Library!OneAutoSync
LEMMA LibraryCachesStay ==
  ASSUME LibraryCachesOK, UNCHANGED Library!engine PROVE LibraryCachesOK'
BY DEF LibraryCachesOK, Library!SyncedIsTheLibrary, Library!SavedIsTheLibrary, Library!engine
LEMMA LibraryTokenStays ==
  ASSUME LibraryTokenOK, UNCHANGED <<Library!account, Library!tokens, v20>> PROVE LibraryTokenOK'
BY DEF LibraryTokenOK, Library!EngineHasTheToken, Library!TokenIsPushed, Library!account,
   Library!tokens
LEMMA LibraryTokenStaysOnChange ==
  ASSUME Library!LibraryAssumption, LibraryTokenOK,
         UNCHANGED <<Library!account, Library!tokens>>, Library!Change
  PROVE  LibraryTokenOK'
<1>1. v20 < LibraryMaxChanges /\ v20' = v20 + 1
  BY DEF Library!Change
<1>2. v3' = v3 /\ v15' = v15 /\ v16' = v16 /\ v2' = v2
      /\ v17' = v17 /\ v18' = v18
  BY DEF Library!account, Library!tokens
<1>3. v3' \in 0 .. v20' + 1 /\ v20' \in 0 .. LibraryMaxChanges
  BY <1>1, <1>2 DEF LibraryTokenOK, Library!LibraryAssumption
<1> QED BY <1>2, <1>3 DEF LibraryTokenOK, Library!EngineHasTheToken, Library!TokenIsPushed
LEMMA LibraryButtonStays ==
  ASSUME LibraryButtonOK, UNCHANGED Library!ui PROVE LibraryButtonOK'
BY DEF LibraryButtonOK, Library!ui
LEMMA LibraryClicksStay ==
  ASSUME LibraryClicksOK, UNCHANGED v19 PROVE LibraryClicksOK'
BY DEF LibraryClicksOK

-----------------------------------------------------------------------------
\* The start-up check: by the timer or a listener, and no more of it is left than one.
LEMMA LibraryAskedOnce ==
  ASSUME LibraryStartOK, Library!OneAutoSync, NEW on \in BOOLEAN, NEW n \in Nat, n = 0,
         Library!MaybeAutoSync(on, n),
         v4 \/ v5 > 0, v4' = FALSE, v7' = v7, v8' = v8
  PROVE  LibraryStartOK' /\ Library!OneAutoSync'
<1>1. v6 = "idle" /\ ~v7
  BY DEF LibraryStartOK, Library!AutoSyncOnce
<1>2. \/ on /\ v6' = "status" /\ v5' = 0
      \/ ~on /\ v5' = 1 /\ v6' = v6
  BY DEF Library!MaybeAutoSync
<1>3. LibraryStartOK'
  <2>1. v4' \in BOOLEAN /\ v7' \in BOOLEAN
    BY DEF LibraryStartOK
  <2>2. Library!AutoSyncOnce'
    BY <1>1, <1>2 DEF Library!AutoSyncOnce
  <2> QED BY <1>1, <1>2, <2>1, <2>2 DEF LibraryStartOK
<1>4. Library!OneAutoSync'
  BY <1>1, <1>2 DEF Library!OneAutoSync
<1> QED BY <1>3, <1>4

LEMMA LibraryTimerKeeps ==
  ASSUME Library!IInv, Library!TimerFires
  PROVE  Library!IInv'
<1>0. LibraryStartOK /\ LibrarySyncsOK /\ LibraryCachesOK /\ LibraryTokenOK /\ LibraryButtonOK /\
        LibraryClicksOK /\ Library!OneAutoSync
  BY LibraryParts
<1>1. /\ v4 /\ v4' = FALSE /\ Library!MaybeAutoSync(v2, v5)
      /\ UNCHANGED <<v1, Library!account, v7, v8, Library!ui, Library!engine, Library!tokens,
           v19, v20>>
  BY DEF Library!TimerFires
<1>2. v5 = 0 /\ v2 \in BOOLEAN
  BY <1>0, <1>1 DEF LibraryStartOK, Library!AutoSyncOnce, LibraryTokenOK
<1>3. PICK on \in BOOLEAN : on = v2
  BY <1>2
<1>4. LibraryStartOK' /\ Library!OneAutoSync'
  BY <1>0, <1>1, <1>2, <1>3, LibraryAskedOnce
<1>5. LibrarySyncsOK'
  BY <1>0, <1>1 DEF LibrarySyncsOK, Library!SyncsGetTheLibrary, Library!GotTheLibrary
<1> QED BY <1>0, <1>1, <1>4, <1>5, LibraryCachesStay, LibraryTokenStays, LibraryButtonStays,
           LibraryClicksStay, LibraryPartsNext

\* A token is posted.
LEMMA LibraryPushKeeps ==
  ASSUME LibraryTokenOK, NEW t \in Nat, Library!Push(t), t <= v3', v3' >= v3,
         v3' \in 0 .. v20' + 1, v20' \in 0 .. LibraryMaxChanges,
         v2' \in BOOLEAN, v17' \in BOOLEAN, v15' = v15,
         v2' => v3' > 0,
         v2' /\ v17' => t = v3'
  PROVE  LibraryTokenOK'
<1>1. CASE t = 0
  <2>1. UNCHANGED <<v16, v18>>
    BY <1>1 DEF Library!Push
  <2>2. ~(v2' /\ v17')
    BY <1>1
  <2>3. Library!EngineHasTheToken' /\ Library!TokenIsPushed'
    BY <2>1, <2>2 DEF LibraryTokenOK, Library!EngineHasTheToken, Library!TokenIsPushed
  <2>4. v15' \in 0 .. v3' /\ v16' \subseteq 0 .. v3'
    BY <2>1 DEF LibraryTokenOK
  <2>5. v18' \in BOOLEAN
    BY <2>1 DEF LibraryTokenOK
  <2> QED BY <2>3, <2>4, <2>5 DEF LibraryTokenOK
<1>2. CASE t # 0
  <2>1. v16' = v16 \union {t} /\ (v18' <=> v18 \/ v16 # {}) /\ v18' \in BOOLEAN
    BY <1>2 DEF Library!Push, LibraryTokenOK
  <2>2. ~v18' => v16' = {t}
    BY <2>1
  <2>3. Library!TokenIsPushed' /\ Library!EngineHasTheToken'
    BY <2>1, <2>2 DEF Library!TokenIsPushed, Library!EngineHasTheToken
  <2>4. v15' \in 0 .. v3' /\ v16' \subseteq 0 .. v3'
    BY <2>1 DEF LibraryTokenOK
  <2> QED BY <2>1, <2>3, <2>4 DEF LibraryTokenOK
<1> QED BY <1>1, <1>2

LEMMA LibrarySignInKeeps ==
  ASSUME Library!LibraryAssumption, Library!IInv, Library!SignInChanges
  PROVE  Library!IInv'
<1>0. LibraryStartOK /\ LibrarySyncsOK /\ LibraryCachesOK /\ LibraryTokenOK /\ LibraryButtonOK /\
        LibraryClicksOK /\ Library!OneAutoSync
  BY LibraryParts
<1>1. /\ v20 < LibraryMaxChanges /\ v20' = v20 + 1 /\ v2' = ~v2
      /\ v3' = IF v2' THEN v3 + 1 ELSE v3
      /\ Library!Push(IF v2' THEN v3' ELSE 0)
      /\ UNCHANGED <<v1, v4, v7, v8, Library!ui, Library!engine, v15, v17, v19>>
  BY DEF Library!SignInChanges, Library!Change
<1>2. PICK t : t = IF v2' THEN v3' ELSE 0
  OBVIOUS
<1>3. v3 \in Nat /\ v3 <= v20 + 1 /\ LibraryMaxChanges \in Nat /\ v20 \in Nat
  BY <1>0 DEF LibraryTokenOK, Library!LibraryAssumption
<1>4. t \in Nat /\ t <= v3' /\ v3' >= v3 /\ v3' \in 0 .. v20' + 1
      /\ v20' \in 0 .. LibraryMaxChanges
  BY <1>1, <1>2, <1>3
<1>5. v2' \in BOOLEAN /\ v17' \in BOOLEAN
  BY <1>0, <1>1 DEF LibraryTokenOK
<1>6. (v2' => v3' > 0) /\ (v2' => t = v3')
  BY <1>1, <1>2, <1>3
<1>7. Library!Push(t) /\ v15' = v15
  BY <1>1, <1>2
<1>8. LibraryTokenOK'
  BY <1>0, <1>4, <1>5, <1>6, <1>7, LibraryPushKeeps
<1>9. LibraryStartOK' /\ LibrarySyncsOK' /\ Library!OneAutoSync'
  <2>1. CASE v5 > 0
    <3>1. v5 = 1 /\ ~v4
      BY <1>0, <2>1 DEF LibraryStartOK, Library!AutoSyncOnce
    <3>2. Library!MaybeAutoSync(v2', Library!Listened) /\ Library!Listened = 0 /\ v4' = FALSE
      BY <1>0, <1>1, <2>1, <3>1 DEF Library!SignInChanges, Library!Listened, LibraryStartOK
    <3>3. PICK on \in BOOLEAN : on = v2'
      BY <1>5
    <3>4. Library!MaybeAutoSync(on, 0)
      BY <3>2, <3>3 DEF Library!MaybeAutoSync
    <3>5. LibraryStartOK' /\ Library!OneAutoSync'
      BY <1>0, <1>1, <2>1, <3>2, <3>4, LibraryAskedOnce
    <3> QED BY <1>0, <1>1, <3>5 DEF LibrarySyncsOK, Library!SyncsGetTheLibrary,
               Library!GotTheLibrary
  <2>2. CASE ~(v5 > 0)
    <3>1. UNCHANGED <<v5, v6>>
      BY <2>2 DEF Library!SignInChanges
    <3> QED BY <1>0, <1>1, <3>1, LibraryStartStays, LibrarySyncsStay DEF Library!start
  <2> QED BY <2>1, <2>2
<1> QED BY <1>0, <1>1, <1>8, <1>9, LibraryCachesStay, LibraryButtonStays, LibraryClicksStay,
           LibraryPartsNext

LEMMA LibraryStreamOpensKeeps ==
  ASSUME Library!IInv, Library!StreamOpens
  PROVE  Library!IInv'
<1>0. LibraryStartOK /\ LibrarySyncsOK /\ LibraryCachesOK /\ LibraryTokenOK /\ LibraryButtonOK /\
        LibraryClicksOK /\ Library!OneAutoSync
  BY LibraryParts
<1>1. /\ v17' = TRUE /\ Library!Push(Library!TokenOnOpen)
      /\ UNCHANGED <<v1, Library!account, Library!start, v8, Library!ui, Library!engine, v15,
           v19, v20>>
  BY DEF Library!StreamOpens
<1>2. PICK t : t = Library!TokenOnOpen
  OBVIOUS
<1>3. v2' = v2 /\ v3' = v3 /\ v20' = v20
  BY <1>1 DEF Library!account
<1>4. v3 \in Nat /\ (v2 => v3 > 0)
  BY <1>0 DEF LibraryTokenOK, Library!TokenIsPushed
<1>5. t \in Nat /\ t <= v3' /\ (v2' => t = v3') /\ v3' >= v3
      /\ (v2' => v3' > 0)
  BY <1>2, <1>3, <1>4 DEF Library!TokenOnOpen
<1>6. v3' \in 0 .. v20' + 1 /\ v20' \in 0 .. LibraryMaxChanges /\ v2' \in BOOLEAN
  BY <1>0, <1>3 DEF LibraryTokenOK
<1>7. v17' \in BOOLEAN /\ Library!Push(t)
  BY <1>1, <1>2
<1>8. LibraryTokenOK'
  BY <1>0, <1>1, <1>5, <1>6, <1>7, LibraryPushKeeps
<1> QED BY <1>0, <1>1, <1>8, LibraryStartStays, LibrarySyncsStay, LibraryCachesStay,
           LibraryButtonStays, LibraryClicksStay, LibraryPartsNext
        DEF Library!start

LEMMA LibraryPushArrivesKeeps ==
  ASSUME Library!IInv, NEW t \in v16, Library!PushArrives(t)
  PROVE  Library!IInv'
<1>0. LibraryStartOK /\ LibrarySyncsOK /\ LibraryCachesOK /\ LibraryTokenOK /\ LibraryButtonOK /\
        LibraryClicksOK /\ Library!OneAutoSync
  BY LibraryParts
<1>1. /\ v16' = v16 \ {t} /\ v15' = t
      /\ UNCHANGED <<v1, Library!account, Library!start, v8, Library!ui, Library!engine, v17,
           v18, v19, v20>>
  BY DEF Library!PushArrives
<1>2. v3' = v3 /\ v2' = v2
  BY <1>1 DEF Library!account
<1>3. ~v18 => v16' = {} /\ (v2 /\ v17 => t = v3)
  BY <1>0, <1>1 DEF LibraryTokenOK, Library!TokenIsPushed
<1>4. Library!EngineHasTheToken' /\ Library!TokenIsPushed'
  BY <1>0, <1>1, <1>2, <1>3 DEF LibraryTokenOK, Library!EngineHasTheToken, Library!TokenIsPushed
<1>5. LibraryTokenOK'
  BY <1>0, <1>1, <1>2, <1>4 DEF LibraryTokenOK
<1> QED BY <1>0, <1>1, <1>5, LibraryStartStays, LibrarySyncsStay, LibraryCachesStay,
           LibraryButtonStays, LibraryClicksStay, LibraryPartsNext
        DEF Library!start

-----------------------------------------------------------------------------
\* The syncs: the library changes, one begins, gets a page, ends.
LEMMA LibraryLibraryChangesKeeps ==
  ASSUME Library!LibraryAssumption, Library!IInv, Library!LibraryChanges
  PROVE  Library!IInv'
<1>0. LibraryStartOK /\ LibrarySyncsOK /\ LibraryCachesOK /\ LibraryTokenOK /\ LibraryButtonOK /\
        LibraryClicksOK /\ Library!OneAutoSync
  BY LibraryParts
<1>1. /\ Library!Change
      /\ UNCHANGED <<Library!account, Library!start, Library!ui, Library!engine, Library!tokens,
           v19>>
      /\ v8' = {[s EXCEPT !.quiet = s.quiet /\ s.at > LibraryLast] : s \in v8}
  BY DEF Library!LibraryChanges
<1>2. v1' \in Library!Items
  BY <1>0 DEF Library!LibraryChanges, LibrarySyncsOK, Library!Items
<1>3. ASSUME NEW t \in v8'
      PROVE  \E s \in v8 : /\ t \in Library!Syncs /\ t.who = s.who /\ t.posted = s.posted
                           /\ t.at = s.at
                           /\ t.got = s.got /\ t.was = s.was /\ t.offset = s.offset
                           /\ (t.quiet <=> s.quiet /\ s.at > LibraryLast)
                           /\ t = [s EXCEPT !.quiet = s.quiet /\ s.at > LibraryLast]
  <2>1. PICK s \in v8 : t = [s EXCEPT !.quiet = s.quiet /\ s.at > LibraryLast]
    BY <1>1, <1>3
  <2>2. s \in Library!Syncs
    BY <1>0 DEF LibrarySyncsOK
  <2> QED BY <2>1, <2>2 DEF Library!Syncs
<1>4. \A s \in v8 : s.at \in Nat /\ Library!GotTheLibrary(s)
  BY <1>0 DEF LibrarySyncsOK, Library!Syncs, Library!SyncsGetTheLibrary
<1>5. Library!SyncsGetTheLibrary'
  <2>1. ASSUME NEW t \in v8' PROVE Library!GotTheLibrary(t)'
    <3>1. PICK s \in v8 : /\ t.at = s.at /\ t.got = s.got /\ t.was = s.was
                          /\ t.offset = s.offset /\ (t.quiet <=> s.quiet /\ s.at > LibraryLast)
      BY <1>3, <2>1
    <3>2. Library!GotTheLibrary(s) /\ s.at \in Nat /\ LibraryLast \in Nat
      BY <1>4 DEF Library!LibraryAssumption
    <3> QED BY <3>1, <3>2 DEF Library!GotTheLibrary
  <2> QED BY <2>1 DEF Library!SyncsGetTheLibrary
<1>6. LibrarySyncsOK'
  BY <1>0, <1>2, <1>3, <1>5 DEF LibrarySyncsOK
<1>7. Library!OneAutoSync'
  <2>1. v6' = v6 /\ v7' = v7
    BY <1>1 DEF Library!start
  <2> QED BY <1>0, <1>3, <2>1 DEF Library!OneAutoSync
<1> QED BY <1>0, <1>1, <1>6, <1>7, LibraryStartStays, LibraryCachesStay,
           LibraryTokenStaysOnChange, LibraryButtonStays,
           LibraryClicksStay, LibraryPartsNext

LEMMA LibraryBegunIsOne ==
  ASSUME Library!LibraryAssumption, v1 \in Library!Items, NEW id \in Nat,
         NEW who \in {"auto", "button"}
  PROVE  /\ Library!Sync(id, who) \in Library!Syncs /\ Library!Sync(id, who).who = who
         /\ ~Library!Sync(id, who).posted
         /\ Library!GotTheLibrary(Library!Sync(id, who))
<1>1. PICK s : s = Library!Sync(id, who)
  OBVIOUS
<1>2. /\ s.at = 1 /\ s.offset = 0 /\ s.got = Library!Empty /\ s.was = v1 /\ s.quiet /\ ~s.posted
      /\ s.who = who /\ Library!Empty \in Library!Items
  BY <1>1 DEF Library!Sync, Library!Empty, Library!Items, Library!LibraryAssumption
<1>3. s \in Library!Syncs
  BY <1>1, <1>2 DEF Library!Sync, Library!Syncs, Library!LibraryAssumption
<1>4. \A c \in Library!Collections : v1[c] \in Nat /\ Library!Empty[c] = 0
  BY DEF Library!Items, Library!Empty, Library!LibraryAssumption
<1>5. 1 <= LibraryLast => 1 \in Library!Collections
  BY DEF Library!Collections, Library!LibraryAssumption
<1>6. Library!GotTheLibrary(s)
  BY <1>2, <1>4, <1>5 DEF Library!GotTheLibrary, Library!Collections, Library!LibraryAssumption
<1> QED BY <1>1, <1>2, <1>3, <1>6

LEMMA LibrarySyncBegins ==
  ASSUME Library!LibraryAssumption, LibrarySyncsOK, NEW id \in Nat, NEW who \in {"auto", "button"},
         v8' = v8 \union {Library!Sync(id, who)}, v1' = v1
  PROVE  LibrarySyncsOK'
<1>1. PICK s : s = Library!Sync(id, who)
  OBVIOUS
<1>2. s \in Library!Syncs /\ ~s.posted /\ Library!GotTheLibrary(s)
  BY <1>1, LibraryBegunIsOne DEF LibrarySyncsOK
<1>3. v8' = v8 \union {s}
  BY <1>1
<1>4. Library!SyncsGetTheLibrary'
  BY <1>2, <1>3 DEF LibrarySyncsOK, Library!SyncsGetTheLibrary, Library!GotTheLibrary
<1> QED BY <1>2, <1>3, <1>4 DEF LibrarySyncsOK

LEMMA LibraryStatusKeeps ==
  ASSUME Library!LibraryAssumption, Library!IInv, Library!StatusAnswered
  PROVE  Library!IInv'
<1>0. LibraryStartOK /\ LibrarySyncsOK /\ LibraryCachesOK /\ LibraryTokenOK /\ LibraryButtonOK /\
        LibraryClicksOK /\ Library!OneAutoSync
  BY LibraryParts
<1>1. /\ v6 = "status" /\ v7' = TRUE
      /\ UNCHANGED <<v1, Library!account, v4, v5, Library!ui, Library!engine, Library!tokens,
           v19, v20>>
      /\ \/ v6' = "idle" /\ UNCHANGED v8
         \/ v6' = "sync" /\ v8' = v8 \union {Library!Sync(0, "auto")}
  BY DEF Library!StatusAnswered
<1>2. ~v4 /\ v5 = 0 /\ \A s \in v8 : s.who # "auto"
  BY <1>0, <1>1 DEF LibraryStartOK, Library!AutoSyncOnce, Library!OneAutoSync
<1>3. Library!AutoSyncOnce'
  BY <1>1, <1>2 DEF Library!AutoSyncOnce
<1>4. LibraryStartOK'
  BY <1>0, <1>1, <1>3 DEF LibraryStartOK
<1>5. LibrarySyncsOK'
  BY <1>0, <1>1, LibrarySyncBegins DEF LibrarySyncsOK, Library!SyncsGetTheLibrary,
     Library!GotTheLibrary
<1>6. Library!OneAutoSync'
  <2>1. PICK s : s = Library!Sync(0, "auto")
    OBVIOUS
  <2>2. v8' = v8 \/ (v6' = "sync" /\ v8' = v8 \union {s})
    BY <1>1, <2>1
  <2> QED BY <1>1, <1>2, <2>2 DEF Library!OneAutoSync
<1> QED BY <1>0, <1>1, <1>4, <1>5, <1>6, LibraryCachesStay, LibraryTokenStays, LibraryButtonStays,
           LibraryClicksStay, LibraryPartsNext

\* A sync goes on: its successor keeps who it is for.
LEMMA LibrarySyncGoesOn ==
  ASSUME Library!IInv, NEW s \in v8, NEW n \in Library!Syncs, n.who = s.who, n.posted =>
         n.at > LibraryLast,
         Library!GotTheLibrary(n), v8' = (v8 \ {s}) \union {n},
         UNCHANGED <<v1, v6, v7>>
  PROVE  LibrarySyncsOK' /\ Library!OneAutoSync'
<1>0. LibrarySyncsOK /\ Library!OneAutoSync
  BY LibraryParts
<1>1. Library!SyncsGetTheLibrary'
  BY <1>0 DEF LibrarySyncsOK, Library!SyncsGetTheLibrary, Library!GotTheLibrary
<1>2. Library!OneAutoSync'
  BY <1>0 DEF Library!OneAutoSync
<1> QED BY <1>0, <1>1, <1>2 DEF LibrarySyncsOK

LEMMA LibraryFetchKeeps ==
  ASSUME Library!LibraryAssumption, Library!IInv, NEW s \in v8, Library!Fetch(s)
  PROVE  Library!IInv'
<1>0. LibraryStartOK /\ LibrarySyncsOK /\ LibraryCachesOK /\ LibraryTokenOK /\ LibraryButtonOK /\
        LibraryClicksOK /\ Library!OneAutoSync
  BY LibraryParts
<1> DEFINE has == v1[s.at]
           n == IF s.offset > has THEN 0 ELSE Library!Smaller(LibrarySize, has - s.offset)
           got == [s.got EXCEPT ![s.at] = @ + n]
           more == s.offset + n < has /\ got[s.at] <= LibraryCap
           next == IF more THEN [s EXCEPT !.got = got, !.offset = Library!NextOffset(s, n)]
                   ELSE [s EXCEPT !.got = got, !.offset = 0, !.at = @ + 1]
<1>1. /\ s.at <= LibraryLast /\ v8' = (v8 \ {s}) \union {next}
      /\ UNCHANGED <<v1, Library!account, Library!start, Library!ui, Library!engine,
           Library!tokens, v19, v20>>
  BY DEF Library!Fetch
<1>2. /\ s \in Library!Syncs /\ Library!GotTheLibrary(s) /\ (s.posted => s.at > LibraryLast)
      /\ LibraryLast \in Nat /\ LibrarySize \in Nat /\ LibraryCap \in Nat
      /\ LibraryMaxItems \in Nat
  BY <1>0 DEF LibrarySyncsOK, Library!SyncsGetTheLibrary, Library!LibraryAssumption
<1>3. /\ s.at \in Library!Collections /\ s.at \in Nat /\ s.offset \in 0 .. LibraryMaxItems
      /\ s.got \in Library!Items /\ s.was \in Library!Items /\ v1 \in Library!Items
      /\ s = [id |-> s.id, who |-> s.who, at |-> s.at, offset |-> s.offset, got |-> s.got,
              was |-> s.was, quiet |-> s.quiet, posted |-> s.posted]
  BY <1>0, <1>1, <1>2 DEF Library!Syncs, Library!Collections, LibrarySyncsOK
<1>4. has \in 0 .. LibraryMaxItems /\ s.got[s.at] = s.offset
  BY <1>2, <1>3 DEF Library!Items, Library!GotTheLibrary
<1>5. /\ n \in Nat /\ s.offset + n \in 0 .. LibraryMaxItems /\ n <= LibrarySize
      /\ s.offset <= has => s.offset + n <= has
  BY <1>2, <1>3, <1>4 DEF Library!Smaller
<1> HIDE DEF n, has
<1>6. /\ got \in Library!Items /\ got[s.at] = s.offset + n
      /\ \A c \in Library!Collections \ {s.at} : got[c] = s.got[c]
  BY <1>3, <1>4, <1>5 DEF Library!Items
<1> HIDE DEF got
<1>7. PICK t : t = next
  OBVIOUS
<1>8. ASSUME more
      PROVE  t \in Library!Syncs /\ t.who = s.who /\ ~t.posted /\ Library!GotTheLibrary(t)
  <2>1. t = [id |-> s.id, who |-> s.who, at |-> s.at, offset |-> s.offset + n, got |-> got,
             was |-> s.was, quiet |-> s.quiet, posted |-> s.posted]
    BY <1>3, <1>7, <1>8 DEF Library!NextOffset
  <2>2. t \in Library!Syncs /\ t.who = s.who /\ ~t.posted
    BY <1>1, <1>2, <1>3, <1>5, <1>6, <2>1 DEF Library!Syncs
  <2>3. \A c \in Library!Collections : c >= s.at => got[c] = IF c = s.at THEN s.offset + n ELSE 0
    BY <1>2, <1>3, <1>6 DEF Library!GotTheLibrary
  <2>4. s.quiet => \A c \in Library!Collections : c < s.at => Library!Holds(got[c], s.was[c])
    BY <1>2, <1>3, <1>6 DEF Library!GotTheLibrary, Library!Collections
  <2>5. s.quiet => s.was = v1 /\ s.offset + n <= v1[s.at]
    BY <1>1, <1>2, <1>5 DEF Library!GotTheLibrary, has
  <2>6. s.offset + n <= LibraryCap
    BY <1>6, <1>8
  <2> QED BY <2>1, <2>2, <2>3, <2>4, <2>5, <2>6 DEF Library!GotTheLibrary
<1>9. ASSUME ~more
      PROVE  t \in Library!Syncs /\ t.who = s.who /\ ~t.posted /\ Library!GotTheLibrary(t)
  <2>1. t = [id |-> s.id, who |-> s.who, at |-> s.at + 1, offset |-> 0, got |-> got,
             was |-> s.was, quiet |-> s.quiet, posted |-> s.posted]
    BY <1>3, <1>7, <1>9
  <2>2. s.at + 1 \in 1 .. LibraryLast + 1 /\ 0 \in 0 .. LibraryMaxItems
    BY <1>1, <1>2, <1>3
  <2>3. t \in Library!Syncs /\ t.who = s.who /\ ~t.posted
    BY <1>1, <1>2, <1>3, <1>6, <2>1, <2>2 DEF Library!Syncs
  <2>4. \A c \in Library!Collections : c >= s.at + 1 => got[c] = 0
    BY <1>2, <1>3, <1>6 DEF Library!GotTheLibrary, Library!Collections
  <2>5. s.quiet => s.was = v1 /\ Library!Holds(got[s.at], s.was[s.at])
    <3> SUFFICES ASSUME s.quiet
                 PROVE  s.was = v1 /\ Library!Holds(got[s.at], s.was[s.at])
      OBVIOUS
    <3>1. s.was = v1 /\ s.was[s.at] = has /\ s.offset <= has /\ s.offset <= LibraryCap
      BY <1>1, <1>2 DEF Library!GotTheLibrary, has
    <3>2. CASE s.offset + n < has
      <4>1. LibraryCap < got[s.at] /\ got[s.at] < has
        BY <1>2, <1>3, <1>4, <1>5, <1>6, <1>9, <3>2
      <4>2. got[s.at] <= LibraryCap + LibrarySize
        BY <1>2, <1>3, <1>4, <1>5, <1>6, <3>1
      <4> QED BY <3>1, <4>1, <4>2 DEF Library!Holds, Library!CutAtTheLimit
    <3>3. CASE ~(s.offset + n < has)
      <4>1. got[s.at] = has
        BY <1>3, <1>4, <1>5, <1>6, <3>1, <3>3
      <4> QED BY <3>1, <4>1 DEF Library!Holds
    <3> QED BY <3>2, <3>3
  <2>6. s.quiet => \A c \in Library!Collections : c < s.at + 1 => Library!Holds(got[c], s.was[c])
    BY <1>2, <1>3, <1>6, <2>5 DEF Library!GotTheLibrary, Library!Collections
  <2>7. t.quiet /\ t.at <= LibraryLast => t.was = v1 /\ t.offset <= v1[t.at]
    BY <1>0, <1>2, <1>3, <2>1, <2>2, <2>5 DEF Library!Items, Library!Collections
  <2> QED BY <1>2, <2>1, <2>3, <2>4, <2>6, <2>7 DEF Library!GotTheLibrary
<1> HIDE DEF more, next
<1>10. LibrarySyncsOK' /\ Library!OneAutoSync'
  BY <1>1, <1>7, <1>8, <1>9, LibrarySyncGoesOn DEF Library!start
<1> QED BY <1>0, <1>1, <1>10, LibraryStartStays, LibraryCachesStay, LibraryTokenStays,
           LibraryButtonStays, LibraryClicksStay, LibraryPartsNext

\* A sync ends: the check that waited for it is over, and so is the button's wait.
LEMMA LibraryEndsKeeps ==
  ASSUME Library!IInv, NEW s \in v8, NEW ok, Library!Ends(s, ok),
         UNCHANGED <<Library!engine, Library!tokens, v19, v20>>
  PROVE  Library!IInv'
<1>0. LibraryStartOK /\ LibrarySyncsOK /\ LibraryCachesOK /\ LibraryTokenOK /\ LibraryButtonOK /\
        LibraryClicksOK /\ Library!OneAutoSync
  BY LibraryParts
<1>1. /\ v8' = v8 \ {s}
      /\ UNCHANGED <<v1, Library!account, v4, v5, v7, v9, v11>>
      /\ \/ s.who = "auto" /\ v6' = "idle" /\ v10' = v10
         \/ s.who # "auto" /\ v6' = v6 /\ v10' = Library!ButtonAfter(s, ok)
  BY DEF Library!Ends
<1>2. LibrarySyncsOK'
  BY <1>0, <1>1 DEF LibrarySyncsOK, Library!SyncsGetTheLibrary, Library!GotTheLibrary
<1>3. s.who = "auto" => v6 = "sync" /\ v7 /\ ~v4 /\ v5 = 0
  BY <1>0 DEF Library!OneAutoSync, LibraryStartOK, Library!AutoSyncOnce
<1>4. Library!AutoSyncOnce'
  <2>1. CASE s.who = "auto"
    BY <1>1, <1>3, <2>1 DEF Library!AutoSyncOnce
  <2>2. CASE s.who # "auto"
    BY <1>0, <1>1, <2>2 DEF LibraryStartOK, Library!AutoSyncOnce
  <2> QED BY <2>1, <2>2
<1>5. LibraryStartOK'
  BY <1>0, <1>1, <1>4 DEF LibraryStartOK
<1>6. Library!OneAutoSync'
  BY <1>0, <1>1 DEF Library!OneAutoSync
<1>7. LibraryButtonOK'
  BY <1>0, <1>1 DEF LibraryButtonOK, Library!ButtonAfter
<1> QED BY <1>0, <1>1, <1>2, <1>5, <1>6, <1>7, LibraryCachesStay, LibraryTokenStays,
           LibraryClicksStay, LibraryPartsNext

\* The engine takes what a sync has fetched.
LEMMA LibraryIngestKeeps ==
  ASSUME Library!LibraryAssumption, Library!IInv, NEW s \in v8, Library!Ingest(s)
  PROVE  Library!IInv'
<1>0. LibraryStartOK /\ LibrarySyncsOK /\ LibraryCachesOK /\ LibraryTokenOK /\ LibraryButtonOK /\
        LibraryClicksOK /\ Library!OneAutoSync
  BY LibraryParts
<1>1. /\ s.at > LibraryLast
      /\ UNCHANGED <<v1, Library!account, Library!start, Library!ui, v14, Library!tokens,
           v19, v20>>
      /\ v8' = (v8 \ {s}) \union {[s EXCEPT !.posted = TRUE]}
      /\ \/ /\ v12' = [items |-> s.got, was |-> s.was, quiet |-> s.quiet]
            /\ v13' = TRUE
         \/ UNCHANGED <<v12, v13>>
  BY DEF Library!Ingest, Library!Ingested
<1>2. s \in Library!Syncs /\ Library!GotTheLibrary(s) /\ LibraryLast \in Nat
  BY <1>0 DEF LibrarySyncsOK, Library!SyncsGetTheLibrary, Library!LibraryAssumption
<1>3. PICK t : t = [s EXCEPT !.posted = TRUE]
  OBVIOUS
<1>4. /\ t \in Library!Syncs /\ t.who = s.who /\ t.at = s.at /\ t.got = s.got /\ t.was = s.was
      /\ t.quiet = s.quiet /\ t.offset = s.offset
  BY <1>2, <1>3 DEF Library!Syncs
<1>5. Library!GotTheLibrary(t)
  BY <1>2, <1>4 DEF Library!GotTheLibrary
<1>6. LibrarySyncsOK' /\ Library!OneAutoSync'
  BY <1>1, <1>3, <1>4, <1>5, LibrarySyncGoesOn DEF Library!start
<1>7. LibraryCachesOK'
  <2>1. CASE UNCHANGED <<v12, v13>>
    BY <1>0, <1>1, <2>1, LibraryCachesStay DEF Library!engine
  <2>2. CASE v12' = [items |-> s.got, was |-> s.was, quiet |-> s.quiet] /\ v13' = TRUE
    <3>1. s.at \in Nat /\ s.got \in Library!Items /\ s.was \in Library!Items /\ s.quiet \in BOOLEAN
      BY <1>2 DEF Library!Syncs
    <3>2. v12' \in Library!Caches
      BY <2>2, <3>1 DEF Library!Caches
    <3>3. s.quiet => \A c \in Library!Collections : Library!Holds(s.got[c], s.was[c])
      BY <1>1, <1>2, <3>1 DEF Library!GotTheLibrary, Library!Collections
    <3>4. Library!SyncedIsTheLibrary'
      BY <2>2, <3>3 DEF Library!SyncedIsTheLibrary
    <3>5. v14' \in Library!Caches /\ Library!SavedIsTheLibrary' /\ v13' \in BOOLEAN
      BY <1>0, <1>1, <2>2 DEF LibraryCachesOK, Library!SavedIsTheLibrary
    <3> QED BY <3>2, <3>4, <3>5 DEF LibraryCachesOK
  <2> QED BY <1>1, <2>1, <2>2
<1> QED BY <1>0, <1>1, <1>6, <1>7, LibraryStartStays, LibraryTokenStays, LibraryButtonStays,
           LibraryClicksStay, LibraryPartsNext

-----------------------------------------------------------------------------
\* The dialog, the engine's file and its restart, and the albums.
LEMMA LibraryDialogKeeps ==
  ASSUME Library!LibraryAssumption, Library!IInv, Library!OpenDialog \/ Library!CloseDialog \/
         Library!SyncNow
  PROVE  Library!IInv'
<1>0. LibraryStartOK /\ LibrarySyncsOK /\ LibraryCachesOK /\ LibraryTokenOK /\ LibraryButtonOK /\
        LibraryClicksOK /\ Library!OneAutoSync
  BY LibraryParts
<1>1. UNCHANGED <<v1, Library!account, Library!start, Library!engine, Library!tokens,
        v19, v20>>
  BY DEF Library!OpenDialog, Library!CloseDialog, Library!SyncNow
<1>2. LibraryButtonOK'
  BY <1>0 DEF Library!OpenDialog, Library!CloseDialog, Library!SyncNow, LibraryButtonOK
<1>3. LibrarySyncsOK' /\ Library!OneAutoSync'
  <2>1. CASE Library!OpenDialog \/ Library!CloseDialog
    BY <1>0, <1>1, <2>1, LibrarySyncsStay DEF Library!OpenDialog, Library!CloseDialog,
       Library!start
  <2>2. CASE Library!SyncNow
    <3>1. PICK n : n = v9'
      OBVIOUS
    <3>2. n \in Nat /\ v8' = v8 \union {Library!Sync(n, "button")}
      BY <1>0, <2>2, <3>1 DEF Library!SyncNow, LibraryButtonOK
    <3>3. LibrarySyncsOK'
      BY <1>0, <1>1, <3>2, LibrarySyncBegins
    <3>4. Library!Sync(n, "button").who = "button"
      BY DEF Library!Sync
    <3>5. Library!OneAutoSync'
      <4>1. PICK s : s = Library!Sync(n, "button")
        OBVIOUS
      <4>2. v8' = v8 \union {s} /\ s.who = "button" /\ v6' = v6 /\ v7' = v7
        BY <1>1, <3>2, <3>4, <4>1 DEF Library!start
      <4> QED BY <1>0, <4>2 DEF Library!OneAutoSync
    <3> QED BY <3>3, <3>5
  <2> QED BY <2>1, <2>2
<1> QED BY <1>0, <1>1, <1>2, <1>3, LibraryStartStays, LibraryCachesStay, LibraryTokenStays,
           LibraryClicksStay, LibraryPartsNext

LEMMA LibraryEngineKeeps ==
  ASSUME Library!LibraryAssumption, Library!IInv, Library!Save \/ Library!Stale \/ Library!Restart
  PROVE  Library!IInv'
<1>0. LibraryStartOK /\ LibrarySyncsOK /\ LibraryCachesOK /\ LibraryTokenOK /\ LibraryButtonOK /\
        LibraryClicksOK /\ Library!OneAutoSync
  BY LibraryParts
<1>1. UNCHANGED <<v1, Library!account, Library!start, v8, Library!ui>>
  BY DEF Library!Save, Library!Stale, Library!Restart
<1>2. LibraryStartOK' /\ LibrarySyncsOK' /\ Library!OneAutoSync' /\ LibraryButtonOK'
  BY <1>0, <1>1, LibraryStartStays, LibrarySyncsStay, LibraryButtonStays DEF Library!start
<1>3. LibraryCachesOK'
  <2>1. /\ v12' \in {v12, v14} /\ v14' \in {v12, v14}
    BY DEF Library!Save, Library!Stale, Library!Restart
  <2>2. v13' \in BOOLEAN
    BY <1>0 DEF Library!Save, Library!Stale, Library!Restart, LibraryCachesOK
  <2> QED BY <1>0, <2>1, <2>2 DEF LibraryCachesOK, Library!SyncedIsTheLibrary,
             Library!SavedIsTheLibrary
<1>4. LibraryTokenOK'
  <2>1. CASE Library!Save
    BY <1>0, <2>1, LibraryTokenStays DEF Library!Save
  <2>2. CASE Library!Stale
    BY <1>0, <2>2, LibraryTokenStaysOnChange DEF Library!Stale
  <2>3. CASE Library!Restart
    <3>1. /\ v15' = 0 /\ v17' = FALSE /\ v16' = {} /\ v18' = v18
          /\ v3' = v3 /\ v2' = v2 /\ v20' = v20
      BY <1>1, <2>3 DEF Library!Restart, Library!account
    <3>2. Library!EngineHasTheToken' /\ Library!TokenIsPushed'
      BY <1>0, <3>1 DEF LibraryTokenOK, Library!EngineHasTheToken, Library!TokenIsPushed
    <3>3. v17' \in BOOLEAN
      BY <3>1
    <3>4. 0 \in 0 .. v3
      BY <1>0 DEF LibraryTokenOK
    <3> QED BY <1>0, <3>1, <3>2, <3>3, <3>4 DEF LibraryTokenOK
  <2> QED BY <2>1, <2>2, <2>3
<1>5. LibraryClicksOK'
  <2>1. CASE Library!Restart
    <3>1. v19' = 0 /\ LibraryMaxClicks \in Nat
      BY <1>0, <2>1 DEF Library!Restart, LibraryClicksOK, Library!LibraryAssumption
    <3> QED BY <3>1 DEF LibraryClicksOK
  <2>2. CASE Library!Save \/ Library!Stale
    BY <1>0, <2>2, LibraryClicksStay DEF Library!Save, Library!Stale
  <2> QED BY <2>1, <2>2
<1> QED BY <1>2, <1>3, <1>4, <1>5, LibraryPartsNext

LEMMA LibraryAlbumKeeps ==
  ASSUME Library!LibraryAssumption, Library!IInv, Library!ClickAlbum \/ Library!AlbumRefused
  PROVE  Library!IInv'
<1>0. LibraryStartOK /\ LibrarySyncsOK /\ LibraryCachesOK /\ LibraryTokenOK /\ LibraryButtonOK /\
        LibraryClicksOK /\ Library!OneAutoSync
  BY LibraryParts
<1>1. UNCHANGED <<v1, Library!account, Library!start, v8, Library!ui, Library!engine,
        Library!tokens, v20>>
  BY DEF Library!ClickAlbum, Library!AlbumRefused
<1>2. v19 \in Nat /\ v19 <= LibraryMaxClicks /\ LibraryMaxClicks \in Nat
  BY <1>0 DEF LibraryClicksOK, Library!LibraryAssumption
<1>3. \/ v19 < LibraryMaxClicks /\ v19' = v19 + 1
      \/ v19 > 0 /\ v19' = v19 - 1
  BY DEF Library!ClickAlbum, Library!AlbumRefused
<1>4. v19' \in 0 .. LibraryMaxClicks
  BY <1>2, <1>3
<1>5. LibraryClicksOK'
  BY <1>4 DEF LibraryClicksOK
<1> QED BY <1>0, <1>1, <1>5, LibraryStartStays, LibrarySyncsStay, LibraryCachesStay,
           LibraryTokenStays, LibraryButtonStays, LibraryPartsNext
        DEF Library!start

LEMMA LibraryStepPreserves ==
  ASSUME Library!LibraryAssumption, Library!IInv, Library!Next \/ UNCHANGED Library!vars
  PROVE  Library!IInv'
<1>1. ASSUME Library!Answers PROVE Library!IInv'
  <2>1. ASSUME NEW s \in v8, Library!FetchFails(s) \/ Library!Answered(s) PROVE Library!IInv'
    BY <2>1, LibraryEndsKeeps DEF Library!FetchFails, Library!Answered
  <2> QED BY <1>1, <2>1, LibraryStatusKeeps, LibraryFetchKeeps, LibraryIngestKeeps,
             LibraryPushArrivesKeeps DEF Library!Answers
<1>2. ASSUME UNCHANGED Library!vars PROVE Library!IInv'
  <2>0. LibraryStartOK /\ LibrarySyncsOK /\ LibraryCachesOK /\ LibraryTokenOK /\
          LibraryButtonOK /\ LibraryClicksOK /\ Library!OneAutoSync
    BY LibraryParts
  <2>1. UNCHANGED <<v1, Library!account, Library!start, v8, Library!ui, Library!engine,
          Library!tokens, v19, v20>>
    BY <1>2 DEF Library!vars
  <2> QED BY <2>0, <2>1, LibraryStartStays, LibrarySyncsStay, LibraryCachesStay,
             LibraryTokenStays, LibraryButtonStays, LibraryClicksStay,
             LibraryPartsNext DEF Library!start
<1> QED BY <1>1, <1>2, LibraryTimerKeeps, LibrarySignInKeeps, LibraryLibraryChangesKeeps,
           LibraryDialogKeeps, LibraryEngineKeeps,
           LibraryStreamOpensKeeps, LibraryAlbumKeeps DEF Library!Next


-----------------------------------------------------------------------------
(* Downloads (DownloadsPanel), and that its invariant holds at the start and is kept by
   each step. *)
Panel == INSTANCE DownloadsPanel WITH
  MaxJobs <- PanelMaxJobs, MaxUser <- PanelMaxUser, MaxFaults <- PanelMaxFaults, jobs <- v1,
  open <- v2, visible <- v3, polling <- v4, polls <- v5, rows <- v6, failedAt <- v7,
  timers <- v8, calls <- v9, retryOn <- v10, again <- v11, user <- v12, faults <- v13

\* Polls of a panel that is read or not, and the rows its answers are rendered into.
PanelReadOK == v2 \in BOOLEAN /\ v3 \in BOOLEAN /\ v4 \in BOOLEAN /\ Panel!PolledWhileRead
PanelPollTypes == [newest : BOOLEAN, answered : BOOLEAN, snap : [Panel!Jobs -> Panel!Phases]]
PanelPollsOK == v5 \subseteq PanelPollTypes /\ Panel!OneNewest
PanelRowsOK == DOMAIN v6 \subseteq Panel!Jobs /\
  v6 \in [DOMAIN v6 -> [phase : Panel!Phases, retrying : BOOLEAN]]
PanelTimersOK == v7 \subseteq Panel!Jobs /\ v8 = v7
PanelOldOK == Panel!AnswersAreOld /\ Panel!RowsAreOlder
PanelCallTypes == [kind : {"cancel", "retry", "delete"}, job : Panel!Jobs]
                  \cup [kind : {"export", "clear", "cleared"}, job : {0}]
PanelRestOK == v10 \in BOOLEAN /\ v11 \subseteq Panel!Jobs /\ v9 \subseteq PanelCallTypes

LEMMA PanelParts == Panel!IInv <=>
  /\ v1 \in [Panel!Jobs -> Panel!Phases] /\ PanelReadOK /\ PanelPollsOK /\ PanelRowsOK
                                   /\ PanelTimersOK /\ PanelOldOK /\ PanelRestOK
<1>1. Panel!PolledWhileRead \in BOOLEAN /\ Panel!OneNewest \in BOOLEAN /\
        Panel!AnswersAreOld \in BOOLEAN
      /\ Panel!RowsAreOlder \in BOOLEAN
  BY DEF Panel!PolledWhileRead, Panel!OneNewest, Panel!AnswersAreOld, Panel!RowsAreOlder
<1>2. v8 \subseteq v7 /\ v7 \subseteq v8 <=> v8 = v7
  OBVIOUS
<1> QED BY <1>1, <1>2, Zenon DEF Panel!IInv, Panel!TypeOK, Panel!RetryIsArmed, PanelReadOK,
           PanelPollsOK, PanelPollTypes, PanelRowsOK,
           PanelTimersOK, PanelOldOK, PanelRestOK, PanelCallTypes

LEMMA PanelPartsNext ==
  /\ v1' \in [Panel!Jobs -> Panel!Phases] /\ PanelReadOK' /\ PanelPollsOK' /\ PanelRowsOK'
  /\ PanelTimersOK' /\ PanelOldOK' /\ PanelRestOK'
  => Panel!IInv'
BY DEF Panel!IInv, Panel!TypeOK, Panel!RetryIsArmed, PanelReadOK, PanelPollsOK, PanelPollTypes,
   PanelRowsOK, PanelTimersOK, PanelOldOK, PanelRestOK,
       PanelCallTypes

LEMMA PanelInitEstablishes ==
  ASSUME Panel!PanelAssumption, Panel!Init
  PROVE  Panel!IInv
<1>1. v1 \in [Panel!Jobs -> Panel!Phases] /\ PanelReadOK /\ PanelTimersOK
  BY DEF Panel!Init, Panel!None, Panel!Phases, PanelReadOK, Panel!PolledWhileRead, PanelTimersOK
<1>2. PanelPollsOK /\ PanelOldOK /\ PanelRestOK
  BY DEF Panel!Init, PanelPollsOK, Panel!OneNewest, PanelOldOK, Panel!AnswersAreOld,
     Panel!RowsAreOlder, PanelRestOK
<1>3. PanelRowsOK
  BY DEF Panel!Init, PanelRowsOK
<1> QED BY <1>1, <1>2, <1>3, PanelParts

PanelJobsGoOn == /\ v1 \in [Panel!Jobs -> Panel!Phases] /\ v1' \in [Panel!Jobs -> Panel!Phases]
                 /\ \A j \in Panel!Jobs : Panel!Later(v1[j], v1'[j])

\* The engine's jobs go forward, and no poll gets an answer.
LEMMA PanelOldStays ==
  ASSUME PanelPollsOK, PanelOldOK, PanelRowsOK, PanelJobsGoOn, v6' = v6,
         \A p \in v5' : p.answered =>
           \E q \in v5 : q.answered /\ q.snap = p.snap /\ (p.newest => q.newest)
  PROVE  PanelOldOK'
<1>1. \A a, b, c \in Panel!Phases : Panel!Later(a, b) /\ Panel!Later(b, c) => Panel!Later(a, c)
  BY DEF Panel!Later, Panel!Phases, Panel!Terminal
<1>2. \A j \in DOMAIN v6 : j \in Panel!Jobs /\ v6[j].phase \in Panel!Phases
  BY DEF PanelRowsOK
<1>3. \A p \in v5 : p.snap \in [Panel!Jobs -> Panel!Phases]
  BY DEF PanelPollsOK, PanelPollTypes
<1>4. Panel!AnswersAreOld'
  BY <1>1, <1>3 DEF PanelOldOK, Panel!AnswersAreOld, PanelJobsGoOn
<1>5. Panel!RowsAreOlder'
  BY <1>1, <1>2 DEF PanelOldOK, Panel!RowsAreOlder, PanelJobsGoOn
<1> QED BY <1>4, <1>5 DEF PanelOldOK

LEMMA PanelPollsStay ==
  ASSUME PanelPollsOK, PanelOldOK, PanelRowsOK, PanelJobsGoOn, v6' = v6, v5' \subseteq v5
  PROVE  PanelPollsOK' /\ PanelOldOK'
<1>1. PanelPollsOK'
  BY DEF PanelPollsOK, Panel!OneNewest
<1> QED BY <1>1, PanelOldStays

\* A poll begins: it is the newest, and the one that was is not any more.
LEMMA PanelPollBegins ==
  ASSUME PanelPollsOK, PanelOldOK, PanelRowsOK, PanelJobsGoOn, v6' = v6, Panel!PollJobs
  PROVE  PanelPollsOK' /\ PanelOldOK'
<1> DEFINE old == {[p EXCEPT !.newest = FALSE] : p \in {q \in v5 : q.answered}}
           n == [newest |-> TRUE, answered |-> FALSE, snap |-> Panel!None]
<1>1. v5' = old \union {n}
  BY DEF Panel!PollJobs
<1>2. n \in PanelPollTypes /\ ~n.answered
  BY DEF Panel!None, PanelPollTypes, Panel!Phases
<1>3. ASSUME NEW p \in old
      PROVE  p \in PanelPollTypes /\ ~p.newest /\ \E q \in v5 : q.answered /\ q.snap = p.snap
  <2>1. PICK q \in v5 : q.answered /\ p = [q EXCEPT !.newest = FALSE]
    BY <1>3
  <2>2. q \in PanelPollTypes
    BY <2>1 DEF PanelPollsOK
  <2>3. q = [newest |-> q.newest, answered |-> q.answered, snap |-> q.snap]
    BY <2>2 DEF PanelPollTypes
  <2> QED BY <2>1, <2>2, <2>3 DEF PanelPollTypes
<1> HIDE DEF old, n
<1>4. PanelPollsOK'
  BY <1>1, <1>2, <1>3 DEF PanelPollsOK, Panel!OneNewest
<1>5. PanelOldOK'
  BY <1>1, <1>2, <1>3, PanelOldStays
<1> QED BY <1>4, <1>5

LEMMA PanelStartPollingKeeps ==
  ASSUME PanelPollsOK, PanelOldOK, PanelRowsOK, PanelJobsGoOn, v6' = v6, v3' \in BOOLEAN,
         v2' = TRUE,
         v4 \in BOOLEAN, v4 => v3', Panel!StartPolling
  PROVE  PanelPollsOK' /\ PanelOldOK' /\ v4' \in BOOLEAN /\ Panel!PolledWhileRead'
<1>1. CASE v4 \/ ~v3'
  <2>1. v4' = v4 /\ v5' = v5
    BY <1>1 DEF Panel!StartPolling, Panel!MayPoll
  <2>2. PanelPollsOK' /\ PanelOldOK'
    BY <2>1, PanelPollsStay
  <2>3. Panel!PolledWhileRead'
    BY <1>1, <2>1 DEF Panel!PolledWhileRead
  <2> QED BY <2>1, <2>2, <2>3
<1>2. CASE ~(v4 \/ ~v3')
  <2>1. v4' = TRUE /\ Panel!PollJobs
    BY <1>2 DEF Panel!StartPolling, Panel!MayPoll
  <2>2. Panel!PolledWhileRead'
    BY <1>2, <2>1 DEF Panel!PolledWhileRead
  <2> QED BY <2>1, <2>2, PanelPollBegins
<1> QED BY <1>1, <1>2

LEMMA PanelOpenKeeps ==
  ASSUME PanelPollsOK, PanelOldOK, PanelRowsOK, PanelJobsGoOn, v6' = v6, PanelReadOK,
         Panel!OpenDownloadsPanel
  PROVE  PanelPollsOK' /\ PanelOldOK' /\ PanelReadOK'
<1>1. v2' = TRUE /\ v3' = v3 /\ Panel!StartPolling
  BY DEF Panel!OpenDownloadsPanel
<1>2. v3' \in BOOLEAN /\ v4 \in BOOLEAN /\ (v4 => v3')
  BY <1>1 DEF PanelReadOK, Panel!PolledWhileRead
<1> QED BY <1>1, <1>2, PanelStartPollingKeeps DEF PanelReadOK

LEMMA PanelCloseKeeps ==
  ASSUME PanelPollsOK, PanelOldOK, PanelRowsOK, PanelJobsGoOn, v6' = v6, PanelReadOK,
         Panel!CloseDownloadsPanel
  PROVE  PanelPollsOK' /\ PanelOldOK' /\ PanelReadOK'
<1>1. v2' = FALSE /\ v4' = FALSE /\ v3' = v3 /\ v5' = v5
  BY DEF Panel!CloseDownloadsPanel
<1>2. PanelReadOK'
  BY <1>1 DEF PanelReadOK, Panel!PolledWhileRead
<1> QED BY <1>1, <1>2, PanelPollsStay

-----------------------------------------------------------------------------
LEMMA PanelEnqueueGoesOn ==
  ASSUME Panel!PanelAssumption, v1 \in [Panel!Jobs -> Panel!Phases], Panel!Enqueue
  PROVE  v1' \in [Panel!Jobs -> Panel!Phases] /\ \A j \in Panel!Jobs : Panel!Later(v1[j], v1'[j])
<1>1. PICK n : n = Panel!NextJob
  OBVIOUS
<1>2. CASE \E j \in Panel!Jobs : v1[j] = "none"
  <2>1. PICK j \in Panel!Jobs : v1[j] = "none" /\ \A k \in 1..(j - 1) : v1[k] # "none"
    <3> DEFINE S == {k \in Panel!Jobs : v1[k] = "none"}
    <3>1. S # {} /\ S \subseteq Nat
      BY <1>2 DEF Panel!Jobs, Panel!PanelAssumption
    <3>2. \E j \in S : \A k \in S : ~(<<k, j>> \in OpToRel(<, Nat))
      <4> HIDE DEF S
      <4> QED BY <3>1, NatLessThanWellFounded, WFMin
    <3>3. PICK j \in S : \A k \in S : ~(k < j)
      BY <3>1, <3>2 DEF OpToRel
    <3>4. \A k \in 1..(j - 1) : k \in Panel!Jobs /\ k < j
      BY <3>3 DEF Panel!Jobs, Panel!PanelAssumption
    <3> QED BY <3>3, <3>4
  <2>2. n \in Panel!Jobs /\ v1[n] = "none"
    BY <1>1, <2>1 DEF Panel!NextJob
  <2>3. v1' = [v1 EXCEPT ![n] = "active"]
    BY <1>1, <1>2 DEF Panel!Enqueue
  <2> QED BY <2>2, <2>3 DEF Panel!Later, Panel!Phases
<1>3. CASE ~\E j \in Panel!Jobs : v1[j] = "none"
  BY <1>3 DEF Panel!Enqueue, Panel!Later
<1> QED BY <1>2, <1>3

LEMMA PanelDeleteGoesOn ==
  ASSUME v1 \in [Panel!Jobs -> Panel!Phases], NEW j, Panel!Delete(j)
  PROVE  v1' \in [Panel!Jobs -> Panel!Phases] /\ \A k \in Panel!Jobs : Panel!Later(v1[k], v1'[k])
<1>1. \A k \in Panel!Jobs :
        v1'[k] = IF k = j THEN IF v1[k] \in Panel!Terminal THEN "removed"
                               ELSE IF v1[k] = "active" THEN "cancelled" ELSE v1[k]
                 ELSE v1[k]
  BY DEF Panel!Delete
<1>2. v1' \in [Panel!Jobs -> Panel!Phases]
  BY DEF Panel!Delete, Panel!Phases, Panel!Terminal
<1>3. \A k \in Panel!Jobs : Panel!Later(v1[k], v1'[k])
  BY <1>1 DEF Panel!Later, Panel!Terminal
<1> QED BY <1>2, <1>3

LEMMA PanelSendKeeps ==
  ASSUME PanelRestOK, NEW kind, NEW j, Panel!Send(kind, j),
         \/ kind \in {"cancel", "retry", "delete"} /\ j \in Panel!Jobs
         \/ kind \in {"export", "clear", "cleared"} /\ j = 0
  PROVE  v9' \subseteq PanelCallTypes
BY DEF PanelRestOK, PanelCallTypes, Panel!Send

\* A request ends: what it does to the jobs, then to the panel.
LEMMA PanelCallAnsweredKeeps ==
  ASSUME Panel!PanelAssumption, Panel!IInv, NEW c \in v9, Panel!CallAnswered(c)
  PROVE  Panel!IInv'
<1>0. /\ v1 \in [Panel!Jobs -> Panel!Phases] /\ PanelReadOK /\ PanelPollsOK /\ PanelRowsOK
      /\ PanelTimersOK /\ PanelOldOK /\ PanelRestOK
      /\ c \in PanelCallTypes
  BY PanelParts DEF PanelRestOK
<1>1. v1' \in [Panel!Jobs -> Panel!Phases] /\ \A j \in Panel!Jobs : Panel!Later(v1[j], v1'[j])
  <2>1. CASE UNCHANGED v1
    BY <1>0, <2>1 DEF Panel!Later
  <2>2. CASE Panel!Enqueue
    BY <1>0, <2>2, PanelEnqueueGoesOn
  <2>3. CASE Panel!Delete(c.job)
    BY <1>0, <2>3, PanelDeleteGoesOn
  <2>4. Panel!Retry(c.job) => Panel!Enqueue \/ UNCHANGED v1
    BY DEF Panel!Retry
  <2>5. Panel!Enqueue \/ Panel!Delete(c.job) \/ Panel!Retry(c.job) \/ UNCHANGED v1
    BY DEF Panel!CallAnswered
  <2> QED BY <2>1, <2>2, <2>3, <2>4, <2>5
<1>2. PanelJobsGoOn /\ v6' = v6
  BY <1>0, <1>1 DEF PanelJobsGoOn, Panel!CallAnswered
<1>3. PanelRestOK'
  <2>1. v9' \subseteq v9 \union [kind : {"delete"}, job :
          {j \in Panel!Jobs : v1[j] \in Panel!Terminal}]
                        \union {[kind |-> "cleared", job |-> 0]}
    BY DEF Panel!CallAnswered
  <2>2. v9' \subseteq PanelCallTypes
    BY <1>0, <2>1 DEF PanelRestOK, PanelCallTypes
  <2>3. v11' \subseteq Panel!Jobs
    BY <1>0 DEF Panel!CallAnswered, PanelRestOK, PanelCallTypes
  <2> QED BY <1>0, <2>2, <2>3 DEF Panel!CallAnswered, PanelRestOK
<1>4. PanelPollsOK' /\ PanelOldOK' /\ PanelReadOK'
  <2>1. CASE Panel!OpenDownloadsPanel
    BY <1>0, <1>2, <2>1, PanelOpenKeeps
  <2>2. CASE UNCHANGED <<Panel!panel, v5>>
    <3>1. PanelReadOK'
      BY <1>0, <2>2 DEF PanelReadOK, Panel!PolledWhileRead, Panel!panel
    <3> QED BY <1>0, <1>2, <2>2, <3>1, PanelPollsStay
  <2>3. CASE Panel!PollJobs /\ UNCHANGED Panel!panel
    <3>1. PanelReadOK'
      BY <1>0, <2>3 DEF PanelReadOK, Panel!PolledWhileRead, Panel!panel
    <3> QED BY <1>0, <1>2, <2>3, <3>1, PanelPollBegins
  <2> QED BY <2>1, <2>2, <2>3 DEF Panel!CallAnswered
<1>5. PanelRowsOK' /\ PanelTimersOK'
  BY <1>0 DEF Panel!CallAnswered, PanelRowsOK, PanelTimersOK
<1> QED BY <1>1, <1>3, <1>4, <1>5, PanelPartsNext

LEMMA PanelCallLostKeeps ==
  ASSUME Panel!PanelAssumption, Panel!IInv, NEW c \in v9, Panel!CallLost(c)
  PROVE  Panel!IInv'
<1>0. /\ v1 \in [Panel!Jobs -> Panel!Phases] /\ PanelReadOK /\ PanelPollsOK /\ PanelRowsOK
      /\ PanelTimersOK /\ PanelOldOK /\ PanelRestOK
  BY PanelParts
<1>1. /\ v1' = v1 /\ v6' = v6 /\ v9' \subseteq v9 /\ (v5' = v5 \/ Panel!PollJobs)
      /\ UNCHANGED <<v11, Panel!panel, v7, v8, v10>>
  BY DEF Panel!CallLost
<1>2. PanelJobsGoOn
  BY <1>0, <1>1 DEF PanelJobsGoOn, Panel!Later
<1>3. PanelPollsOK' /\ PanelOldOK'
  BY <1>0, <1>1, <1>2, PanelPollsStay, PanelPollBegins
<1>4. PanelReadOK' /\ PanelRestOK' /\ PanelRowsOK' /\ PanelTimersOK'
  BY <1>0, <1>1 DEF PanelReadOK, Panel!PolledWhileRead, Panel!panel, PanelRestOK, PanelRowsOK,
     PanelTimersOK
<1> QED BY <1>0, <1>1, <1>3, <1>4, PanelPartsNext

-----------------------------------------------------------------------------
\* The engine answers a poll with the jobs it has now.
LEMMA PanelPollAnswerKeeps ==
  ASSUME v1 \in [Panel!Jobs -> Panel!Phases], PanelPollsOK, PanelOldOK, PanelRowsOK,
         NEW p \in v5, Panel!PollAnswer(p)
  PROVE  PanelPollsOK' /\ PanelOldOK'
<1>1. PICK n : n = [p EXCEPT !.answered = TRUE, !.snap = v1]
  OBVIOUS
<1>2. p \in PanelPollTypes /\ p = [newest |-> p.newest, answered |-> p.answered, snap |-> p.snap]
  BY DEF PanelPollsOK, PanelPollTypes
<1>3. n \in PanelPollTypes /\ n.snap = v1 /\ (n.newest <=> p.newest)
  BY <1>1, <1>2 DEF PanelPollTypes
<1>4. v5' = (v5 \ {p}) \union {n} /\ UNCHANGED <<v1, v6>>
  BY <1>1 DEF Panel!PollAnswer
<1>5. PanelPollsOK'
  BY <1>3, <1>4 DEF PanelPollsOK, Panel!OneNewest
<1>6. Panel!AnswersAreOld'
  BY <1>3, <1>4 DEF PanelOldOK, Panel!AnswersAreOld, Panel!Later
<1>7. Panel!RowsAreOlder'
  BY <1>3, <1>4 DEF PanelOldOK, Panel!RowsAreOlder
<1> QED BY <1>5, <1>6, <1>7 DEF PanelOldOK

\* A poll's answer is rendered.
LEMMA PanelRenderKeeps ==
  ASSUME Panel!IInv, NEW p \in v5, Panel!RenderJobs(p)
  PROVE  PanelPollsOK' /\ PanelOldOK' /\ PanelRowsOK' /\ PanelTimersOK' /\ Panel!RowsStay
<1>0. /\ v1 \in [Panel!Jobs -> Panel!Phases] /\ PanelPollsOK /\ PanelRowsOK /\ PanelTimersOK
      /\ PanelOldOK
      /\ p \in PanelPollTypes
  BY PanelParts DEF PanelPollsOK
<1>1. v5' = v5 \ {p} /\ v1' = v1 /\ p.answered
  BY DEF Panel!RenderJobs
<1>2. PanelJobsGoOn
  BY <1>0, <1>1 DEF PanelJobsGoOn, Panel!Later
<1>3. CASE ~p.newest
  <2>1. UNCHANGED <<v6, v7, v8>>
    BY <1>3 DEF Panel!RenderJobs, Panel!Newest
  <2>2. Panel!RowsStay
    BY <2>1 DEF Panel!RowsStay
  <2>3. PanelRowsOK' /\ PanelTimersOK'
    BY <1>0, <2>1 DEF PanelRowsOK, PanelTimersOK
  <2> QED BY <1>0, <1>1, <1>2, <2>1, <2>2, <2>3, PanelPollsStay
<1>4. CASE p.newest
  <2>1. v6' = Panel!Rendered(p.snap) /\ Panel!SyncJobRetry(p.snap)
    BY <1>4 DEF Panel!RenderJobs, Panel!Newest
  <2>2. p.snap \in [Panel!Jobs -> Panel!Phases]
    BY <1>0 DEF PanelPollTypes
  <2>3. /\ DOMAIN v6' = Panel!Listed(p.snap) /\ Panel!Listed(p.snap) \subseteq Panel!Jobs
        /\ \A j \in Panel!Listed(p.snap) : v6'[j].phase = p.snap[j] /\ v6'[j].retrying \in BOOLEAN
    <3>1. \A j \in DOMAIN v6 : v6[j].retrying \in BOOLEAN
      BY <1>0 DEF PanelRowsOK
    <3> QED BY <2>1, <3>1 DEF Panel!Rendered, Panel!UpdateJobRow, Panel!BuildJobRow, Panel!Listed
  <2>4. PanelRowsOK'
    <3>1. \A j \in Panel!Listed(p.snap) : v6'[j] \in [phase : Panel!Phases, retrying : BOOLEAN]
      BY <2>1, <2>2, <2>3 DEF Panel!Rendered, Panel!UpdateJobRow, Panel!BuildJobRow
    <3>2. v6' = [j \in DOMAIN v6' |-> v6'[j]]
      BY <2>1 DEF Panel!Rendered
    <3> QED BY <2>3, <3>1, <3>2 DEF PanelRowsOK
  <2>5. PanelTimersOK'
    BY <1>0, <2>1 DEF Panel!SyncJobRetry, PanelTimersOK, Panel!Listed
  <2>6. PanelPollsOK' /\ \A q \in v5' : ~q.newest
    BY <1>0, <1>1, <1>4 DEF PanelPollsOK, Panel!OneNewest
  <2>7. PanelOldOK'
    BY <1>0, <1>1, <2>3, <2>6 DEF PanelOldOK, Panel!AnswersAreOld, Panel!RowsAreOlder
  <2>8. Panel!RowsStay
    <3>1. ASSUME NEW j \in DOMAIN v6 \cap DOMAIN v6', v6[j].phase \in Panel!Terminal
          PROVE  v6'[j].phase = v6[j].phase
      <4>1. Panel!Later(v6[j].phase, p.snap[j]) /\ p.snap[j] # "removed"
        BY <1>0, <1>1, <1>4, <2>3, <3>1 DEF PanelOldOK, Panel!RowsAreOlder, Panel!Listed
      <4> QED BY <2>3, <3>1, <4>1 DEF Panel!Later, Panel!Terminal
    <3> QED BY <3>1 DEF Panel!RowsStay
  <2> QED BY <2>4, <2>5, <2>6, <2>7, <2>8
<1> QED BY <1>0, <1>3, <1>4 DEF PanelPollTypes

-----------------------------------------------------------------------------
LEMMA PanelUserKeeps ==
  ASSUME Panel!PanelAssumption, Panel!IInv, Panel!User
  PROVE  Panel!IInv' /\ UNCHANGED v1 /\ (v6' = v6 \/ Panel!RowsStay)
<1>0. /\ v1 \in [Panel!Jobs -> Panel!Phases] /\ PanelReadOK /\ PanelPollsOK /\ PanelRowsOK
      /\ PanelTimersOK /\ PanelOldOK /\ PanelRestOK
  BY PanelParts
<1>1. v1' = v1 /\ PanelJobsGoOn
  BY <1>0 DEF PanelJobsGoOn, Panel!Later, Panel!User, Panel!ToggleDownloads,
     Panel!VisibilityChange, Panel!StartDownload,
              Panel!PressClearDone, Panel!PressCancel, Panel!PressRetry
<1>2. ASSUME Panel!ToggleDownloads PROVE Panel!IInv' /\ v6' = v6
  <2>1. /\ UNCHANGED <<v6, v7, v8, v9, v11, v10>>
        /\ Panel!OpenDownloadsPanel \/ Panel!CloseDownloadsPanel
    BY <1>2 DEF Panel!ToggleDownloads
  <2>2. PanelPollsOK' /\ PanelOldOK' /\ PanelReadOK'
    BY <1>0, <1>1, <2>1, PanelOpenKeeps, PanelCloseKeeps
  <2>3. PanelRowsOK' /\ PanelTimersOK' /\ PanelRestOK'
    BY <1>0, <2>1 DEF PanelRowsOK, PanelTimersOK, PanelRestOK
  <2> QED BY <1>0, <1>1, <2>1, <2>2, <2>3, PanelPartsNext
<1>3. ASSUME Panel!VisibilityChange PROVE Panel!IInv' /\ v6' = v6
  <2>1. /\ UNCHANGED <<v6, v7, v8, v9, v11, v10, v2>>
        /\ v3' = ~v3
    BY <1>3 DEF Panel!VisibilityChange
  <2>2. PanelPollsOK' /\ PanelOldOK' /\ PanelReadOK'
    <3>1. CASE v3
      <4>1. v4' = FALSE /\ v5' = v5
        BY <1>3, <3>1 DEF Panel!VisibilityChange
      <4>2. PanelReadOK'
        BY <1>0, <2>1, <3>1, <4>1 DEF PanelReadOK, Panel!PolledWhileRead
      <4> QED BY <1>0, <1>1, <2>1, <4>1, <4>2, PanelPollsStay
    <3>2. CASE ~v3 /\ v2
      <4>1. Panel!StartPolling /\ v3' /\ v2' = TRUE
        BY <1>0, <1>3, <2>1, <3>2 DEF Panel!VisibilityChange, PanelReadOK
      <4>2. v4 \in BOOLEAN /\ v3' \in BOOLEAN
        BY <1>0, <2>1 DEF PanelReadOK
      <4>3. PanelPollsOK' /\ PanelOldOK' /\ v4' \in BOOLEAN /\ Panel!PolledWhileRead'
        BY <1>0, <1>1, <2>1, <4>1, <4>2, PanelStartPollingKeeps
      <4> QED BY <4>1, <4>2, <4>3 DEF PanelReadOK
    <3>3. CASE ~v3 /\ ~v2
      <4>1. UNCHANGED <<v4, v5>>
        BY <1>3, <3>3 DEF Panel!VisibilityChange
      <4>2. PanelReadOK'
        BY <1>0, <2>1, <3>3, <4>1 DEF PanelReadOK, Panel!PolledWhileRead
      <4> QED BY <1>0, <1>1, <2>1, <4>1, <4>2, PanelPollsStay
    <3> QED BY <3>1, <3>2, <3>3
  <2>3. PanelRowsOK' /\ PanelTimersOK' /\ PanelRestOK'
    BY <1>0, <2>1 DEF PanelRowsOK, PanelTimersOK, PanelRestOK
  <2> QED BY <1>0, <1>1, <2>1, <2>2, <2>3, PanelPartsNext
<1>4. ASSUME Panel!StartDownload \/ Panel!PressClearDone \/
             \E j \in DOMAIN v6 : Panel!PressCancel(j)
      PROVE  Panel!IInv' /\ v6' = v6
  <2>1. UNCHANGED <<v6, Panel!panel, v5, v7, v8, v11, v10>>
    BY <1>4 DEF Panel!StartDownload, Panel!PressClearDone, Panel!PressCancel
  <2>2. \/ \E kind \in {"export", "clear"} : Panel!Send(kind, 0)
        \/ \E j \in Panel!Jobs : Panel!Send("cancel", j)
    BY <1>0, <1>4 DEF Panel!StartDownload, Panel!PressClearDone, Panel!PressCancel, PanelRowsOK
  <2>3. v9' \subseteq PanelCallTypes
    BY <1>0, <2>2, PanelSendKeeps
  <2>4. PanelReadOK' /\ PanelRowsOK' /\ PanelTimersOK' /\ PanelRestOK'
    BY <1>0, <2>1, <2>3 DEF PanelReadOK, Panel!PolledWhileRead, Panel!panel, PanelRowsOK,
       PanelTimersOK, PanelRestOK
  <2>5. PanelPollsOK' /\ PanelOldOK'
    BY <1>0, <1>1, <2>1, PanelPollsStay
  <2> QED BY <1>0, <1>1, <2>1, <2>4, <2>5, PanelPartsNext
<1>5. ASSUME NEW j \in DOMAIN v6, Panel!PressRetry(j) PROVE Panel!IInv' /\ Panel!RowsStay
  <2>1. /\ UNCHANGED <<Panel!panel, v5, v11, v10>> /\ v7' = v7 \ {j}
        /\ v8' = v8 \ {j} /\ v6' = [v6 EXCEPT ![j].retrying = TRUE]
        /\ Panel!Send("retry", j) /\ j \in Panel!Jobs
    BY <1>0, <1>5 DEF Panel!PressRetry, PanelRowsOK
  <2>2. /\ DOMAIN v6' = DOMAIN v6 /\ \A k \in DOMAIN v6 : v6'[k].phase = v6[k].phase
        /\ PanelRowsOK'
    <3>1. v6[j] = [phase |-> v6[j].phase, retrying |-> v6[j].retrying]
      BY <1>0 DEF PanelRowsOK
    <3>2. PICK r : r = [v6[j] EXCEPT !.retrying = TRUE]
      OBVIOUS
    <3>3. r \in [phase : Panel!Phases, retrying : BOOLEAN] /\ r.phase = v6[j].phase
      BY <1>0, <3>1, <3>2 DEF PanelRowsOK
    <3>4. v6' = [v6 EXCEPT ![j] = r]
      BY <1>0, <2>1, <3>2 DEF PanelRowsOK
    <3> QED BY <1>0, <3>3, <3>4 DEF PanelRowsOK
  <2>3. v9' \subseteq PanelCallTypes
    BY <1>0, <2>1, PanelSendKeeps
  <2>4. PanelReadOK' /\ PanelTimersOK' /\ PanelRestOK'
    BY <1>0, <2>1, <2>3 DEF PanelReadOK, Panel!PolledWhileRead, Panel!panel, PanelTimersOK,
       PanelRestOK
  <2>5. PanelPollsOK'
    BY <1>0, <2>1 DEF PanelPollsOK, Panel!OneNewest
  <2>6. Panel!AnswersAreOld'
    BY <1>0, <1>1, <2>1 DEF PanelOldOK, Panel!AnswersAreOld
  <2>7. Panel!RowsAreOlder'
    BY <1>0, <1>1, <2>1, <2>2 DEF PanelOldOK, Panel!RowsAreOlder
  <2>8. Panel!RowsStay
    BY <2>2 DEF Panel!RowsStay
  <2> QED BY <1>0, <1>1, <2>2, <2>4, <2>5, <2>6, <2>7, <2>8, PanelPartsNext DEF PanelOldOK
<1> QED BY <1>1, <1>2, <1>3, <1>4, <1>5 DEF Panel!User

LEMMA PanelRunsKeep ==
  ASSUME Panel!PanelAssumption, Panel!IInv, Panel!Runs
  PROVE  Panel!IInv' /\ (v6' = v6 \/ Panel!RowsStay)
<1>0. /\ v1 \in [Panel!Jobs -> Panel!Phases] /\ PanelReadOK /\ PanelPollsOK /\ PanelRowsOK
      /\ PanelTimersOK /\ PanelOldOK /\ PanelRestOK
  BY PanelParts
<1>1. ASSUME Panel!PollTick PROVE Panel!IInv' /\ v6' = v6
  <2>1. /\ UNCHANGED <<v1, v11, Panel!panel, v6, v7, v8, v9, v10>> /\ Panel!PollJobs
    BY <1>1 DEF Panel!PollTick
  <2>2. PanelJobsGoOn
    BY <1>0, <2>1 DEF PanelJobsGoOn, Panel!Later
  <2>3. PanelPollsOK' /\ PanelOldOK'
    BY <1>0, <2>1, <2>2, PanelPollBegins
  <2>4. PanelReadOK' /\ PanelRestOK' /\ PanelRowsOK' /\ PanelTimersOK'
    BY <1>0, <2>1 DEF PanelReadOK, Panel!PolledWhileRead, Panel!panel, PanelRestOK, PanelRowsOK,
       PanelTimersOK
  <2> QED BY <1>0, <2>1, <2>3, <2>4, PanelPartsNext
<1>2. ASSUME NEW p \in v5, Panel!PollAnswer(p) PROVE Panel!IInv' /\ v6' = v6
  <2>1. /\ UNCHANGED <<v1, v11, Panel!panel, v6, v7, v8, v9, v10>>
    BY <1>2 DEF Panel!PollAnswer
  <2>2. PanelPollsOK' /\ PanelOldOK'
    BY <1>0, <1>2, PanelPollAnswerKeeps
  <2>3. PanelReadOK' /\ PanelRestOK' /\ PanelRowsOK' /\ PanelTimersOK'
    BY <1>0, <2>1 DEF PanelReadOK, Panel!PolledWhileRead, Panel!panel, PanelRestOK, PanelRowsOK,
       PanelTimersOK
  <2> QED BY <1>0, <2>1, <2>2, <2>3, PanelPartsNext
<1>3. ASSUME NEW p \in v5, Panel!RenderJobs(p) PROVE Panel!IInv' /\ Panel!RowsStay
  <2>1. UNCHANGED <<v1, v11, Panel!panel, v9, v10>>
    BY <1>3 DEF Panel!RenderJobs
  <2>2. PanelPollsOK' /\ PanelOldOK' /\ PanelRowsOK' /\ PanelTimersOK' /\ Panel!RowsStay
    BY <1>3, PanelRenderKeeps
  <2>3. PanelReadOK' /\ PanelRestOK'
    BY <1>0, <2>1 DEF PanelReadOK, Panel!PolledWhileRead, Panel!panel, PanelRestOK
  <2> QED BY <1>0, <2>1, <2>2, <2>3, PanelPartsNext
<1>4. ASSUME NEW c \in v9, Panel!CallAnswered(c) PROVE Panel!IInv' /\ v6' = v6
  BY <1>4, PanelCallAnsweredKeeps DEF Panel!CallAnswered
<1>5. ASSUME NEW j \in Panel!Jobs, Panel!JobEnds(j) PROVE Panel!IInv' /\ v6' = v6
  <2>1. UNCHANGED <<v11, Panel!panel, v5, v6, v7, v8, v9, v10>>
    BY <1>5 DEF Panel!JobEnds
  <2>2. PICK phase \in {"done", "failed"} : v1' = [v1 EXCEPT ![j] = phase]
    BY <1>5 DEF Panel!JobEnds
  <2>3. PanelJobsGoOn
    BY <1>0, <1>5, <2>2 DEF PanelJobsGoOn, Panel!JobEnds, Panel!Later, Panel!Phases, Panel!Terminal
  <2>4. PanelPollsOK' /\ PanelOldOK'
    BY <1>0, <2>1, <2>3, PanelPollsStay
  <2>5. PanelReadOK' /\ PanelRestOK' /\ PanelRowsOK' /\ PanelTimersOK'
    BY <1>0, <2>1 DEF PanelReadOK, Panel!PolledWhileRead, Panel!panel, PanelRestOK, PanelRowsOK,
       PanelTimersOK
  <2> QED BY <2>1, <2>3, <2>4, <2>5, PanelPartsNext DEF PanelJobsGoOn
<1>6. ASSUME NEW j \in Panel!Jobs, Panel!RetryFires(j) PROVE Panel!IInv' /\ v6' = v6
  <2>1. /\ UNCHANGED <<v1, v11, Panel!panel, v5, v6, v10>> /\ Panel!Send("retry", j)
        /\ v8' = v8 \ {j} /\ v7' = v7 \ {j}
    BY <1>6 DEF Panel!RetryFires
  <2>2. PanelJobsGoOn
    BY <1>0, <2>1 DEF PanelJobsGoOn, Panel!Later
  <2>3. PanelPollsOK' /\ PanelOldOK'
    BY <1>0, <2>1, <2>2, PanelPollsStay
  <2>4. v9' \subseteq PanelCallTypes
    BY <1>0, <2>1, PanelSendKeeps
  <2>5. PanelReadOK' /\ PanelRestOK' /\ PanelRowsOK' /\ PanelTimersOK'
    BY <1>0, <2>1, <2>4 DEF PanelReadOK, Panel!PolledWhileRead, Panel!panel, PanelRestOK,
       PanelRowsOK, PanelTimersOK
  <2> QED BY <1>0, <2>1, <2>3, <2>5, PanelPartsNext
<1> QED BY <1>1, <1>2, <1>3, <1>4, <1>5, <1>6 DEF Panel!Runs

LEMMA PanelStepPreserves ==
  ASSUME Panel!PanelAssumption, Panel!IInv, Panel!Next \/ UNCHANGED Panel!vars
  PROVE  Panel!IInv' /\ Panel!RowsStay
<1>0. /\ v1 \in [Panel!Jobs -> Panel!Phases] /\ PanelReadOK /\ PanelPollsOK /\ PanelRowsOK
      /\ PanelTimersOK /\ PanelOldOK /\ PanelRestOK
  BY PanelParts
<1>1. ASSUME NEW p \in v5, Panel!PollFails(p) PROVE Panel!IInv' /\ v6' = v6
  <2>1. UNCHANGED <<v1, v11, Panel!panel, v6, v7, v8, v9, v10>>
        /\ v5' \subseteq v5
    BY <1>1 DEF Panel!PollFails
  <2>2. PanelJobsGoOn
    BY <1>0, <2>1 DEF PanelJobsGoOn, Panel!Later
  <2>3. PanelPollsOK' /\ PanelOldOK'
    BY <1>0, <2>1, <2>2, PanelPollsStay
  <2>4. PanelReadOK' /\ PanelRestOK' /\ PanelRowsOK' /\ PanelTimersOK'
    BY <1>0, <2>1 DEF PanelReadOK, Panel!PolledWhileRead, Panel!panel, PanelRestOK, PanelRowsOK,
       PanelTimersOK
  <2> QED BY <1>0, <2>1, <2>3, <2>4, PanelPartsNext
<1>2. ASSUME UNCHANGED Panel!vars PROVE Panel!IInv' /\ v6' = v6
  <2>1. UNCHANGED <<v1, v11, Panel!panel, v6, v7, v8, v9, v10, v5>>
    BY <1>2 DEF Panel!vars
  <2>2. PanelJobsGoOn
    BY <1>0, <2>1 DEF PanelJobsGoOn, Panel!Later
  <2>3. PanelPollsOK' /\ PanelOldOK'
    BY <1>0, <2>1, <2>2, PanelPollsStay
  <2>4. PanelReadOK' /\ PanelRestOK' /\ PanelRowsOK' /\ PanelTimersOK'
    BY <1>0, <2>1 DEF PanelReadOK, Panel!PolledWhileRead, Panel!panel, PanelRestOK, PanelRowsOK,
       PanelTimersOK
  <2> QED BY <1>0, <2>1, <2>3, <2>4, PanelPartsNext
<1>3. ASSUME NEW c \in v9, Panel!CallLost(c) PROVE Panel!IInv' /\ v6' = v6
  BY <1>3, PanelCallLostKeeps DEF Panel!CallLost
<1>4. Panel!IInv' /\ (v6' = v6 \/ Panel!RowsStay)
  BY <1>1, <1>2, <1>3, PanelUserKeeps, PanelRunsKeep DEF Panel!Next
<1>5. v6' = v6 => Panel!RowsStay
  BY DEF Panel!RowsStay
<1> QED BY <1>4, <1>5


-----------------------------------------------------------------------------
(* Signing in (AccountSheet), and that its invariant holds at the start and is kept by
   each step. *)
Account == INSTANCE AccountSheet WITH
  MaxTries <- AccountMaxTries, MaxFaults <- AccountMaxFaults, engine <- v1, events <- v2,
  poll <- v3, sheet <- v4, calls <- v5, answers <- v6, pending <- v7, saved <- v8,
  accepted <- v9, tried <- v10, faults <- v11

\* The engine's side, the sheet, the calls between them, and the stored credentials.
AccountEngineTypes == [auth : Account!Auths, ch : Account!Codes, pending : BOOLEAN, asked :
  Nat, run : {Account!None} \union Account!Attempts]
AccountSheetTypes == [view : {"none", "signin", "code"}, busy : BOOLEAN, known :
  Account!Codes, sent : Account!Codes,
                      dismissed : Account!Codes, opening : BOOLEAN]
AccountEngineOK == v1 \in AccountEngineTypes /\ v2 \in Seq(Account!Snaps) /\ v10 \in Nat /\
  Account!Tries <= AccountMaxTries
AccountCallsOK == v5 \in Seq(Account!CallTypes) /\ v6 \subseteq Account!CallTypes
AccountPollOK == v3 \in [on : BOOLEAN, answer : Seq(Account!Snaps)]
AccountSheetOK == v4 \in AccountSheetTypes /\ (v4.busy => v4.view # "none")
AccountSavedOK == v7 \in {Account!None} \union Account!Attempts /\
  v8 \in {Account!None} \union Account!Attempts

LEMMA AccountParts == Account!TypeOK <=>
  AccountEngineOK /\ AccountCallsOK /\ AccountPollOK /\ AccountSheetOK /\ AccountSavedOK
BY Zenon DEF Account!TypeOK, AccountEngineOK, AccountEngineTypes, AccountCallsOK, AccountPollOK,
   AccountSheetOK, AccountSheetTypes, AccountSavedOK
LEMMA AccountPartsNext == AccountEngineOK' /\ AccountCallsOK' /\ AccountPollOK' /\
  AccountSheetOK' /\ AccountSavedOK' => Account!TypeOK'
BY DEF Account!TypeOK, AccountEngineOK, AccountEngineTypes, AccountCallsOK, AccountPollOK,
   AccountSheetOK, AccountSheetTypes, AccountSavedOK

LEMMA AccountInitEstablishes ==
  ASSUME Account!SheetAssumption, Account!Init
  PROVE  Account!TypeOK
<1> USE DEF Account!SheetAssumption, Account!Init, Account!None
<1>1. AccountEngineOK
  BY DEF AccountEngineOK, AccountEngineTypes, Account!Auths, Account!Codes, Account!Tries
<1>2. AccountCallsOK /\ AccountPollOK
  BY DEF AccountCallsOK, AccountPollOK
<1>3. AccountSheetOK /\ AccountSavedOK
  BY DEF AccountSheetOK, AccountSheetTypes, Account!Codes, AccountSavedOK
<1> QED BY <1>1, <1>2, <1>3, AccountParts

\* The engine changes its state, and says so.
LEMMA AccountAnnounced ==
  ASSUME AccountEngineOK, NEW e \in AccountEngineTypes, Account!Engine(e), v10' = v10,
         v10 + e.asked <= AccountMaxTries
  PROVE  AccountEngineOK'
<1>1. Account!Snap(e) \in Account!Snaps
  BY DEF Account!Snap, Account!Snaps, AccountEngineTypes
<1>2. v2' = Append(v2, Account!Snap(e)) /\ v1' = e
  BY DEF Account!Engine
<1>3. v2' \in Seq(Account!Snaps)
  BY <1>1, <1>2 DEF AccountEngineOK
<1> QED BY <1>2, <1>3 DEF AccountEngineOK, Account!Tries

LEMMA AccountEngineKeeps ==
  ASSUME Account!SheetAssumption, Account!TypeOK, Account!Apple \/ Account!GivesUp
  PROVE  Account!TypeOK'
<1>0. AccountEngineOK /\ AccountCallsOK /\ AccountPollOK /\ AccountSheetOK /\ AccountSavedOK
  BY AccountParts
<1>1. UNCHANGED <<v3, v4, v5, v6, v7, v8, v10>>
  BY DEF Account!Apple, Account!GivesUp
<1>2. /\ v1.auth \in Account!Auths /\ v1.ch \in Account!Codes /\ v1.pending \in BOOLEAN
      /\ v1.asked \in Nat /\ v1.run \in {Account!None} \union Account!Attempts
      /\ v1 = [auth |-> v1.auth, ch |-> v1.ch, pending |-> v1.pending,
               asked |-> v1.asked, run |-> v1.run]
  BY <1>0 DEF AccountEngineOK, AccountEngineTypes
<1>3. AccountEngineOK'
  <2>1. CASE Account!Tries < AccountMaxTries /\
             Account!Engine([v1 EXCEPT !.auth = "asking", !.ch = v1.asked + 1, !.asked = @ + 1,
                                           !.pending = TRUE])
    <3>1. PICK e : e = [v1 EXCEPT !.auth = "asking", !.ch = v1.asked + 1, !.asked = @ + 1,
                                      !.pending = TRUE]
      OBVIOUS
    <3>2. e.asked = v1.asked + 1 /\ e.ch = v1.asked + 1
      BY <1>2, <3>1
    <3>3. e.ch \in Account!Codes /\ v10 + e.asked <= AccountMaxTries
      BY <1>0, <1>2, <2>1, <3>2 DEF Account!Tries, AccountEngineOK, Account!Codes,
         Account!SheetAssumption
    <3>4. e = [auth |-> "asking", ch |-> v1.asked + 1, pending |-> TRUE,
               asked |-> v1.asked + 1, run |-> v1.run]
      BY <1>2, <3>1
    <3>5. e \in AccountEngineTypes
      BY <1>2, <3>2, <3>3, <3>4 DEF AccountEngineTypes, Account!Auths
    <3> QED BY <1>0, <1>1, <2>1, <3>1, <3>3, <3>5, AccountAnnounced
  <2>2. CASE \E a \in {"in", "failed"} : Account!Engine([v1 EXCEPT !.auth = a])
    <3>1. PICK a \in {"in", "failed"} : Account!Engine([v1 EXCEPT !.auth = a])
      BY <2>2
    <3>2. PICK e : e = [v1 EXCEPT !.auth = a]
      OBVIOUS
    <3>3. e \in AccountEngineTypes /\ e.asked = v1.asked
      BY <1>2, <3>2 DEF AccountEngineTypes, Account!Auths
    <3> QED BY <1>0, <1>1, <3>1, <3>2, <3>3, AccountAnnounced DEF AccountEngineOK, Account!Tries
  <2>3. CASE Account!Engine([v1 EXCEPT !.auth = "failed", !.ch = Account!None, !.pending = FALSE])
    <3>1. PICK e : e = [v1 EXCEPT !.auth = "failed", !.ch = Account!None, !.pending = FALSE]
      OBVIOUS
    <3>2. e \in AccountEngineTypes /\ e.asked = v1.asked
      <4>1. e = [auth |-> "failed", ch |-> Account!None, pending |-> FALSE, asked |-> v1.asked,
                 run |-> v1.run]
        BY <1>2, <3>1
      <4> QED BY <1>2, <4>1 DEF AccountEngineTypes, Account!Auths, Account!Codes, Account!None,
                 Account!SheetAssumption
    <3> QED BY <1>0, <1>1, <2>3, <3>1, <3>2, AccountAnnounced DEF AccountEngineOK, Account!Tries
  <2> QED BY <2>1, <2>2, <2>3 DEF Account!Apple, Account!GivesUp
<1>4. AccountCallsOK' /\ AccountPollOK' /\ AccountSheetOK' /\ AccountSavedOK'
  BY <1>0, <1>1 DEF AccountCallsOK, AccountPollOK, AccountSheetOK, AccountSavedOK
<1> QED BY <1>3, <1>4, AccountPartsNext

\* The engine takes the first of the sheet's calls.
LEMMA AccountAnsweredKeeps ==
  ASSUME AccountCallsOK, v5 # <<>>, NEW ok \in BOOLEAN, Account!Answered(ok)
  PROVE  AccountCallsOK'
<1>1. Head(v5) \in Account!CallTypes /\ Tail(v5) \in Seq(Account!CallTypes)
  BY DEF AccountCallsOK
<1>2. PICK c : c = [Head(v5) EXCEPT !.ok = ok]
  OBVIOUS
<1>3. c \in Account!CallTypes
  BY <1>1, <1>2 DEF Account!CallTypes
<1> QED BY <1>1, <1>2, <1>3 DEF AccountCallsOK, Account!Answered

LEMMA AccountCallsKeep ==
  ASSUME Account!SheetAssumption, Account!TypeOK, Account!Calls
  PROVE  Account!TypeOK'
<1>0. AccountEngineOK /\ AccountCallsOK /\ AccountPollOK /\ AccountSheetOK /\ AccountSavedOK
  BY AccountParts
<1>1. UNCHANGED <<v3, v4, v7, v8, v10>> /\ v5 # <<>>
  BY DEF Account!Calls, Account!Authenticate, Account!Challenge, Account!Logout
<1>2. /\ v1.auth \in Account!Auths /\ v1.ch \in Account!Codes /\ v1.pending \in BOOLEAN
      /\ v1.asked \in Nat /\ v1.run \in {Account!None} \union Account!Attempts
      /\ v1 = [auth |-> v1.auth, ch |-> v1.ch, pending |-> v1.pending,
               asked |-> v1.asked, run |-> v1.run]
      /\ v10 + v1.asked <= AccountMaxTries
  BY <1>0 DEF AccountEngineOK, AccountEngineTypes, Account!Tries
<1>3. Head(v5) \in Account!CallTypes /\ Tail(v5) \in Seq(Account!CallTypes)
  BY <1>0, <1>1 DEF AccountCallsOK
<1>4. AccountCallsOK'
  <2>1. CASE Account!Authenticate \/ Account!Challenge
    <3>1. \E ok \in BOOLEAN : Account!Answered(ok)
      BY <1>2, <2>1 DEF Account!Authenticate, Account!Challenge
    <3> QED BY <1>0, <1>1, <3>1, AccountAnsweredKeeps
  <2>2. CASE Account!Logout
    BY <1>0, <1>3, <2>2 DEF Account!Logout, AccountCallsOK
  <2> QED BY <2>1, <2>2 DEF Account!Calls
<1>5. AccountEngineOK'
  <2>1. CASE UNCHANGED <<v1, v2>>
    BY <1>0, <1>1, <2>1 DEF AccountEngineOK, Account!Tries
  <2>2. CASE Head(v5).kind = "signin" /\
             Account!Engine([v1 EXCEPT !.auth = "logging", !.run = Head(v5).arg])
    <3>1. PICK e : e = [v1 EXCEPT !.auth = "logging", !.run = Head(v5).arg]
      OBVIOUS
    <3>2. Head(v5).arg \in Account!Attempts
      BY <1>3, <2>2 DEF Account!CallTypes
    <3>3. e \in AccountEngineTypes /\ e.asked = v1.asked
      BY <1>2, <3>1, <3>2 DEF AccountEngineTypes, Account!Auths
    <3> QED BY <1>0, <1>1, <1>2, <2>2, <3>1, <3>3, AccountAnnounced
  <2>3. CASE Account!Engine([v1 EXCEPT !.auth = "logging", !.ch = Account!None, !.pending = FALSE])
    <3>1. PICK e : e = [v1 EXCEPT !.auth = "logging", !.ch = Account!None, !.pending = FALSE]
      OBVIOUS
    <3>2. e \in AccountEngineTypes /\ e.asked = v1.asked
      <4>1. e = [auth |-> "logging", ch |-> Account!None, pending |-> FALSE, asked |-> v1.asked,
                 run |-> v1.run]
        BY <1>2, <3>1
      <4> QED BY <1>2, <4>1 DEF AccountEngineTypes, Account!Auths, Account!Codes, Account!None,
                 Account!SheetAssumption
    <3> QED BY <1>0, <1>1, <1>2, <2>3, <3>1, <3>2, AccountAnnounced
  <2>4. CASE Account!Engine([v1 EXCEPT !.auth = "out", !.ch = Account!None, !.pending = FALSE,
               !.run = Account!None])
    <3>1. PICK e : e = [v1 EXCEPT !.auth = "out", !.ch = Account!None, !.pending = FALSE,
                 !.run = Account!None]
      OBVIOUS
    <3>2. e \in AccountEngineTypes /\ e.asked = v1.asked
      <4>1. e = [auth |-> "out", ch |-> Account!None, pending |-> FALSE, asked |-> v1.asked,
                 run |-> Account!None]
        BY <1>2, <3>1
      <4> QED BY <1>2, <4>1 DEF AccountEngineTypes, Account!Auths, Account!Codes, Account!None,
                 Account!SheetAssumption
    <3> QED BY <1>0, <1>1, <1>2, <2>4, <3>1, <3>2, AccountAnnounced
  <2> QED BY <2>1, <2>2, <2>3, <2>4 DEF Account!Calls, Account!Authenticate, Account!Challenge,
             Account!Logout
<1>6. AccountPollOK' /\ AccountSheetOK' /\ AccountSavedOK'
  BY <1>0, <1>1 DEF AccountPollOK, AccountSheetOK, AccountSavedOK
<1> QED BY <1>4, <1>5, <1>6, AccountPartsNext

-----------------------------------------------------------------------------
\* What the user does.
LEMMA AccountSendKeeps ==
  ASSUME Account!SheetAssumption, AccountCallsOK, NEW kind, NEW arg, Account!Send(kind, arg),
         v6' = v6,
         \/ kind = "signin" /\ arg \in Account!Attempts
         \/ kind \in {"code", "logout"} /\ arg \in Account!Codes
  PROVE  AccountCallsOK'
<1>1. PICK c : c = [kind |-> kind, arg |-> arg, ok |-> FALSE]
  OBVIOUS
<1>2. c \in Account!CallTypes
  BY <1>1 DEF Account!CallTypes
<1> QED BY <1>1, <1>2 DEF AccountCallsOK, Account!Send

LEMMA AccountSheetFields ==
  ASSUME AccountSheetOK
  PROVE  /\ v4.view \in {"none", "signin", "code"} /\ v4.busy \in BOOLEAN
         /\ v4.known \in Account!Codes /\ v4.sent \in Account!Codes
         /\ v4.dismissed \in Account!Codes
         /\ v4.opening \in BOOLEAN
         /\ v4 = [view |-> v4.view, busy |-> v4.busy, known |-> v4.known,
                  sent |-> v4.sent, dismissed |-> v4.dismissed, opening |-> v4.opening]
BY DEF AccountSheetOK, AccountSheetTypes

LEMMA AccountClosedIsSheet ==
  ASSUME Account!SheetAssumption, NEW s \in AccountSheetTypes
  PROVE  Account!Closed(s) \in AccountSheetTypes /\ Account!Closed(s).view = "none" /\
           ~Account!Closed(s).busy
<1>1. PICK c : c = Account!Closed(s)
  OBVIOUS
<1>2. c = [view |-> "none", busy |-> FALSE, known |-> s.known, sent |-> Account!None,
           dismissed |-> s.dismissed, opening |-> s.opening]
  BY <1>1 DEF Account!Closed, AccountSheetTypes
<1> QED BY <1>1, <1>2 DEF AccountSheetTypes, Account!Codes, Account!None, Account!SheetAssumption

LEMMA AccountUserKeeps ==
  ASSUME Account!SheetAssumption, Account!TypeOK, Account!OpenSignIn \/ Account!ShowSignIn \/
         Account!SubmitSignIn \/ Account!SubmitCode \/ Account!Cancel
  PROVE  Account!TypeOK'
<1>0. AccountEngineOK /\ AccountCallsOK /\ AccountPollOK /\ AccountSheetOK /\ AccountSavedOK
  BY AccountParts
<1>1. /\ v1.asked \in Nat /\ v10 \in Nat /\ v10 + v1.asked <= AccountMaxTries
      /\ AccountMaxTries \in Nat /\ Account!None \in Account!Codes
  BY <1>0 DEF AccountEngineOK, AccountEngineTypes, Account!Tries, Account!SheetAssumption,
     Account!None, Account!Codes
<1>2. ASSUME Account!OpenSignIn PROVE Account!TypeOK'
  <2>1. PICK s : s = [v4 EXCEPT !.opening = TRUE]
    OBVIOUS
  <2>2. s \in AccountSheetTypes /\ s.busy = v4.busy /\ s.view = v4.view
    BY <1>0, <2>1, AccountSheetFields DEF AccountSheetTypes
  <2>3. AccountSheetOK'
    BY <1>0, <1>2, <2>1, <2>2 DEF Account!OpenSignIn, AccountSheetOK
  <2> QED BY <1>0, <1>2, <2>3, AccountPartsNext DEF Account!OpenSignIn, AccountEngineOK,
             Account!Tries, AccountCallsOK, AccountPollOK, AccountSavedOK
<1>3. ASSUME Account!ShowSignIn PROVE Account!TypeOK'
  <2>1. PICK s : s = [v4 EXCEPT !.opening = FALSE, !.view = "signin", !.busy = FALSE]
    OBVIOUS
  <2>2. s = [view |-> "signin", busy |-> FALSE, known |-> v4.known, sent |-> v4.sent,
             dismissed |-> v4.dismissed, opening |-> FALSE]
    BY <1>0, <2>1, AccountSheetFields
  <2>3. AccountSheetOK'
    BY <1>0, <1>3, <2>1, <2>2, AccountSheetFields DEF Account!ShowSignIn, AccountSheetOK,
       AccountSheetTypes
  <2> QED BY <1>0, <1>3, <2>3, AccountPartsNext DEF Account!ShowSignIn, AccountEngineOK,
             Account!Tries, AccountCallsOK, AccountPollOK, AccountSavedOK
<1>4. ASSUME Account!SubmitSignIn PROVE Account!TypeOK'
  <2>1. PICK s : s = [v4 EXCEPT !.busy = TRUE]
    OBVIOUS
  <2>2. s \in AccountSheetTypes /\ s.view = "signin"
    BY <1>0, <1>4, <2>1, AccountSheetFields DEF AccountSheetTypes, Account!SubmitSignIn
  <2>3. AccountSheetOK'
    BY <1>4, <2>1, <2>2 DEF Account!SubmitSignIn, AccountSheetOK
  <2>4. v10 + v1.asked < AccountMaxTries /\ v10' = v10 + 1
    BY <1>4 DEF Account!SubmitSignIn, Account!Tries
  <2>5. v10' \in Account!Attempts /\ v10' + v1.asked <= AccountMaxTries
    BY <1>1, <2>4 DEF Account!Attempts
  <2>6. AccountCallsOK'
    <3>1. PICK n : n = v10'
      OBVIOUS
    <3>2. Account!Send("signin", n) /\ v6' = v6 /\ n \in Account!Attempts
      BY <1>4, <2>5, <3>1 DEF Account!SubmitSignIn
    <3>3. AccountCallsOK
      BY <1>0
    <3> QED BY <3>2, <3>3, AccountSendKeeps DEF Account!Send, Account!Attempts, Account!Codes
  <2>7. AccountEngineOK'
    BY <1>0, <1>1, <1>4, <2>4, <2>5 DEF Account!SubmitSignIn, AccountEngineOK, Account!Tries
  <2> QED BY <1>0, <1>4, <2>3, <2>6, <2>7, AccountPartsNext DEF Account!SubmitSignIn,
             AccountPollOK, AccountSavedOK
<1>5. ASSUME Account!SubmitCode PROVE Account!TypeOK'
  <2>1. PICK s : s = [v4 EXCEPT !.busy = TRUE, !.sent = v4.known]
    OBVIOUS
  <2>2. s = [view |-> v4.view, busy |-> TRUE, known |-> v4.known, sent |-> v4.known,
             dismissed |-> v4.dismissed, opening |-> v4.opening]
    BY <1>0, <2>1, AccountSheetFields
  <2>3. AccountSheetOK'
    BY <1>0, <1>5, <2>1, <2>2, AccountSheetFields DEF Account!SubmitCode, AccountSheetOK,
       AccountSheetTypes
  <2>4. v4.known \in Account!Codes
    BY <1>0, AccountSheetFields
  <2>5. AccountCallsOK'
    BY <1>0, <1>5, <2>4, AccountSendKeeps DEF Account!SubmitCode
  <2> QED BY <1>0, <1>5, <2>3, <2>5, AccountPartsNext DEF Account!SubmitCode, AccountEngineOK,
             Account!Tries, AccountPollOK, AccountSavedOK
<1>6. ASSUME Account!Cancel PROVE Account!TypeOK'
  <2>1. PICK s : s = [v4 EXCEPT !.dismissed = IF v4.view = "code" THEN v4.known ELSE @]
    OBVIOUS
  <2>2. s \in AccountSheetTypes
    BY <1>0, <2>1, AccountSheetFields DEF AccountSheetTypes
  <2>3. AccountSheetOK'
    BY <1>6, <2>1, <2>2, AccountClosedIsSheet DEF Account!Cancel, AccountSheetOK
  <2>4. AccountPollOK'
    BY <1>0, <1>6 DEF Account!Cancel, AccountPollOK
  <2>5. AccountCallsOK'
    BY <1>0, <1>1, <1>6, AccountSendKeeps DEF Account!Cancel, AccountCallsOK
  <2>6. AccountSavedOK'
    BY <1>0, <1>6 DEF Account!Cancel, AccountSavedOK
  <2> QED BY <1>0, <1>6, <2>3, <2>4, <2>5, <2>6, AccountPartsNext DEF Account!Cancel,
             AccountEngineOK, Account!Tries
<1> QED BY <1>2, <1>3, <1>4, <1>5, <1>6

-----------------------------------------------------------------------------
\* What comes back: the answer to a call, and a snapshot, by the stream or by a poll.
LEMMA AccountAnswersKeep ==
  ASSUME Account!SheetAssumption, Account!TypeOK, Account!Answers
  PROVE  Account!TypeOK'
<1>0. AccountEngineOK /\ AccountCallsOK /\ AccountPollOK /\ AccountSheetOK /\ AccountSavedOK
  BY AccountParts
<1>1. PICK c \in v6 : Account!SignInAnswered(c) \/ Account!CodeAnswered(c)
  BY DEF Account!Answers
<1>2. c \in Account!CallTypes
  BY <1>0 DEF AccountCallsOK
<1>3. UNCHANGED <<v1, v2, v5, v8, v10>> /\ v6' = v6 \ {c}
  BY <1>1 DEF Account!SignInAnswered, Account!CodeAnswered
<1>4. AccountEngineOK' /\ AccountCallsOK'
  BY <1>0, <1>3 DEF AccountEngineOK, Account!Tries, AccountCallsOK
<1>5. ASSUME Account!SignInAnswered(c) PROVE Account!TypeOK'
  <2>1. c.arg \in Account!Attempts
    BY <1>2, <1>5 DEF Account!CallTypes, Account!SignInAnswered
  <2>2. AccountSavedOK'
    BY <1>0, <1>5, <2>1 DEF Account!SignInAnswered, AccountSavedOK
  <2>3. \/ UNCHANGED <<v4, v3>>
        \/ v3' = [v3 EXCEPT !.on = TRUE] /\ UNCHANGED v4
        \/ v4' = [v4 EXCEPT !.busy = FALSE] /\ UNCHANGED v3
    BY <1>5 DEF Account!SignInAnswered
  <2>4. AccountPollOK'
    BY <1>0, <2>3 DEF AccountPollOK
  <2>5. AccountSheetOK'
    BY <1>0, <2>3, AccountSheetFields DEF AccountSheetOK, AccountSheetTypes
  <2> QED BY <1>4, <2>2, <2>4, <2>5, AccountPartsNext
<1>6. ASSUME Account!CodeAnswered(c) PROVE Account!TypeOK'
  <2>1. PICK s : s = [v4 EXCEPT !.sent = Account!None, !.busy = FALSE]
    OBVIOUS
  <2>2. s = [view |-> v4.view, busy |-> FALSE, known |-> v4.known, sent |-> Account!None,
             dismissed |-> v4.dismissed, opening |-> v4.opening]
    BY <1>0, <2>1, AccountSheetFields
  <2>3. s \in AccountSheetTypes /\ ~s.busy
    BY <1>0, <2>2, AccountSheetFields DEF AccountSheetTypes, Account!Codes, Account!None,
       Account!SheetAssumption
  <2>4. AccountSheetOK'
    BY <1>0, <1>6, <2>1, <2>3 DEF Account!CodeAnswered, AccountSheetOK
  <2> QED BY <1>0, <1>4, <1>6, <2>4, AccountPartsNext DEF Account!CodeAnswered, AccountPollOK,
             AccountSavedOK
<1> QED BY <1>1, <1>5, <1>6

LEMMA AccountSnapshotKeeps ==
  ASSUME Account!SheetAssumption, AccountSheetOK, AccountSavedOK, NEW s \in Account!Snaps,
         Account!OnSnapshot(s)
  PROVE  AccountSheetOK' /\ AccountSavedOK'
<1>1. PICK n : n = IF s.ch # Account!None THEN s.ch ELSE v4.known
  OBVIOUS
<1>2. PICK k : k = [view |-> v4.view, busy |-> v4.busy, known |-> n, sent |-> v4.sent,
                    dismissed |-> v4.dismissed, opening |-> v4.opening]
  OBVIOUS
<1>3. /\ n \in Account!Codes /\ k \in AccountSheetTypes /\ (k.busy => k.view # "none")
      /\ k = [v4 EXCEPT !.known = IF s.ch # Account!None THEN s.ch ELSE @]
  <2>1. n \in Account!Codes
    BY <1>1, AccountSheetFields DEF Account!Snaps
  <2>2. k \in AccountSheetTypes /\ (k.busy => k.view # "none")
    BY <1>2, <2>1, AccountSheetFields DEF AccountSheetTypes, AccountSheetOK
  <2>3. k = [v4 EXCEPT !.known = n]
    BY <1>2, AccountSheetFields
  <2> QED BY <1>1, <2>1, <2>2, <2>3
<1>4. Account!None \in Account!Codes
  BY DEF Account!None, Account!Codes, Account!SheetAssumption
<1>5. \/ \E v \in {"code", "signin"} : v4' = [k EXCEPT !.view = v, !.busy = FALSE]
      \/ v4' = [k EXCEPT !.sent = Account!None, !.busy = FALSE]
      \/ v4' = Account!Closed(k)
      \/ v4' = [k EXCEPT !.busy = FALSE]
      \/ v4' = k
  BY <1>3 DEF Account!OnSnapshot
<1>6. AccountSheetOK'
  <2>1. CASE \E v \in {"code", "signin"} : v4' = [k EXCEPT !.view = v, !.busy = FALSE]
    <3>1. PICK v \in {"code", "signin"} : v4' = [k EXCEPT !.view = v, !.busy = FALSE]
      BY <2>1
    <3>2. v4' = [view |-> v, busy |-> FALSE, known |-> n, sent |-> v4.sent,
                 dismissed |-> v4.dismissed, opening |-> v4.opening]
      BY <1>2, <3>1
    <3> QED BY <1>3, <3>2, AccountSheetFields DEF AccountSheetOK, AccountSheetTypes
  <2>2. CASE v4' = [k EXCEPT !.sent = Account!None, !.busy = FALSE]
    <3>1. v4' = [view |-> v4.view, busy |-> FALSE, known |-> n, sent |-> Account!None,
                 dismissed |-> v4.dismissed, opening |-> v4.opening]
      BY <1>2, <2>2
    <3> QED BY <1>3, <1>4, <3>1, AccountSheetFields DEF AccountSheetOK, AccountSheetTypes
  <2>3. CASE v4' = Account!Closed(k)
    BY <1>3, <2>3, AccountClosedIsSheet DEF AccountSheetOK
  <2>4. CASE v4' = [k EXCEPT !.busy = FALSE]
    BY <1>3, <2>4 DEF AccountSheetOK, AccountSheetTypes
  <2>5. CASE v4' = k
    BY <1>3, <2>5 DEF AccountSheetOK
  <2> QED BY <1>5, <2>1, <2>2, <2>3, <2>4, <2>5
<1>7. AccountSavedOK'
  BY DEF Account!OnSnapshot, AccountSavedOK
<1> QED BY <1>6, <1>7

LEMMA AccountStepPreserves ==
  ASSUME Account!SheetAssumption, Account!TypeOK, Account!Next \/ UNCHANGED Account!vars
  PROVE  Account!TypeOK'
<1>0. AccountEngineOK /\ AccountCallsOK /\ AccountPollOK /\ AccountSheetOK /\ AccountSavedOK
  BY AccountParts
<1>1. ASSUME Account!Event \/ Account!Lost PROVE Account!TypeOK'
  <2>1. /\ v2 # <<>> /\ v2' = Tail(v2)
        /\ UNCHANGED <<v1, v5, v6, v10>>
    BY <1>1 DEF Account!Event, Account!Lost
  <2>2. Head(v2) \in Account!Snaps /\ AccountEngineOK' /\ AccountCallsOK'
    BY <1>0, <2>1 DEF AccountEngineOK, Account!Tries, AccountCallsOK
  <2>3. AccountSheetOK' /\ AccountSavedOK'
    BY <1>0, <1>1, <2>2, AccountSnapshotKeeps DEF Account!Event, Account!Lost, AccountSheetOK,
       AccountSavedOK
  <2>4. AccountPollOK'
    BY <1>0, <1>1 DEF Account!Event, Account!Lost, AccountPollOK
  <2> QED BY <2>2, <2>3, <2>4, AccountPartsNext
<1>2. ASSUME Account!Ask PROVE Account!TypeOK'
  <2>1. Account!Snap(v1) \in Account!Snaps
    BY <1>0 DEF AccountEngineOK, AccountEngineTypes, Account!Snap, Account!Snaps
  <2>2. AccountPollOK'
    <3>1. PICK s \in Account!Snaps : s = Account!Snap(v1)
      BY <2>1
    <3>2. v3' = [v3 EXCEPT !.answer = <<s>>] /\ <<s>> \in Seq(Account!Snaps)
      BY <1>2, <3>1 DEF Account!Ask
    <3> QED BY <1>0, <3>2 DEF AccountPollOK
  <2> QED BY <1>0, <1>2, <2>2, AccountPartsNext DEF Account!Ask, AccountEngineOK, Account!Tries,
             AccountCallsOK, AccountSheetOK, AccountSavedOK
<1>3. ASSUME Account!PollAnswered PROVE Account!TypeOK'
  <2>1. Head(v3.answer) \in Account!Snaps
    BY <1>0, <1>3 DEF AccountPollOK, Account!PollAnswered
  <2>2. AccountSheetOK' /\ AccountSavedOK'
    BY <1>0, <1>3, <2>1, AccountSnapshotKeeps DEF Account!PollAnswered, AccountSheetOK,
       AccountSavedOK
  <2>3. AccountPollOK'
    BY <1>0, <1>3 DEF Account!PollAnswered, AccountPollOK
  <2> QED BY <1>0, <1>3, <2>2, <2>3, AccountPartsNext DEF Account!PollAnswered, AccountEngineOK,
             Account!Tries, AccountCallsOK
<1>4. ASSUME UNCHANGED Account!vars PROVE Account!TypeOK'
  BY <1>0, <1>4, AccountPartsNext DEF Account!vars, AccountEngineOK, Account!Tries,
     AccountCallsOK, AccountPollOK, AccountSheetOK, AccountSavedOK
<1> QED BY <1>1, <1>2, <1>3, <1>4, AccountEngineKeeps, AccountCallsKeep, AccountUserKeeps,
           AccountAnswersKeep DEF Account!Next


-----------------------------------------------------------------------------
(* The context menus (ContextMenu), and that its invariant holds at the start and is kept by
   each step. *)
Menu == INSTANCE ContextMenu WITH
  Items <- MenuItems, Linked <- MenuLinked, Page <- MenuPage, MaxMenus <- MenuMaxMenus,
  MaxAsks <- MenuMaxAsks, MaxUser <- MenuMaxUser, opened <- v1, menu <- v2, target <- v3,
  asks <- v4, orig <- v5, write <- v6, copies <- v7, clipboard <- v8, started <- v9,
  disturbed <- v10, user <- v11, icon <- v12, armed <- v13, record <- v14

\* The menus opened; what was replaced by whom; the clipboard; the rest.
MenuMenuOK == v1 \in Seq(MenuItems) /\ v2 \in 0..Len(v1) /\
  v3 \in MenuItems \union {Menu!None} /\ Menu!TargetIsTheMenus
MenuWriteOK == /\ v5 \in Seq(Nat) /\ v6 \in 0..Len(v5) /\ v10 \subseteq 1..Len(v5)
               /\ \A n \in 1..Len(v5) : v5[n] \in 0..Len(v5)
MenuAsksOK == \A n \in Menu!Pending : n \in 1..Len(v5) /\ v4[n] \in 1..Len(v1)
MenuClipOK == v8.item \in MenuItems \union {Menu!None} /\ \A c \in v7 : c.item \in MenuItems
MenuRestOK == v11 \in 0..MenuMaxUser /\ v12 \in BOOLEAN /\ v13 \in BOOLEAN /\ v14 \in BOOLEAN

LEMMA MenuParts == Menu!IInv <=>
  MenuMenuOK /\ MenuWriteOK /\ MenuAsksOK /\ MenuClipOK /\ MenuRestOK /\ Menu!OneAsk /\
    Menu!AskIsTheMenus
<1>1. Menu!OneAsk \in BOOLEAN /\ Menu!TargetIsTheMenus \in BOOLEAN /\
        Menu!AskIsTheMenus \in BOOLEAN
  BY DEF Menu!OneAsk, Menu!TargetIsTheMenus, Menu!AskIsTheMenus
<1> QED BY <1>1, Zenon DEF Menu!IInv, Menu!TypeOK, MenuMenuOK, MenuWriteOK, MenuAsksOK,
           MenuClipOK, MenuRestOK
LEMMA MenuPartsNext ==
  MenuMenuOK' /\ MenuWriteOK' /\ MenuAsksOK' /\ MenuClipOK' /\ MenuRestOK' /\ Menu!OneAsk' /\
    Menu!AskIsTheMenus' => Menu!IInv'
BY DEF Menu!IInv, Menu!TypeOK, MenuMenuOK, MenuWriteOK, MenuAsksOK, MenuClipOK, MenuRestOK

LEMMA MenuInitEstablishes ==
  ASSUME Menu!MenuAssumption, Menu!Init
  PROVE  Menu!IInv
<1>1. v1 = <<>> /\ v5 = <<>> /\ v4 = <<>> /\ Menu!Pending = {} /\ Len(v1) = 0 /\ Len(v5) = 0
  BY DEF Menu!Init, Menu!Pending
<1>2. MenuMenuOK
  BY <1>1 DEF Menu!Init, MenuMenuOK, Menu!TargetIsTheMenus, Menu!None
<1>3. MenuWriteOK
  BY <1>1 DEF Menu!Init, MenuWriteOK, Menu!Native
<1>4. MenuAsksOK /\ MenuClipOK /\ Menu!OneAsk /\ Menu!AskIsTheMenus
  BY <1>1 DEF Menu!Init, MenuAsksOK, MenuClipOK, Menu!OneAsk, Menu!AskIsTheMenus
<1>5. MenuRestOK
  <2>1. v11 \in 0..MenuMaxUser
    BY DEF Menu!Init, Menu!MenuAssumption
  <2> QED BY <2>1 DEF Menu!Init, MenuRestOK
<1> QED BY <1>2, <1>3, <1>4, <1>5, MenuParts

\* One more copy: the sequence of originals grows by one that names nothing later than itself.
LEMMA MenuCopyAdds ==
  ASSUME NEW s \in Seq(Nat), NEW w \in 0..Len(s), \A n \in 1..Len(s) : s[n] \in 0..Len(s),
         NEW t, NEW m, m = Len(s) + 1,
         \A n \in 1..m : t[n] = IF n <= Len(s) THEN s[n] ELSE w
  PROVE  \A n \in 1..m : t[n] \in 0..m
<1>1. Len(s) \in Nat
  OBVIOUS
<1>2. ASSUME NEW n \in 1..m PROVE t[n] \in 0..m
  <2>1. CASE n <= Len(s)
    <3>1. n \in 1..Len(s) /\ t[n] = s[n]
      BY <1>1, <1>2, <2>1
    <3>2. s[n] \in 0..Len(s)
      BY <3>1
    <3> QED BY <1>1, <3>1, <3>2
  <2>2. CASE ~(n <= Len(s))
    BY <1>1, <1>2, <2>2
  <2> QED BY <2>1, <2>2
<1> QED BY <1>2

\* The user does something else: no ask is undisturbed any more.
LEMMA MenuDisturbs ==
  ASSUME MenuWriteOK, MenuAsksOK, Menu!OneAsk, v10' = v10 \union Menu!Pending,
         UNCHANGED <<v4, v6>>,
         v5' = v5 \/ v5' = Append(v5, v6)
  PROVE  MenuWriteOK' /\ Menu!OneAsk' /\ Menu!AskIsTheMenus'
<1>1. Menu!Pending' \ v10' = {} /\ Menu!Pending' = Menu!Pending
  BY DEF Menu!Pending
<1>2. Menu!OneAsk'
  BY <1>1 DEF Menu!OneAsk
<1>3. CASE v5' = v5
  BY <1>1, <1>2, <1>3 DEF MenuWriteOK, MenuAsksOK, Menu!AskIsTheMenus
<1>4. CASE v5' = Append(v5, v6)
  <2>1. Len(v5) \in Nat /\ v6 \in Nat /\ v6 <= Len(v5)
    BY DEF MenuWriteOK
  <2>2. /\ v5' \in Seq(Nat) /\ Len(v5') = Len(v5) + 1
        /\ \A n \in 1..(Len(v5) + 1) : v5'[n] = IF n <= Len(v5) THEN v5[n] ELSE v6
    BY <1>4, <2>1 DEF MenuWriteOK
  <2>3. \A n \in 1..(Len(v5) + 1) : v5'[n] \in 0..(Len(v5) + 1)
    <3> DEFINE t == v5'
               m == Len(v5) + 1
    <3>1. m = Len(v5) + 1 /\ \A n \in 1..m : t[n] = IF n <= Len(v5) THEN v5[n] ELSE v6
      BY <2>2
    <3>2. v5 \in Seq(Nat) /\ v6 \in 0..Len(v5) /\ \A n \in 1..Len(v5) : v5[n] \in 0..Len(v5)
      BY DEF MenuWriteOK
    <3> HIDE DEF t, m
    <3>3. \A n \in 1..m : t[n] \in 0..m
      BY <3>1, <3>2, MenuCopyAdds
    <3> QED BY <3>3 DEF t, m
  <2>4. v6 \in 0..(Len(v5) + 1) /\ 1..Len(v5) \subseteq 1..(Len(v5) + 1)
    BY <2>1
  <2>5. v10' \subseteq 1..(Len(v5) + 1)
    BY <2>4 DEF MenuWriteOK, MenuAsksOK
  <2> QED BY <1>1, <1>2, <2>2, <2>3, <2>4, <2>5 DEF MenuWriteOK, Menu!AskIsTheMenus
<1> QED BY <1>3, <1>4

\* An ask is decided, by a copy or by its timer.
LEMMA MenuDecided ==
  ASSUME MenuWriteOK, MenuAsksOK, Menu!OneAsk, Menu!AskIsTheMenus, NEW n \in 1..Len(v5),
         v6' = v5[n], v4' = Menu!Unpended(n),
         n = v6 \/ n \in Menu!Pending,
         UNCHANGED <<v5, v3, v1, v10>>, v7' \subseteq v7
  PROVE  MenuWriteOK' /\ MenuAsksOK' /\ Menu!OneAsk' /\ Menu!AskIsTheMenus'
<1>1. Menu!Pending' = Menu!Pending \ {n} /\ \A a \in Menu!Pending' : v4'[a] = v4[a]
  BY DEF Menu!Unpended, Menu!Pending
<1>2. MenuWriteOK'
  BY DEF MenuWriteOK
<1>3. MenuAsksOK'
  BY <1>1 DEF MenuAsksOK
<1>4. Menu!AskIsTheMenus'
  BY <1>1 DEF Menu!AskIsTheMenus
<1>5. Menu!OneAsk'
  <2>1. SUFFICES ASSUME v10 = {}
                 PROVE  Menu!Pending' = {} /\ v6' = Menu!Native
    BY DEF Menu!OneAsk
  <2>2. Menu!Native # n
    BY DEF Menu!Native
  <2>3. PICK m \in Menu!Pending : Menu!Pending = {m} /\ v6 = m /\ v5[m] = Menu!Native
    BY <2>1, <2>2 DEF Menu!OneAsk
  <2> QED BY <1>1, <2>3
<1> QED BY <1>2, <1>3, <1>4, <1>5

\* A copy, of the page or of the user.
LEMMA MenuWritten ==
  ASSUME MenuWriteOK, MenuAsksOK, Menu!OneAsk, Menu!AskIsTheMenus, MenuMenuOK, MenuClipOK,
         NEW i \in MenuItems, NEW by, Menu!WriteText(i, by),
         UNCHANGED <<v5, v3, v1, v10>>, v7' \subseteq v7
  PROVE  /\ MenuMenuOK' /\ MenuWriteOK' /\ MenuAsksOK' /\ MenuClipOK' /\ Menu!OneAsk'
         /\ Menu!AskIsTheMenus'
         /\ v9' \ v9 # {} => /\ v6 \in Menu!Pending
                             /\ v9' \subseteq v9 \union {[ask |-> v6, item |-> i]}
<1>1. CASE v6 = Menu!Native
  <2>1. v8' = [item |-> i, ask |-> by] /\ UNCHANGED <<v4, v6, v9, v2>>
    BY <1>1 DEF Menu!WriteText
  <2>2. Menu!Pending' = Menu!Pending
    BY <2>1 DEF Menu!Pending
  <2>3. MenuMenuOK' /\ MenuWriteOK' /\ MenuAsksOK' /\ MenuClipOK'
    BY <2>1, <2>2 DEF MenuMenuOK, Menu!TargetIsTheMenus, MenuWriteOK, MenuAsksOK, MenuClipOK
  <2>4. Menu!OneAsk' /\ Menu!AskIsTheMenus'
    BY <2>1, <2>2 DEF Menu!OneAsk, Menu!AskIsTheMenus
  <2> QED BY <2>1, <2>3, <2>4
<1>2. CASE v6 # Menu!Native
  <2>1. /\ v6' = v5[v6] /\ v4' = Menu!Unpended(v6) /\ UNCHANGED v8
        /\ IF v6 \in Menu!Pending THEN Menu!Decide(v6, i) ELSE UNCHANGED <<v9, v2>>
    BY <1>2 DEF Menu!WriteText, Menu!GivenBack
  <2>2. v6 \in 1..Len(v5)
    BY <1>2 DEF MenuWriteOK, Menu!Native
  <2>3. MenuWriteOK' /\ MenuAsksOK' /\ Menu!OneAsk' /\ Menu!AskIsTheMenus'
    BY <2>1, <2>2, MenuDecided
  <2>4. MenuMenuOK' /\ MenuClipOK'
    BY <2>1 DEF MenuMenuOK, Menu!TargetIsTheMenus, MenuClipOK, Menu!Decide, Menu!None
  <2> QED BY <2>1, <2>3, <2>4 DEF Menu!Decide
<1> QED BY <1>1, <1>2

\* Download is clicked, and the page is made to copy.
LEMMA MenuClicked ==
  ASSUME MenuWriteOK, MenuAsksOK, Menu!OneAsk, Menu!AskIsTheMenus, MenuMenuOK, MenuClipOK,
         Menu!ClickDownload
  PROVE  MenuMenuOK' /\ MenuWriteOK' /\ MenuAsksOK' /\ MenuClipOK' /\ Menu!OneAsk' /\
           Menu!AskIsTheMenus'
<1> DEFINE n == Len(v5) + 1
<1>1. /\ v2 # Menu!None /\ v3' = v3 /\ v5' = Append(v5, v6) /\ v6' = n
      /\ v4' = [a \in Menu!Pending \union {n} |-> IF a = n THEN v2 ELSE v4[a]]
      /\ v10' = IF Menu!Pending = {} /\ v7 = {} THEN v10 ELSE v10 \union Menu!Pending \union {n}
      /\ v7' \in {v7, v7 \union {[ask |-> n, item |-> v1[v2]]}}
      /\ v2' \in {v2, Menu!None} /\ UNCHANGED <<v1, v8>>
  BY DEF Menu!ClickDownload, Menu!Pressed
<1>2. Len(v5) \in Nat /\ n \in Nat /\ v6 \in Nat /\ v6 <= Len(v5) /\ n \in 1..n /\
        1..Len(v5) \subseteq 1..n
      /\ n \notin 1..Len(v5)
  BY DEF MenuWriteOK
<1>3. /\ v5' \in Seq(Nat) /\ Len(v5') = n
      /\ \A k \in 1..n : v5'[k] = IF k <= Len(v5) THEN v5[k] ELSE v6
  BY <1>1, <1>2 DEF MenuWriteOK
<1>4. v2 \in 1..Len(v1) /\ v1[v2] \in MenuItems /\ v3 = v1[v2]
  BY <1>1 DEF MenuMenuOK, Menu!TargetIsTheMenus, Menu!None
<1>5. Menu!Pending' = Menu!Pending \union {n} /\ n \notin Menu!Pending /\ v4'[n] = v2 /\
        \A a \in Menu!Pending : v4'[a] = v4[a]
  BY <1>1, <1>2 DEF Menu!Pending, MenuAsksOK
<1> HIDE DEF n
<1>6. MenuWriteOK'
  <2>1. \A k \in 1..n : v5'[k] \in 0..n
    <3> DEFINE t == v5'
    <3>1. n = Len(v5) + 1 /\ \A k \in 1..n : t[k] = IF k <= Len(v5) THEN v5[k] ELSE v6
      BY <1>3 DEF n
    <3>2. v5 \in Seq(Nat) /\ v6 \in 0..Len(v5) /\ \A k \in 1..Len(v5) : v5[k] \in 0..Len(v5)
      BY DEF MenuWriteOK
    <3> HIDE DEF t
    <3>3. \A k \in 1..n : t[k] \in 0..n
      BY <3>1, <3>2, MenuCopyAdds
    <3> QED BY <3>3 DEF t
  <2>2. v10' \subseteq 1..n
    BY <1>1, <1>2 DEF MenuWriteOK, MenuAsksOK
  <2>3. v6' \in 0..n
    BY <1>1, <1>2
  <2> QED BY <1>3, <2>1, <2>2, <2>3 DEF MenuWriteOK
<1>7. MenuAsksOK' /\ MenuMenuOK' /\ MenuClipOK'
  <2>1. MenuAsksOK'
    BY <1>1, <1>2, <1>3, <1>4, <1>5 DEF MenuAsksOK
  <2>2. MenuMenuOK'
    BY <1>1 DEF MenuMenuOK, Menu!TargetIsTheMenus, Menu!None
  <2>3. MenuClipOK'
    BY <1>1, <1>4 DEF MenuClipOK
  <2> QED BY <2>1, <2>2, <2>3
<1>8. CASE Menu!Pending = {} /\ v7 = {}
  <2>1. Menu!AskIsTheMenus'
    <3>1. ASSUME NEW c \in v7' PROVE c.item = v1[v2]
      BY <1>1, <1>8
    <3>2. \A k \in Menu!Pending' \ v10' : k = n
      BY <1>5, <1>8
    <3> QED BY <1>1, <1>4, <1>5, <3>1, <3>2 DEF Menu!AskIsTheMenus
  <2>2. Menu!OneAsk'
    <3>1. SUFFICES ASSUME v10 = {} PROVE Menu!Pending' = {n} /\ v6' = n /\ v5'[n] = Menu!Native
      BY <1>1, <1>8 DEF Menu!OneAsk
    <3>2. v6 = Menu!Native
      BY <1>8, <3>1 DEF Menu!OneAsk
    <3>3. v5'[n] = v6
      BY <1>2, <1>3 DEF n
    <3> QED BY <1>1, <1>5, <1>8, <3>2, <3>3
  <2> QED BY <1>6, <1>7, <2>1, <2>2
<1>9. CASE ~(Menu!Pending = {} /\ v7 = {})
  <2>1. Menu!Pending' \ v10' = {} /\ v10' # {}
    BY <1>1, <1>5, <1>9
  <2> QED BY <1>6, <1>7, <2>1 DEF Menu!AskIsTheMenus, Menu!OneAsk
<1> QED BY <1>8, <1>9

LEMMA MenuStepPreserves ==
  ASSUME Menu!MenuAssumption, Menu!IInv, Menu!Next \/ UNCHANGED Menu!vars
  PROVE  Menu!IInv' /\ Menu!StartsTheMenus
<1>0. MenuMenuOK /\ MenuWriteOK /\ MenuAsksOK /\ MenuClipOK /\ MenuRestOK /\ Menu!OneAsk /\
        Menu!AskIsTheMenus
  BY MenuParts
<1>a. ASSUME v9' = v9 PROVE Menu!StartsTheMenus
  BY <1>a DEF Menu!StartsTheMenus
<1>1. ASSUME NEW i \in MenuItems, Menu!OpenMenu(i) PROVE Menu!IInv' /\ Menu!StartsTheMenus
  <2>1. /\ v1' = Append(v1, i) /\ v2' = Len(v1') /\ v3' = i /\ v10' = v10 \union Menu!Pending
        /\ v12' = FALSE /\ v13' = FALSE /\ v14' = TRUE
        /\ UNCHANGED <<v4, v5, v6, v7, v8, v9, v11>>
    BY <1>1 DEF Menu!OpenMenu
  <2>2. MenuWriteOK' /\ Menu!OneAsk' /\ Menu!AskIsTheMenus'
    BY <1>0, <2>1, MenuDisturbs
  <2>3. /\ v1' \in Seq(MenuItems) /\ Len(v1') = Len(v1) + 1 /\ Len(v1) \in Nat
        /\ v1'[Len(v1) + 1] = i
    BY <1>0, <2>1 DEF MenuMenuOK
  <2>4. Len(v1) + 1 \in 0..(Len(v1) + 1) /\ 1..Len(v1) \subseteq 1..(Len(v1) + 1)
    BY <2>3
  <2>5. MenuMenuOK'
    BY <2>1, <2>3, <2>4 DEF MenuMenuOK, Menu!TargetIsTheMenus
  <2>6. MenuAsksOK'
    BY <1>0, <2>1, <2>3, <2>4 DEF MenuAsksOK, Menu!Pending
  <2>7. MenuClipOK' /\ MenuRestOK'
    BY <1>0, <2>1 DEF MenuClipOK, MenuRestOK
  <2> QED BY <1>a, <2>1, <2>2, <2>5, <2>6, <2>7, MenuPartsNext
<1>2. ASSUME NEW i \in MenuItems \union {Menu!None}, Menu!PressElsewhere(i)
      PROVE  Menu!IInv' /\ Menu!StartsTheMenus
  <2>1. /\ v11 < MenuMaxUser /\ v11' = v11 + 1 /\ v3' = i /\ v2' = Menu!None
        /\ v10' = v10 \union Menu!Pending
        /\ UNCHANGED <<v1, v4, v5, v6, v7, v8, v9, v12, v13, v14>>
    BY <1>2 DEF Menu!PressElsewhere, Menu!menuVars
  <2>2. MenuWriteOK' /\ Menu!OneAsk' /\ Menu!AskIsTheMenus'
    BY <1>0, <2>1, MenuDisturbs
  <2>3. MenuMenuOK' /\ MenuAsksOK' /\ MenuClipOK'
    BY <1>0, <2>1 DEF MenuMenuOK, Menu!TargetIsTheMenus, Menu!None, MenuAsksOK, MenuClipOK,
       Menu!Pending
  <2>4. v11 + 1 \in 0..MenuMaxUser
    BY <1>0, <2>1 DEF MenuRestOK, Menu!MenuAssumption
  <2>5. MenuRestOK'
    BY <1>0, <2>1, <2>4 DEF MenuRestOK
  <2> QED BY <1>a, <2>1, <2>2, <2>3, <2>5, MenuPartsNext
<1>3. CASE Menu!ClickBare
  <2>1. /\ v3' = v3 /\ v5' = Append(v5, v6) /\ v10' = v10 \union Menu!Pending
        /\ Menu!Decide(Len(v5'), Menu!ResolveTrackInfo(v3'))
        /\ UNCHANGED <<v1, v4, v6, v7, v8, v11, v12, v13, v14>>
    BY <1>3 DEF Menu!ClickBare, Menu!Pressed, Menu!menuVars
  <2>2. MenuWriteOK' /\ Menu!OneAsk' /\ Menu!AskIsTheMenus'
    BY <1>0, <2>1, MenuDisturbs
  <2>3. MenuMenuOK' /\ MenuClipOK' /\ MenuRestOK'
    BY <1>0, <2>1 DEF MenuMenuOK, Menu!TargetIsTheMenus, Menu!None, Menu!Decide, MenuClipOK,
       MenuRestOK
  <2>4. Len(v5') = Len(v5) + 1 /\ Len(v5) \in Nat
    BY <1>0, <2>1 DEF MenuWriteOK
  <2>5. 1..Len(v5) \subseteq 1..(Len(v5) + 1) /\ Len(v5) + 1 \notin 1..Len(v5)
    BY <2>4
  <2>6. MenuAsksOK'
    BY <1>0, <2>1, <2>4, <2>5 DEF MenuAsksOK, Menu!Pending
  <2>7. \A d \in v9' \ v9 : d.ask = Len(v5) + 1
    BY <2>1, <2>4 DEF Menu!Decide
  <2>8. Menu!StartsTheMenus
    BY <1>0, <2>5, <2>7 DEF Menu!StartsTheMenus, MenuAsksOK
  <2> QED BY <2>2, <2>3, <2>6, <2>8, MenuPartsNext
<1>4. CASE Menu!ClickDownload
  <2>1. MenuMenuOK' /\ MenuWriteOK' /\ MenuAsksOK' /\ MenuClipOK' /\ Menu!OneAsk' /\
          Menu!AskIsTheMenus'
    BY <1>0, <1>4, MenuClicked
  <2>2. MenuRestOK' /\ v9' = v9
    BY <1>0, <1>4 DEF Menu!ClickDownload, Menu!menuVars, MenuRestOK
  <2> QED BY <1>a, <2>1, <2>2, MenuPartsNext
<1>5. ASSUME NEW c \in v7, Menu!PageCopies(c) PROVE Menu!IInv' /\ Menu!StartsTheMenus
  <2>1. /\ v7' \subseteq v7 /\ Menu!WriteText(c.item, c.ask)
        /\ UNCHANGED <<v1, v3, v5, v10, v11, v12, v13, v14>>
    BY <1>5 DEF Menu!PageCopies, Menu!menuVars
  <2>2. c.item \in MenuItems
    BY <1>0 DEF MenuClipOK
  <2>3. /\ MenuMenuOK' /\ MenuWriteOK' /\ MenuAsksOK' /\ MenuClipOK' /\ Menu!OneAsk'
        /\ Menu!AskIsTheMenus'
        /\ v9' \ v9 # {} => /\ v6 \in Menu!Pending
                            /\ v9' \subseteq v9 \union {[ask |-> v6, item |-> c.item]}
    BY <1>0, <2>1, <2>2, MenuWritten
  <2>4. MenuRestOK'
    BY <1>0, <2>1 DEF MenuRestOK
  <2>5. Menu!StartsTheMenus
    <3>1. SUFFICES ASSUME NEW d \in v9' \ v9, d.ask \in Menu!Pending, d.ask \notin v10
                   PROVE  d.item = v1[v4[d.ask]]
      BY DEF Menu!StartsTheMenus
    <3>2. d.ask = v6 /\ d.item = c.item
      BY <2>3
    <3> QED BY <1>0, <3>1, <3>2 DEF Menu!AskIsTheMenus
  <2> QED BY <2>3, <2>4, <2>5, MenuPartsNext
<1>6. ASSUME NEW i \in MenuItems, Menu!UserCopies(i) PROVE Menu!IInv' /\ Menu!StartsTheMenus
  <2>1. /\ v11 < MenuMaxUser /\ v11' = v11 + 1 /\ v10' = v10 \union Menu!Pending
        /\ Menu!WriteText(i, Menu!None)
        /\ UNCHANGED <<v1, v3, v5, v7, v12, v13, v14>>
    BY <1>6 DEF Menu!UserCopies, Menu!menuVars
  <2>2. v11 + 1 \in 0..MenuMaxUser /\ v11 + 1 # v11
    BY <1>0, <2>1 DEF MenuRestOK, Menu!MenuAssumption
  <2>3. MenuRestOK' /\ Menu!StartsTheMenus
    BY <1>0, <2>1, <2>2 DEF MenuRestOK, Menu!StartsTheMenus
  <2>4. MenuMenuOK' /\ MenuClipOK' /\ MenuAsksOK' /\ MenuWriteOK' /\ Menu!OneAsk' /\
          Menu!AskIsTheMenus'
    <3>1. CASE v6 = Menu!Native
      <4>1. v8' = [item |-> i, ask |-> Menu!None] /\ UNCHANGED <<v4, v6, v9, v2>>
        BY <2>1, <3>1 DEF Menu!WriteText
      <4>2. MenuWriteOK' /\ Menu!OneAsk' /\ Menu!AskIsTheMenus'
        BY <1>0, <2>1, <4>1, MenuDisturbs
      <4> QED BY <1>0, <2>1, <4>1, <4>2 DEF MenuMenuOK, Menu!TargetIsTheMenus, MenuClipOK,
                 MenuAsksOK, Menu!Pending
    <3>2. CASE v6 # Menu!Native
      <4>1. /\ v6' = v5[v6] /\ v4' = Menu!Unpended(v6) /\ UNCHANGED v8
            /\ IF v6 \in Menu!Pending THEN Menu!Decide(v6, i) ELSE UNCHANGED <<v9, v2>>
        BY <2>1, <3>2 DEF Menu!WriteText, Menu!GivenBack
      <4>2. v6 \in 1..Len(v5)
        BY <1>0, <3>2 DEF MenuWriteOK, Menu!Native
      <4>3. Menu!Pending' = Menu!Pending \ {v6} /\ \A a \in Menu!Pending' : v4'[a] = v4[a]
        BY <4>1 DEF Menu!Unpended, Menu!Pending
      <4>4. Menu!Pending' \ v10' = {} /\ v10' # {}
        BY <1>0, <2>1, <3>2, <4>3 DEF Menu!OneAsk
      <4>5. Menu!OneAsk' /\ Menu!AskIsTheMenus'
        BY <4>4 DEF Menu!OneAsk, Menu!AskIsTheMenus
      <4>6. MenuAsksOK' /\ MenuWriteOK'
        BY <1>0, <2>1, <4>1, <4>2, <4>3 DEF MenuAsksOK, MenuWriteOK
      <4>7. MenuMenuOK' /\ MenuClipOK'
        BY <1>0, <2>1, <4>1 DEF MenuMenuOK, Menu!TargetIsTheMenus, MenuClipOK, Menu!Decide,
           Menu!None
      <4> QED BY <4>5, <4>6, <4>7
    <3> QED BY <3>1, <3>2
  <2> QED BY <2>3, <2>4, MenuPartsNext
<1>7. ASSUME NEW n \in Menu!Pending, Menu!TimerFires(n) PROVE Menu!IInv' /\ Menu!StartsTheMenus
  <2>1. /\ v6' = v5[n] /\ v4' = Menu!Unpended(n) /\ Menu!Decide(n, Menu!ResolveTrackInfo(v3))
        /\ UNCHANGED <<v1, v3, v5, v7, v8, v10, v11, v12, v13, v14>>
    BY <1>7 DEF Menu!TimerFires, Menu!menuVars
  <2>2. n \in 1..Len(v5)
    BY <1>0 DEF MenuAsksOK
  <2>3. MenuWriteOK' /\ MenuAsksOK' /\ Menu!OneAsk' /\ Menu!AskIsTheMenus'
    BY <1>0, <2>1, <2>2, MenuDecided
  <2>4. MenuMenuOK' /\ MenuClipOK' /\ MenuRestOK'
    BY <1>0, <2>1 DEF MenuMenuOK, Menu!TargetIsTheMenus, Menu!None, Menu!Decide, MenuClipOK,
       MenuRestOK
  <2>5. Menu!StartsTheMenus
    <3>1. SUFFICES ASSUME NEW d \in v9' \ v9, d.ask \in Menu!Pending, d.ask \notin v10
                   PROVE  d.item = Menu!ResolveTrackInfo(v1[v4[d.ask]])
      BY DEF Menu!StartsTheMenus
    <3>2. d.ask = n /\ d.item = Menu!ResolveTrackInfo(v3)
      BY <2>1 DEF Menu!Decide
    <3>3. v3 = v1[v4[n]]
      BY <1>0, <3>1, <3>2 DEF Menu!AskIsTheMenus
    <3> QED BY <3>2, <3>3
  <2> QED BY <2>3, <2>4, <2>5, MenuPartsNext
<1>8. CASE Menu!Rebuilds \/ Menu!Dress \/ UNCHANGED Menu!vars
  <2>1. UNCHANGED <<v1, v2, v3, v4, v5, v6, v7, v8, v9, v10>>
    BY <1>8 DEF Menu!Rebuilds, Menu!Dress, Menu!vars, Menu!linkVars
  <2>2. Menu!Pending' = Menu!Pending
    BY <2>1 DEF Menu!Pending
  <2>3. MenuMenuOK' /\ MenuWriteOK' /\ MenuAsksOK' /\ MenuClipOK'
    BY <1>0, <2>1, <2>2 DEF MenuMenuOK, Menu!TargetIsTheMenus, MenuWriteOK, MenuAsksOK, MenuClipOK
  <2>4. Menu!OneAsk' /\ Menu!AskIsTheMenus'
    BY <1>0, <2>1, <2>2 DEF Menu!OneAsk, Menu!AskIsTheMenus
  <2>5. MenuRestOK'
    <3>1. CASE Menu!Rebuilds
      <4>1. v11 < MenuMaxUser /\ v11' = v11 + 1 /\ v12' = FALSE /\ v13' \in {v13, FALSE} /\
              v14' = TRUE
        BY <3>1 DEF Menu!Rebuilds
      <4>2. v11 + 1 \in 0..MenuMaxUser
        BY <1>0, <4>1 DEF MenuRestOK, Menu!MenuAssumption
      <4> QED BY <1>0, <4>1, <4>2 DEF MenuRestOK
    <3>2. CASE Menu!Dress
      BY <1>0, <3>2 DEF MenuRestOK, Menu!Dress, Menu!Reconnected
    <3>3. CASE UNCHANGED Menu!vars
      BY <1>0, <3>3 DEF MenuRestOK, Menu!vars
    <3> QED BY <1>8, <3>1, <3>2, <3>3
  <2> QED BY <1>a, <2>1, <2>3, <2>4, <2>5, MenuPartsNext
<1> QED BY <1>1, <1>2, <1>3, <1>4, <1>5, <1>6, <1>7, <1>8 DEF Menu!Next

LEMMA MenuClipboardHolds == Menu!IInv => Menu!ClipboardIsGivenBack
BY DEF Menu!IInv, Menu!OneAsk, Menu!ClipboardIsGivenBack


-----------------------------------------------------------------------------
(* The window's backdrop (Backdrop), and that its invariant holds at the start and is kept by
   each step. *)
Behind == INSTANCE Backdrop WITH
  Attempts <- BehindAttempts, Blurs <- BehindBlurs, MaxUser <- BehindMaxUser,
  MaxFaults <- BehindMaxFaults, desktop <- v1, soft <- v2, win <- v3, shown <- v4, hidden <- v5,
  atom <- v6, tries <- v7, lookup <- v8, wallpaper <- v9, captures <- v10, timer <- v11,
  slider <- v12, layer <- v13, crashed <- v14, fresh <- v15, died <- v16, user <- v17,
  faults <- v18

\* The desktop and KWin; the layer; the flags.
BehindKwinOK == /\ v1 \in Behind!Desktops
                /\ v6 \in {"none", "retry", "connect", "intern", "set", "refused"}
                /\ v7 \in 0..BehindAttempts
BehindFlagsOK == /\ v2 \in BOOLEAN /\ v3 \in BOOLEAN /\ v8 \in BOOLEAN /\ v9 \in BOOLEAN
                 /\ v14 \in BOOLEAN /\ v15 \in BOOLEAN /\ v16 \in BOOLEAN /\ v4 \in BOOLEAN
                 /\ v5 \in BOOLEAN /\ v11 \in BOOLEAN /\ v10 \in Nat
BehindLayerOK == v12 \in BehindBlurs /\ v13 \in Behind!LayerTypes

LEMMA BehindParts == Behind!IInv <=>
  BehindKwinOK /\ BehindFlagsOK /\ BehindLayerOK /\ Behind!OnKde /\ Behind!OnWayland /\
    Behind!OfFiles /\ Behind!WallpaperIsAsSet /\ Behind!DiesAtTheEnd
<1>1. Behind!OnKde \in BOOLEAN /\ Behind!OnWayland \in BOOLEAN /\ Behind!OfFiles \in BOOLEAN /\
        Behind!WallpaperIsAsSet \in BOOLEAN
      /\ Behind!DiesAtTheEnd \in BOOLEAN
  BY DEF Behind!OnKde, Behind!OnWayland, Behind!OfFiles, Behind!WallpaperIsAsSet,
     Behind!DiesAtTheEnd
<1> QED BY <1>1, Zenon DEF Behind!IInv, Behind!TypeOK, BehindKwinOK, BehindFlagsOK, BehindLayerOK
LEMMA BehindPartsNext ==
  BehindKwinOK' /\ BehindFlagsOK' /\ BehindLayerOK' /\ Behind!OnKde' /\ Behind!OnWayland' /\
    Behind!OfFiles' /\ Behind!WallpaperIsAsSet' /\ Behind!DiesAtTheEnd' => Behind!IInv'
BY DEF Behind!IInv, Behind!TypeOK, BehindKwinOK, BehindFlagsOK, BehindLayerOK

LEMMA BehindInitEstablishes ==
  ASSUME Behind!BackdropAssumption, Behind!Init
  PROVE  Behind!IInv
<1>0. /\ v1 \in Behind!Desktops /\ v3 = TRUE /\ v4 = FALSE /\ v5 \in BOOLEAN /\ v6 = "none"
      /\ v7 = 0
      /\ v8 = FALSE /\ v9 = FALSE /\ v10 = 0 /\ v11 = FALSE /\ v12 \in BehindBlurs
      /\ v13 = Behind!NoLayer
      /\ v14 = FALSE /\ v15 = TRUE /\ v16 = FALSE
  BY DEF Behind!Init, Behind!Desktops
<1>a. v2 \in BOOLEAN /\ (v1 = "kde" => ~v2)
  BY DEF Behind!Init
<1>1. BehindKwinOK
  BY <1>0 DEF Behind!BackdropAssumption, BehindKwinOK
<1>2. BehindFlagsOK
  BY <1>0, <1>a DEF BehindFlagsOK
<1>3. BehindLayerOK
  BY <1>0 DEF BehindLayerOK, Behind!NoLayer, Behind!LayerTypes
<1>4. Behind!OnKde /\ Behind!OnWayland /\ Behind!OfFiles /\ Behind!WallpaperIsAsSet /\
        Behind!DiesAtTheEnd
  BY <1>0, <1>a DEF Behind!OnKde, Behind!OnWayland, Behind!OfFiles, Behind!WallpaperIsAsSet,
     Behind!DiesAtTheEnd, Behind!NoLayer
<1> QED BY <1>1, <1>2, <1>3, <1>4, BehindParts

\* A capture is asked for where none is forbidden.
LEMMA BehindRefreshed ==
  ASSUME BehindFlagsOK, Behind!OnKde, Behind!OnWayland, Behind!Refresh, v1' = v1, v13' = v13,
         Behind!Excused => Behind!Excused',
         v1 = "kde" /\ v2' => Behind!Excused'
  PROVE  v10' \in Nat /\ Behind!OnKde' /\ Behind!OnWayland'
<1>1. v10' \in Nat /\ (v10' > 0 => v10 > 0 \/ (v2' /\ ~Behind!Wayland)) /\
        (Behind!Wayland => v10' = v10)
  <2>1. v10' = v10 \/ (v10' = v10 + 1 /\ v2' /\ ~Behind!Wayland)
    BY DEF Behind!Refresh
  <2> QED BY <2>1 DEF BehindFlagsOK
<1>2. Behind!OnKde'
  BY <1>1 DEF Behind!OnKde
<1>3. Behind!OnWayland'
  BY <1>1 DEF Behind!OnWayland, Behind!Wayland
<1> QED BY <1>1, <1>2, <1>3

\* No capture, no layer and no blur of KWin's is touched.
LEMMA BehindUntouched ==
  ASSUME Behind!OnKde, Behind!OnWayland, Behind!OfFiles, UNCHANGED <<v1, v2, v10, v13, v9>>,
         Behind!Excused => Behind!Excused', v8' => v8
  PROVE  Behind!OnKde' /\ Behind!OnWayland' /\ Behind!OfFiles'
BY DEF Behind!OnKde, Behind!OnWayland, Behind!OfFiles, Behind!Wayland, Behind!Gnome

LEMMA BehindWallpaperDrawn ==
  ASSUME BehindKwinOK, BehindLayerOK, Behind!OnWayland, Behind!OfFiles, Behind!WallpaperIsAsSet,
         NEW ok \in BOOLEAN, Behind!Wallpaper(ok),
         UNCHANGED <<v1, v10>>, Behind!Gnome \/ v1 = "hyprland", v12' \in BehindBlurs, v8' => v8,
         ok \/ ~v15' \/ (v15' = v15 /\ v12' = v12)
  PROVE  /\ BehindLayerOK' /\ Behind!OnWayland' /\ Behind!OfFiles' /\ Behind!WallpaperIsAsSet'
         /\ Behind!OnKde'
         /\ v9' \in {v9, TRUE}
<1>1. v1 # "kde"
  BY DEF Behind!Gnome
<1>2. CASE ok
  <2>1. v9' = TRUE /\ v13' = [made |-> IF v13.made = "none" THEN "picture" ELSE v13.made,
                              picture |-> "wallpaper", blur |-> v12']
    BY <1>2 DEF Behind!Wallpaper, Behind!Drawn
  <2>2. v13' \in Behind!LayerTypes /\ v13'.picture = "wallpaper" /\ v13'.blur = v12'
    BY <2>1 DEF BehindLayerOK, Behind!LayerTypes
  <2> QED BY <1>1, <2>1, <2>2 DEF BehindLayerOK, Behind!OnWayland, Behind!Wayland, Behind!OfFiles,
             Behind!Gnome, Behind!WallpaperIsAsSet, Behind!OnKde
<1>3. CASE ~ok
  <2>1. UNCHANGED <<v9, v13>> /\ (~v15' \/ (v15' = v15 /\ v12' = v12))
    BY <1>3 DEF Behind!Wallpaper
  <2>2. BehindLayerOK' /\ Behind!OnWayland' /\ Behind!OnKde'
    BY <1>1, <2>1 DEF BehindLayerOK, Behind!OnWayland, Behind!Wayland, Behind!OnKde
  <2>3. Behind!OfFiles'
    BY <2>1 DEF Behind!OfFiles, Behind!Gnome
  <2>4. Behind!WallpaperIsAsSet'
    BY <2>1 DEF Behind!WallpaperIsAsSet
  <2> QED BY <2>1, <2>2, <2>3, <2>4
<1> QED BY <1>2, <1>3

LEMMA BehindStepPreserves ==
  ASSUME Behind!BackdropAssumption, Behind!IInv, Behind!Next \/ UNCHANGED Behind!vars
  PROVE  Behind!IInv'
<1>0. BehindKwinOK /\ BehindFlagsOK /\ BehindLayerOK /\ Behind!OnKde /\ Behind!OnWayland /\
        Behind!OfFiles /\ Behind!WallpaperIsAsSet /\ Behind!DiesAtTheEnd
  BY BehindParts
<1> USE BehindPartsNext
<1>1. CASE Behind!TrySet
  <2>1. /\ v1 = "kde" /\ ~v16 /\ UNCHANGED <<v1, v3, v4, v5, v8, v9, v11, v12, v13, v14, v15>>
        /\ v6 \in {"none", "retry"}
    BY <1>1 DEF Behind!TrySet, Behind!window, Behind!files
  <2>2. CASE ~v3 /\ v16' = TRUE /\ UNCHANGED <<v6, v7, v2, v10>>
    BY <1>0, <2>1, <2>2, BehindUntouched DEF BehindKwinOK, BehindFlagsOK, BehindLayerOK,
       Behind!Excused, Behind!WallpaperIsAsSet, Behind!DiesAtTheEnd
  <2>3. CASE v3 /\ UNCHANGED v16
    <3>1. CASE v6' = "connect" /\ UNCHANGED <<v7, v2, v10>>
      BY <1>0, <2>1, <2>3, <3>1, BehindUntouched DEF BehindKwinOK, BehindFlagsOK, BehindLayerOK,
         Behind!Excused, Behind!WallpaperIsAsSet, Behind!DiesAtTheEnd
    <3>2. CASE v7 < BehindAttempts /\ v6' = "retry" /\ v7' = v7 + 1 /\ UNCHANGED <<v2, v10>>
      <4>1. v7 + 1 \in 0..BehindAttempts
        BY <1>0, <3>2 DEF BehindKwinOK, Behind!BackdropAssumption
      <4>2. BehindKwinOK'
        BY <1>0, <2>1, <3>2, <4>1 DEF BehindKwinOK
      <4> QED BY <1>0, <2>1, <2>3, <3>2, <4>2, BehindUntouched DEF BehindFlagsOK, BehindLayerOK,
                 Behind!Excused, Behind!WallpaperIsAsSet, Behind!DiesAtTheEnd
    <3>3. CASE v6' = "refused" /\ UNCHANGED v7 /\ v2' = TRUE /\ Behind!Refresh
      <4>1. v10' \in Nat /\ Behind!OnKde' /\ Behind!OnWayland'
        BY <1>0, <2>1, <3>3, BehindRefreshed DEF Behind!Excused
      <4>2. BehindKwinOK' /\ BehindFlagsOK' /\ BehindLayerOK'
        BY <1>0, <2>1, <2>3, <3>3, <4>1 DEF BehindKwinOK, BehindFlagsOK, BehindLayerOK
      <4> QED BY <1>0, <2>1, <2>3, <4>1, <4>2 DEF Behind!OfFiles, Behind!Gnome,
                 Behind!WallpaperIsAsSet, Behind!DiesAtTheEnd
    <3> QED BY <1>1, <2>1, <2>3, <3>1, <3>2, <3>3 DEF Behind!TrySet
  <2> QED BY <1>1, <2>2, <2>3 DEF Behind!TrySet, Behind!kwin
<1>2. CASE Behind!Connected
  <2>1. UNCHANGED <<v1, v3, v4, v5, v8, v9, v11, v12, v13, v14, v15, v16, v7>> /\ v6 = "connect"
    BY <1>2 DEF Behind!Connected, Behind!window, Behind!files
  <2>2. CASE v6' = "intern" /\ UNCHANGED <<v2, v10>>
    BY <1>0, <2>1, <2>2, BehindUntouched DEF BehindKwinOK, BehindFlagsOK, BehindLayerOK,
       Behind!Excused, Behind!WallpaperIsAsSet, Behind!DiesAtTheEnd
  <2>3. CASE v6' = "refused" /\ v2' = TRUE /\ Behind!Refresh
    <3>1. v10' \in Nat /\ Behind!OnKde' /\ Behind!OnWayland'
      BY <1>0, <2>1, <2>3, BehindRefreshed DEF Behind!Excused
    <3>2. BehindKwinOK' /\ BehindFlagsOK' /\ BehindLayerOK'
      BY <1>0, <2>1, <2>3, <3>1 DEF BehindKwinOK, BehindFlagsOK, BehindLayerOK
    <3> QED BY <1>0, <2>1, <3>1, <3>2 DEF Behind!OfFiles, Behind!Gnome, Behind!WallpaperIsAsSet,
               Behind!DiesAtTheEnd
  <2> QED BY <1>2, <2>2, <2>3 DEF Behind!Connected
<1>3. CASE Behind!Interned
  <2>1. /\ UNCHANGED <<v7, v1, v2, v3, v4, v5, v8, v9, v10, v11, v12, v13, v14, v15, v16>>
        /\ v6 = "intern" /\ v6' \in {"set", "refused"}
    BY <1>3 DEF Behind!Interned, Behind!window, Behind!files
  <2> QED BY <1>0, <2>1, BehindUntouched DEF BehindKwinOK, BehindFlagsOK, BehindLayerOK,
             Behind!Excused, Behind!WallpaperIsAsSet, Behind!DiesAtTheEnd
<1>4. CASE Behind!ShowWindow
  <2>1. /\ v3 /\ v4' = TRUE
        /\ UNCHANGED <<v1, v3, v5, v6, v7, v11, v14, v15, v16, v12, v2>>
    BY <1>4 DEF Behind!ShowWindow, Behind!kwin
  <2>2. BehindKwinOK' /\ (Behind!Excused <=> Behind!Excused') /\ Behind!DiesAtTheEnd'
    BY <1>0, <2>1 DEF BehindKwinOK, Behind!Excused, Behind!DiesAtTheEnd
  <2>3. CASE v5
    <3>1. UNCHANGED <<v8, v9, v13, v10>>
      BY <1>4, <2>3 DEF Behind!ShowWindow, Behind!files
    <3> QED BY <1>0, <2>1, <2>2, <3>1, BehindUntouched DEF BehindFlagsOK, BehindLayerOK,
               Behind!WallpaperIsAsSet
  <2>4. CASE ~v5 /\ v1 = "hyprland"
    <3>1. UNCHANGED <<v8, v10>> /\ \E ok \in BOOLEAN : Behind!Wallpaper(ok)
      BY <1>4, <2>4 DEF Behind!ShowWindow
    <3>2. /\ BehindLayerOK' /\ Behind!OnWayland' /\ Behind!OfFiles' /\ Behind!WallpaperIsAsSet'
          /\ Behind!OnKde' /\ v9' \in {v9, TRUE}
      BY <1>0, <2>1, <2>4, <3>1, BehindWallpaperDrawn DEF BehindLayerOK
    <3>3. BehindFlagsOK'
      <4>1. v9' \in BOOLEAN
        BY <1>0, <3>2 DEF BehindFlagsOK
      <4> QED BY <1>0, <2>1, <3>1, <4>1 DEF BehindFlagsOK
    <3> QED BY <2>2, <3>2, <3>3
  <2>5. CASE ~v5 /\ v1 # "hyprland" /\ Behind!Gnome
    <3>1. v8' = TRUE /\ UNCHANGED <<v9, v13, v10>>
      BY <1>4, <2>5 DEF Behind!ShowWindow
    <3>2. Behind!OnKde' /\ Behind!OnWayland' /\ Behind!OfFiles' /\ Behind!WallpaperIsAsSet'
      BY <1>0, <2>1, <2>2, <2>5, <3>1 DEF Behind!OnKde, Behind!OnWayland, Behind!Wayland,
         Behind!OfFiles, Behind!Gnome, Behind!WallpaperIsAsSet
    <3>3. BehindFlagsOK' /\ BehindLayerOK'
      BY <1>0, <2>1, <3>1 DEF BehindFlagsOK, BehindLayerOK
    <3> QED BY <2>2, <3>2, <3>3
  <2>6. CASE ~v5 /\ v1 # "hyprland" /\ ~Behind!Gnome
    <3>1. Behind!Refresh /\ UNCHANGED <<v8, v9, v13>>
      BY <1>4, <2>6 DEF Behind!ShowWindow, Behind!files
    <3>2. v10' \in Nat /\ Behind!OnKde' /\ Behind!OnWayland'
      BY <1>0, <2>1, <2>2, <3>1, BehindRefreshed DEF Behind!OnKde
    <3>3. BehindFlagsOK' /\ BehindLayerOK' /\ Behind!OfFiles' /\ Behind!WallpaperIsAsSet'
      BY <1>0, <2>1, <3>1, <3>2 DEF BehindFlagsOK, BehindLayerOK, Behind!OfFiles, Behind!Gnome,
         Behind!WallpaperIsAsSet
    <3> QED BY <2>2, <3>2, <3>3
  <2> QED BY <2>3, <2>4, <2>5, <2>6
<1>5. CASE Behind!Found
  <2>1. /\ v8 /\ v8' = FALSE
        /\ UNCHANGED <<v1, v3, v4, v5, v6, v7, v11, v14, v15, v16, v12, v2>>
    BY <1>5 DEF Behind!Found, Behind!kwin, Behind!window
  <2>2. BehindKwinOK' /\ (Behind!Excused <=> Behind!Excused') /\ Behind!DiesAtTheEnd' /\
          Behind!Gnome
    BY <1>0, <2>1 DEF BehindKwinOK, Behind!Excused, Behind!DiesAtTheEnd, Behind!OfFiles
  <2>3. CASE UNCHANGED <<v9, v13, v10>>
    BY <1>0, <2>1, <2>2, <2>3, BehindUntouched DEF BehindFlagsOK, BehindLayerOK,
       Behind!WallpaperIsAsSet
  <2>4. CASE Behind!Wallpaper(TRUE) /\ UNCHANGED v10
    <3>1. /\ BehindLayerOK' /\ Behind!OnWayland' /\ Behind!OfFiles' /\ Behind!WallpaperIsAsSet'
          /\ Behind!OnKde' /\ v9' \in {v9, TRUE}
      BY <1>0, <2>1, <2>2, <2>4, BehindWallpaperDrawn DEF BehindLayerOK
    <3>2. v9' \in BOOLEAN
      BY <1>0, <3>1 DEF BehindFlagsOK
    <3>3. BehindFlagsOK'
      BY <1>0, <2>1, <2>4, <3>2 DEF BehindFlagsOK
    <3> QED BY <2>2, <3>1, <3>3
  <2>5. CASE Behind!Wallpaper(FALSE) /\ Behind!Refresh
    <3>1. UNCHANGED <<v9, v13>>
      BY <2>5 DEF Behind!Wallpaper
    <3>2. v10' \in Nat /\ Behind!OnKde' /\ Behind!OnWayland'
      BY <1>0, <2>1, <2>2, <2>5, <3>1, BehindRefreshed DEF Behind!OnKde
    <3>3. BehindFlagsOK' /\ BehindLayerOK' /\ Behind!OfFiles' /\ Behind!WallpaperIsAsSet'
      BY <1>0, <2>1, <3>1, <3>2 DEF BehindFlagsOK, BehindLayerOK, Behind!OfFiles, Behind!Gnome,
         Behind!WallpaperIsAsSet
    <3> QED BY <2>2, <3>2, <3>3
  <2> QED BY <1>5, <2>3, <2>4, <2>5 DEF Behind!Found
<1>6. CASE Behind!Captured
  <2>1. /\ v10 > 0 /\ v10' = v10 - 1
        /\ UNCHANGED <<v1, v2, v3, v4, v5, v6, v7, v8, v9, v11, v14, v12>>
    BY <1>6 DEF Behind!Captured, Behind!window, Behind!kwin, Behind!files
  <2>2. v10' \in Nat /\ (v1 = "kde" => Behind!Excused') /\ ~Behind!Wayland
    BY <1>0, <2>1 DEF BehindFlagsOK, Behind!OnKde, Behind!OnWayland, Behind!Excused
  <2>3. BehindKwinOK' /\ Behind!OnWayland' /\ Behind!OfFiles'
    BY <1>0, <2>1, <2>2 DEF BehindKwinOK, Behind!OnWayland, Behind!Wayland, Behind!OfFiles,
       Behind!Gnome
  <2>4. Behind!OnKde'
    BY <1>0, <2>1, <2>2 DEF Behind!OnKde
  <2>5. /\ v13' \in {v13, [Behind!NoLayer EXCEPT !.made = "solid"]}
           \/ v13' = [made |-> IF v13.made = "none" THEN "picture" ELSE v13.made,
                picture |-> "screen", blur |-> v12]
        /\ v15' = v15 \/ v15' = FALSE
        /\ v16' = v16 \/ (v16' = TRUE /\ ~v3)
    BY <1>6, <2>1 DEF Behind!Captured, Behind!Drawn
  <2>6. v13' \in Behind!LayerTypes /\ (v13' = v13 \/ v13'.picture # "wallpaper")
    BY <1>0, <2>5 DEF BehindLayerOK, Behind!LayerTypes, Behind!NoLayer
  <2>7. v15' \in BOOLEAN /\ (v15' => v15) /\ v16' \in BOOLEAN
    <3>1. v15 \in BOOLEAN /\ v16 \in BOOLEAN
      BY <1>0 DEF BehindFlagsOK
    <3>2. v15' = v15 \/ v15' = FALSE
      BY <2>5
    <3>3. v16' = v16 \/ v16' = TRUE
      BY <2>5
    <3>a. v15' = v15 => v15' \in BOOLEAN /\ (v15' => v15)
      BY <3>1
    <3>b. v15' = FALSE => v15' \in BOOLEAN /\ (v15' => v15)
      OBVIOUS
    <3>4. v15' \in BOOLEAN /\ (v15' => v15)
      BY <3>2, <3>a, <3>b
    <3>5. v16' \in BOOLEAN
      BY <3>1, <3>3
    <3> QED BY <3>4, <3>5
  <2>8. BehindFlagsOK' /\ BehindLayerOK' /\ Behind!WallpaperIsAsSet' /\ Behind!DiesAtTheEnd'
    BY <1>0, <2>1, <2>2, <2>5, <2>6, <2>7 DEF BehindFlagsOK, BehindLayerOK,
       Behind!WallpaperIsAsSet, Behind!DiesAtTheEnd
  <2> QED BY <2>3, <2>4, <2>8
<1>7. CASE Behind!Move \/ UNCHANGED Behind!vars
  <2>1. /\ UNCHANGED <<v1, v2, v3, v4, v5, v6, v7, v8, v9, v10, v12, v13, v14, v15, v16>>
        /\ v11' = v11 \/ v11' = TRUE
    BY <1>7 DEF Behind!Move, Behind!vars, Behind!window, Behind!kwin, Behind!files
  <2>2. v11' \in BOOLEAN
    BY <1>0, <2>1 DEF BehindFlagsOK
  <2> QED BY <1>0, <2>1, <2>2, BehindUntouched DEF BehindKwinOK, BehindFlagsOK, BehindLayerOK,
             Behind!Excused, Behind!WallpaperIsAsSet, Behind!DiesAtTheEnd
<1>8. CASE Behind!MoveSettles \/ Behind!GpuCrash
  <2>1. /\ Behind!Refresh /\ v11' \in {v11, FALSE} /\
             (UNCHANGED <<v2, v14>> \/ (v14' = TRUE /\ v2' = TRUE))
        /\ UNCHANGED <<v1, v3, v4, v5, v6, v7, v8, v9, v12, v13, v15, v16>>
    BY <1>8 DEF Behind!MoveSettles, Behind!GpuCrash, Behind!window, Behind!kwin, Behind!files
  <2>2. v10' \in Nat /\ Behind!OnKde' /\ Behind!OnWayland'
    <3>1. (Behind!Excused => Behind!Excused') /\ (v1 = "kde" /\ v2' => Behind!Excused')
      BY <1>0, <2>1 DEF Behind!Excused, Behind!OnKde
    <3> QED BY <1>0, <2>1, <3>1, BehindRefreshed
  <2>3. v11' \in BOOLEAN /\ v2' \in BOOLEAN /\ v14' \in BOOLEAN
    BY <1>0, <2>1 DEF BehindFlagsOK
  <2>4. BehindFlagsOK' /\ BehindKwinOK' /\ BehindLayerOK' /\ Behind!OfFiles' /\
          Behind!WallpaperIsAsSet' /\ Behind!DiesAtTheEnd'
    BY <1>0, <2>1, <2>2, <2>3 DEF BehindFlagsOK, BehindKwinOK, BehindLayerOK, Behind!OfFiles,
       Behind!Gnome, Behind!WallpaperIsAsSet, Behind!DiesAtTheEnd
  <2> QED BY <2>2, <2>4
<1>9. CASE Behind!MoveSlider
  <2>1. /\ v12' \in BehindBlurs
        /\ UNCHANGED <<v1, v2, v3, v4, v5, v6, v7, v8, v10, v11, v14, v16>>
        /\ \/ v9 /\ Behind!Wallpaper(TRUE) /\ UNCHANGED v15
           \/ v9 /\ Behind!Wallpaper(FALSE) /\ v15' = FALSE
           \/ ~v9 /\ UNCHANGED <<v9, v13, v15>>
    BY <1>9 DEF Behind!MoveSlider, Behind!window, Behind!kwin, Behind!files
  <2>2. BehindKwinOK' /\ Behind!DiesAtTheEnd' /\ (Behind!Excused <=> Behind!Excused')
    BY <1>0, <2>1 DEF BehindKwinOK, Behind!DiesAtTheEnd, Behind!Excused
  <2>3. CASE v9
    <3>1. v15' \in BOOLEAN /\ \E ok \in BOOLEAN : Behind!Wallpaper(ok) /\ (ok \/ ~v15')
      BY <1>0, <2>1, <2>3 DEF BehindFlagsOK
    <3>2. BehindLayerOK' /\ Behind!OnWayland' /\ Behind!OfFiles' /\ Behind!WallpaperIsAsSet' /\
            Behind!OnKde' /\ v9' \in {v9, TRUE}
      BY <1>0, <2>1, <2>3, <3>1, BehindWallpaperDrawn DEF Behind!OfFiles
    <3>3. v9' \in BOOLEAN
      BY <1>0, <3>2 DEF BehindFlagsOK
    <3>4. BehindFlagsOK'
      BY <1>0, <2>1, <3>1, <3>3 DEF BehindFlagsOK
    <3> QED BY <2>2, <3>2, <3>4
  <2>4. CASE ~v9
    <3>1. UNCHANGED <<v9, v13, v15>>
      BY <2>1, <2>4
    <3>2. Behind!OnKde' /\ Behind!OnWayland' /\ Behind!OfFiles'
      BY <1>0, <2>1, <2>2, <3>1, BehindUntouched
    <3>3. BehindFlagsOK' /\ BehindLayerOK' /\ Behind!WallpaperIsAsSet'
      BY <1>0, <2>1, <2>4, <3>1 DEF BehindFlagsOK, BehindLayerOK, Behind!WallpaperIsAsSet
    <3> QED BY <2>2, <3>2, <3>3
  <2> QED BY <2>3, <2>4
<1>10. CASE Behind!Load
  <2>1. /\ v13' = Behind!NoLayer /\ v15' = FALSE
        /\ UNCHANGED <<v1, v2, v3, v4, v5, v6, v7, v8, v9, v10, v11, v12, v14, v16>>
    BY <1>10 DEF Behind!Load, Behind!window, Behind!kwin, Behind!files
  <2>2. BehindKwinOK' /\ BehindFlagsOK' /\ BehindLayerOK'
    BY <1>0, <2>1 DEF BehindKwinOK, BehindFlagsOK, BehindLayerOK, Behind!NoLayer, Behind!LayerTypes
  <2>3. Behind!OnKde' /\ Behind!OnWayland' /\ Behind!OfFiles' /\ Behind!WallpaperIsAsSet' /\
          Behind!DiesAtTheEnd'
    BY <1>0, <2>1 DEF Behind!OnKde, Behind!Excused, Behind!OnWayland, Behind!Wayland,
       Behind!NoLayer, Behind!OfFiles, Behind!Gnome, Behind!WallpaperIsAsSet, Behind!DiesAtTheEnd
  <2> QED BY <2>2, <2>3
<1>11. CASE Behind!Closed
  <2>1. /\ v3' = FALSE
        /\ UNCHANGED <<v1, v2, v4, v5, v6, v7, v8, v9, v10, v11, v12, v13, v14, v15, v16>>
    BY <1>11 DEF Behind!Closed, Behind!kwin, Behind!files
  <2>2. BehindKwinOK' /\ BehindFlagsOK' /\ BehindLayerOK'
    BY <1>0, <2>1 DEF BehindKwinOK, BehindFlagsOK, BehindLayerOK
  <2>3. Behind!OnKde' /\ Behind!OnWayland' /\ Behind!OfFiles'
    BY <1>0, <2>1, BehindUntouched DEF Behind!Excused
  <2>4. Behind!WallpaperIsAsSet' /\ Behind!DiesAtTheEnd'
    BY <1>0, <2>1 DEF Behind!WallpaperIsAsSet, Behind!DiesAtTheEnd
  <2> QED BY <2>2, <2>3, <2>4
<1> QED BY <1>1, <1>2, <1>3, <1>4, <1>5, <1>6, <1>7, <1>8, <1>9, <1>10, <1>11 DEF Behind!Next,
           Behind!Kwin

LEMMA BehindTrustHolds == Behind!IInv => Behind!CompositorIsTrusted
<1>1. Behind!IInv => (v1 = "kde" =>
        (v10 > 0 => Behind!Excused) /\ (~Behind!Excused => v13 = Behind!NoLayer))
      /\ (Behind!Wayland => v10 = 0 /\ v13.picture # "screen")
  BY DEF Behind!IInv, Behind!OnKde, Behind!OnWayland
<1> QED BY <1>1 DEF Behind!CompositorIsTrusted, Behind!Excused


-----------------------------------------------------------------------------
(* The settings dialog (SettingsDialog), and that its invariant holds at the start and is kept by
   each step. *)
Settings == INSTANCE SettingsDialog WITH
  MaxUser <- SettingsMaxUser, MaxDrm <- SettingsMaxDrm, drm <- v1, prefs <- v2, streaming <- v3,
  export <- v4, dialog <- v5, loads <- v6, content <- v7, answers <- v8, requests <- v9,
  wanted <- v10, user <- v11, changes <- v12

\* The engine's side and the window; the preferences; the openings and what they render.
SettingsDrmOK == /\ v1 \in Settings!Drm /\ v8 \subseteq Settings!Drm
                 /\ v9 \subseteq Settings!Requests /\ v4 \in Settings!Quality \cup {"none"}
                 /\ v5 \in {"closed", "open", "closing"} /\ v10 \in BOOLEAN
SettingsPrefsOK == v2 \in Settings!PrefsTypes /\ v3 \in Settings!Quality /\ Settings!AacWhenOff
SettingsLoadsOK == /\ v6 \subseteq Settings!LoadTypes
                   /\ \A l, m \in v6 : l.newest /\ m.newest => l = m /\ v7 = <<>>
                   /\ \A l \in v6 : l.newest /\ l.built => l.prefs = v2
SettingsContentOK == /\ v7 \in Seq(Settings!SectionTypes) /\ Len(v7) <= 1
                     /\ \A i \in DOMAIN v7 : v7[i].on => v2.lossless

LEMMA SettingsParts == Settings!IInv <=>
  SettingsDrmOK /\ SettingsPrefsOK /\ SettingsLoadsOK /\ SettingsContentOK
<1>1. Settings!AacWhenOff \in BOOLEAN
  BY DEF Settings!AacWhenOff
<1> QED BY <1>1 DEF Settings!IInv, Settings!TypeOK, Settings!DialogIsTrue, Settings!OneRender,
           SettingsDrmOK, SettingsPrefsOK, SettingsLoadsOK, SettingsContentOK
LEMMA SettingsPartsNext == SettingsDrmOK' /\ SettingsPrefsOK' /\ SettingsLoadsOK' /\
  SettingsContentOK' => Settings!IInv'
BY DEF Settings!IInv, Settings!TypeOK, Settings!DialogIsTrue, Settings!OneRender, SettingsDrmOK,
   SettingsPrefsOK, SettingsLoadsOK, SettingsContentOK

LEMMA SettingsInitEstablishes ==
  ASSUME Settings!SettingsAssumption, Settings!Init
  PROVE  Settings!IInv
<1>1. SettingsDrmOK
  BY DEF Settings!Init, SettingsDrmOK, Settings!Drm
<1>2. SettingsPrefsOK
  BY DEF Settings!Init, SettingsPrefsOK, Settings!PrefsTypes, Settings!Quality, Settings!AacWhenOff
<1>3. SettingsLoadsOK /\ SettingsContentOK
  BY DEF Settings!Init, SettingsLoadsOK, SettingsContentOK
<1> QED BY <1>1, <1>2, <1>3, SettingsParts

\* An opening becomes the newest.
LEMMA SettingsOpens ==
  ASSUME SettingsDrmOK, SettingsPrefsOK, SettingsLoadsOK, Settings!OpenSettings,
         UNCHANGED <<v2, v3>>
  PROVE  SettingsPrefsOK' /\ SettingsLoadsOK' /\ SettingsContentOK' /\
           v5' \in {"closed", "open", "closing"}
<1> DEFINE n == [newest |-> TRUE, built |-> FALSE, drm |-> v1, prefs |-> v2]
           older == {[l EXCEPT !.newest = FALSE] : l \in v6}
<1>1. v7' = <<>> /\ v6' = older \cup {n}
  BY DEF Settings!OpenSettings
<1>2. n \in Settings!LoadTypes
  BY DEF SettingsDrmOK, SettingsPrefsOK, Settings!LoadTypes
<1>3. ASSUME NEW l \in older PROVE l \in Settings!LoadTypes /\ ~l.newest
  BY DEF SettingsLoadsOK, Settings!LoadTypes
<1>4. n.newest /\ ~n.built
  OBVIOUS
<1> HIDE DEF n, older
<1>5. SettingsLoadsOK'
  BY <1>1, <1>2, <1>3, <1>4 DEF SettingsLoadsOK
<1>6. SettingsContentOK'
  BY <1>1 DEF SettingsContentOK
<1>7. SettingsPrefsOK' /\ v5' \in {"closed", "open", "closing"}
  BY DEF SettingsPrefsOK, Settings!AacWhenOff, Settings!OpenSettings, SettingsDrmOK
<1> QED BY <1>5, <1>6, <1>7

\* A control of the dialog's sections sets preferences; r is its section afterwards.
LEMMA SettingsSets ==
  ASSUME SettingsLoadsOK, SettingsContentOK, NEW i \in DOMAIN v7,
         NEW r \in Settings!SectionTypes, v2' \in Settings!PrefsTypes,
         v7' = [v7 EXCEPT ![i] = r], r.on => v2'.lossless, UNCHANGED v6
  PROVE  SettingsLoadsOK' /\ SettingsContentOK'
<1>0. DOMAIN v7 = 1..Len(v7) /\ Len(v7) \in Nat /\ Len(v7) <= 1
  BY DEF SettingsContentOK
<1>1. i = 1 /\ DOMAIN v7 = {1} /\ Len(v7) = 1
  BY <1>0
<1>2. v7' \in Seq(Settings!SectionTypes) /\ Len(v7') = 1 /\ DOMAIN v7' = {1} /\ v7'[1] = r
  BY <1>1 DEF SettingsContentOK
<1>3. \A l \in v6 : ~l.newest
  BY <1>1 DEF SettingsLoadsOK
<1> QED BY <1>2, <1>3 DEF SettingsLoadsOK, SettingsContentOK

LEMMA SettingsStepPreserves ==
  ASSUME Settings!SettingsAssumption, Settings!IInv, Settings!Next \/ UNCHANGED Settings!vars
  PROVE  Settings!IInv'
<1>0. SettingsDrmOK /\ SettingsPrefsOK /\ SettingsLoadsOK /\ SettingsContentOK
  BY SettingsParts
<1> USE SettingsPartsNext
<1>1. ASSUME NEW l \in v6, Settings!StatusLoaded(l) PROVE Settings!IInv'
  <2> DEFINE m == [l EXCEPT !.built = TRUE, !.drm = v1, !.prefs = v2]
  <2>1. /\ v6' = (v6 \ {l}) \cup IF l.newest THEN {m} ELSE {}
        /\ UNCHANGED <<v1, v2, v3, v4, v5, v7, v10, v8, v9>>
    BY <1>1 DEF Settings!StatusLoaded, Settings!page
  <2>2. m \in Settings!LoadTypes /\ m.newest = l.newest /\ m.prefs = v2
    BY <1>0 DEF SettingsLoadsOK, Settings!LoadTypes, SettingsDrmOK, SettingsPrefsOK
  <2> HIDE DEF m
  <2>3. SettingsLoadsOK'
    BY <1>0, <2>1, <2>2 DEF SettingsLoadsOK
  <2> QED BY <1>0, <2>1, <2>3 DEF SettingsDrmOK, SettingsPrefsOK, Settings!AacWhenOff,
             SettingsContentOK
<1>2. ASSUME NEW l \in v6, Settings!SectionsBuilt(l) PROVE Settings!IInv'
  <2>1. /\ l.built /\ v6' = v6 \ {l} /\
             v7' = IF l.newest THEN Append(v7, Settings!Section(l)) ELSE v7
        /\ UNCHANGED <<v1, v2, v3, v4, v5, v10, v8, v9>>
    BY <1>2 DEF Settings!SectionsBuilt, Settings!Current, Settings!page
  <2>2. Settings!Section(l) \in Settings!SectionTypes /\
          (Settings!Section(l).on => l.prefs.lossless)
    BY <1>0 DEF SettingsLoadsOK, Settings!LoadTypes, Settings!Section, Settings!SectionTypes,
       Settings!PrefsTypes, Settings!SignedIn, Settings!IsResolved
  <2>3. CASE l.newest
    <3>1. v7 = <<>> /\ l.prefs = v2 /\ \A m \in v6' : ~m.newest
      BY <1>0, <2>1, <2>3 DEF SettingsLoadsOK
    <3>2. v7' = <<Settings!Section(l)>>
      BY <2>1, <2>3, <3>1
    <3>3. v7' \in Seq(Settings!SectionTypes) /\ Len(v7') = 1 /\ DOMAIN v7' = {1} /\
            v7'[1] = Settings!Section(l)
      BY <2>2, <3>2
    <3>4. SettingsContentOK'
      BY <2>1, <2>2, <3>1, <3>3 DEF SettingsContentOK
    <3> QED BY <1>0, <2>1, <3>1, <3>4 DEF SettingsDrmOK, SettingsPrefsOK, Settings!AacWhenOff,
               SettingsLoadsOK
  <2>4. CASE ~l.newest
    BY <1>0, <2>1, <2>4 DEF SettingsDrmOK, SettingsPrefsOK, Settings!AacWhenOff, SettingsLoadsOK,
       SettingsContentOK
  <2> QED BY <2>3, <2>4
<1>3. ASSUME NEW from \in v8, Settings!StatusAnswer(from) PROVE Settings!IInv'
  <2>1. v8' = v8 \ {from} /\ UNCHANGED <<v1, v2, v3, v4, v10, v9>>
    BY <1>3 DEF Settings!StatusAnswer, Settings!page
  <2>2. CASE Settings!OpenSettings
    BY <1>0, <2>1, <2>2, SettingsOpens DEF SettingsDrmOK
  <2>3. CASE UNCHANGED <<v6, v5>> /\ (Settings!StopPoll(from) \/ UNCHANGED v7)
    <3>1. /\ Len(v7') = Len(v7) /\ DOMAIN v7' = DOMAIN v7 /\ v7' \in Seq(Settings!SectionTypes)
          /\ \A i \in DOMAIN v7 : v7'[i].on = v7[i].on
      <4>1. CASE Settings!StopPoll(from)
        <5> DEFINE s(i) == IF v7[i].drm = from THEN [v7[i] EXCEPT !.polling = FALSE] ELSE v7[i]
        <5>1. v7' = [i \in DOMAIN v7 |-> s(i)]
          BY <4>1 DEF Settings!StopPoll
        <5>2. ASSUME NEW i \in DOMAIN v7 PROVE s(i) \in Settings!SectionTypes /\ s(i).on = v7[i].on
          <6>1. v7[i] \in Settings!SectionTypes
            BY <1>0 DEF SettingsContentOK
          <6> QED BY <6>1 DEF Settings!SectionTypes
        <5> HIDE DEF s
        <5>3. DOMAIN v7 = 1..Len(v7) /\ Len(v7) \in Nat
          BY <1>0 DEF SettingsContentOK
        <5> QED BY <5>1, <5>2, <5>3
      <4>2. CASE UNCHANGED v7
        BY <1>0, <4>2 DEF SettingsContentOK
      <4> QED BY <2>3, <4>1, <4>2
    <3>2. SettingsContentOK'
      BY <1>0, <2>1, <3>1 DEF SettingsContentOK
    <3>3. v7 = <<>> => v7' = <<>>
      BY <3>1
    <3> QED BY <1>0, <2>1, <2>3, <3>2, <3>3 DEF SettingsDrmOK, SettingsPrefsOK,
               Settings!AacWhenOff, SettingsLoadsOK
  <2> QED BY <1>3, <2>2, <2>3 DEF Settings!StatusAnswer
<1>4. ASSUME NEW r \in v9, Settings!RequestEnds(r) PROVE Settings!IInv'
  <2>1. /\ v9' = v9 \ {r} /\ Settings!OpenSettings /\ v1' \in {v1, "out"}
        /\ UNCHANGED <<v2, v3, v4, v10, v8>>
    BY <1>4 DEF Settings!RequestEnds, Settings!page
  <2> QED BY <1>0, <2>1, SettingsOpens DEF SettingsDrmOK, Settings!Drm
<1>5. ASSUME NEW i \in DOMAIN v7,
             Settings!StatusTick(i) \/ Settings!Refresh(i) \/ Settings!ToggleLossless(i) \/
               Settings!ResetStreaming(i)
             \/ (\E r \in Settings!Requests : Settings!PressRequest(i, r)) \/
                  \E q \in Settings!Quality : Settings!PickStreaming(i, q) \/
                    Settings!PickDownload(i, q)
      PROVE  Settings!IInv'
  <2>0. v7[i] \in Settings!SectionTypes
    BY <1>0 DEF SettingsContentOK
  <2>1. CASE Settings!StatusTick(i)
    <3>1. v8' = v8 \cup {v7[i].drm} /\ v7[i].drm \in Settings!Drm
      BY <2>0, <2>1 DEF Settings!StatusTick, Settings!SectionTypes
    <3>2. UNCHANGED <<v1, v2, v3, v4, v5, v6, v7, v10, v9>>
      BY <2>1 DEF Settings!StatusTick, Settings!page, Settings!dlg
    <3> QED BY <1>0, <3>1, <3>2 DEF SettingsDrmOK, SettingsPrefsOK, Settings!AacWhenOff,
               SettingsLoadsOK, SettingsContentOK
  <2>2. CASE Settings!Refresh(i)
    <3>1. Settings!OpenSettings /\ UNCHANGED <<v1, v2, v3, v4, v10, v8, v9>>
      BY <2>2 DEF Settings!Refresh, Settings!page
    <3> QED BY <1>0, <3>1, SettingsOpens DEF SettingsDrmOK
  <2>3. CASE Settings!ToggleLossless(i)
    <3> DEFINE r == [v7[i] EXCEPT !.on = ~v7[i].on]
    <3>1. /\ v7' = [v7 EXCEPT ![i] = r] /\ v2' = [v2 EXCEPT !.lossless = ~v7[i].on]
          /\ v3' = Settings!QualityAfter(~v7[i].on, v7[i].prefs.streaming)
          /\ UNCHANGED <<v1, v4, v5, v6, v10, v8, v9>>
      BY <2>3 DEF Settings!ToggleLossless
    <3>2. r \in Settings!SectionTypes /\ r.on = ~v7[i].on
      BY <2>0 DEF Settings!SectionTypes
    <3>3. v2' \in Settings!PrefsTypes /\ v2'.lossless = ~v7[i].on
      BY <1>0, <2>0, <3>1 DEF SettingsPrefsOK, Settings!PrefsTypes, Settings!SectionTypes
    <3>4. SettingsPrefsOK'
      BY <2>0, <3>1, <3>3 DEF SettingsPrefsOK, Settings!AacWhenOff, Settings!QualityAfter,
         Settings!SectionTypes, Settings!PrefsTypes, Settings!Quality
    <3> HIDE DEF r
    <3>5. SettingsLoadsOK' /\ SettingsContentOK'
      BY <1>0, <3>1, <3>2, <3>3, SettingsSets
    <3> QED BY <1>0, <3>1, <3>4, <3>5 DEF SettingsDrmOK
  <2>4. CASE Settings!ResetStreaming(i)
    <3> DEFINE r == [v7[i] EXCEPT !.on = TRUE]
    <3>1. /\ v7' = [v7 EXCEPT ![i] = r]
          /\ v2' = [v2 EXCEPT !.lossless = TRUE, !.streaming = "lossless"] /\ v3' = "lossless"
          /\ UNCHANGED <<v1, v4, v5, v6, v10, v8, v9>>
      BY <2>4 DEF Settings!ResetStreaming
    <3>2. r \in Settings!SectionTypes
      BY <2>0 DEF Settings!SectionTypes
    <3>3. v2' \in Settings!PrefsTypes /\ v2'.lossless
      BY <1>0, <3>1 DEF SettingsPrefsOK, Settings!PrefsTypes, Settings!Quality
    <3>4. SettingsPrefsOK'
      BY <3>1, <3>3 DEF SettingsPrefsOK, Settings!AacWhenOff, Settings!Quality
    <3> HIDE DEF r
    <3>5. SettingsLoadsOK' /\ SettingsContentOK'
      BY <1>0, <3>1, <3>2, <3>3, SettingsSets
    <3> QED BY <1>0, <3>1, <3>4, <3>5 DEF SettingsDrmOK
  <2>5. ASSUME NEW r \in Settings!Requests, Settings!PressRequest(i, r) PROVE Settings!IInv'
    <3>1. v9' = v9 \cup {r} /\ UNCHANGED <<v1, v2, v3, v4, v5, v6, v7, v10, v8>>
      BY <2>5 DEF Settings!PressRequest, Settings!page, Settings!dlg
    <3> QED BY <1>0, <3>1 DEF SettingsDrmOK, SettingsPrefsOK, Settings!AacWhenOff,
               SettingsLoadsOK, SettingsContentOK
  <2>6. ASSUME NEW q \in Settings!Quality, Settings!PickStreaming(i, q) PROVE Settings!IInv'
    <3>1. /\ v7[i].on /\ v2' = [v2 EXCEPT !.streaming = q] /\ v3' = q
          /\ UNCHANGED <<v1, v4, v5, v6, v7, v10, v8, v9>>
      BY <2>6 DEF Settings!PickStreaming, Settings!dlg
    <3>2. v2' \in Settings!PrefsTypes /\ v2'.lossless = v2.lossless /\ v2.lossless
      BY <1>0, <3>1 DEF SettingsPrefsOK, Settings!PrefsTypes, SettingsContentOK
    <3>3. v7' = [v7 EXCEPT ![i] = v7[i]]
      BY <1>0, <3>1 DEF SettingsContentOK
    <3>4. SettingsLoadsOK' /\ SettingsContentOK'
      BY <1>0, <2>0, <3>1, <3>2, <3>3, SettingsSets
    <3> QED BY <1>0, <3>1, <3>2, <3>4 DEF SettingsDrmOK, SettingsPrefsOK, Settings!AacWhenOff
  <2>7. ASSUME NEW q \in Settings!Quality, Settings!PickDownload(i, q) PROVE Settings!IInv'
    <3>1. /\ v7[i].on /\ v2' = [v2 EXCEPT !.download = q]
          /\ UNCHANGED <<v1, v3, v4, v5, v6, v7, v10, v8, v9>>
      BY <2>7 DEF Settings!PickDownload, Settings!dlg, Settings!page
    <3>2. v2' \in Settings!PrefsTypes /\ v2'.lossless = v2.lossless /\ v2.lossless
      BY <1>0, <3>1 DEF SettingsPrefsOK, Settings!PrefsTypes, SettingsContentOK
    <3>3. v7' = [v7 EXCEPT ![i] = v7[i]]
      BY <1>0, <3>1 DEF SettingsContentOK
    <3>4. SettingsLoadsOK' /\ SettingsContentOK'
      BY <1>0, <2>0, <3>1, <3>2, <3>3, SettingsSets
    <3> QED BY <1>0, <3>1, <3>2, <3>4 DEF SettingsDrmOK, SettingsPrefsOK, Settings!AacWhenOff
  <2> QED BY <1>5, <2>1, <2>2, <2>3, <2>4, <2>5, <2>6, <2>7
<1>6. CASE Settings!UserOpens
  <2>1. Settings!OpenSettings /\ v10' = TRUE /\ UNCHANGED <<v1, v2, v3, v4, v8, v9>>
    BY <1>6 DEF Settings!UserOpens, Settings!page
  <2> QED BY <1>0, <2>1, SettingsOpens DEF SettingsDrmOK
<1>7. CASE Settings!CloseSettings \/ Settings!AnimationEnds \/ Settings!Download \/
             Settings!DrmChanges \/ UNCHANGED Settings!vars
  <2>1. /\ UNCHANGED <<v2, v3, v6, v7, v8, v9>>
        /\ v1' \in Settings!Drm /\ v5' \in {v5, "closed", "closing"} /\ v10' \in {v10, FALSE}
        /\ v4' \in {v4, "lossless"}
    BY <1>0, <1>7 DEF Settings!CloseSettings, Settings!AnimationEnds, Settings!Download,
       Settings!DrmChanges, Settings!vars, Settings!page, Settings!dlg, SettingsDrmOK
  <2>2. v10' \in BOOLEAN
    BY <1>0, <2>1 DEF SettingsDrmOK
  <2> QED BY <1>0, <2>1, <2>2 DEF SettingsDrmOK, SettingsPrefsOK, Settings!AacWhenOff,
             SettingsLoadsOK, SettingsContentOK, Settings!Quality
<1> QED BY <1>1, <1>2, <1>3, <1>4, <1>5, <1>6, <1>7 DEF Settings!Next


-----------------------------------------------------------------------------
(* The decorations (PageDecor), and that its invariant holds at the start and is kept by
   each step. *)
Decor == INSTANCE PageDecor WITH
  Albums <- DecorAlbums, MaxDom <- DecorMaxDom, MaxTogs <- DecorMaxTogs,
  MaxFaults <- DecorMaxFaults, header <- v1, foot <- v2, ready <- v3, panel <- v4, bar <- v5,
  queued <- v6, statsEl <- v7, restEl <- v8, statsText <- v9, lastText <- v10, enabled <- v11,
  lastSrc <- v12, token <- v13, pending <- v14, waits <- v15, theme <- v16, layers <- v17,
  histEnabled <- v18, section <- v19, portaled <- v20, notices <- v21, doms <- v22, togs <- v23,
  faults <- v24

\* The statistics; the colours; the history; the suggestions.
DecorStatsOK ==
  /\ v1 \in Decor!Pages /\ v2 \in {0, v1} /\ v6 \in BOOLEAN
  /\ v7 \in {"none", "out", "in"} /\ v8 \in {"none", "out", "in"}
  /\ v9 \in Decor!Pages /\ v10 \in Decor!Pages \cup {-1}
  /\ v8 = "in" => v2 # 0
  /\ v7 = "in" => v10 \in {-1, v9} \/ (v9 = 0 /\ v8 = "out")
  /\ ~v6 => /\ v1 = 0 => v7 = "none"
            /\ v1 # 0 => v7 = "in" /\ v9 = v2
DecorArtOK ==
  /\ v1 \in Decor!Pages /\ v3 \in BOOLEAN /\ v11 \in BOOLEAN /\ v13 \in Nat
  /\ v12 \in Decor!Pages /\ v16 \in Decor!Pages /\ (~v11 => v16 = 0)
  /\ \A c \in v14 : c[1] \in 1..v13 /\ c[2] \in DecorAlbums
DecorHistOK ==
  /\ v6 \in BOOLEAN /\ v4 \in BOOLEAN /\ v19 \in BOOLEAN /\ v18 \in BOOLEAN
  /\ (v19 => v4) /\ (~v6 => v19 = (v4 /\ v18))
DecorSearchOK == v5 \in {"none", "bar", "body"}

LEMMA DecorParts == Decor!IInv <=> DecorStatsOK /\ DecorArtOK /\ DecorHistOK /\ DecorSearchOK
<1>1. Decor!IInv => DecorStatsOK
  BY DEF Decor!IInv, Decor!TypeOK, Decor!SettledIsDecorated, DecorStatsOK
<1>2. Decor!IInv => DecorArtOK /\ DecorHistOK /\ DecorSearchOK
  BY DEF Decor!IInv, Decor!TypeOK, Decor!SettledIsDecorated, Decor!OffShowsNoTheme, DecorArtOK,
     DecorHistOK, DecorSearchOK
<1>3. DecorStatsOK /\ DecorArtOK /\ DecorHistOK /\ DecorSearchOK =>
        Decor!TypeOK /\ Decor!SettledIsDecorated /\ Decor!OffShowsNoTheme
  BY DEF Decor!TypeOK, Decor!SettledIsDecorated, Decor!OffShowsNoTheme, DecorStatsOK, DecorArtOK,
     DecorHistOK, DecorSearchOK
<1>4. DecorStatsOK /\ DecorArtOK /\ DecorHistOK /\ DecorSearchOK => Decor!IInv
  BY <1>3 DEF Decor!IInv, DecorStatsOK
<1> QED BY <1>1, <1>2, <1>4
LEMMA DecorPartsNext == DecorStatsOK' /\ DecorArtOK' /\ DecorHistOK' /\ DecorSearchOK' =>
  Decor!IInv'
<1>1. DecorStatsOK' /\ DecorArtOK' /\ DecorHistOK' /\ DecorSearchOK' =>
        (Decor!TypeOK /\ Decor!SettledIsDecorated /\ Decor!OffShowsNoTheme)'
  BY DEF Decor!TypeOK, Decor!SettledIsDecorated, Decor!OffShowsNoTheme, DecorStatsOK, DecorArtOK,
     DecorHistOK, DecorSearchOK
<1> QED BY <1>1 DEF Decor!IInv, DecorStatsOK

LEMMA DecorInitEstablishes ==
  ASSUME Decor!DecorAssumption, Decor!Init
  PROVE  Decor!IInv
<1> USE DEF Decor!DecorAssumption, Decor!Init, Decor!Pages
<1>1. DecorStatsOK
  BY DEF DecorStatsOK
<1>2. DecorArtOK
  BY DEF DecorArtOK
<1>3. DecorHistOK /\ DecorSearchOK
  BY DEF DecorHistOK, DecorSearchOK
<1> QED BY <1>1, <1>2, <1>3, DecorParts

\* A step that only asks for a frame, if it does.
DecorAsks == v6' \in BOOLEAN /\ (v6 => v6')

LEMMA DecorStatsStay ==
  ASSUME DecorStatsOK, DecorAsks, UNCHANGED <<v1, v2, Decor!stats>>
  PROVE  DecorStatsOK'
BY DEF DecorStatsOK, DecorAsks, Decor!stats

LEMMA DecorHistStays ==
  ASSUME DecorHistOK, DecorAsks, UNCHANGED <<v4, v18, v19>>
  PROVE  DecorHistOK'
BY DEF DecorHistOK, DecorAsks

LEMMA DecorArtStays ==
  ASSUME DecorArtOK, UNCHANGED <<v11, v12, v13, v14, v16>>, v1' \in Decor!Pages, v3' \in BOOLEAN
  PROVE  DecorArtOK'
BY DEF DecorArtOK

LEMMA DecorStatsSynced ==
  ASSUME DecorStatsOK, Decor!StatsSync, UNCHANGED <<v1, v2>>, v6' \in BOOLEAN,
         Decor!StatsMutates => v6', Decor!DecorAssumption
  PROVE  DecorStatsOK'
<1>1. CASE Decor!NoHeader
  <2>1. v1 = 0 /\ v2 = 0 /\ v7' = "none" /\ v8' = "none" /\ v10' = -1 /\ v9' = v9
    BY <1>1 DEF Decor!NoHeader, DecorStatsOK
  <2> QED BY <2>1 DEF DecorStatsOK
<1>2. CASE Decor!WithHeader
  <2>1. v1 # 0 /\ v7' = "in" /\ v8' = (IF Decor!NewRest THEN "in" ELSE v8)
    BY <1>2 DEF Decor!WithHeader
  <2>2. CASE Decor!TextChanged
    <3>1. /\ v9' = v2
          /\ v10' = (IF v2 = 0 /\ v8 # "none" THEN (IF Decor!NewStats THEN -1 ELSE v10) ELSE v2)
      BY <1>2, <2>2 DEF Decor!WithHeader
    <3>2. v2 \in Decor!Pages
      BY DEF DecorStatsOK, Decor!Pages
    <3>3. v8' \in {"none", "out", "in"} /\ (v8' = "in" => v2 # 0)
      BY <2>1 DEF DecorStatsOK, Decor!NewRest
    <3>4. v10' \in {-1, v2} \/ (v2 = 0 /\ v8' = "out")
      BY <2>1, <3>1 DEF DecorStatsOK, Decor!NewRest
    <3>5. v10' \in Decor!Pages \cup {-1}
      BY <3>1, <3>2 DEF DecorStatsOK
    <3> QED BY <2>1, <3>1, <3>2, <3>3, <3>4, <3>5 DEF DecorStatsOK
  <2>3. CASE ~Decor!TextChanged
    <3>1. UNCHANGED <<v9, v10>> /\ v2 = v10 /\ v7 = "in" /\ v8' = v8
      BY <1>2, <2>1, <2>3 DEF Decor!WithHeader, Decor!TextChanged, Decor!NewStats
    <3>2. v2 # -1 /\ ~(v2 # 0 /\ v8 # "in")
      BY <2>3 DEF Decor!TextChanged, Decor!NewRest, DecorStatsOK, Decor!DecorAssumption,
         Decor!Pages
    <3>3. v9 = v2
      BY <3>1, <3>2 DEF DecorStatsOK
    <3> QED BY <2>1, <3>1, <3>3 DEF DecorStatsOK
  <2> QED BY <2>2, <2>3
<1> QED BY <1>1, <1>2 DEF Decor!StatsSync

LEMMA DecorArtSynced ==
  ASSUME DecorArtOK, NEW on \in BOOLEAN, NEW last \in Decor!Pages, Decor!ArtSync(on, last),
         UNCHANGED <<v1, v3>>
  PROVE  DecorArtOK'
<1>1. v11' = on
  BY DEF Decor!ArtSync
<1>2. v13 \in Nat /\ v13 + 1 \in Nat /\ 1..v13 \subseteq 1..(v13 + 1) /\
        v13 + 1 \in 1..(v13 + 1) /\ 0 \in Decor!Pages
  BY DEF DecorArtOK, Decor!Pages
<1>3. CASE ~on /\ Decor!SwitchedOff(last)
  BY <1>1, <1>2, <1>3 DEF DecorArtOK, Decor!SwitchedOff, Decor!Clear
<1>4. CASE on /\ v1 = 0 /\ Decor!NoArt(last)
  BY <1>1, <1>2, <1>4 DEF DecorArtOK, Decor!NoArt, Decor!Clear
<1>5. CASE on /\ v12' = last /\ UNCHANGED <<v13, v14, v16>>
  BY <1>1, <1>5 DEF DecorArtOK
<1>6. CASE on /\ v1 # 0 /\ Decor!Themes(last)
  BY <1>1, <1>2, <1>6 DEF DecorArtOK, Decor!Themes, Decor!Pages
<1> QED BY <1>3, <1>4, <1>5, <1>6 DEF Decor!ArtSync

LEMMA DecorStepPreserves ==
  ASSUME Decor!DecorAssumption, Decor!IInv, Decor!Next \/ UNCHANGED Decor!vars
  PROVE  Decor!IInv'
<1>0. DecorStatsOK /\ DecorArtOK /\ DecorHistOK /\ DecorSearchOK
  BY DecorParts
<1> USE DecorPartsNext
<1>1. CASE Decor!Frame
  <2>1. /\ Decor!StatsSync /\ Decor!HistInject /\ Decor!ArtSync(v11, v12) /\
             v6' = (Decor!StatsMutates \/ Decor!Injects)
        /\ UNCHANGED <<v1, v2, v3, v4, v18, v5>>
    BY <1>1 DEF Decor!Frame, Decor!page, Decor!search
  <2>2. DecorStatsOK'
    BY <1>0, <2>1, DecorStatsSynced
  <2>3. DecorArtOK'
    BY <1>0, <2>1, DecorArtSynced DEF DecorArtOK
  <2>4. DecorHistOK' /\ DecorSearchOK'
    BY <1>0, <2>1 DEF DecorHistOK, Decor!HistInject, DecorSearchOK
  <2> QED BY <2>2, <2>3, <2>4
<1>2. CASE Decor!Decoded
  <2>1. /\ UNCHANGED <<v1, v2, v3, Decor!stats, v11, v12, v13, Decor!hist, v5>>
        /\ v14' \subseteq v14
        /\ v16' \in {v16, 0} \/ (v11 /\ v16' \in DecorAlbums)
        /\ v6' \in {v6, v6 \/ ~v17}
    BY <1>0, <1>2 DEF Decor!Decoded, Decor!page, Decor!search, Decor!StillWanted, Decor!Clear,
       DecorArtOK
  <2>2. DecorAsks
    BY <1>0, <2>1 DEF DecorAsks, DecorHistOK
  <2>3. DecorArtOK'
    BY <1>0, <2>1 DEF DecorArtOK, Decor!Pages
  <2>4. DecorStatsOK' /\ DecorHistOK' /\ DecorSearchOK'
    BY <1>0, <2>1, <2>2, DecorStatsStay, DecorHistStays DEF DecorSearchOK, Decor!hist
  <2> QED BY <2>3, <2>4
<1>3. CASE Decor!Noticed \/ Decor!TryScan
  <2>1. UNCHANGED <<v1, v2, v3, Decor!stats, Decor!art, Decor!hist>> /\
          (v6' = v6 \/ v6' = TRUE) /\ v5' \in {v5, "body"}
    BY <1>3 DEF Decor!Noticed, Decor!TryScan, Decor!DoPortal, Decor!page
  <2>2. DecorAsks
    <3>1. v6' = v6 => DecorAsks
      BY <1>0 DEF DecorAsks, DecorHistOK
    <3>2. v6' = TRUE => DecorAsks
      BY DEF DecorAsks
    <3> QED BY <2>1, <3>1, <3>2
  <2> QED BY <1>0, <2>1, <2>2, DecorStatsStay, DecorHistStays, DecorArtStays DEF DecorSearchOK,
             Decor!hist, Decor!art, DecorArtOK
<1>4. CASE Decor!ToggleArt
  <2>1. Decor!ArtSync(~v11, 0) /\ UNCHANGED <<v1, v2, v3, v6, Decor!stats, Decor!hist, v5>>
    BY <1>4 DEF Decor!ToggleArt, Decor!page, Decor!search
  <2>2. 0 \in Decor!Pages /\ DecorAsks
    BY <1>0, <2>1 DEF Decor!Pages, DecorAsks, DecorHistOK
  <2>4. (~v11) \in BOOLEAN
    BY Zenon
  <2>3. DecorArtOK'
    BY <1>0, <2>1, <2>2, <2>4, DecorArtSynced
  <2> QED BY <1>0, <2>1, <2>2, <2>3, DecorStatsStay, DecorHistStays DEF DecorSearchOK, Decor!hist
<1>5. CASE Decor!ToggleHistory
  <2>1. /\ v18' = ~v18 /\ v19' = (v4 /\ v18')
        /\ v6' = (v6 \/ v19 # v19') /\ UNCHANGED <<v1, v2, v3, Decor!stats, Decor!art, v4, v5>>
    BY <1>5 DEF Decor!ToggleHistory, Decor!page, Decor!search
  <2>2. DecorHistOK' /\ DecorAsks
    BY <1>0, <2>1 DEF DecorHistOK, DecorAsks
  <2> QED BY <1>0, <2>1, <2>2, DecorStatsStay, DecorArtStays DEF DecorSearchOK, Decor!art,
             DecorArtOK
<1>6. CASE Decor!Navigate
  <2>1. /\ v1' \in Decor!Pages /\ v2' = 0 /\ v3' = FALSE /\ v7' = Decor!Lost(v7)
        /\ v8' = Decor!Lost(v8)
        /\ v6' = TRUE /\ UNCHANGED <<v9, v10, v11, v12, v13, v14, v16, Decor!hist, v5>>
    BY <1>6 DEF Decor!Navigate, Decor!Rebuilds, Decor!search
  <2>2. DecorStatsOK'
    BY <1>0, <2>1 DEF DecorStatsOK, Decor!Lost
  <2>3. DecorAsks
    BY <2>1 DEF DecorAsks
  <2> QED BY <1>0, <2>1, <2>2, <2>3, DecorHistStays, DecorArtStays DEF DecorSearchOK, Decor!hist
<1>7. CASE Decor!FooterComes
  <2>1. /\ v1 # 0 /\ v2 = 0 /\ v2' = v1 /\ v6' = TRUE
        /\ UNCHANGED <<v1, v3, Decor!stats, Decor!art, Decor!hist, v5>>
    BY <1>7 DEF Decor!FooterComes, Decor!search
  <2>2. DecorStatsOK' /\ DecorAsks
    BY <1>0, <2>1 DEF DecorStatsOK, DecorAsks, Decor!stats
  <2> QED BY <1>0, <2>1, <2>2, DecorHistStays, DecorArtStays DEF DecorSearchOK, Decor!hist,
             Decor!art, DecorArtOK
<1>8. CASE Decor!FooterGoes
  <2>1. /\ v2' = 0 /\ v6' = TRUE /\ v8' = Decor!Lost(v8)
        /\ UNCHANGED <<v1, v3, v7, v9, v10, Decor!art, Decor!hist, v5>>
    BY <1>8 DEF Decor!FooterGoes, Decor!Rebuilds, Decor!search
  <2>2. DecorStatsOK' /\ DecorAsks
    BY <1>0, <2>1 DEF DecorStatsOK, DecorAsks, Decor!Lost
  <2> QED BY <1>0, <2>1, <2>2, DecorHistStays, DecorArtStays DEF DecorSearchOK, Decor!hist,
             Decor!art, DecorArtOK
<1>9. CASE Decor!ArtworkLoads
  <2>1. v1 # 0 /\ v3' = TRUE /\ UNCHANGED <<v1, v2, v6, Decor!stats, Decor!hist, v5>>
    BY <1>9 DEF Decor!ArtworkLoads, Decor!search
  <2>2. (Decor!Themes(v12) /\ UNCHANGED v11) \/ UNCHANGED Decor!art
    BY <1>9 DEF Decor!ArtworkLoads
  <2>3. DecorArtOK'
    <3>1. v13 \in Nat /\ v13 + 1 \in Nat /\ 1..v13 \subseteq 1..(v13 + 1) /\
            v13 + 1 \in 1..(v13 + 1)
      BY <1>0 DEF DecorArtOK
    <3> QED BY <1>0, <2>1, <2>2, <3>1 DEF DecorArtOK, Decor!art, Decor!Themes, Decor!Pages
  <2>4. DecorAsks
    BY <1>0, <2>1 DEF DecorAsks, DecorHistOK
  <2> QED BY <1>0, <2>1, <2>3, <2>4, DecorStatsStay, DecorHistStays DEF DecorSearchOK, Decor!hist
<1>10. CASE Decor!PanelChanges
  <2>1. /\ v4' \in BOOLEAN /\ v19' = FALSE /\ v6' = TRUE
        /\ UNCHANGED <<v1, v2, v3, Decor!stats, Decor!art, v18, v5>>
    BY <1>10 DEF Decor!PanelChanges, Decor!Rebuilds, Decor!page, Decor!search
  <2>2. DecorHistOK' /\ DecorAsks
    BY <1>0, <2>1 DEF DecorHistOK, DecorAsks
  <2> QED BY <1>0, <2>1, <2>2, DecorStatsStay, DecorArtStays DEF DecorSearchOK, Decor!art,
             DecorArtOK
<1>11. CASE Decor!SuggestionsCome \/ Decor!SuggestionsGo
  <2>1. v6' = TRUE /\ v5' \in {"none", "bar"} /\
          UNCHANGED <<v1, v2, v3, Decor!stats, Decor!art, Decor!hist>>
    BY <1>11 DEF Decor!SuggestionsCome, Decor!SuggestionsGo, Decor!Rebuilds, Decor!page
  <2>2. DecorAsks
    BY <2>1 DEF DecorAsks
  <2> QED BY <1>0, <2>1, <2>2, DecorStatsStay, DecorHistStays, DecorArtStays DEF DecorSearchOK,
             Decor!hist, Decor!art, DecorArtOK
<1>12. CASE UNCHANGED Decor!vars
  BY <1>0, <1>12, DecorParts DEF Decor!vars, Decor!page, Decor!stats, Decor!art, Decor!hist,
     Decor!search, Decor!counts, DecorStatsOK, DecorArtOK, DecorHistOK, DecorSearchOK
<1> QED BY <1>1, <1>2, <1>3, <1>4, <1>5, <1>6, <1>7, <1>8, <1>9, <1>10, <1>11, <1>12 DEF Decor!Next


-----------------------------------------------------------------------------
(* The quality badge (QualityBadge), and that its invariant holds at the start and is kept by
   each step. *)
Badge == INSTANCE QualityBadge WITH
  MaxShows <- BadgeMaxShows, MaxDom <- BadgeMaxDom, info <- v1, later <- v2, slot <- v3,
  made <- v4, attached <- v5, lit <- v6, retry <- v7, watched <- v8, overlay <- v9, np <- v10,
  npShows <- v11, shows <- v12, doms <- v13

\* The slot's badges, and the overlay's.
BadgeSlotOK == /\ v3 \in BOOLEAN /\ v2 \in 0..2 /\ v12 \in 0..BadgeMaxShows /\ v4 \in Nat
               /\ v4 + v2 <= v12 /\ v5 \subseteq 1..v4 /\ v6 \subseteq 1..v4
               /\ v7 \in 0..v4 /\ v8 \in 0..v4
               /\ (~v3 \/ v7 # 0 => v5 = {}) /\ v5 \subseteq {v8}
BadgeOverlayOK == v1 \in Badge!Codecs /\ v9 \in BOOLEAN /\
  v10 \in {"none", "detached", "attached"} /\ v11 \in Badge!Codecs

LEMMA BadgeParts ==
  ASSUME Badge!BadgeAssumption
  PROVE  Badge!IInv <=> BadgeSlotOK /\ BadgeOverlayOK
BY DEF Badge!BadgeAssumption, Badge!IInv, Badge!TypeOK, BadgeSlotOK, BadgeOverlayOK
LEMMA BadgePartsNext ==
  ASSUME Badge!BadgeAssumption, BadgeSlotOK', BadgeOverlayOK'
  PROVE  Badge!IInv'
<1>0. PICK m, l, n : m = v4' /\ l = v2' /\ n = v12'
  OBVIOUS
<1>1. BadgeMaxShows \in Nat /\ l \in 0..2 /\ n \in 0..BadgeMaxShows /\ m \in Nat /\ m + l <= n
  BY <1>0 DEF Badge!BadgeAssumption, BadgeSlotOK
<1>2. m \in 0..(2 * BadgeMaxShows)
  BY <1>1
<1> QED BY <1>0, <1>2 DEF Badge!IInv, Badge!TypeOK, BadgeSlotOK, BadgeOverlayOK

LEMMA BadgeInitEstablishes ==
  ASSUME Badge!BadgeAssumption, Badge!Init
  PROVE  Badge!IInv
<1>1. v2 \in 0..2 /\ v12 \in 0..BadgeMaxShows /\ v4 \in Nat /\ v4 + v2 <= v12
      /\ v7 \in 0..v4 /\ v8 \in 0..v4
  BY DEF Badge!BadgeAssumption, Badge!Init
<1>2. BadgeSlotOK
  BY <1>1 DEF Badge!Init, BadgeSlotOK
<1>3. BadgeOverlayOK
  BY DEF Badge!Init, BadgeOverlayOK, Badge!Codecs
<1> QED BY <1>2, <1>3, BadgeParts

LEMMA BadgeShowsABadge ==
  ASSUME BadgeSlotOK, BadgeOverlayOK, NEW codec \in Badge!Codecs, Badge!ShowQualityBadge(codec),
         UNCHANGED v3,
         NEW l \in 0..2, NEW n \in 0..BadgeMaxShows, v2' = l, v12' = n,
         v4 + 1 + l <= n \/ (v4 + l <= n /\ codec # "alac")
  PROVE  BadgeSlotOK'
<1>0. v4 \in Nat
  BY DEF BadgeSlotOK
<1>1. CASE codec = "alac" /\ v5 = {}
  <2>1. v4' = v4 + 1 /\ v6' = v6 \union {v4 + 1} /\ Badge!Insert(v4 + 1)
    BY <1>1 DEF Badge!ShowQualityBadge
  <2>2. v4 + 1 \in Nat /\ v4 + 1 + l <= n /\ v4 + 1 \in 1..(v4 + 1) /\ 1..v4 \subseteq 1..(v4 + 1)
    BY <1>0, <1>1
  <2>3. v6' \subseteq 1..v4'
    BY <2>1, <2>2 DEF BadgeSlotOK
  <2>4. v5' \subseteq {v4 + 1} /\ (v5' # {} => v3' /\ v7' = 0 /\ v8' = v4 + 1)
        /\ v7' \in {0, v4 + 1} /\ v8' \in {0, v4 + 1}
    BY <1>1, <2>1 DEF Badge!Insert, BadgeSlotOK
  <2>5. v7' \in 0..v4' /\ v8' \in 0..v4' /\ v5' \subseteq 1..v4'
    BY <2>1, <2>2, <2>4
  <2>6. v4' \in Nat /\ v4' + v2' <= v12'
    BY <2>1, <2>2
  <2> QED BY <2>3, <2>4, <2>5, <2>6 DEF BadgeSlotOK
<1>2. CASE ~(codec = "alac" /\ v5 = {})
  <2>1. UNCHANGED <<v4, v5, v7, v8>> /\ v6' \subseteq v6 \union v5
    BY <1>2 DEF Badge!ShowQualityBadge
  <2>2. v4 + l <= n
    BY <1>0
  <2> QED BY <2>1, <2>2 DEF BadgeSlotOK
<1> QED BY <1>1, <1>2

LEMMA BadgeShowsInTheOverlay ==
  ASSUME BadgeOverlayOK, NEW codec \in Badge!Codecs, Badge!ShowQualityBadge(codec),
         UNCHANGED <<v9, v10>>
  PROVE  BadgeOverlayOK'
BY DEF BadgeOverlayOK, Badge!ShowQualityBadge, Badge!SyncBadge, Badge!NpContent, Badge!Codecs

LEMMA BadgeInsertKeeps ==
  ASSUME BadgeSlotOK, NEW b \in 1..v4, v5 = {}, Badge!Insert(b), UNCHANGED <<v2, v3, v4, v6, v12>>
  PROVE  BadgeSlotOK'
BY DEF BadgeSlotOK, Badge!Insert

LEMMA BadgeStepPreserves ==
  ASSUME Badge!BadgeAssumption, Badge!IInv, Badge!Next \/ UNCHANGED Badge!vars
  PROVE  Badge!IInv'
<1>0. BadgeSlotOK /\ BadgeOverlayOK
  BY BadgeParts
<1>1. CASE Badge!PlayerShows
  <2>1. PICK codec \in Badge!Codecs : /\ Badge!ShowQualityBadge(codec)
                                      /\ v2' = IF codec = "null" /\ v2 < 2 THEN v2 + 1 ELSE v2
    BY <1>1 DEF Badge!PlayerShows
  <2>2. v12' = v12 + 1 /\ v12 < BadgeMaxShows /\ UNCHANGED <<v3, v9, v10>>
    BY <1>1 DEF Badge!PlayerShows
  <2> DEFINE l == IF codec = "null" /\ v2 < 2 THEN v2 + 1 ELSE v2
  <2>3. /\ l \in 0..2 /\ v12 + 1 \in 0..BadgeMaxShows
        /\ v4 + 1 + l <= v12 + 1 \/ (v4 + l <= v12 + 1 /\ codec # "alac")
    BY <1>0, <2>2 DEF BadgeSlotOK, Badge!BadgeAssumption
  <2> QED BY <1>0, <2>1, <2>2, <2>3, BadgeShowsABadge, BadgeShowsInTheOverlay, BadgePartsNext
<1>2. CASE Badge!OptimisticDue
  <2>1. v2 > 0 /\ v2' = v2 - 1 /\ UNCHANGED <<v3, v9, v10, v12>>
    BY <1>2 DEF Badge!OptimisticDue
  <2>2. v2 - 1 \in 0..2 /\ v12 \in 0..BadgeMaxShows /\ v4 + 1 + (v2 - 1) <= v12
    BY <1>0, <2>1 DEF BadgeSlotOK
  <2>3. CASE Badge!ShowQualityBadge("alac")
    BY <1>0, <2>1, <2>2, <2>3, BadgeShowsABadge, BadgeShowsInTheOverlay,
       BadgePartsNext DEF Badge!Codecs
  <2>4. CASE UNCHANGED <<v1, v4, v5, v6, v7, v8, v11>>
    BY <1>0, <2>1, <2>2, <2>4, BadgePartsNext DEF BadgeSlotOK, BadgeOverlayOK
  <2> QED BY <1>2, <2>3, <2>4 DEF Badge!OptimisticDue
<1>3. CASE Badge!RetryDue \/ Badge!SlotChanges
  <2>1. UNCHANGED <<v1, v2, v3, v4, v6, v9, v10, v11, v12, v13>>
    BY <1>3 DEF Badge!RetryDue, Badge!SlotChanges, Badge!over
  <2>2. \E b \in 1..v4 : v5 = {} /\ Badge!Insert(b)
    BY <1>0, <1>3 DEF Badge!RetryDue, Badge!SlotChanges, BadgeSlotOK
  <2> QED BY <1>0, <2>1, <2>2, BadgeInsertKeeps, BadgePartsNext DEF BadgeOverlayOK
<1>4. CASE Badge!SlotGoes
  BY <1>0, <1>4, BadgePartsNext DEF Badge!SlotGoes, BadgeSlotOK, BadgeOverlayOK, Badge!over
<1>5. CASE Badge!SlotComes
  BY <1>0, <1>5, BadgePartsNext DEF Badge!SlotComes, BadgeSlotOK, BadgeOverlayOK, Badge!over
<1>6. CASE Badge!OverlayComes \/ Badge!OverlayGoes \/ Badge!NpCheck
  BY <1>0, <1>6, BadgePartsNext DEF Badge!OverlayComes, Badge!OverlayGoes, Badge!NpCheck,
     Badge!Forgets, Badge!NpContent, Badge!Codecs, BadgeSlotOK, BadgeOverlayOK, Badge!bar
<1>7. CASE UNCHANGED Badge!vars
  BY <1>0, <1>7, BadgePartsNext DEF Badge!vars, Badge!bar, Badge!over, BadgeSlotOK, BadgeOverlayOK
<1> QED BY <1>1, <1>2, <1>3, <1>4, <1>5, <1>6, <1>7 DEF Badge!Next

LEMMA BadgeOneBadgeHolds == Badge!IInv => Badge!OneBadge
BY DEF Badge!IInv, Badge!OneBadge

-----------------------------------------------------------------------------
(* The other parts. *)


\* The variables from the n-th on, which a part with fewer leaves at 0.
after21 == <<v22, v23, v24>>
after20 == <<v21, after21>>
after18 == <<v19, v20, after20>>
after14 == <<v15, v16, v17, v18, after18>>
after13 == <<v14, after14>>
after12 == <<v13, after13>>
after11 == <<v12, after12>>

Unused21 == v22 = 0 /\ v23 = 0 /\ v24 = 0
Unused20 == v21 = 0 /\ Unused21
Unused18 == v19 = 0 /\ v20 = 0 /\ Unused20
Unused14 == v15 = 0 /\ v16 = 0 /\ v17 = 0 /\ v18 = 0 /\ Unused18
Unused13 == v14 = 0 /\ Unused14
Unused12 == v13 = 0 /\ Unused13
Unused11 == v12 = 0 /\ Unused12
-----------------------------------------------------------------------------
Init ==
  /\ part \in Parts
  /\ \/ part = "backdrop" /\ Behind!Init /\ Unused18
     \/ part = "events" /\ Events!Init /\ Unused11
     \/ part = "library" /\ Library!Init /\ Unused21
     \/ part = "account" /\ Account!Init /\ Unused11
     \/ part = "panel" /\ Panel!Init /\ Unused13
     \/ part = "settings" /\ Settings!Init /\ Unused12
     \/ part = "badge" /\ Badge!Init /\ Unused13
     \/ part = "decor" /\ Decor!Init
     \/ part = "menu" /\ Menu!Init /\ Unused14
     \/ part = "overlay" /\ Overlay!Init /\ Unused20

BehindNext == part = "backdrop" /\ Behind!Next /\ UNCHANGED part /\ UNCHANGED after18
EventsNext == part = "events" /\ Events!Next /\ UNCHANGED part /\ UNCHANGED after11
LibraryNext == part = "library" /\ Library!Next /\ UNCHANGED part /\ UNCHANGED after21
AccountNext == part = "account" /\ Account!Next /\ UNCHANGED part /\ UNCHANGED after11
PanelNext == part = "panel" /\ Panel!Next /\ UNCHANGED part /\ UNCHANGED after13
SettingsNext == part = "settings" /\ Settings!Next /\ UNCHANGED part /\ UNCHANGED after12
BadgeNext == part = "badge" /\ Badge!Next /\ UNCHANGED part /\ UNCHANGED after13
DecorNext == part = "decor" /\ Decor!Next /\ UNCHANGED part
MenuNext == part = "menu" /\ Menu!Next /\ UNCHANGED part /\ UNCHANGED after14
OverlayNext == part = "overlay" /\ Overlay!Next /\ UNCHANGED part /\ UNCHANGED after20

Next == BehindNext \/ EventsNext \/ LibraryNext \/ AccountNext \/ PanelNext \/ SettingsNext \/
        BadgeNext \/ DecorNext \/ MenuNext \/ OverlayNext

(* What is owed to each part: the actions its module states weak fairness of, one per part
   in each of the following.  As a behaviour never changes its part, weak fairness of their
   disjunction is weak fairness of the one of its part. *)
Owed1 ==
  \/ part = "library" /\ Library!TimerFires /\ UNCHANGED part /\ UNCHANGED after21
  \/ part = "account" /\ Account!Apple /\ UNCHANGED part /\ UNCHANGED after11
  \/ part = "settings" /\ Settings!Loads /\ UNCHANGED part /\ UNCHANGED after12
  \/ part = "badge" /\ Badge!OptimisticDue /\ UNCHANGED part /\ UNCHANGED after13
  \/ part = "decor" /\ Decor!Frame /\ UNCHANGED part
  \/ part = "menu" /\ Menu!Dress /\ UNCHANGED part /\ UNCHANGED after14
  \/ part = "overlay" /\ Overlay!Refits /\ UNCHANGED part /\ UNCHANGED after20
  \/ part = "backdrop" /\ Behind!Captured /\ UNCHANGED part /\ UNCHANGED after18
Owed2 ==
  \/ part = "library" /\ Library!Answers /\ UNCHANGED part /\ UNCHANGED after21
  \/ part = "account" /\ Account!ShowSignIn /\ UNCHANGED part /\ UNCHANGED after11
  \/ part = "settings" /\ Settings!RequestsEnd /\ UNCHANGED part /\ UNCHANGED after12
  \/ part = "badge" /\ Badge!RetryDue /\ UNCHANGED part /\ UNCHANGED after13
  \/ part = "decor" /\ Decor!Decoded /\ UNCHANGED part
  \/ part = "menu" /\ Menu!TimerFires(1) /\ UNCHANGED part /\ UNCHANGED after14
  \/ part = "overlay" /\ Overlay!QualityRace /\ UNCHANGED part /\ UNCHANGED after20
  \/ part = "backdrop" /\ Behind!Found /\ UNCHANGED part /\ UNCHANGED after18
Owed3 ==
  \/ part = "library" /\ Library!StreamOpens /\ UNCHANGED part /\ UNCHANGED after21
  \/ part = "account" /\ Account!Calls /\ UNCHANGED part /\ UNCHANGED after11
  \/ part = "settings" /\ Settings!StatusTicks /\ UNCHANGED part /\ UNCHANGED after12
  \/ part = "badge" /\ Badge!NpCheck /\ UNCHANGED part /\ UNCHANGED after13
  \/ part = "decor" /\ Decor!Noticed /\ UNCHANGED part
  \/ part = "menu" /\ Menu!TimerFires(2) /\ UNCHANGED part /\ UNCHANGED after14
  \/ part = "overlay" /\ Overlay!HoldTimeout /\ UNCHANGED part /\ UNCHANGED after20
  \/ part = "backdrop" /\ Behind!Kwin /\ UNCHANGED part /\ UNCHANGED after18
Owed4 ==
  \/ part = "account" /\ Account!Answers /\ UNCHANGED part /\ UNCHANGED after11
  \/ part = "settings" /\ Settings!AnimationEnds /\ UNCHANGED part /\ UNCHANGED after12
  \/ part = "decor" /\ Decor!ArtworkLoads /\ UNCHANGED part
  \/ part = "overlay" /\ Overlay!UpdateProgress /\ UNCHANGED part /\ UNCHANGED after20
Owed5 ==
  \/ part = "account" /\ Account!Event /\ UNCHANGED part /\ UNCHANGED after11
  \/ part = "settings" /\ Settings!StatusAnswer("starting") /\ UNCHANGED part /\ UNCHANGED after12
  \/ part = "overlay" /\ Overlay!ScrubEnd /\ UNCHANGED part /\ UNCHANGED after20
Owed6 ==
  \/ part = "account" /\ Account!Ask /\ UNCHANGED part /\ UNCHANGED after11
  \/ part = "settings" /\ Settings!StatusAnswer("out") /\ UNCHANGED part /\ UNCHANGED after12
Owed7 ==
  \/ part = "account" /\ Account!PollAnswered /\ UNCHANGED part /\ UNCHANGED after11
  \/ part = "settings" /\ Settings!StatusAnswer("in") /\ UNCHANGED part /\ UNCHANGED after12
Owed8 ==
  \/ part = "settings" /\ Settings!StatusAnswer("ready") /\ UNCHANGED part /\ UNCHANGED after12

Fairness == WF_vars(Owed1) /\ WF_vars(Owed2) /\ WF_vars(Owed3) /\ WF_vars(Owed4) /\
            WF_vars(Owed5) /\ WF_vars(Owed6) /\ WF_vars(Owed7) /\ WF_vars(Owed8)

Spec == Init /\ [][Next]_vars /\ Fairness
-----------------------------------------------------------------------------
(* An event stream sends its page every event after the one read last, or shows that some are
   gone; a sync under which the library stayed as it was leaves the engine with that library, or
   with its pages up to the limit; the automatic sync is asked for once, and the engine has the
   token; downloads are polled exactly while they are read, and a failed one has its timer
   (EventStream, LibrarySync, AccountSheet, DownloadsPanel). *)
PageAndEngineAgree ==
  /\ part = "events" => (Events!TypeOK /\ Events!NoGap)
  /\ part = "library" =>
       /\ Library!TypeOK
       /\ Library!AutoSyncOnce
       /\ Library!SyncedIsTheLibrary
       /\ Library!EngineHasTheToken
  /\ part = "account" => Account!TypeOK
  /\ part = "panel" => (Panel!TypeOK /\ Panel!PolledWhileRead /\ Panel!RetryIsArmed)

(* Neither the page's DRM state nor a download's row goes back (EventStream, DownloadsPanel). *)
StepsAreForward ==
  /\ [][part = "events" => Events!NotBack]_vars
  /\ [][part = "panel" => Panel!RowsStay]_vars

(* One badge, settled pages decorated, a dialog that says what is set, a clipboard that is
   given back, a video's overlay that says what plays: its menu stands with its controls, and
   its play button, captions and qualities are the video's; and a backdrop that leaves the
   compositor's blur alone (QualityBadge, PageDecor, SettingsDialog, ContextMenu, MvOverlay,
   Backdrop). *)
PageShowsTheState ==
  /\ part = "badge" => (Badge!TypeOK /\ Badge!OneBadge)
  /\ part = "decor" => (Decor!TypeOK /\ Decor!SettledIsDecorated /\ Decor!OffShowsNoTheme)
  /\ part = "settings" => (Settings!TypeOK /\ Settings!DialogIsTrue)
  /\ part = "menu" => (Menu!TypeOK /\ Menu!ClipboardIsGivenBack)
  /\ part = "overlay" =>
       /\ Overlay!TypeOK
       /\ Overlay!MenuIsWithControls
       /\ Overlay!IconIsTrue
       /\ Overlay!CaptionsAreTrue
       /\ Overlay!QualityIsOffered
       /\ Overlay!TrackIsGivenBack
       /\ Overlay!ScrimIsFitted
  /\ part = "backdrop" =>
       /\ Behind!TypeOK
       /\ Behind!CompositorIsTrusted
       /\ Behind!WallpaperIsAsSet
       /\ Behind!DiesAtTheEnd

(* The download a menu starts is of the item the menu was opened on, and what the choice of a
   quality left behind does not touch the next video's scrubber (ContextMenu, MvOverlay). *)
MenusAreTrue ==
  /\ [][part = "menu" => Menu!StartsTheMenus]_vars
  /\ [][part = "overlay" => Overlay!NextIsFree]_vars

(* The sync button and the sign-in sheet answer again; dialog, badge, theme, suggestions and
   menus come to show what is the case, the watchers that see to it come to rest, and a video's
   scrubber is let go, fitted, and comes to show its time. *)
PageSettles ==
  /\ <>[](part = "decor" => Decor!Still)
  /\ (\/ part = "library" /\ Library!ButtonBusy
      \/ part = "account" /\ Account!SignInWaits
      \/ part = "settings" /\ Settings!OpenSignedIn
      \/ part = "badge" /\ Badge!NpWanted("null")
      \/ part = "decor" /\ Decor!ThemeWanted(1)
      \/ part = "menu" /\ Menu!Asked(1)
      \/ part = "overlay" /\ Overlay!Held
      \/ part = "backdrop" /\ Behind!Bare) ~>
     (/\ part = "library" => ~Library!ButtonBusy
      /\ part = "account" => ~Account!SignInWaits
      /\ part = "settings" => (~Settings!OpenSignedIn \/ Settings!SignInShown)
      /\ part = "badge" => (~Badge!NpWanted("null") \/ Badge!NpShown("null"))
      /\ part = "decor" => Decor!ThemeDone(1)
      /\ part = "menu" => ~Menu!Asked(1)
      /\ part = "overlay" => ~Overlay!Held
      /\ part = "backdrop" => Behind!Backed)
  /\ (\/ part = "badge" /\ Badge!NpWanted("alac")
      \/ part = "decor" /\ Decor!ThemeWanted(2)
      \/ part = "menu" /\ Menu!Asked(2)
      \/ part = "overlay" /\ Overlay!Overdue) ~>
     (/\ part = "badge" => (~Badge!NpWanted("alac") \/ Badge!NpShown("alac"))
      /\ part = "decor" => Decor!ThemeDone(2)
      /\ part = "menu" => ~Menu!Asked(2)
      /\ part = "overlay" => ~Overlay!Overdue)
  /\ (\/ part = "badge" /\ Badge!NpWanted("aac")
      \/ part = "decor" /\ Decor!InTheBar
      \/ part = "menu" /\ Menu!Recorded
      \/ part = "overlay" /\ Overlay!Stale) ~>
     (/\ part = "badge" => (~Badge!NpWanted("aac") \/ Badge!NpShown("aac"))
      /\ part = "decor" => ~Decor!InTheBar
      /\ part = "menu" => Menu!Dressed
      /\ part = "overlay" => Overlay!Shows)

ASSUME PageAssumption ==
  /\ Settings!SettingsAssumption
  /\ Badge!BadgeAssumption
  /\ Events!EventsAssumption
  /\ Overlay!OverlayAssumption
  /\ Library!LibraryAssumption
  /\ Panel!PanelAssumption
  /\ Account!SheetAssumption
  /\ Menu!MenuAssumption
  /\ Behind!BackdropAssumption
  /\ Decor!DecorAssumption
-----------------------------------------------------------------------------
(* Proofs: the inductive invariant of each part holds throughout the behaviours of the part. *)

PageInv ==
  /\ part = "events" => Events!IInv
  /\ part = "overlay" => Overlay!IInv
  /\ part = "library" => Library!IInv
  /\ part = "panel" => Panel!IInv
  /\ part = "account" => Account!TypeOK
  /\ part = "menu" => Menu!IInv
  /\ part = "backdrop" => Behind!IInv
  /\ part = "settings" => Settings!IInv
  /\ part = "decor" => Decor!IInv
  /\ part = "badge" => Badge!IInv

LEMMA PageInvStarts == Init => PageInv
<1>1. Init /\ part = "events" => Events!IInv
  BY PageAssumption, EventsInitEstablishes DEF Init, PageAssumption
<1>2. Init /\ part = "overlay" => Overlay!IInv
  BY PageAssumption, OverlayInitEstablishes DEF Init, PageAssumption
<1>3. Init /\ part = "library" => Library!IInv
  BY PageAssumption, LibraryInitEstablishes DEF Init, PageAssumption
<1>4. Init /\ part = "panel" => Panel!IInv
  BY PageAssumption, PanelInitEstablishes DEF Init, PageAssumption
<1>5. Init /\ part = "account" => Account!TypeOK
  BY PageAssumption, AccountInitEstablishes DEF Init, PageAssumption
<1>6. Init /\ part = "menu" => Menu!IInv
  BY PageAssumption, MenuInitEstablishes DEF Init, PageAssumption
<1>7. Init /\ part = "backdrop" => Behind!IInv
  BY PageAssumption, BehindInitEstablishes DEF Init, PageAssumption
<1>8. Init /\ part = "settings" => Settings!IInv
  BY PageAssumption, SettingsInitEstablishes DEF Init, PageAssumption
<1>9. Init /\ part = "decor" => Decor!IInv
  BY PageAssumption, DecorInitEstablishes DEF Init, PageAssumption
<1>10. Init /\ part = "badge" => Badge!IInv
  BY PageAssumption, BadgeInitEstablishes DEF Init, PageAssumption
<1> QED BY <1>1, <1>2, <1>3, <1>4, <1>5, <1>6, <1>7, <1>8, <1>9, <1>10 DEF PageInv

\* A step that changes nothing keeps it.
LEMMA PageInvStutters == PageInv /\ UNCHANGED vars => PageInv'
<1> SUFFICES ASSUME PageInv, UNCHANGED vars PROVE PageInv'
  OBVIOUS
<1>1. part = "events" => Events!IInv'
  <2>1. UNCHANGED Events!vars
    BY DEF vars, Events!engine, Events!client, Events!vars
  <2> QED BY PageAssumption, <2>1, EventsStepPreserves DEF PageInv, PageAssumption
<1>2. part = "overlay" => Overlay!IInv'
  <2>1. UNCHANGED Overlay!vars
    BY DEF vars, Overlay!session, Overlay!screen, Overlay!quality, Overlay!vars
  <2> QED BY PageAssumption, <2>1, OverlayStepPreserves DEF PageInv, PageAssumption
<1>3. part = "library" => Library!IInv'
  <2>1. UNCHANGED Library!vars
    BY DEF vars, Library!account, Library!start, Library!ui, Library!engine, Library!tokens,
       Library!vars
  <2> QED BY PageAssumption, <2>1, LibraryStepPreserves DEF PageInv, PageAssumption
<1>4. part = "panel" => Panel!IInv'
  <2>1. UNCHANGED Panel!vars
    BY DEF vars, Panel!panel, Panel!vars
  <2> QED BY PageAssumption, <2>1, PanelStepPreserves DEF PageInv, PageAssumption
<1>5. part = "account" => Account!TypeOK'
  <2>1. UNCHANGED Account!vars
    BY DEF vars, Account!vars
  <2> QED BY PageAssumption, <2>1, AccountStepPreserves DEF PageInv, PageAssumption
<1>6. part = "menu" => Menu!IInv'
  <2>1. UNCHANGED Menu!vars
    BY DEF vars, Menu!vars, Menu!menuVars, Menu!linkVars
  <2> QED BY PageAssumption, <2>1, MenuStepPreserves DEF PageInv, PageAssumption
<1>7. part = "backdrop" => Behind!IInv'
  <2>1. UNCHANGED Behind!vars
    BY DEF vars, Behind!kwin, Behind!files, Behind!window, Behind!bounds, Behind!vars
  <2> QED BY PageAssumption, <2>1, BehindStepPreserves DEF PageInv, PageAssumption
<1>8. part = "settings" => Settings!IInv'
  <2>1. UNCHANGED Settings!vars
    BY DEF vars, Settings!page, Settings!dlg, Settings!vars
  <2> QED BY PageAssumption, <2>1, SettingsStepPreserves DEF PageInv, PageAssumption
<1>9. part = "decor" => Decor!IInv'
  <2>1. UNCHANGED Decor!vars
    BY DEF vars, Decor!page, Decor!stats, Decor!art, Decor!hist, Decor!search, Decor!counts,
       Decor!vars
  <2> QED BY PageAssumption, <2>1, DecorStepPreserves DEF PageInv, PageAssumption
<1>10. part = "badge" => Badge!IInv'
  <2>1. UNCHANGED Badge!vars
    BY DEF vars, Badge!bar, Badge!over, Badge!vars
  <2> QED BY PageAssumption, <2>1, BadgeStepPreserves DEF PageInv, PageAssumption
<1>11. part' = part
  BY DEF vars
<1> QED BY <1>1, <1>2, <1>3, <1>4, <1>5, <1>6, <1>7, <1>8, <1>9, <1>10, <1>11 DEF PageInv

\* A step of a part keeps the part's invariant, and says nothing of the others.
LEMMA PageInvStays == Spec => []PageInv
<1>1. PageInv /\ [Next]_vars => PageInv'
  <2> SUFFICES ASSUME PageInv, [Next]_vars PROVE PageInv'
    OBVIOUS
  <2>1. CASE EventsNext
    BY PageAssumption, <2>1, EventsStepPreserves DEF PageInv, EventsNext, PageAssumption
  <2>2. CASE OverlayNext
    BY PageAssumption, <2>2, OverlayStepPreserves DEF PageInv, OverlayNext, PageAssumption
  <2>3. CASE LibraryNext
    BY PageAssumption, <2>3, LibraryStepPreserves DEF PageInv, LibraryNext, PageAssumption
  <2>4. CASE PanelNext
    BY PageAssumption, <2>4, PanelStepPreserves DEF PageInv, PanelNext, PageAssumption
  <2>5. CASE AccountNext
    BY PageAssumption, <2>5, AccountStepPreserves DEF PageInv, AccountNext, PageAssumption
  <2>6. CASE MenuNext
    BY PageAssumption, <2>6, MenuStepPreserves DEF PageInv, MenuNext, PageAssumption
  <2>7. CASE BehindNext
    BY PageAssumption, <2>7, BehindStepPreserves DEF PageInv, BehindNext, PageAssumption
  <2>8. CASE SettingsNext
    BY PageAssumption, <2>8, SettingsStepPreserves DEF PageInv, SettingsNext, PageAssumption
  <2>9. CASE DecorNext
    BY PageAssumption, <2>9, DecorStepPreserves DEF PageInv, DecorNext, PageAssumption
  <2>10. CASE BadgeNext
    BY PageAssumption, <2>10, BadgeStepPreserves DEF PageInv, BadgeNext, PageAssumption
  <2>11. CASE UNCHANGED vars
    BY <2>11, PageInvStutters
  <2> QED BY <2>1, <2>2, <2>3, <2>4, <2>5, <2>6, <2>7, <2>8, <2>9, <2>10, <2>11 DEF Next
<1> QED BY <1>1, PageInvStarts, PTL DEF Spec

-----------------------------------------------------------------------------
(* The properties. *)

\* An event stream sends its page every event after the one read last, or shows that some are
\* gone; a sync under which the library stayed as it was leaves the engine with that library, or
\* with its pages up to the limit, after the engine's restarts too; the automatic sync is asked
\* for once, and the engine has the token; downloads are polled exactly while they are read, and a
\* failed one has its timer.
THEOREM PageAndEngineAgreeAlways == Spec => []PageAndEngineAgree
<1>1. PageInv => PageAndEngineAgree
  BY DEF PageInv, PageAndEngineAgree, Events!IInv, Library!IInv, Panel!IInv
<1> QED BY <1>1, PageInvStays, PTL

LEMMA StepsGoForward ==
  ASSUME PageInv, [Next]_vars
  PROVE  /\ part = "events" => Events!NotBack
         /\ part = "panel" => Panel!RowsStay
<1>1. ASSUME part = "events" PROVE Events!NotBack
  <2>1. Events!Next \/ UNCHANGED Events!vars
    BY <1>1 DEF vars, Events!vars, Next, BehindNext, EventsNext, LibraryNext, AccountNext,
       PanelNext, SettingsNext,
       BadgeNext, DecorNext, MenuNext, OverlayNext
  <2> QED BY <1>1, <2>1, PageAssumption, EventsStepPreserves DEF PageInv, PageAssumption
<1>2. ASSUME part = "panel" PROVE Panel!RowsStay
  <2>1. Panel!Next \/ UNCHANGED Panel!vars
    BY <1>2 DEF vars, Panel!vars, Panel!panel, Next, BehindNext, EventsNext, LibraryNext,
       AccountNext, PanelNext, SettingsNext,
       BadgeNext, DecorNext, MenuNext, OverlayNext
  <2> QED BY <1>2, <2>1, PageAssumption, PanelStepPreserves DEF PageInv, PageAssumption
<1> QED BY <1>1, <1>2

\* The page's DRM state never goes back to an older one, not by a replay and not after a restart,
\* and a download that was shown as ended keeps its row whatever an older poll answers.
THEOREM StepsAreForwardAlways == Spec => StepsAreForward
<1>1. PageInv /\ [Next]_vars => [part = "events" => Events!NotBack]_vars
  BY StepsGoForward
<1>2. PageInv /\ [Next]_vars => [part = "panel" => Panel!RowsStay]_vars
  BY StepsGoForward
<1> QED BY <1>1, <1>2, PageInvStays, PTL DEF Spec, StepsAreForward

\* There is one badge and it is the newest; pages that have come to rest carry their statistics,
\* without the rest that replaced them, and no theme while themes are off; the dialog says what
\* is set; a clipboard taken for a link is given back; the video overlay's menu, icon, captions,
\* qualities and scrim are the video's; and where the compositor blurs, no layer is drawn.
THEOREM PageShowsTheStateAlways == Spec => []PageShowsTheState
<1>1. PageInv => PageShowsTheState
  <2> SUFFICES ASSUME PageInv PROVE PageShowsTheState
    OBVIOUS
  <2>1. part = "badge" => Badge!TypeOK /\ Badge!OneBadge
    BY BadgeOneBadgeHolds DEF PageInv, Badge!IInv
  <2>2. part = "decor" => Decor!TypeOK /\ Decor!SettledIsDecorated /\ Decor!OffShowsNoTheme
    BY DEF PageInv, Decor!IInv
  <2>3. part = "settings" => Settings!TypeOK /\ Settings!DialogIsTrue
    BY DEF PageInv, Settings!IInv
  <2>4. part = "menu" => Menu!TypeOK /\ Menu!ClipboardIsGivenBack
    BY MenuClipboardHolds DEF PageInv, Menu!IInv
  <2>5. part = "overlay" =>
           /\ Overlay!TypeOK /\ Overlay!MenuIsWithControls /\ Overlay!IconIsTrue
           /\ Overlay!CaptionsAreTrue /\ Overlay!QualityIsOffered /\ Overlay!TrackIsGivenBack
           /\ Overlay!ScrimIsFitted
    BY PageAssumption, OverlayQualityHolds DEF PageInv, PageAssumption, Overlay!IInv
  <2>6. part = "backdrop" =>
           /\ Behind!TypeOK /\ Behind!CompositorIsTrusted /\ Behind!WallpaperIsAsSet
           /\ Behind!DiesAtTheEnd
    BY BehindTrustHolds DEF PageInv, Behind!IInv
  <2> QED BY <2>1, <2>2, <2>3, <2>4, <2>5, <2>6 DEF PageShowsTheState
<1> QED BY <1>1, PageInvStays, PTL

LEMMA MenusStayTrue ==
  ASSUME PageInv, [Next]_vars
  PROVE  /\ part = "menu" => Menu!StartsTheMenus
         /\ part = "overlay" => Overlay!NextIsFree
<1>1. ASSUME part = "menu" PROVE Menu!StartsTheMenus
  <2>1. Menu!Next \/ UNCHANGED Menu!vars
    BY <1>1 DEF vars, Menu!vars, Menu!menuVars, Menu!linkVars, Next, BehindNext, EventsNext,
       LibraryNext, AccountNext,
       PanelNext, SettingsNext, BadgeNext, DecorNext, MenuNext, OverlayNext
  <2> QED BY <1>1, <2>1, PageAssumption, MenuStepPreserves DEF PageInv, PageAssumption
<1>2. ASSUME part = "overlay" PROVE Overlay!NextIsFree
  <2>1. Overlay!Next \/ UNCHANGED Overlay!vars
    BY <1>2 DEF vars, Overlay!vars, Overlay!session, Overlay!screen, Overlay!quality, Next,
       BehindNext, EventsNext, LibraryNext, AccountNext, PanelNext, SettingsNext, BadgeNext,
       DecorNext, MenuNext, OverlayNext
  <2> QED BY <1>2, <2>1, PageAssumption, OverlayStepPreserves DEF PageInv, PageAssumption
<1> QED BY <1>1, <1>2

\* A download starts for the item its menu was opened on, however the clicks, copies and answers
\* fall, and nothing a choice of quality left behind moves the next video's scrubber.
THEOREM MenusAreTrueAlways == Spec => MenusAreTrue
<1>1. PageInv /\ [Next]_vars => [part = "menu" => Menu!StartsTheMenus]_vars
  BY MenusStayTrue
<1>2. PageInv /\ [Next]_vars => [part = "overlay" => Overlay!NextIsFree]_vars
  BY MenusStayTrue
<1> QED BY <1>1, <1>2, PageInvStays, PTL DEF Spec, MenusAreTrue
=============================================================================
