----------------------------- MODULE EventStream -----------------------------
(***************************************************************************)
(* The engine's event stream: the bus with its ring of past events          *)
(* (cmd/apiserver.go), the handler that writes a snapshot, the missed events *)
(* and the new ones to a client (handlers_system.go), the client that        *)
(* reconnects with the last ID it saw (engine-sse.js), and the page, which   *)
(* keeps the DRM state of the first snapshot and of the events after it.     *)
(***************************************************************************)
EXTENDS Naturals, Sequences

CONSTANTS RingSize, ChSize,  \* the events kept for replay, and queued for a client
          WireSize,          \* what is written and not read yet
          MaxChanges,        \* bound: changes of the DRM state
          MaxIds,            \* bound: event IDs of one engine process
          MaxFaults          \* bound: cut streams and engine restarts

EventsAssumption ==
  /\ RingSize \in Nat /\ ChSize \in Nat /\ WireSize \in Nat
  /\ MaxChanges \in Nat \ {0} /\ MaxIds \in Nat /\ MaxFaults \in Nat

VARIABLES
  drm,      \* the DRM state, by its number; an engine that starts has a new one
  changed,  \* the state has changed and its event is not emitted yet
  seq, log, \* the last event ID, and the DRM events of this engine process
  sub,      \* the handler of the stream: see NoSub
  wire,     \* written to the stream
  up,       \* the client has a stream
  lastId,   \* _lastEventId, 0 if none
  got,      \* history: the DRM events read from this stream
  page,     \* what the page knows: see Init
  faults

engine == <<drm, changed, seq, log>>
client == <<up, lastId, got, page>>
vars == <<drm, changed, seq, log, sub, wire, up, lastId, got, page, faults>>

\* open: in the bus's map of clients.  from: only later events are owed.
NoSub == [st |-> "none", open |-> FALSE, ch |-> <<>>, todo |-> <<>>, gap |-> FALSE, v |-> 0, from |-> 0]

Event == [type : {"snapshot", "truncated", "lagged", "ping", "drm"}, id : 1..MaxIds, v : Nat]

Init ==
  /\ drm = 1 /\ changed = FALSE /\ seq = 0 /\ log = <<>>
  /\ sub = NoSub /\ wire = <<>> /\ up = FALSE /\ lastId = 0 /\ got = <<>> /\ faults = 0
  /\ page = [mode |-> "waiting", snap |-> 0, v |-> 0]

-----------------------------------------------------------------------------
(* The bus. *)

Ring == IF Len(log) <= RingSize THEN log ELSE SubSeq(log, Len(log) - RingSize + 1, Len(log))

\* mergeAndEmit: the state first, its event next, under a lock of their own.
Change ==
  /\ ~changed /\ drm < MaxChanges /\ drm' = drm + 1 /\ changed' = TRUE
  /\ UNCHANGED <<seq, log, sub, wire, client, faults>>

\* A client whose channel is full is disconnected.
FanOut(e) ==
  IF ~sub.open THEN sub
  ELSE IF Len(sub.ch) < ChSize THEN [sub EXCEPT !.ch = Append(sub.ch, e)]
  ELSE [sub EXCEPT !.open = FALSE]

Emit ==
  /\ changed /\ seq < MaxIds
  /\ LET e == [type |-> "drm", id |-> seq + 1, v |-> drm]
     IN log' = Append(log, e) /\ sub' = FanOut(e)
  /\ changed' = FALSE /\ seq' = seq + 1
  /\ UNCHANGED <<drm, wire, client, faults>>

\* subscribeAndReplay: registered, and what was missed is taken, in one step: the events after
\* the last one the client has seen, if the ring still has them all.
Missed == lastId = 0 \/ lastId > seq \/ (Len(Ring) > 0 /\ lastId < Ring[1].id - 1)
Subscribe ==
  /\ ~up /\ up' = TRUE /\ got' = <<>>
  /\ LET from == IF Missed THEN seq ELSE lastId
     IN \E n \in 0..Len(log) :
          /\ \A i \in DOMAIN log : i > n <=> log[i].id > from
          /\ sub' = [st |-> "subscribed", open |-> TRUE, ch |-> <<>>, gap |-> Missed /\ lastId # 0,
                     v |-> 0, todo |-> SubSeq(log, n + 1, Len(log)), from |-> from]
  /\ UNCHANGED <<engine, wire, lastId, page, faults>>

-----------------------------------------------------------------------------
(* The handler. *)

Write(type, id, v) == Len(wire) < WireSize /\ wire' = Append(wire, [type |-> type, id |-> id, v |-> v])

\* An event of the handler's own has an ID of its own.
WriteNew(type, v) == seq < MaxIds /\ seq' = seq + 1 /\ Write(type, seq + 1, v)

ReadStatus ==
  /\ sub.st = "subscribed" /\ sub' = [sub EXCEPT !.st = "read", !.v = drm]
  /\ UNCHANGED <<engine, wire, client, faults>>

WriteSnapshot ==
  /\ sub.st = "read" /\ WriteNew("snapshot", sub.v)
  /\ sub' = [sub EXCEPT !.st = IF sub.gap THEN "truncated" ELSE "replay"]
  /\ UNCHANGED <<drm, changed, log, client, faults>>

WriteTruncated ==
  /\ sub.st = "truncated" /\ WriteNew("truncated", 0) /\ sub' = [sub EXCEPT !.st = "live"]
  /\ UNCHANGED <<drm, changed, log, client, faults>>

WriteReplay ==
  /\ sub.st = "replay"
  /\ IF sub.todo = <<>> THEN sub' = [sub EXCEPT !.st = "live"] /\ UNCHANGED wire
     ELSE Write("drm", Head(sub.todo).id, Head(sub.todo).v) /\ sub' = [sub EXCEPT !.todo = Tail(sub.todo)]
  /\ UNCHANGED <<engine, client, faults>>

WriteEvent ==
  /\ sub.st = "live" /\ sub.ch # <<>>
  /\ Write("drm", Head(sub.ch).id, Head(sub.ch).v) /\ sub' = [sub EXCEPT !.ch = Tail(sub.ch)]
  /\ UNCHANGED <<engine, client, faults>>

Ping ==
  /\ sub.st = "live" /\ WriteNew("ping", 0)
  /\ UNCHANGED <<drm, changed, log, sub, client, faults>>

\* The bus has closed the channel: what is in it is written first, then the client is told.
WriteLagged ==
  /\ sub.st = "live" /\ ~sub.open /\ sub.ch = <<>> /\ WriteNew("lagged", 0) /\ sub' = [sub EXCEPT !.st = "none"]
  /\ UNCHANGED <<drm, changed, log, client, faults>>

-----------------------------------------------------------------------------
(* The client and the page. *)

\* Mutant: events older than the snapshot are taken too.
FreshAny(e) == TRUE

Fresh(e) == e.id > page.snap

\* What a message does to the page: it waits for one snapshot, then listens to DRM events.
Seen(e) ==
  CASE e.type = "snapshot" /\ page.mode = "waiting" -> [mode |-> "resolved", snap |-> e.id, v |-> e.v]
    [] e.type = "drm" /\ page.mode = "listening" /\ Fresh(e) -> [page EXCEPT !.v = e.v]
    [] OTHER -> page

Receive ==
  /\ up /\ wire # <<>>
  /\ LET e == Head(wire)
     IN /\ lastId' = e.id /\ page' = Seen(e)
        /\ got' = IF e.type = "drm" THEN Append(got, e) ELSE got
  /\ wire' = Tail(wire)
  /\ UNCHANGED <<engine, sub, up, faults>>

\* The page goes on after the snapshot, or without one after sseWait, and listens from then on.
Listen ==
  /\ page.mode \in {"waiting", "resolved"} /\ page' = [page EXCEPT !.mode = "listening"]
  /\ UNCHANGED <<engine, sub, wire, up, lastId, got, faults>>

\* The stream has ended; the client reconnects after its delay.
StreamEnds ==
  /\ up /\ sub.st = "none" /\ wire = <<>> /\ up' = FALSE
  /\ UNCHANGED <<engine, sub, wire, lastId, got, page, faults>>

Cut ==
  /\ up /\ faults < MaxFaults /\ faults' = faults + 1
  /\ up' = FALSE /\ wire' = <<>> /\ sub' = NoSub
  /\ UNCHANGED <<engine, lastId, got, page>>

\* The engine starts again: its IDs start over.
Restart ==
  /\ ~changed /\ drm < MaxChanges /\ faults < MaxFaults /\ faults' = faults + 1
  /\ drm' = drm + 1 /\ seq' = 0 /\ log' = <<>> /\ sub' = NoSub
  /\ UNCHANGED <<changed, wire, client>>

Next ==
  \/ Change \/ Emit \/ Subscribe \/ ReadStatus \/ WriteSnapshot \/ WriteTruncated \/ WriteReplay
  \/ WriteEvent \/ Ping \/ WriteLagged \/ Receive \/ Listen \/ StreamEnds \/ Cut \/ Restart

Spec == Init /\ [][Next]_vars

-----------------------------------------------------------------------------
(* Properties. *)

Subs == [st : {"none", "subscribed", "read", "truncated", "replay", "live"}, open : BOOLEAN,
         ch : Seq(Event), todo : Seq(Event), gap : BOOLEAN, v : Nat, from : Nat]
TypeOK ==
  /\ drm \in 1..MaxChanges /\ changed \in BOOLEAN /\ seq \in 0..MaxIds
  /\ log \in Seq(Event) /\ wire \in Seq(Event) /\ got \in Seq(Event) /\ sub \in Subs
  /\ Len(sub.ch) <= ChSize /\ Len(wire) <= WireSize
  /\ up \in BOOLEAN /\ lastId \in 0..MaxIds
  /\ page \in [mode : {"waiting", "resolved", "listening"}, snap : 0..MaxIds, v : Nat]
  /\ page.v <= drm

\* The DRM events of a sequence of messages, by ID.
Drm(s) == {s[i].id : i \in {j \in DOMAIN s : s[j].type = "drm"}}
Rises(s) ==
  \A i, j \in DOMAIN s : i < j /\ s[i].type = "drm" /\ s[j].type = "drm" => s[i].id < s[j].id
Below(A, B) == \A a \in A, b \in B : a < b

\* In one stream the client gets every DRM event it is owed, once and in order, whatever is
\* emitted while the handler subscribes and replays; it may miss the end, if it is disconnected.
Owed == {id \in Drm(log) : id > sub.from}
InHand == Drm(got) \union Drm(wire) \union Drm(sub.todo) \union Drm(sub.ch)
NoGap ==
  sub.st # "none" =>
    /\ Rises(got) /\ Rises(wire) /\ Rises(sub.todo) /\ Rises(sub.ch)
    /\ Below(Drm(got), Drm(wire)) /\ Below(Drm(got) \union Drm(wire), Drm(sub.todo))
    /\ Below(Drm(got) \union Drm(wire) \union Drm(sub.todo), Drm(sub.ch))
    /\ IF sub.open THEN InHand = Owed ELSE InHand \subseteq Owed /\ Below(InHand, Owed \ InHand)

NotBack == page'.v >= page.v

\* The page never goes back to an older state: not by a replay, not after a restart.
NeverBack == [][NotBack]_vars

\* Why: the log rises, and no message on its way - on the wire, to be replayed, in the channel -
\* shows less than one before it or than the page, unless the page will skip it; what the log has
\* that shows less than the page is behind all of them, and behind the last ID the client saw.
LogRises ==
  /\ \A i \in DOMAIN log : log[i].type = "drm" /\ log[i].id <= seq /\ log[i].v <= drm
  /\ \A i, j \in DOMAIN log : i < j => log[i].id < log[j].id /\ log[i].v <= log[j].v
SubIsOpen ==
  /\ sub.v <= drm /\ (sub.todo # <<>> => sub.st \in {"subscribed", "read", "replay"} /\ ~sub.gap)
  /\ \A i \in DOMAIN sub.todo : sub.todo[i].type = "drm"
  /\ \A i \in DOMAIN sub.ch : sub.ch[i].type = "drm"
  /\ sub.st = "none" => sub.todo = <<>> /\ sub.ch = <<>> /\ ~sub.open
  /\ sub.st # "none" => up /\ sub.from <= seq /\ \A i \in DOMAIN wire : wire[i].id <= seq
  /\ ~up => wire = <<>>
Fits(a, b) ==
  /\ a.type = "drm" => a.id < b.id
  /\ b.type = "drm" /\ b.id > a.id => b.v >= a.v
InOrder(s) == \A i, j \in DOMAIN s : i < j => Fits(s[i], s[j])
AllFit(s, t) == \A i \in DOMAIN s, j \in DOMAIN t : Fits(s[i], t[j])
ComesInOrder ==
  /\ InOrder(wire) /\ InOrder(sub.todo) /\ InOrder(sub.ch)
  /\ AllFit(wire, sub.todo) /\ AllFit(wire, sub.ch) /\ AllFit(sub.todo, sub.ch)
Behind(e) == e.v < page.v /\ e.id > page.snap
Comes(m) ==
  /\ m.v <= drm /\ (m.type = "drm" => ~Behind(m))
  /\ \A k \in DOMAIN log : log[k].id > m.id => log[k].v >= m.v
  /\ \A k \in DOMAIN log : Behind(log[k]) => log[k].id < m.id
PageIsAhead ==
  /\ page.mode = "waiting" => page.v = 0 /\ page.snap = 0
  /\ \A i \in DOMAIN wire : Comes(wire[i])
  /\ \A i \in DOMAIN sub.todo : Comes(sub.todo[i])
  /\ \A i \in DOMAIN sub.ch : Comes(sub.ch[i])
  /\ \A k \in DOMAIN log : Behind(log[k]) => log[k].id <= lastId

\* The inductive invariant.
IInv == TypeOK /\ LogRises /\ SubIsOpen /\ NoGap /\ ComesInOrder /\ PageIsAhead

\* "they are stale ring-buffer replays whose state is already captured in the snapshot": an
\* event the page skips tells it nothing new.
SkippedIsCaptured ==
  [][up /\ wire # <<>> /\ wire' = Tail(wire) /\ Head(wire).type = "drm" /\ page.mode = "listening"
       => page'.v >= Head(wire).v]_vars
=============================================================================
