------------------------------- MODULE MvFeed -------------------------------
(***************************************************************************)
(* The picture of a music video: the loop that fetches fragments and feeds *)
(* the SourceBuffer, the handler of a seek (electron/src/engine-playback.js,*)
(* _setupVsegVideo) and the engine's producers of fragments (engine/cmd/   *)
(* handlers_vseg.go).                                                      *)
(* The video is 0..Last fragments.  A producer that starts at fragment s   *)
(* numbers what it makes 0, 1, .. on a timeline of its own: the remuxed one*)
(* starts at 0 whatever s is, the direct one keeps the stream's, Raw ahead. *)
(* Where a fragment is shown is its time there plus the timestamp offset.  *)
(***************************************************************************)
EXTENDS Integers, FiniteSets, FiniteSetsExt

CONSTANTS
  Last,        \* the video's last fragment
  Ahead,       \* BUFFER_AHEAD, in fragments
  Raw,         \* how far the raw timeline is ahead of the playlist's
  MaxSeeks,    \* bound: seeks by the user
  MaxFaults    \* bound: requests that fail

Frags   == 0 .. Last
Seekers == 1 .. MaxSeeks
Idle    == [pc |-> "off", to |-> 0, aborted |-> FALSE, noDirect |-> FALSE,
            n |-> 0, offset |-> 0, direct |-> FALSE, reinit |-> FALSE]

VARIABLES
  \* the engine
  base,       \* fragments the base producer has made
  active,     \* the producer fragments are served from: [base, start, direct, made]
  sbDirect,   \* the kind of init segment last handed out
  running,    \* the session has producers
  \* the page
  opening,    \* the sourceopen handler: manifest, init, appended, fed, failed
  ct, seeking, seekingEv, seekedEv,   \* the video element and its events to come
  busy,       \* _seekHandlerActive
  seeks,      \* the seeking handlers that began
  loops,      \* fetch loops not stopped: [n, got, frag, late]
  buf,        \* the SourceBuffer: [what, at, ok]
  offset,     \* its timestampOffset
  init,       \* the kind of its init segment
  verdict,    \* _directVerdicts of the codec
  left,       \* the session was aborted
  made, faults, crossed,   \* seeks made, requests failed, seeks made during another
  blame       \* what came to pass that the code does not allow for

eng   == <<base, active, sbDirect, running>>
elem  == <<ct, seeking, seekingEv, seekedEv>>
sb    == <<buf, offset, init>>
hist  == <<left, made, faults, crossed, blame>>
vars  == <<eng, opening, elem, busy, seeks, loops, sb, verdict, hist>>

BaseProducer == [base |-> TRUE, start |-> 0, direct |-> FALSE, made |-> 0]

Init ==
  /\ base = 0 /\ active = BaseProducer /\ sbDirect = FALSE /\ running = TRUE
  /\ opening = "manifest"
  /\ ct = 0 /\ seeking = FALSE /\ seekingEv = FALSE /\ seekedEv = FALSE
  /\ busy = FALSE /\ seeks = [h \in Seekers |-> Idle] /\ loops = {}
  /\ buf = {} /\ offset = 0 /\ init = FALSE /\ verdict = "unknown"
  /\ left = FALSE /\ made = 0 /\ faults = 0 /\ crossed = FALSE /\ blame = {}

Covered(t) == \E f \in buf : f.at = t

\* A request fails.
Fault(why) == /\ faults < MaxFaults /\ faults' = faults + 1
              /\ blame' = blame \union {why}
              /\ UNCHANGED <<left, made, crossed>>

-----------------------------------------------------------------------------
(* The engine. *)

Made(p) == IF p.base THEN base ELSE p.made

Done(p) == p.start + Made(p) = Last + 1

\* One more fragment of the base producer, which runs from the first request on.
BaseEncodes ==
  /\ running /\ base <= Last
  /\ base' = base + 1
  /\ UNCHANGED <<active, sbDirect, running, opening, elem, busy, seeks, loops, sb, verdict, hist>>

\* One more fragment of a seek's producer.
SeekEncodes ==
  /\ running /\ ~active.base /\ ~Done(active)
  /\ active' = [active EXCEPT !.made = @ + 1]
  /\ UNCHANGED <<base, sbDirect, running, opening, elem, busy, seeks, loops, sb, verdict, hist>>

\* The producer has gone past time t of its own timeline.
Past(p, t) == Made(p) > t + 1 \/ (Done(p) /\ Made(p) > 0)

\* What GET vseg/seek does: from the base if it is past t, from the seek's producer if that
\* is, else from a new one: direct where it is allowed and can be had, or remuxed.
SeekProducers(t, noDirect) ==
  LET At(p, n, reused) == [producer |-> p, n |-> n, t |-> n, reused |-> reused]
  IN IF Past(BaseProducer, t) THEN {At(BaseProducer, t, FALSE)}
     ELSE IF ~active.base /\ ~active.direct /\ Past(active, t)
     THEN {At(active, IF t < Made(active) THEN t ELSE Made(active) - 1, TRUE)}
     ELSE {[At([base |-> FALSE, start |-> t, direct |-> d, made |-> 0], 0, FALSE)
              EXCEPT !.t = t] : d \in IF noDirect THEN {FALSE} ELSE BOOLEAN}

\* The n-th fragment of the producer that is active when the request is answered.
Fragment(n) ==
  [what |-> active.start + n, direct |-> active.direct,
   time |-> IF active.direct THEN active.start + n + Raw ELSE n]

-----------------------------------------------------------------------------
(* The fetch loop. *)

NoFrag == [what |-> 0, direct |-> FALSE, time |-> 0]
Loop(n) == [n |-> n, got |-> FALSE, frag |-> NoFrag]
BufferedEnd == Max({f.at : f \in buf}) + 1

\* Fetch the next fragment, not too far ahead; the engine answers once it is made.
Fetch(l) ==
  /\ l \in loops /\ ~l.got
  /\ buf # {} => BufferedEnd - ct <= Ahead
  /\ l.n < Made(active)
  /\ loops' = (loops \ {l}) \union {[l EXCEPT !.got = TRUE, !.frag = Fragment(l.n)]}
  /\ UNCHANGED <<eng, opening, elem, busy, seeks, sb, verdict, hist>>

\* The producer is done and has no such fragment (404), or the request fails.
FetchEnds(l) ==
  /\ l \in loops /\ ~l.got
  /\ \/ Done(active) /\ l.n >= Made(active) /\ UNCHANGED hist
     \/ Fault("lost")
  /\ loops' = loops \ {l}
  /\ UNCHANGED <<eng, opening, elem, busy, seeks, sb, verdict>>

\* Append it and go on; one that the init segment does not fit ends the loop.
Append(l) ==
  LET at == l.frag.time + offset
      ok == l.frag.direct = init
  IN /\ l \in loops /\ l.got
     /\ buf' = {f \in buf : f.at # at} \union {[what |-> l.frag.what, at |-> at, ok |-> ok]}
     /\ loops' = (loops \ {l}) \union (IF ok THEN {Loop(l.n + 1)} ELSE {})
     /\ UNCHANGED <<eng, opening, elem, busy, seeks, offset, init, verdict, hist>>

-----------------------------------------------------------------------------
(* The start: manifest, init segment, loop.  None of it minds the abort, and a request   *)
(* for a session without producers starts its base producer.                             *)

Reopens == /\ running' = TRUE
           /\ blame' = IF left THEN blame \union {"late"} ELSE blame

Manifest ==
  /\ opening = "manifest" /\ opening' = "init" /\ Reopens
  /\ UNCHANGED <<base, active, sbDirect, elem, busy, seeks, loops, sb, verdict, left, made,
                 faults, crossed>>

\* With the init segment the video can seek, to where it was set before.
InitSegment ==
  /\ opening = "init" /\ opening' = "appended" /\ Reopens
  /\ init' = active.direct
  /\ seeking' = (ct # 0) /\ seekingEv' = (ct # 0)
  /\ UNCHANGED <<base, active, sbDirect, ct, seekedEv, busy, seeks, loops, buf, offset, verdict,
                 left, made, faults, crossed>>

OpeningFails ==
  /\ opening \in {"manifest", "init"} /\ opening' = "failed" /\ Fault("lost")
  /\ UNCHANGED <<eng, elem, busy, seeks, loops, sb, verdict>>

\* runFetchLoop(0), even when a seek has begun or the session has ended by now.
StartLoop ==
  /\ opening = "appended" /\ opening' = "fed"
  /\ loops' = loops \union {Loop(0)}
  /\ running' = TRUE
  /\ blame' = IF left \/ busy \/ loops # {} \/ \E h \in Seekers : seeks[h].pc # "off"
              THEN blame \union {"late"} ELSE blame
  /\ UNCHANGED <<base, active, sbDirect, elem, busy, seeks, sb, verdict, left, made, faults, crossed>>

-----------------------------------------------------------------------------
(* Seeks. *)

UnderWay(h) == seeks[h].pc # "off"

\* The user sets currentTime, which seeks once there is metadata.
Seek(t) ==
  /\ made < MaxSeeks /\ ~left /\ t # ct /\ opening # "failed"
  /\ made' = made + 1 /\ ct' = t
  /\ seeking' = (opening \in {"appended", "fed"}) /\ seekingEv' = seeking' /\ seekedEv' = FALSE
  /\ crossed' = (crossed \/ busy \/ seeking \/ \E h \in Seekers : UnderWay(h))
  /\ UNCHANGED <<eng, opening, busy, seeks, loops, sb, verdict, left, faults, blame>>

Aborted(hs) == [h \in Seekers |-> IF hs[h].pc = "off" THEN hs[h]
                                   ELSE [hs[h] EXCEPT !.aborted = TRUE]]

\* Mutant: a seek leaves the loop under way running.
StopNothing == loops

\* stopFetchLoop: no loop goes on.
StopFetchLoop == {}

\* An earlier handler was told to append the other init segment and did not come to it: no later
\* answer will say so again (markInitKind).
Unfit == sbDirect # init

\* The 'seeking' event: ignored during a seek and for what is buffered; else the loop and
\* the requests of earlier handlers are aborted and the engine is asked, also when the
\* session ended before the event came.
SeekingEvent ==
  /\ seekingEv /\ seekingEv' = FALSE
  /\ IF busy \/ Covered(ct)
     THEN UNCHANGED <<busy, loops, seeks, blame>>
     ELSE /\ busy' = TRUE /\ loops' = StopFetchLoop
          /\ \E h \in Seekers :
               /\ ~UnderWay(h) /\ \A g \in 1 .. (h - 1) : UnderWay(g)
               /\ seeks' = [Aborted(seeks) EXCEPT
                              ![h] = [Idle EXCEPT !.pc = "ask", !.to = ct,
                                                  !.noDirect = verdict = "bad"]]
          /\ blame' = blame \union (IF left THEN {"late"} ELSE {})
                            \union (IF Unfit THEN {"unfit"} ELSE {})
  /\ UNCHANGED <<eng, opening, ct, seeking, seekedEv, sb, verdict, left, made, faults, crossed>>

Ends(h) == seeks' = [seeks EXCEPT ![h] = Idle]

\* A handler finds that it was aborted.
SeekAborted(h) ==
  /\ seeks[h].pc \in {"ask", "probe", "reinit"} /\ seeks[h].aborted
  /\ busy' = FALSE /\ Ends(h)
  /\ UNCHANGED <<eng, opening, elem, loops, sb, verdict, hist>>

\* The engine switches producers and answers; the answer is probed if it is the codec's
\* first direct one.
SeekAnswered(h) ==
  /\ seeks[h].pc = "ask" /\ ~seeks[h].aborted
  /\ \E r \in SeekProducers(seeks[h].to, seeks[h].noDirect) :
       LET direct == r.producer.direct
       IN /\ active' = r.producer /\ sbDirect' = direct /\ running' = TRUE
          /\ seeks' = [seeks EXCEPT ![h].pc = IF direct /\ verdict = "unknown" THEN "probe" ELSE "drain",
                                    ![h].n = r.n, ![h].direct = direct, ![h].reinit = sbDirect # direct,
                                    ![h].offset = IF direct THEN -Raw ELSE IF r.n = 0 THEN r.t ELSE 0]
          /\ blame' = IF r.reused THEN blame \union {"reused"} ELSE blame
  /\ UNCHANGED <<base, opening, elem, busy, loops, sb, verdict, left, made, faults, crossed>>

\* No answer: the handler goes on as if it were fragment 0 at time 0.
SeekUnanswered(h) ==
  /\ seeks[h].pc = "ask" /\ ~seeks[h].aborted /\ Fault("lost")
  /\ seeks' = [seeks EXCEPT ![h].pc = "drain"]
  /\ UNCHANGED <<eng, opening, elem, busy, loops, sb, verdict>>

\* _probeDirect: direct fragments are used, or never again.
Probed(h) ==
  /\ seeks[h].pc = "probe" /\ ~seeks[h].aborted
  /\ \/ verdict' = "ok" /\ seeks' = [seeks EXCEPT ![h].pc = "drain"]
     \/ verdict' = "bad" /\ seeks' = [seeks EXCEPT ![h].pc = "ask", ![h].noDirect = TRUE]
  /\ UNCHANGED <<eng, opening, elem, busy, loops, sb, hist>>

\* Feeding begins, unless the handler was aborted; busy stays until 'seeked'.
Feeds(h) == loops' = IF seeks[h].aborted THEN loops ELSE loops \union {Loop(seeks[h].n)}

\* Where the fragments to come are to be placed.
OffsetOf(h) == seeks[h].offset

\* The handlers that wait for the SourceBuffer besides h: they go on in turn, which is those that
\* were aborted first, and if the first has something to remove the SourceBuffer is busy for
\* the others, whose remove throws.
Waiting(h) == {g \in Seekers \ {h} : seeks[g].pc = "drain"}
InTurn(h)  == seeks[h].aborted \/ \A g \in Waiting(h) : ~seeks[g].aborted
Thrown(h)  == IF buf = {} THEN {} ELSE Waiting(h)

\* The SourceBuffer is emptied and the offset set, aborted or not; the first loop, which waits
\* for the init segment, starts before.
Drain(h) ==
  /\ seeks[h].pc = "drain" /\ opening = "fed" /\ InTurn(h)
  /\ buf' = {} /\ offset' = OffsetOf(h)
  /\ seeks' = [g \in Seekers |-> IF g \in Thrown(h) THEN Idle
                                 ELSE IF g # h THEN seeks[g]
                                 ELSE IF seeks[h].reinit THEN [seeks[h] EXCEPT !.pc = "reinit"]
                                 ELSE Idle]
  /\ IF seeks[h].reinit THEN UNCHANGED loops ELSE Feeds(h)
  /\ UNCHANGED <<eng, opening, elem, busy, init, verdict, hist>>

\* The init segment of the other kind is fetched and appended.
Reinit(h) ==
  /\ seeks[h].pc = "reinit" /\ ~seeks[h].aborted
  /\ init' = active.direct /\ Feeds(h) /\ Ends(h)
  /\ UNCHANGED <<eng, opening, elem, busy, buf, offset, verdict, hist>>

ReinitFails(h) ==
  /\ seeks[h].pc = "reinit" /\ ~seeks[h].aborted /\ Fault("lost")
  /\ busy' = FALSE /\ Ends(h)
  /\ UNCHANGED <<eng, opening, elem, loops, sb, verdict>>

\* The position is buffered: the video has sought.
Arrive ==
  /\ seeking /\ Covered(ct)
  /\ seeking' = FALSE /\ seekedEv' = TRUE
  /\ UNCHANGED <<eng, opening, ct, seekingEv, busy, seeks, loops, sb, verdict, hist>>

SeekedEvent ==
  /\ seekedEv /\ ~seekingEv /\ seekedEv' = FALSE /\ busy' = FALSE
  /\ UNCHANGED <<eng, opening, ct, seeking, seekingEv, seeks, loops, sb, verdict, hist>>

\* The video plays on to the next fragment.
Play ==
  /\ ~seeking /\ ~left /\ ct < Last /\ Covered(ct) /\ Covered(ct + 1) /\ ct' = ct + 1
  /\ UNCHANGED <<eng, opening, seeking, seekingEv, seekedEv, busy, seeks, loops, sb, verdict, hist>>

\* The session is aborted: loops and handlers stop, and so do the engine's producers.
Leave ==
  /\ ~left /\ left' = TRUE
  /\ loops' = StopFetchLoop /\ seeks' = Aborted(seeks)
  /\ running' = FALSE
  /\ UNCHANGED <<base, active, sbDirect, opening, elem, busy, sb, verdict, made, faults, crossed, blame>>

Engine == BaseEncodes \/ SeekEncodes
Feed   == \E l \in loops : Fetch(l) \/ FetchEnds(l) \/ Append(l)
Start  == Manifest \/ InitSegment \/ StartLoop
Handle == \E h \in Seekers : SeekAborted(h) \/ SeekAnswered(h) \/ Probed(h) \/ Drain(h) \/ Reinit(h)
Events == SeekingEvent \/ Arrive \/ SeekedEvent
Fails  == OpeningFails \/ \E h \in Seekers : SeekUnanswered(h) \/ ReinitFails(h)

Next == Engine \/ Feed \/ Start \/ Handle \/ Events \/ Fails \/ Play \/ Leave
        \/ \E t \in Frags : Seek(t)

\* Requests are answered or fail, events are delivered, producers and the video go on.
Fairness ==
  /\ WF_vars(BaseEncodes) /\ WF_vars(SeekEncodes) /\ WF_vars(Start) /\ WF_vars(Events)
  /\ WF_vars(Play) /\ WF_vars(Feed)
  /\ \A h \in Seekers : WF_vars(SeekAborted(h) \/ SeekAnswered(h) \/ Probed(h) \/ Drain(h) \/ Reinit(h))

Spec == Init /\ [][Next]_vars /\ Fairness

-----------------------------------------------------------------------------
(* Properties. *)

Producers == [base : BOOLEAN, start : Frags, direct : BOOLEAN, made : 0 .. Last + 1]
Handlers  == [pc : {"off", "ask", "probe", "drain", "reinit"}, to : Frags, aborted : BOOLEAN,
              noDirect : BOOLEAN, n : 0 .. Last + 1, offset : Int, direct : BOOLEAN,
              reinit : BOOLEAN]
Fetched   == [what : Frags, direct : BOOLEAN, time : Int]

TypeOK ==
  /\ base \in 0 .. Last + 1 /\ active \in Producers
  /\ opening \in {"manifest", "init", "appended", "fed", "failed"}
  /\ ct \in Frags /\ seeks \in [Seekers -> Handlers]
  /\ sbDirect \in BOOLEAN /\ running \in BOOLEAN /\ seeking \in BOOLEAN /\ seekingEv \in BOOLEAN
  /\ seekedEv \in BOOLEAN /\ busy \in BOOLEAN /\ init \in BOOLEAN /\ left \in BOOLEAN
  /\ crossed \in BOOLEAN
  /\ loops \subseteq [n : 0 .. Last + 1, got : BOOLEAN, frag : Fetched]
  /\ buf \subseteq [what : Frags, at : Int, ok : BOOLEAN] /\ offset \in Int
  /\ verdict \in {"unknown", "ok", "bad"} /\ made \in Nat /\ faults \in Nat
  /\ blame \subseteq {"lost", "late", "reused", "unfit"}

\* Every fragment of the SourceBuffer is shown at its own place in the video, and with an init
\* segment of its kind, through seeks that overlap and switches between remuxed and direct
\* fragments, unless a request failed, the first loop started late, the engine answered from a
\* seek's producer or a handler did not come to append the init segment it was told to
\* (timestampOffset and reinit in the 'seeking' handler).
FragmentsInPlace == blame = {} => \A f \in buf : f.what = f.at /\ f.ok

\* What the engine and the page say of init segments (markInitKind, the 'seeking' handler): the
\* player appends the other one when its kind flips, so no fragment is appended to one that does
\* not fit, however seeks overlap.
InitFits == blame \intersect {"lost", "late", "reused"} = {} => \A f \in buf : f.ok

\* At most one loop feeds the SourceBuffer, and none once the session has ended, however
\* seeks overlap, except where the first loop starts late or after the
\* end (fetchGeneration, loopAbort).
OneFeeder == "late" \notin blame => Cardinality(loops) <= (IF left THEN 0 ELSE 1)

\* Once the session has ended nothing starts the engine's producers again (vseg's DELETE) but
\* its own opening and a 'seeking' event still to come, which do not look at the abort.
ProducersStayStopped == left /\ running => "late" \in blame

Seeks    == seeking
SeekOver == ~seeking \/ crossed \/ blame # {} \/ left

\* A seek made while none is under way ends, unless a request fails or the session ends.
SeekEnds == Seeks ~> SeekOver
=============================================================================
