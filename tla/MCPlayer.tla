---------------------------------- MODULE MCPlayer --------------------------
(***************************************************************************)
(* The player's modules, side by side. They share no state, so a behaviour *)
(* is of one part of the player, chosen at the start among Parts: the      *)
(* owned queue (OwnedQueue), or of videos the picture (MvFeed), the sound  *)
(* (MvAudioPipe), the two together (MvSync) or the pipelines (MvPipelines, *)
(* which this module extends). What a part does not need stays 0. The      *)
(* properties are the modules' own, each asked of its part; those of the   *)
(* videos are proved at the end for every value of the constants.          *)
(***************************************************************************)
EXTENDS MvPipelines, FiniteSetTheorems, WellFoundedInduction, TLAPS

CONSTANTS Parts,                                  \* the parts to consider
          MaxLength, HoldMax, Quota, Behind, MaxSoundSeeks,  \* of MvAudioPipe
          Last, Ahead, Raw, MaxSeeks, MaxFaults,             \* of MvFeed
          MaxUser, MaxStalls                                 \* of MvSync

VARIABLES
  part,   \* the part this behaviour is of
  \* of MvAudioPipe, whose pc is at
  length, first, late, at, chunk, held, offsetSet, offset, buffered, appended, state, broken,
  aborted, position, seeks, lost,
  \* of MvFeed: stage is its opening, handlers its seeks, shift its offset
  base, active, sbDirect, running, stage, ct, seeking, seekingEv, seekedEv, busy, handlers, loops,
  buf, shift, init, verdict, left, made, faults, crossed, blame,
  \* of MvSync: begun is its started, bar its gate, onSeek its active, mirror its busy
  vPaused, vData, aPaused, aMuted, aData, events, onCan, videoCan, begun, bar, vsegStalled,
  mutedForStall, videoStalled, onSeek, resume, mirror, user, stalls, muteKey,
  \* of OwnedQueue: cdn is its gate, failed its faults
  containers, place, advancing, valve, target, nav, pending, cdn, retry, polls, mkQueue, now,
  calls, opened, repeat, presses, failed, strays

soundVars == <<length, first, late, at, chunk, held, offsetSet, offset, buffered, appended, state,
               broken, aborted, position, seeks, lost>>
feedVars  == <<base, active, sbDirect, running, stage, ct, seeking, seekingEv, seekedEv, busy,
               handlers, loops, buf, shift, init, verdict, left, made, faults, crossed, blame>>
syncVars  == <<vPaused, vData, aPaused, aMuted, aData, events, onCan, videoCan, begun, bar,
               vsegStalled, mutedForStall, videoStalled, onSeek, resume, mirror, user, stalls,
               muteKey>>
queueVars == <<containers, place, advancing, valve, target, nav, pending, cdn, retry, polls,
               mkQueue, now, calls, opened, repeat, presses, failed, strays>>
allVars   == <<part, vars, soundVars, feedVars, syncVars, queueVars>>

NoPipes == /\ pc = 0 /\ put = 0 /\ started = 0 /\ sound = 0 /\ leave = 0 /\ gate = 0 /\ icept = 0
           /\ fs = 0 /\ savedFs = 0 /\ ctrl = 0 /\ opening = 0 /\ gen = 0 /\ quality = 0
NoSound == /\ length = 0 /\ first = 0 /\ late = 0 /\ at = 0 /\ chunk = 0 /\ held = 0
           /\ offsetSet = 0 /\ offset = 0 /\ buffered = 0 /\ appended = 0 /\ state = 0
           /\ broken = 0 /\ aborted = 0 /\ position = 0 /\ seeks = 0 /\ lost = 0
NoFeed  == /\ base = 0 /\ active = 0 /\ sbDirect = 0 /\ running = 0 /\ stage = 0 /\ ct = 0
           /\ seeking = 0 /\ seekingEv = 0 /\ seekedEv = 0 /\ busy = 0 /\ handlers = 0 /\ loops = 0
           /\ buf = 0 /\ shift = 0 /\ init = 0 /\ verdict = 0 /\ left = 0 /\ made = 0 /\ faults = 0
           /\ crossed = 0 /\ blame = 0
NoSync  == /\ vPaused = 0 /\ vData = 0 /\ aPaused = 0 /\ aMuted = 0 /\ aData = 0 /\ events = 0
           /\ onCan = 0 /\ videoCan = 0 /\ begun = 0 /\ bar = 0 /\ vsegStalled = 0
           /\ mutedForStall = 0 /\ videoStalled = 0 /\ onSeek = 0 /\ resume = 0 /\ mirror = 0
           /\ user = 0 /\ stalls = 0 /\ muteKey = 0
NoQueue == /\ containers = 0 /\ place = 0 /\ advancing = 0 /\ valve = 0 /\ target = 0 /\ nav = 0
           /\ pending = 0 /\ cdn = 0 /\ retry = 0 /\ polls = 0 /\ mkQueue = 0 /\ now = 0
           /\ calls = 0 /\ opened = 0 /\ repeat = 0 /\ presses = 0 /\ failed = 0 /\ strays = 0
-----------------------------------------------------------------------------
Queue == INSTANCE OwnedQueue WITH
  Lists <- {<<"v", "a">>, <<"a">>}, Videos <- {"v"}, MaxPresses <- 3, MaxFaults <- 1,
  MaxStrays <- 1, gate <- cdn, faults <- failed
Sync == INSTANCE MvSync WITH started <- begun, gate <- bar, active <- onSeek, busy <- mirror
Sound == INSTANCE MvAudioPipe WITH MaxSeeks <- MaxSoundSeeks, pc <- at
Feed == INSTANCE MvFeed WITH opening <- stage, seeks <- handlers, offset <- shift

\* The bounds are numbers, as are the sizes and times of _setupVsegVideo, of which only
\* MV_AUDIO_HOLD_MAX has to be more than none.
ASSUME PlayerAssumption ==
  /\ MaxPipes \in Nat
  /\ MaxLength \in Nat /\ HoldMax \in Nat /\ Behind \in Nat /\ MaxSoundSeeks \in Nat
  /\ Last \in Nat /\ Raw \in Int /\ MaxSeeks \in Nat /\ MaxFaults \in Nat
  /\ MaxUser \in Nat /\ MaxStalls \in Nat
-----------------------------------------------------------------------------
PlayerInit ==
  /\ part \in Parts
  /\ \/ part = "queue" /\ Queue!Init /\ NoPipes /\ NoSound /\ NoFeed /\ NoSync
     \/ part = "feed" /\ Feed!Init /\ NoPipes /\ NoSound /\ NoSync /\ NoQueue
     \/ part = "sync" /\ Sync!Init /\ NoPipes /\ NoSound /\ NoFeed /\ NoQueue
     \/ part = "pipes" /\ Init /\ NoSound /\ NoFeed /\ NoSync /\ NoQueue
     \/ part = "sound" /\ Sound!Init /\ NoPipes /\ NoFeed /\ NoSync /\ NoQueue

QueueNext == part = "queue" /\ Queue!Next /\ UNCHANGED <<part, vars, soundVars, feedVars, syncVars>>
FeedNext == part = "feed" /\ Feed!Next /\ UNCHANGED <<part, vars, soundVars, syncVars, queueVars>>
SyncNext == part = "sync" /\ Sync!Next /\ UNCHANGED <<part, vars, soundVars, feedVars, queueVars>>
PipesNext == part = "pipes" /\ Next /\ UNCHANGED <<part, soundVars, feedVars, syncVars, queueVars>>
SoundNext == part = "sound" /\ Sound!Next /\ UNCHANGED <<part, vars, feedVars, syncVars, queueVars>>

PlayerNext == QueueNext \/ FeedNext \/ SyncNext \/ PipesNext \/ SoundNext

(* What is owed to each part: the actions its module states weak fairness of, at most one of
   a part in each of the following. As a behaviour never changes its part, weak fairness of
   their disjunction is weak fairness of the one of its part. *)
Queued(A) == part = "queue" /\ A /\ UNCHANGED <<part, vars, soundVars, feedVars, syncVars>>
Fed(A)    == part = "feed" /\ A /\ UNCHANGED <<part, vars, soundVars, syncVars, queueVars>>
Synced(A) == part = "sync" /\ A /\ UNCHANGED <<part, vars, soundVars, feedVars, queueVars>>
Piped(A)  == part = "pipes" /\ A /\ UNCHANGED <<part, soundVars, feedVars, syncVars, queueVars>>

Owed1 == \/ Queued(Queue!Retry) \/ Fed(Feed!BaseEncodes)
         \/ Synced(Sync!VideoEvents \/ Sync!AudioEvents) \/ Piped(Opened)
         \/ part = "sound" /\ Sound!Pipe /\ UNCHANGED <<part, vars, feedVars, syncVars, queueVars>>
Owed2 == \/ Queued(Queue!Valve) \/ Fed(Feed!SeekEncodes) \/ Synced(Sync!TryResume)
         \/ Piped(QualityTimer)
Owed3 == Queued(Queue!PollEnds) \/ Fed(Feed!Start) \/ Synced(Sync!VideoCanPlay)
Owed4 == Queued(Queue!Fallback) \/ Fed(Feed!Events) \/ Synced(Sync!AudioCanPlay)
Owed5 == \/ Queued(Queue!MkSets \/ Queue!MkGoes \/ Queue!GotoEnds) \/ Fed(Feed!Play)
         \/ Synced(Sync!Data)
Owed6 == Fed(Feed!Feed)
\* Of a handler of a seek, or of a pipeline.
HandlerOwed(i) ==
  \/ Fed(/\ i \in Feed!Seekers
         /\ Feed!SeekAborted(i) \/ Feed!SeekAnswered(i) \/ Feed!Probed(i) \/ Feed!Drain(i)
            \/ Feed!Reinit(i))
  \/ Piped(i \in Pipes /\ ContainerMissing(i))

PlayerFairness ==
  /\ WF_allVars(Owed1) /\ WF_allVars(Owed2) /\ WF_allVars(Owed3) /\ WF_allVars(Owed4)
  /\ WF_allVars(Owed5) /\ WF_allVars(Owed6)
  /\ \A i \in Pipes \union Feed!Seekers : WF_allVars(HandlerOwed(i))
  /\ \A p \in Pipes : /\ WF_allVars(Piped(AudioOpens(p) \/ VideoOpens(p)))
                      /\ WF_allVars(Piped(ExitClicked(p)))

PlayerSpec == PlayerInit /\ [][PlayerNext]_allVars /\ PlayerFairness
-----------------------------------------------------------------------------
(* The owned queue's place is the place of the track that plays (OwnedQueue). *)
PositionIsTheTrack ==
  /\ part = "queue" => (Queue!TypeOK /\ Queue!PositionIsTheTrack)

(* A video's fragments land at their place in the timeline, from one feeder, and no encoder
   runs for a video that was left (MvFeed). *)
FeedIsOne ==
  /\ part = "feed" =>
       /\ Feed!TypeOK
       /\ Feed!FragmentsInPlace
       /\ Feed!OneFeeder
       /\ Feed!ProducersStayStopped

(* Picture and sound of a video run and pause together, and a stall leaves neither muted nor
   paused (MvSync). *)
PictureAndSoundAgree ==
  /\ part = "sync" => (Sync!TypeOK /\ Sync!PictureAndSoundAgree /\ Sync!StallLeavesNoTrace)

(* A video that is left gives the page back as it was, only one is ever alive, and a change of
   quality restarts it once (MvPipelines). *)
PagesAreGivenBack ==
  /\ part = "pipes" =>
       /\ TypeOK
       /\ PageIsGivenBack
       /\ OnePipelineLives
       /\ QualityRestartsOnce

(* A video's sound starts with the picture, is declared ended only when whole, and is never
   evicted unplayed (MvAudioPipe). *)
SoundIsWhole ==
  /\ part = "sound" =>
       /\ Sound!TypeOK
       /\ Sound!SoundIsShifted
       /\ Sound!EndedIsWhole
       /\ Sound!UnplayedIsKept

(* MusicKit comes to open the item that the owned queue says plays, the seeks, stalls and sound
   pipes of videos come to an end, and every video that is being opened comes to run or is left. *)
PlayerSettles ==
  (\/ part \in {"queue", "sync", "sound"}
   \/ part = "feed" /\ Feed!Seeks
   \/ part = "pipes" /\ \E p \in Pipes : Begun(p)) ~>
  (/\ part = "queue" => Queue!ItemIsOpen
   /\ part = "feed" => Feed!SeekOver
   /\ part = "sync" => Sync!Settled
   /\ part = "pipes" => \A p \in Pipes : pc[p] # "new" => Settled(p)
   /\ part = "sound" => Sound!Over)

-----------------------------------------------------------------------------
(* The inductive invariant of the sound. *)

\* Until the shift is decided every chunk read is held, and the first fragment's head is not
\* among them.
Undecided ==
  ~offsetSet =>
    /\ at \in {"fetch", "read", "rest", "off"}
    /\ at \in {"fetch", "read"} => held = 1 .. chunk /\ appended = {} /\ first \notin held

\* Once decided it is the right one, if the head came in time; a stream too short to tell is
\* appended undecided.
Decided ==
  /\ offsetSet => offset = late \/ first > HoldMax
  /\ appended # {} => offsetSet \/ first > length

\* What is held is appended as soon as the shift is decided, and chunks go one by one then.
HeldIsAppended == offsetSet /\ at # "first" => held = {}
ChunkUnderWay  == at \in {"append", "evict", "again"} => offsetSet /\ chunk >= 1
UnderWay == IF at \in {"append", "evict", "again"} THEN {chunk} ELSE {}

\* While the pipe works, each chunk read is appended, given up, held or under way.
EachIsSomewhere ==
  Sound!Live /\ at # "off" =>
    /\ appended \union lost \union held \union UnderWay = 1 .. chunk
    /\ at = "rest" => chunk = length /\ held = {}

\* The end is declared by a pipe that then stops.
EndIsLast == state = "ended" => at = "off"

SoundInv ==
  /\ Sound!TypeOK /\ Undecided /\ Decided /\ HeldIsAppended /\ ChunkUnderWay
  /\ EachIsSomewhere /\ EndIsLast /\ Sound!EndedIsWhole /\ Sound!UnplayedIsKept

LEMMA SoundInit == Sound!Init => SoundInv
<1> SUFFICES ASSUME Sound!Init PROVE SoundInv
  OBVIOUS
<1>1. Sound!TypeOK
  <2>1. length \in 1 .. MaxLength /\ first \in 1 .. MaxLength + 1 /\ chunk = 0 /\ position = 1
        /\ seeks = 0 /\ late \in BOOLEAN
    BY DEF Sound!Init
  <2>2. chunk \in 0 .. length /\ position \in 1 .. length + 1 /\ seeks \in 0 .. MaxSoundSeeks
    BY <2>1, PlayerAssumption DEF PlayerAssumption
  <2>3. {late, offsetSet, offset, broken, aborted} \subseteq BOOLEAN
    BY DEF Sound!Init
  <2> QED BY <2>1, <2>2, <2>3 DEF Sound!Init, Sound!TypeOK, Sound!Pcs
<1> QED
  BY <1>1 DEF Sound!Init, SoundInv, Sound!TypeOK, Undecided, Decided, HeldIsAppended,
    ChunkUnderWay,
    EachIsSomewhere, UnderWay, EndIsLast, Sound!EndedIsWhole, Sound!UnplayedIsKept

LEMMA SoundStutters == SoundInv /\ UNCHANGED soundVars => SoundInv'
  BY DEF SoundInv, soundVars, Sound!TypeOK, Sound!Pcs, Undecided, Decided, HeldIsAppended,
    ChunkUnderWay, EachIsSomewhere, UnderWay, Sound!Live, EndIsLast, Sound!EndedIsWhole,
    Sound!UnplayedIsKept

LEMMA SoundPreserves == SoundInv /\ Sound!Next => SoundInv'
<1> SUFFICES ASSUME SoundInv, Sound!Next PROVE SoundInv'
  OBVIOUS
<1> USE PlayerAssumption DEF Sound!stream, Sound!sb, Sound!user
<1>1. CASE Sound!Answered
  <2>1. Sound!TypeOK'
    BY <1>1 DEF SoundInv, Sound!TypeOK, Sound!Pcs, ChunkUnderWay, Sound!Answered, Sound!Go
  <2>2. Undecided'
    BY <1>1 DEF SoundInv, Sound!TypeOK, Undecided, Sound!Answered, Sound!Go
  <2>3. Decided'
    BY <1>1 DEF SoundInv, Sound!TypeOK, Undecided, Decided, Sound!Answered, Sound!Go
  <2>4. (HeldIsAppended /\ ChunkUnderWay)'
    BY <1>1 DEF SoundInv, Sound!TypeOK, HeldIsAppended, ChunkUnderWay, Sound!Answered, Sound!Go
  <2>5. EachIsSomewhere'
    BY <1>1 DEF SoundInv, Sound!TypeOK, HeldIsAppended, ChunkUnderWay, EachIsSomewhere,
      UnderWay, Sound!Live, Sound!Answered, Sound!Go
  <2>6. EndIsLast'
    BY <1>1 DEF SoundInv, EndIsLast, Sound!TypeOK, Sound!Answered, Sound!Go
  <2>7. Sound!EndedIsWhole'
    BY <1>1 DEF SoundInv, EndIsLast, EachIsSomewhere, UnderWay, Sound!EndedIsWhole,
      Sound!Live, Sound!Answered, Sound!Go
  <2>8. Sound!UnplayedIsKept'
    BY <1>1 DEF SoundInv, Sound!UnplayedIsKept, Sound!TypeOK, Sound!Answered, Sound!Go
  <2> QED BY <2>1, <2>2, <2>3, <2>4, <2>5, <2>6, <2>7, <2>8 DEF SoundInv
<1>2. CASE Sound!Read
  <2> DEFINE all == held \union {chunk'}
  <2> USE DEF Sound!Go
  <2>1. /\ length' = length /\ first' = first /\ late' = late /\ aborted' = aborted
        /\ broken' = broken /\ position' = position /\ seeks' = seeks /\ buffered' = buffered
        /\ appended' = appended /\ state' = state /\ lost' = lost
        /\ at = "read" /\ chunk' = chunk + 1 /\ chunk' <= length
    BY <1>2 DEF SoundInv, Sound!TypeOK, Sound!Read
  <2>2. chunk \in Nat /\ length \in Nat /\ 1 .. chunk' = (1 .. chunk) \union {chunk'}
    BY <2>1 DEF SoundInv, Sound!TypeOK
  <2>3. \/ ~Sound!Live /\ at' = "rest" /\ UNCHANGED <<held, offsetSet, offset>>
        \/ Sound!Live /\ offsetSet /\ at' = "append" /\ UNCHANGED <<held, offsetSet, offset>>
        \/ /\ Sound!Live /\ ~offsetSet /\ Sound!KeepHolding(all)
           /\ held' = all /\ at' = "read" /\ UNCHANGED <<offsetSet, offset>>
        \/ /\ Sound!Live /\ ~offsetSet /\ ~Sound!KeepHolding(all)
           /\ held' = all /\ at' = "first" /\ offsetSet' = TRUE
           /\ offset' = (Sound!StartKnown(all) /\ late)
    BY <1>2 DEF Sound!Read, Sound!Joined
  <2>4. /\ {late', offsetSet', broken', aborted'} \subseteq BOOLEAN
        /\ offset' \in BOOLEAN
    BY <2>1, <2>3 DEF SoundInv, Sound!TypeOK
  <2>5. Sound!TypeOK'
    BY <2>1, <2>2, <2>3, <2>4 DEF SoundInv, Sound!TypeOK, Sound!Pcs
  <2>6. Undecided'
    <3>1. CASE at' = "read"
      <4>1. ~offsetSet /\ held = 1 .. chunk /\ held' = all /\ appended = {}
        BY <2>1, <2>3, <3>1 DEF SoundInv, Undecided
      <4>2. first \notin all
        BY <2>3, <3>1 DEF Sound!KeepHolding, Sound!StartKnown
      <4> QED BY <2>1, <2>2, <3>1, <4>1, <4>2 DEF Undecided
    <3> QED BY <2>1, <2>3, <3>1 DEF SoundInv, Undecided
  <2>7. Decided'
    <3>1. CASE Sound!Live /\ ~offsetSet /\ ~Sound!KeepHolding(all)
      <4>1. held = 1 .. chunk /\ all = 1 .. chunk' /\ appended = {}
        BY <2>1, <2>2, <3>1 DEF SoundInv, Undecided
      <4>2. Sound!Cardinality(all) = chunk'
        <5>1. Cardinality(1 .. chunk') = chunk'
          BY <2>1, <2>2, FS_Interval
        <5>2. Sound!Cardinality(all) = Cardinality(all)
          BY DEF Sound!Cardinality, Cardinality
        <5> QED BY <4>1, <5>1, <5>2
      <4>3. first \in all \/ first > HoldMax
        BY <2>1, <2>2, <3>1, <4>1, <4>2
        DEF SoundInv, Sound!TypeOK, Sound!KeepHolding, Sound!StartKnown
      <4> QED
        BY <2>1, <2>3, <3>1, <4>1, <4>3 DEF SoundInv, Sound!TypeOK, Decided, Sound!StartKnown
    <3> QED
      BY <2>1, <2>3, <3>1 DEF SoundInv, Decided
  <2>8. (HeldIsAppended /\ ChunkUnderWay)'
    BY <2>1, <2>2, <2>3, <2>5 DEF SoundInv, HeldIsAppended, ChunkUnderWay
  <2>9. EachIsSomewhere'
    BY <2>1, <2>2, <2>3 DEF SoundInv, EachIsSomewhere, UnderWay, Sound!Live
  <2>10. EndIsLast' /\ Sound!EndedIsWhole' /\ Sound!UnplayedIsKept'
    BY <2>1 DEF SoundInv, EndIsLast, Sound!EndedIsWhole, Sound!UnplayedIsKept
  <2> QED BY <2>5, <2>6, <2>7, <2>8, <2>9, <2>10 DEF SoundInv
<1>3. CASE Sound!ReadFails
  <2>1. Sound!TypeOK'
    BY <1>3 DEF SoundInv, Sound!TypeOK, Sound!Pcs, ChunkUnderWay, Sound!ReadFails, Sound!Go
  <2>2. Undecided'
    BY <1>3 DEF SoundInv, Sound!TypeOK, Undecided, Sound!ReadFails, Sound!Go
  <2>3. Decided'
    BY <1>3 DEF SoundInv, Sound!TypeOK, Undecided, Decided, Sound!ReadFails, Sound!Go
  <2>4. (HeldIsAppended /\ ChunkUnderWay)'
    BY <1>3 DEF SoundInv, Sound!TypeOK, HeldIsAppended, ChunkUnderWay, Sound!ReadFails, Sound!Go
  <2>5. EachIsSomewhere'
    BY <1>3 DEF SoundInv, Sound!TypeOK, HeldIsAppended, ChunkUnderWay, EachIsSomewhere,
      UnderWay, Sound!Live, Sound!ReadFails, Sound!Go
  <2>6. EndIsLast'
    BY <1>3 DEF SoundInv, EndIsLast, Sound!TypeOK, Sound!ReadFails, Sound!Go
  <2>7. Sound!EndedIsWhole'
    BY <1>3 DEF SoundInv, EndIsLast, EachIsSomewhere, UnderWay, Sound!EndedIsWhole,
      Sound!Live, Sound!ReadFails, Sound!Go
  <2>8. Sound!UnplayedIsKept'
    BY <1>3 DEF SoundInv, Sound!UnplayedIsKept, Sound!TypeOK, Sound!ReadFails, Sound!Go
  <2> QED BY <2>1, <2>2, <2>3, <2>4, <2>5, <2>6, <2>7, <2>8 DEF SoundInv
<1>4. CASE Sound!AppendHeld
  <2>1. Sound!TypeOK'
    BY <1>4 DEF SoundInv, Sound!TypeOK, Sound!Pcs, ChunkUnderWay, Sound!AppendHeld, Sound!Go,
      Sound!Take, Sound!Rejects
  <2>2. Undecided'
    BY <1>4 DEF SoundInv, Sound!TypeOK, Undecided, Sound!AppendHeld, Sound!Go, Sound!Take,
      Sound!Rejects
  <2>3. Decided'
    BY <1>4 DEF SoundInv, Sound!TypeOK, Undecided, Decided, Sound!AppendHeld, Sound!Go,
      Sound!Take, Sound!Rejects
  <2>4. (HeldIsAppended /\ ChunkUnderWay)'
    BY <1>4 DEF SoundInv, Sound!TypeOK, HeldIsAppended, ChunkUnderWay, Sound!AppendHeld,
      Sound!Go, Sound!Take, Sound!Rejects
  <2>5. EachIsSomewhere'
    BY <1>4 DEF SoundInv, Sound!TypeOK, HeldIsAppended, ChunkUnderWay, EachIsSomewhere,
      UnderWay, Sound!Live, Sound!AppendHeld, Sound!Go, Sound!Take, Sound!Rejects
  <2>6. EndIsLast'
    BY <1>4 DEF SoundInv, EndIsLast, Sound!TypeOK, Sound!AppendHeld, Sound!Go, Sound!Take,
      Sound!Rejects
  <2>7. Sound!EndedIsWhole'
    BY <1>4 DEF SoundInv, EndIsLast, EachIsSomewhere, UnderWay, Sound!EndedIsWhole,
      Sound!Live, Sound!AppendHeld, Sound!Go, Sound!Take, Sound!Rejects
  <2>8. Sound!UnplayedIsKept'
    BY <1>4 DEF SoundInv, Sound!UnplayedIsKept, Sound!TypeOK, Sound!AppendHeld, Sound!Go,
      Sound!Take, Sound!Rejects
  <2> QED BY <2>1, <2>2, <2>3, <2>4, <2>5, <2>6, <2>7, <2>8 DEF SoundInv
<1>5. CASE Sound!Append
  <2>1. Sound!TypeOK'
    BY <1>5 DEF SoundInv, Sound!TypeOK, Sound!Pcs, ChunkUnderWay, Sound!Append, Sound!Go,
      Sound!Take, Sound!Rejects
  <2>2. Undecided'
    BY <1>5 DEF SoundInv, Sound!TypeOK, Undecided, Sound!Append, Sound!Go, Sound!Take,
      Sound!Rejects
  <2>3. Decided'
    BY <1>5 DEF SoundInv, Sound!TypeOK, Undecided, Decided, Sound!Append, Sound!Go,
      Sound!Take, Sound!Rejects
  <2>4. (HeldIsAppended /\ ChunkUnderWay)'
    BY <1>5 DEF SoundInv, Sound!TypeOK, HeldIsAppended, ChunkUnderWay, Sound!Append, Sound!Go,
      Sound!Take, Sound!Rejects
  <2>5. EachIsSomewhere'
    BY <1>5 DEF SoundInv, Sound!TypeOK, HeldIsAppended, ChunkUnderWay, EachIsSomewhere,
      UnderWay, Sound!Live, Sound!Append, Sound!Go, Sound!Take, Sound!Rejects
  <2>6. EndIsLast'
    BY <1>5 DEF SoundInv, EndIsLast, Sound!TypeOK, Sound!Append, Sound!Go, Sound!Take,
      Sound!Rejects
  <2>7. Sound!EndedIsWhole'
    BY <1>5 DEF SoundInv, EndIsLast, EachIsSomewhere, UnderWay, Sound!EndedIsWhole,
      Sound!Live, Sound!Append, Sound!Go, Sound!Take, Sound!Rejects
  <2>8. Sound!UnplayedIsKept'
    BY <1>5 DEF SoundInv, Sound!UnplayedIsKept, Sound!TypeOK, Sound!Append, Sound!Go,
      Sound!Take, Sound!Rejects
  <2> QED BY <2>1, <2>2, <2>3, <2>4, <2>5, <2>6, <2>7, <2>8 DEF SoundInv
<1>6. CASE Sound!Evict
  <2>1. Sound!TypeOK'
    BY <1>6 DEF SoundInv, Sound!TypeOK, Sound!Pcs, ChunkUnderWay, Sound!Evict, Sound!Go,
      Sound!Evicted
  <2>2. Undecided'
    BY <1>6 DEF SoundInv, Sound!TypeOK, Undecided, Sound!Evict, Sound!Go, Sound!Evicted
  <2>3. Decided'
    BY <1>6 DEF SoundInv, Sound!TypeOK, Undecided, Decided, Sound!Evict, Sound!Go, Sound!Evicted
  <2>4. (HeldIsAppended /\ ChunkUnderWay)'
    BY <1>6 DEF SoundInv, Sound!TypeOK, HeldIsAppended, ChunkUnderWay, Sound!Evict, Sound!Go,
      Sound!Evicted
  <2>5. EachIsSomewhere'
    BY <1>6 DEF SoundInv, Sound!TypeOK, HeldIsAppended, ChunkUnderWay, EachIsSomewhere,
      UnderWay, Sound!Live, Sound!Evict, Sound!Go, Sound!Evicted
  <2>6. EndIsLast'
    BY <1>6 DEF SoundInv, EndIsLast, Sound!TypeOK, Sound!Evict, Sound!Go, Sound!Evicted
  <2>7. Sound!EndedIsWhole'
    BY <1>6 DEF SoundInv, EndIsLast, EachIsSomewhere, UnderWay, Sound!EndedIsWhole,
      Sound!Live, Sound!Evict, Sound!Go, Sound!Evicted
  <2>8. Sound!UnplayedIsKept'
    BY <1>6 DEF SoundInv, Sound!UnplayedIsKept, Sound!TypeOK, Sound!Evict, Sound!Go,
      Sound!Evicted
  <2> QED BY <2>1, <2>2, <2>3, <2>4, <2>5, <2>6, <2>7, <2>8 DEF SoundInv
<1>7. CASE Sound!AppendAgain
  <2>1. Sound!TypeOK'
    BY <1>7 DEF SoundInv, Sound!TypeOK, Sound!Pcs, ChunkUnderWay, Sound!AppendAgain, Sound!Go,
      Sound!Take
  <2>2. Undecided'
    BY <1>7 DEF SoundInv, Sound!TypeOK, Undecided, Sound!AppendAgain, Sound!Go, Sound!Take
  <2>3. Decided'
    BY <1>7 DEF SoundInv, Sound!TypeOK, Undecided, Decided, Sound!AppendAgain, Sound!Go,
      Sound!Take
  <2>4. (HeldIsAppended /\ ChunkUnderWay)'
    BY <1>7 DEF SoundInv, Sound!TypeOK, HeldIsAppended, ChunkUnderWay, Sound!AppendAgain,
      Sound!Go, Sound!Take
  <2>5. EachIsSomewhere'
    BY <1>7 DEF SoundInv, Sound!TypeOK, HeldIsAppended, ChunkUnderWay, EachIsSomewhere,
      UnderWay, Sound!Live, Sound!AppendAgain, Sound!Go, Sound!Take
  <2>6. EndIsLast'
    BY <1>7 DEF SoundInv, EndIsLast, Sound!TypeOK, Sound!AppendAgain, Sound!Go, Sound!Take
  <2>7. Sound!EndedIsWhole'
    BY <1>7 DEF SoundInv, EndIsLast, EachIsSomewhere, UnderWay, Sound!EndedIsWhole,
      Sound!Live, Sound!AppendAgain, Sound!Go, Sound!Take
  <2>8. Sound!UnplayedIsKept'
    BY <1>7 DEF SoundInv, Sound!UnplayedIsKept, Sound!TypeOK, Sound!AppendAgain, Sound!Go,
      Sound!Take
  <2> QED BY <2>1, <2>2, <2>3, <2>4, <2>5, <2>6, <2>7, <2>8 DEF SoundInv
<1>8. CASE Sound!StreamDone
  <2>1. Sound!TypeOK'
    BY <1>8 DEF SoundInv, Sound!TypeOK, Sound!Pcs, ChunkUnderWay, Sound!StreamDone, Sound!Go,
      Sound!Take, Sound!Rejects, Sound!Live
  <2>2. Undecided'
    BY <1>8 DEF SoundInv, Sound!TypeOK, Undecided, Sound!StreamDone, Sound!Go, Sound!Take,
      Sound!Rejects, Sound!Live
  <2>3. Decided'
    BY <1>8 DEF SoundInv, Sound!TypeOK, Undecided, Decided, Sound!StreamDone, Sound!Go,
      Sound!Take, Sound!Rejects, Sound!Live
  <2>4. (HeldIsAppended /\ ChunkUnderWay)'
    BY <1>8 DEF SoundInv, Sound!TypeOK, HeldIsAppended, ChunkUnderWay, Sound!StreamDone,
      Sound!Go, Sound!Take, Sound!Rejects, Sound!Live
  <2>5. EachIsSomewhere'
    BY <1>8 DEF SoundInv, Sound!TypeOK, HeldIsAppended, ChunkUnderWay, EachIsSomewhere,
      UnderWay, Sound!Live, Sound!StreamDone, Sound!Go, Sound!Take, Sound!Rejects
  <2>6. EndIsLast'
    BY <1>8 DEF SoundInv, EndIsLast, Sound!TypeOK, Sound!StreamDone, Sound!Go, Sound!Take,
      Sound!Rejects, Sound!Live
  <2>7. Sound!EndedIsWhole'
    BY <1>8 DEF SoundInv, EndIsLast, EachIsSomewhere, UnderWay, Sound!EndedIsWhole,
      Sound!Live, Sound!StreamDone, Sound!Go, Sound!Take, Sound!Rejects
  <2>8. Sound!UnplayedIsKept'
    BY <1>8 DEF SoundInv, Sound!UnplayedIsKept, Sound!TypeOK, Sound!StreamDone, Sound!Go,
      Sound!Take, Sound!Rejects, Sound!Live
  <2> QED BY <2>1, <2>2, <2>3, <2>4, <2>5, <2>6, <2>7, <2>8 DEF SoundInv
<1>9. CASE Sound!End
  <2>1. Sound!TypeOK'
    BY <1>9 DEF SoundInv, Sound!TypeOK, Sound!Pcs, ChunkUnderWay, Sound!End, Sound!Go,
      Sound!MayEnd, Sound!Live
  <2>2. Undecided'
    BY <1>9 DEF SoundInv, Sound!TypeOK, Undecided, Sound!End, Sound!Go, Sound!MayEnd, Sound!Live
  <2>3. Decided'
    BY <1>9 DEF SoundInv, Sound!TypeOK, Undecided, Decided, Sound!End, Sound!Go, Sound!MayEnd,
      Sound!Live
  <2>4. (HeldIsAppended /\ ChunkUnderWay)'
    BY <1>9 DEF SoundInv, Sound!TypeOK, HeldIsAppended, ChunkUnderWay, Sound!End, Sound!Go,
      Sound!MayEnd, Sound!Live
  <2>5. EachIsSomewhere'
    BY <1>9 DEF SoundInv, Sound!TypeOK, HeldIsAppended, ChunkUnderWay, EachIsSomewhere,
      UnderWay, Sound!Live, Sound!End, Sound!Go, Sound!MayEnd
  <2>6. EndIsLast'
    BY <1>9 DEF SoundInv, EndIsLast, Sound!TypeOK, Sound!End, Sound!Go, Sound!MayEnd, Sound!Live
  <2>7. Sound!EndedIsWhole'
    BY <1>9 DEF SoundInv, EndIsLast, EachIsSomewhere, UnderWay, Sound!EndedIsWhole,
      Sound!Live, Sound!End, Sound!Go, Sound!MayEnd
  <2>8. Sound!UnplayedIsKept'
    BY <1>9 DEF SoundInv, Sound!UnplayedIsKept, Sound!TypeOK, Sound!End, Sound!Go,
      Sound!MayEnd, Sound!Live
  <2> QED BY <2>1, <2>2, <2>3, <2>4, <2>5, <2>6, <2>7, <2>8 DEF SoundInv
<1>10. CASE Sound!Play
  <2>1. Sound!TypeOK'
    BY <1>10 DEF SoundInv, Sound!TypeOK, Sound!Pcs, ChunkUnderWay, Sound!Play
  <2>2. Undecided'
    BY <1>10 DEF SoundInv, Sound!TypeOK, Undecided, Sound!Play
  <2>3. Decided'
    BY <1>10 DEF SoundInv, Sound!TypeOK, Undecided, Decided, Sound!Play
  <2>4. (HeldIsAppended /\ ChunkUnderWay)'
    BY <1>10 DEF SoundInv, Sound!TypeOK, HeldIsAppended, ChunkUnderWay, Sound!Play
  <2>5. EachIsSomewhere'
    BY <1>10 DEF SoundInv, Sound!TypeOK, HeldIsAppended, ChunkUnderWay, EachIsSomewhere,
      UnderWay, Sound!Live, Sound!Play
  <2>6. EndIsLast'
    BY <1>10 DEF SoundInv, EndIsLast, Sound!TypeOK, Sound!Play
  <2>7. Sound!EndedIsWhole'
    BY <1>10 DEF SoundInv, EndIsLast, EachIsSomewhere, UnderWay, Sound!EndedIsWhole,
      Sound!Live, Sound!Play
  <2>8. Sound!UnplayedIsKept'
    BY <1>10 DEF SoundInv, Sound!UnplayedIsKept, Sound!TypeOK, Sound!Play
  <2> QED BY <2>1, <2>2, <2>3, <2>4, <2>5, <2>6, <2>7, <2>8 DEF SoundInv
<1>11. CASE Sound!Seek
  <2>1. Sound!TypeOK'
    BY <1>11 DEF SoundInv, Sound!TypeOK, Sound!Pcs, ChunkUnderWay, Sound!Seek
  <2>2. Undecided'
    BY <1>11 DEF SoundInv, Sound!TypeOK, Undecided, Sound!Seek
  <2>3. Decided'
    BY <1>11 DEF SoundInv, Sound!TypeOK, Undecided, Decided, Sound!Seek
  <2>4. (HeldIsAppended /\ ChunkUnderWay)'
    BY <1>11 DEF SoundInv, Sound!TypeOK, HeldIsAppended, ChunkUnderWay, Sound!Seek
  <2>5. EachIsSomewhere'
    BY <1>11 DEF SoundInv, Sound!TypeOK, HeldIsAppended, ChunkUnderWay, EachIsSomewhere,
      UnderWay, Sound!Live, Sound!Seek
  <2>6. EndIsLast'
    BY <1>11 DEF SoundInv, EndIsLast, Sound!TypeOK, Sound!Seek
  <2>7. Sound!EndedIsWhole'
    BY <1>11 DEF SoundInv, EndIsLast, EachIsSomewhere, UnderWay, Sound!EndedIsWhole,
      Sound!Live, Sound!Seek
  <2>8. Sound!UnplayedIsKept'
    BY <1>11 DEF SoundInv, Sound!UnplayedIsKept, Sound!TypeOK, Sound!Seek
  <2> QED BY <2>1, <2>2, <2>3, <2>4, <2>5, <2>6, <2>7, <2>8 DEF SoundInv
<1>12. CASE Sound!Break
  <2>1. Sound!TypeOK'
    BY <1>12 DEF SoundInv, Sound!TypeOK, Sound!Pcs, ChunkUnderWay, Sound!Break
  <2>2. Undecided'
    BY <1>12 DEF SoundInv, Sound!TypeOK, Undecided, Sound!Break
  <2>3. Decided'
    BY <1>12 DEF SoundInv, Sound!TypeOK, Undecided, Decided, Sound!Break
  <2>4. (HeldIsAppended /\ ChunkUnderWay)'
    BY <1>12 DEF SoundInv, Sound!TypeOK, HeldIsAppended, ChunkUnderWay, Sound!Break
  <2>5. EachIsSomewhere'
    BY <1>12 DEF SoundInv, Sound!TypeOK, HeldIsAppended, ChunkUnderWay, EachIsSomewhere,
      UnderWay, Sound!Live, Sound!Break
  <2>6. EndIsLast'
    BY <1>12 DEF SoundInv, EndIsLast, Sound!TypeOK, Sound!Break
  <2>7. Sound!EndedIsWhole'
    BY <1>12 DEF SoundInv, EndIsLast, EachIsSomewhere, UnderWay, Sound!EndedIsWhole,
      Sound!Live, Sound!Break
  <2>8. Sound!UnplayedIsKept'
    BY <1>12 DEF SoundInv, Sound!UnplayedIsKept, Sound!TypeOK, Sound!Break
  <2> QED BY <2>1, <2>2, <2>3, <2>4, <2>5, <2>6, <2>7, <2>8 DEF SoundInv
<1>13. CASE Sound!Leave
  <2>1. Sound!TypeOK'
    BY <1>13 DEF SoundInv, Sound!TypeOK, Sound!Pcs, ChunkUnderWay, Sound!Leave
  <2>2. Undecided'
    BY <1>13 DEF SoundInv, Sound!TypeOK, Undecided, Sound!Leave
  <2>3. Decided'
    BY <1>13 DEF SoundInv, Sound!TypeOK, Undecided, Decided, Sound!Leave
  <2>4. (HeldIsAppended /\ ChunkUnderWay)'
    BY <1>13 DEF SoundInv, Sound!TypeOK, HeldIsAppended, ChunkUnderWay, Sound!Leave
  <2>5. EachIsSomewhere'
    BY <1>13 DEF SoundInv, Sound!TypeOK, HeldIsAppended, ChunkUnderWay, EachIsSomewhere,
      UnderWay, Sound!Live, Sound!Leave
  <2>6. EndIsLast'
    BY <1>13 DEF SoundInv, EndIsLast, Sound!TypeOK, Sound!Leave
  <2>7. Sound!EndedIsWhole'
    BY <1>13 DEF SoundInv, EndIsLast, EachIsSomewhere, UnderWay, Sound!EndedIsWhole,
      Sound!Live, Sound!Leave
  <2>8. Sound!UnplayedIsKept'
    BY <1>13 DEF SoundInv, Sound!UnplayedIsKept, Sound!TypeOK, Sound!Leave
  <2> QED BY <2>1, <2>2, <2>3, <2>4, <2>5, <2>6, <2>7, <2>8 DEF SoundInv
<1>14. CASE Sound!Close
  <2>1. Sound!TypeOK'
    BY <1>14 DEF SoundInv, Sound!TypeOK, Sound!Pcs, ChunkUnderWay, Sound!Close
  <2>2. Undecided'
    BY <1>14 DEF SoundInv, Sound!TypeOK, Undecided, Sound!Close
  <2>3. Decided'
    BY <1>14 DEF SoundInv, Sound!TypeOK, Undecided, Decided, Sound!Close
  <2>4. (HeldIsAppended /\ ChunkUnderWay)'
    BY <1>14 DEF SoundInv, Sound!TypeOK, HeldIsAppended, ChunkUnderWay, Sound!Close
  <2>5. EachIsSomewhere'
    BY <1>14 DEF SoundInv, Sound!TypeOK, HeldIsAppended, ChunkUnderWay, EachIsSomewhere,
      UnderWay, Sound!Live, Sound!Close
  <2>6. EndIsLast'
    BY <1>14 DEF SoundInv, EndIsLast, Sound!TypeOK, Sound!Close
  <2>7. Sound!EndedIsWhole'
    BY <1>14 DEF SoundInv, EndIsLast, EachIsSomewhere, UnderWay, Sound!EndedIsWhole,
      Sound!Live, Sound!Close
  <2>8. Sound!UnplayedIsKept'
    BY <1>14 DEF SoundInv, Sound!UnplayedIsKept, Sound!TypeOK, Sound!Close
  <2> QED BY <2>1, <2>2, <2>3, <2>4, <2>5, <2>6, <2>7, <2>8 DEF SoundInv
<1> QED BY <1>1, <1>2, <1>3, <1>4, <1>5, <1>6, <1>7, <1>8, <1>9, <1>10, <1>11, <1>12, <1>13,
  <1>14 DEF Sound!Next, Sound!Pipe
-----------------------------------------------------------------------------
(* The inductive invariant of the pipelines. *)

\* While a track change is being resolved there is no session, hence no live pipeline.
SessionIsResolved == opening # "none" => ctrl = None

\* What a pipeline has put on the page by where it stands.
PutsByPlace == \A p \in Pipes :
  /\ pc[p] \in {"new", "container"} => put[p] = {}
  /\ pc[p] = "gone" => put[p] \subseteq Stays

\* As long as no pipeline left early, each finds the page as it was and, from the container on,
\* has call, apply and requestFullscreen in its own hands.
PageIsTaken ==
  (\A q \in Pipes : pc[q] # "early") =>
    /\ \A p \in Pipes : /\ pc[p] = "container" => icept = None /\ fs = None
                        /\ pc[p] \in {"audio", "video", "run"} =>
                             icept = p /\ fs = p /\ savedFs[p] = None
    /\ (\A p \in Pipes : ~Alive(p)) => gate /\ icept = None /\ fs = None

\* A restart that was counted before the timer fired is a later track change.
RestartIsAChange ==
  /\ quality.gen <= gen
  /\ quality.timer => quality.restarts = 0 \/ quality.gen < gen

PipesInv ==
  /\ TypeOK /\ OnePipelineLives /\ QualityRestartsOnce
  /\ SessionIsResolved /\ PutsByPlace /\ PageIsTaken /\ RestartIsAChange

\* What the session's end leaves: no live pipeline, and what it did not keep is given back.
SessionOver ==
  /\ pc' \in [Pipes -> {"new", "container", "audio", "video", "run", "gone", "early"}]
  /\ put' \in [Pipes -> SUBSET Overlay] /\ sound' \in [Pipes -> BOOLEAN] /\ gate' \in BOOLEAN
  /\ {icept', fs'} \subseteq Pipes \union {None} /\ savedFs' = savedFs
  /\ \A p \in Pipes : ~Alive(p)'
  /\ PutsByPlace'
  /\ (\A q \in Pipes : pc'[q] # "early") => gate' /\ icept' = None /\ fs' = None

\* Whatever ends the session leaves no live pipeline, and the page is given back.
LEMMA AbortEndsSession ==
  ASSUME PipesInv, AbortSession
  PROVE  SessionOver
<1>1. /\ pc \in [Pipes -> {"new", "container", "audio", "video", "run", "gone", "early"}]
      /\ put \in [Pipes -> SUBSET Overlay] /\ sound \in [Pipes -> BOOLEAN] /\ gate \in BOOLEAN
      /\ icept \in Pipes \union {None} /\ fs \in Pipes \union {None}
      /\ savedFs \in [Pipes -> Pipes \union {None}]
  BY DEF PipesInv, TypeOK
<1>2. \A p \in Pipes : Alive(p) => ctrl = p
  BY DEF PipesInv, OnePipelineLives
<1>3. \A p \in Pipes : pc[p] \in {"gone", "early"} => ~Alive(p)
  BY DEF Alive
<1>4. CASE ctrl \notin {q \in Pipes : pc[q] \notin {"gone", "early"}}
  <2>1. pc' = pc /\ put' = put /\ sound' = sound /\ gate' = gate /\ icept' = icept /\ fs' = fs
        /\ savedFs' = savedFs
    BY <1>4 DEF AbortSession, page
  <2>2. \A p \in Pipes : ~Alive(p)
    BY <1>2, <1>3, <1>4
  <2>3. \A p \in Pipes : ~Alive(p)'
    BY <2>1, <2>2 DEF Alive
  <2>4. (\A q \in Pipes : pc'[q] # "early") => gate' /\ icept' = None /\ fs' = None
    BY <2>1, <2>2 DEF PipesInv, PageIsTaken
  <2>5. PutsByPlace'
    BY <2>1 DEF PipesInv, PutsByPlace
  <2> QED BY <1>1, <2>1, <2>3, <2>4, <2>5 DEF SessionOver
<1>5. CASE ctrl \in Pipes /\ pc[ctrl] \notin {"gone", "early"} /\ pc[ctrl] = "run"
  <2>1. /\ pc' = [pc EXCEPT ![ctrl] = "gone"]
        /\ put' = [put EXCEPT ![ctrl] = @ \intersect Stays]
        /\ sound' = [sound EXCEPT ![ctrl] = FALSE]
        /\ gate' = TRUE /\ icept' = None /\ fs' = savedFs[ctrl] /\ savedFs' = savedFs
    BY <1>5 DEF AbortSession, FullscreenBack
  <2>2. \A p \in Pipes : ~Alive(p)'
    BY <1>1, <1>2, <1>5, <2>1 DEF Alive
  <2>3. (\A q \in Pipes : pc'[q] # "early") => gate' /\ icept' = None /\ fs' = None
    <3>1. SUFFICES ASSUME \A q \in Pipes : pc'[q] # "early"
                   PROVE  savedFs[ctrl] = None
      BY <2>1
    <3>2. \A q \in Pipes : pc[q] # "early"
      BY <1>1, <1>5, <2>1, <3>1
    <3> QED BY <1>5, <3>2 DEF PipesInv, PageIsTaken
  <2>4. PutsByPlace'
    BY <1>1, <1>5, <2>1 DEF PipesInv, PutsByPlace
  <2>5. /\ pc' \in [Pipes -> {"new", "container", "audio", "video", "run", "gone", "early"}]
        /\ put' \in [Pipes -> SUBSET Overlay] /\ sound' \in [Pipes -> BOOLEAN]
        /\ icept' \in Pipes \union {None} /\ fs' \in Pipes \union {None}
    BY <1>1, <1>5, <2>1
  <2> QED BY <2>1, <2>2, <2>3, <2>4, <2>5 DEF SessionOver
<1>6. CASE ctrl \in Pipes /\ pc[ctrl] \notin {"gone", "early"} /\ pc[ctrl] # "run"
  <2>1. /\ pc' = [pc EXCEPT ![ctrl] = "early"]
        /\ put' = put /\ sound' = sound /\ gate' = gate /\ icept' = icept /\ fs' = fs
        /\ savedFs' = savedFs
    BY <1>6 DEF AbortSession, page
  <2>2. \A p \in Pipes : ~Alive(p)'
    BY <1>1, <1>2, <1>6, <2>1 DEF Alive
  <2>3. ~(\A q \in Pipes : pc'[q] # "early")
    BY <1>1, <1>6, <2>1
  <2>4. PutsByPlace'
    BY <1>1, <1>6, <2>1 DEF PipesInv, PutsByPlace
  <2>5. pc' \in [Pipes -> {"new", "container", "audio", "video", "run", "gone", "early"}]
    BY <1>1, <1>6, <2>1
  <2> QED BY <1>1, <2>1, <2>2, <2>3, <2>4, <2>5 DEF SessionOver
<1> QED BY <1>4, <1>5, <1>6

\* A step that ends the session, keeps the rest's types and leaves no other trace keeps the
\* invariant.
LEMMA SessionOverPreserves ==
  ASSUME PipesInv, SessionOver,
         started' \in [Pipes -> BOOLEAN], leave' \in [Pipes -> BOOLEAN],
         ctrl' \in 0 .. Song, opening' \in {"none", "song", "mv"}, gen' \in Nat,
         quality' \in [timer : BOOLEAN, gen : Nat, restarts : 0 .. 2],
         quality'.restarts <= 1, SessionIsResolved', RestartIsAChange'
  PROVE  PipesInv'
<1>1. TypeOK'
  BY DEF PipesInv, TypeOK, SessionOver
<1>2. OnePipelineLives'
  BY DEF SessionOver, OnePipelineLives
<1>3. PageIsTaken'
  <2>1. \A p \in Pipes : pc'[p] \notin {"container", "audio", "video", "run"}
    BY DEF SessionOver, Alive
  <2> QED BY <2>1 DEF SessionOver, PageIsTaken
<1> QED BY <1>1, <1>2, <1>3 DEF PipesInv, SessionOver, QualityRestartsOnce

\* What a change of quality is: its fields, and records made of them.
LEMMA QualityFields ==
  ASSUME NEW q \in [timer : BOOLEAN, gen : Nat, restarts : 0 .. 2]
  PROVE  /\ q.timer \in BOOLEAN /\ q.gen \in Nat /\ q.restarts \in 0 .. 2
         /\ \A r \in 0 .. 2 : LET c == [q EXCEPT !.restarts = r] IN
              /\ c \in [timer : BOOLEAN, gen : Nat, restarts : 0 .. 2]
              /\ c.timer = q.timer /\ c.gen = q.gen /\ c.restarts = r
<1>1. q.timer \in BOOLEAN /\ q.gen \in Nat /\ q.restarts \in 0 .. 2
  OBVIOUS
<1>2. ASSUME NEW r \in 0 .. 2
      PROVE  LET c == [q EXCEPT !.restarts = r] IN
               /\ c \in [timer : BOOLEAN, gen : Nat, restarts : 0 .. 2]
               /\ c.timer = q.timer /\ c.gen = q.gen /\ c.restarts = r
  BY <1>1
<1> QED BY <1>1, <1>2

LEMMA PipesInit == Init => PipesInv
<1> SUFFICES ASSUME Init PROVE PipesInv
  OBVIOUS
<1>0. quality = NoQuality /\ ctrl = None /\ gen = 0
  BY DEF Init
<1>1. /\ quality.timer = FALSE /\ quality.gen = 0 /\ quality.restarts = 0
      /\ quality \in [timer : BOOLEAN, gen : Nat, restarts : 0 .. 2]
  BY <1>0 DEF NoQuality
<1>2. TypeOK
  <2>1. ctrl \in 0 .. Song
    BY <1>0, PlayerAssumption DEF None, Song, PlayerAssumption
  <2> QED BY <1>1, <2>1 DEF Init, TypeOK
<1>3. \A p \in Pipes : pc[p] = "new"
  BY DEF Init
<1>4. OnePipelineLives
  BY <1>3 DEF OnePipelineLives, Alive
<1>5. QualityRestartsOnce /\ RestartIsAChange
  BY <1>0, <1>1 DEF QualityRestartsOnce, RestartIsAChange
<1>6. SessionIsResolved /\ PutsByPlace
  BY DEF Init, SessionIsResolved, PutsByPlace
<1>7. PageIsTaken
  BY <1>3 DEF Init, PageIsTaken
<1> QED BY <1>2, <1>4, <1>5, <1>6, <1>7 DEF PipesInv

\* The next pipeline to be opened is one that was not.
LEMMA UnusedIsNew ==
  ASSUME PlayerAssumption, MayOpen
  PROVE  UnusedPipe \in Pipes /\ pc[UnusedPipe] = "new"
<1> DEFINE T == {p \in Pipes : pc[p] = "new"}
<1>1. T \subseteq Nat /\ T # {}
  BY DEF MayOpen, Pipes
<1>2. \E x \in T : \A y \in T : ~(<<y, x>> \in OpToRel(<, Nat))
  BY <1>1, NatLessThanWellFounded, WFMin
<1>3. PICK x \in T : \A y \in T : ~(y < x)
  BY <1>1, <1>2 DEF OpToRel
<1>4. \A q \in Pipes : q < x => pc[q] # "new"
  BY <1>3
<1> QED BY <1>3, <1>4 DEF UnusedPipe

LEMMA PipesPreserves == PipesInv /\ Next => PipesInv'
<1> SUFFICES ASSUME PipesInv, Next PROVE PipesInv'
  OBVIOUS
<1> USE PlayerAssumption
<1>1. /\ pc \in [Pipes -> {"new", "container", "audio", "video", "run", "gone", "early"}]
      /\ put \in [Pipes -> SUBSET Overlay]
      /\ started \in [Pipes -> BOOLEAN] /\ sound \in [Pipes -> BOOLEAN]
      /\ leave \in [Pipes -> BOOLEAN] /\ gate \in BOOLEAN
      /\ icept \in Pipes \union {None} /\ fs \in Pipes \union {None}
      /\ savedFs \in [Pipes -> Pipes \union {None}]
      /\ ctrl \in 0 .. Song /\ opening \in {"none", "song", "mv"} /\ gen \in Nat
      /\ quality \in [timer : BOOLEAN, gen : Nat, restarts : 0 .. 2]
  BY DEF PipesInv, TypeOK
<1>0. quality.timer \in BOOLEAN /\ quality.gen \in Nat /\ quality.restarts \in 0 .. 1
  BY <1>1, QualityFields DEF PipesInv, QualityRestartsOnce
<1>2. 0 \in 0 .. Song /\ Song \in 0 .. Song /\ \A p \in Pipes : p \in 0 .. Song /\ p # 0
  BY DEF Song, Pipes
<1>3. CASE Change
  <2>1. AbortSession /\ ctrl' = None /\ gen' = gen + 1 /\ opening' \in {"song", "mv"}
        /\ started' = started /\ leave' = leave
        /\ quality' = [quality EXCEPT !.restarts = IF quality.timer THEN 1 ELSE 0]
    BY <1>3 DEF Change, HandleTrackChange
  <2>2. SessionOver
    BY <2>1, AbortEndsSession
  <2>3. /\ quality' \in [timer : BOOLEAN, gen : Nat, restarts : 0 .. 2]
        /\ quality'.restarts = (IF quality.timer THEN 1 ELSE 0)
        /\ quality'.gen = quality.gen /\ quality'.timer = quality.timer
    BY <1>1, <2>1, QualityFields
  <2>4. SessionIsResolved' /\ RestartIsAChange' /\ quality'.restarts <= 1
    BY <1>0, <1>1, <2>1, <2>3 DEF PipesInv, SessionIsResolved, RestartIsAChange
  <2>5. started' \in [Pipes -> BOOLEAN] /\ leave' \in [Pipes -> BOOLEAN]
        /\ ctrl' \in 0 .. Song /\ opening' \in {"none", "song", "mv"} /\ gen' \in Nat
    BY <1>1, <1>2, <2>1 DEF None
  <2> QED BY <2>2, <2>3, <2>4, <2>5, SessionOverPreserves
<1>4. CASE NaturalRestart
  <2>1. AbortSession /\ ctrl' = None /\ gen' = gen + 1 /\ opening' = "mv"
        /\ started' = started /\ leave' = leave /\ quality.gen = gen
        /\ quality' = [quality EXCEPT !.restarts = 1]
    BY <1>4 DEF NaturalRestart, HandleTrackChange
  <2>2. SessionOver
    BY <2>1, AbortEndsSession
  <2>3. /\ quality' \in [timer : BOOLEAN, gen : Nat, restarts : 0 .. 2]
        /\ quality'.restarts = 1 /\ quality'.gen = quality.gen
    BY <1>1, <2>1, QualityFields
  <2>4. SessionIsResolved' /\ RestartIsAChange' /\ quality'.restarts <= 1
    BY <1>0, <1>1, <2>1, <2>3 DEF PipesInv, SessionIsResolved, RestartIsAChange
  <2>5. started' \in [Pipes -> BOOLEAN] /\ leave' \in [Pipes -> BOOLEAN]
        /\ ctrl' \in 0 .. Song /\ opening' \in {"none", "song", "mv"} /\ gen' \in Nat
    BY <1>1, <1>2, <2>1 DEF None
  <2> QED BY <2>2, <2>3, <2>4, <2>5, SessionOverPreserves
<1>5. CASE QualityTimer
  <2>1. CASE StillWanted
    <3>1. AbortSession /\ ctrl' = None /\ gen' = gen + 1 /\ opening' = "mv"
          /\ started' = started /\ leave' = leave /\ quality.gen = gen /\ quality.timer
          /\ quality' = [timer |-> FALSE, gen |-> quality.gen, restarts |-> quality.restarts + 1]
      BY <1>5, <2>1 DEF QualityTimer, HandleTrackChange, StillWanted
    <3>2. SessionOver
      BY <3>1, AbortEndsSession
    <3>3. quality.restarts = 0
      BY <1>0, <1>1, <3>1 DEF PipesInv, RestartIsAChange
    <3>4. /\ quality' \in [timer : BOOLEAN, gen : Nat, restarts : 0 .. 2]
          /\ quality'.restarts <= 1 /\ quality'.gen = quality.gen /\ quality'.timer = FALSE
      BY <1>0, <3>1, <3>3
    <3>5. SessionIsResolved' /\ RestartIsAChange'
      BY <1>0, <1>1, <3>1, <3>4 DEF PipesInv, SessionIsResolved, RestartIsAChange
    <3>6. started' \in [Pipes -> BOOLEAN] /\ leave' \in [Pipes -> BOOLEAN]
          /\ ctrl' \in 0 .. Song /\ opening' \in {"none", "song", "mv"} /\ gen' \in Nat
      BY <1>1, <1>2, <3>1 DEF None
    <3> QED BY <3>2, <3>4, <3>5, <3>6, SessionOverPreserves
  <2>2. CASE ~StillWanted
    <3>1. UNCHANGED <<pc, put, started, sound, leave, gate, icept, fs, savedFs, ctrl, opening, gen>>
          /\ quality' = [quality EXCEPT !.timer = FALSE]
      BY <1>5, <2>2 DEF QualityTimer, page, session
    <3>2. /\ quality' \in [timer : BOOLEAN, gen : Nat, restarts : 0 .. 2]
          /\ quality'.restarts = quality.restarts /\ quality'.gen = quality.gen
          /\ quality'.timer = FALSE
      BY <1>1, <3>1
    <3> QED
      BY <3>1, <3>2 DEF PipesInv, TypeOK, OnePipelineLives, Alive, QualityRestartsOnce,
        SessionIsResolved, PutsByPlace, PageIsTaken, RestartIsAChange
  <2> QED BY <2>1, <2>2
<1>6. CASE Opened
  <2>1. opening' = "none" /\ UNCHANGED <<put, started, sound, leave, icept, fs, savedFs, gen, quality>>
        /\ ctrl = None
    BY <1>6 DEF Opened, PipesInv, SessionIsResolved
  <2>2. \A p \in Pipes : ~Alive(p)
    BY <1>2, <2>1 DEF PipesInv, OnePipelineLives, None
  <2>3. CASE opening = "mv" /\ MayOpen
    <3> DEFINE u == UnusedPipe
    <3>1. u \in Pipes /\ pc[u] = "new"
      BY <2>3, UnusedIsNew
    <3>2. ctrl' = u /\ gate' = FALSE /\ pc' = [pc EXCEPT ![u] = "container"]
      BY <1>6, <2>3 DEF Opened
    <3> HIDE DEF u
    <3>3. \A p \in Pipes : Alive(p)' => p = u /\ pc'[p] = "container"
      BY <1>1, <2>2, <3>1, <3>2 DEF Alive
    <3>4. TypeOK'
      BY <1>1, <1>2, <2>1, <3>1, <3>2 DEF PipesInv, TypeOK
    <3>5. OnePipelineLives'
      BY <3>2, <3>3 DEF OnePipelineLives
    <3>6. PutsByPlace'
      BY <1>1, <2>1, <3>1, <3>2 DEF PipesInv, PutsByPlace
    <3>7. PageIsTaken'
      <4>1. SUFFICES ASSUME \A q \in Pipes : pc'[q] # "early"
                     PROVE  /\ icept = None /\ fs = None
                            /\ \A p \in Pipes : pc'[p] \notin {"audio", "video", "run"}
                            /\ \E p \in Pipes : Alive(p)'
        BY <2>1 DEF PageIsTaken
      <4>2. \A q \in Pipes : pc[q] # "early"
        BY <1>1, <3>1, <3>2, <4>1
      <4>3. icept = None /\ fs = None
        BY <2>2, <4>2 DEF PipesInv, PageIsTaken
      <4>4. \A p \in Pipes : pc'[p] \notin {"audio", "video", "run"}
        BY <3>3 DEF Alive
      <4>5. pc'[u] = "container"
        BY <1>1, <3>1, <3>2
      <4>6. \E p \in Pipes : Alive(p)'
        BY <3>1, <4>5 DEF Alive
      <4> QED BY <4>3, <4>4, <4>6
    <3> QED
      BY <2>1, <3>2, <3>4, <3>5, <3>6, <3>7
      DEF PipesInv, QualityRestartsOnce, SessionIsResolved, RestartIsAChange
  <2>4. CASE ~(opening = "mv" /\ MayOpen)
    <3>1. ctrl' = Song /\ gate' = gate /\ pc' = pc
      BY <1>6, <2>4 DEF Opened
    <3>2. \A p \in Pipes : Alive(p)' <=> Alive(p)
      BY <3>1 DEF Alive
    <3>3. OnePipelineLives'
      BY <2>2, <3>2 DEF OnePipelineLives
    <3>4. PageIsTaken'
      BY <2>1, <3>1, <3>2 DEF PipesInv, PageIsTaken
    <3> QED
      BY <1>1, <1>2, <2>1, <3>1, <3>3, <3>4 DEF PipesInv, TypeOK, QualityRestartsOnce,
        SessionIsResolved, PutsByPlace, RestartIsAChange
  <2> QED BY <2>3, <2>4

<1>7. ASSUME NEW p \in Pipes, ContainerFound(p) PROVE PipesInv'
  <2>1. pc[p] = "container" /\ pc' = [pc EXCEPT ![p] = "audio"]
        /\ icept' = p /\ fs' = p /\ savedFs' = [savedFs EXCEPT ![p] = fs]
        /\ put' = [put EXCEPT ![p] = Overlay]
        /\ UNCHANGED <<started, sound, leave, gate, ctrl, opening, gen, quality>>
    BY <1>7 DEF ContainerFound, session
  <2>2. Alive(p) /\ ctrl = p
    BY <1>7, <2>1 DEF PipesInv, OnePipelineLives, Alive
  <2>3. TypeOK'
    BY <1>1, <1>7, <2>1 DEF TypeOK
  <2>4. \A q \in Pipes : Alive(q)' => q = p
    BY <1>1, <1>7, <2>1, <2>2 DEF PipesInv, OnePipelineLives, Alive
  <2>5. OnePipelineLives'
    BY <2>1, <2>2, <2>4 DEF OnePipelineLives
  <2>6. PutsByPlace'
    BY <1>1, <1>7, <2>1 DEF PipesInv, PutsByPlace
  <2>7. PageIsTaken'
    <3>1. SUFFICES ASSUME \A q \in Pipes : pc'[q] # "early"
                   PROVE  /\ \A q \in Pipes : pc'[q] # "container"
                          /\ \A q \in Pipes : pc'[q] \in {"audio", "video", "run"} =>
                               q = p /\ savedFs'[q] = None
                          /\ \E q \in Pipes : Alive(q)'
      BY <2>1 DEF PageIsTaken
    <3>2. \A q \in Pipes : pc[q] # "early"
      BY <1>1, <1>7, <2>1, <3>1
    <3>3. savedFs'[p] = None
      BY <1>1, <1>7, <2>1, <3>2 DEF PipesInv, PageIsTaken
    <3>4. pc'[p] = "audio" /\ Alive(p)'
      BY <1>1, <1>7, <2>1 DEF Alive
    <3>5. \A q \in Pipes : pc'[q] \in {"container", "audio", "video", "run"} => q = p
      BY <2>4 DEF Alive
    <3> QED BY <1>7, <3>3, <3>4, <3>5
  <2> QED
    BY <2>1, <2>3, <2>5, <2>6, <2>7
    DEF PipesInv, QualityRestartsOnce, SessionIsResolved, RestartIsAChange
<1>8. ASSUME NEW p \in Pipes, ContainerMissing(p) PROVE PipesInv'
  <2>1. pc[p] = "container" /\ pc' = [pc EXCEPT ![p] = "early"]
        /\ UNCHANGED <<put, started, sound, leave, gate, icept, fs, savedFs, ctrl, opening, gen, quality>>
    BY <1>8 DEF ContainerMissing, GivesUp, session, page
  <2>2. TypeOK'
    BY <1>1, <1>8, <2>1 DEF TypeOK
  <2>3. OnePipelineLives'
    BY <1>1, <1>8, <2>1 DEF PipesInv, OnePipelineLives, Alive
  <2>4. PutsByPlace'
    BY <1>1, <1>8, <2>1 DEF PipesInv, PutsByPlace
  <2>5. PageIsTaken'
    BY <1>1, <1>8, <2>1 DEF PageIsTaken
  <2> QED
    BY <2>1, <2>2, <2>3, <2>4, <2>5
    DEF PipesInv, QualityRestartsOnce, SessionIsResolved, RestartIsAChange
<1>9. ASSUME NEW p \in Pipes, AudioOpens(p) \/ VideoOpens(p) PROVE PipesInv'
  <2>1. PICK s \in {"video", "run"} :
          /\ pc[p] \in {"audio", "video"} /\ pc' = [pc EXCEPT ![p] = s]
          /\ UNCHANGED <<put, started, sound, leave, gate, icept, fs, savedFs, ctrl, opening, gen,
                         quality>>
    BY <1>9 DEF AudioOpens, VideoOpens, session, page
  <2>2. TypeOK'
    BY <1>1, <1>9, <2>1 DEF TypeOK
  <2>3. \A q \in Pipes : /\ Alive(q)' <=> Alive(q)
                         /\ pc'[q] = "container" <=> pc[q] = "container"
                         /\ pc'[q] = "early" <=> pc[q] = "early"
                         /\ pc'[q] \in {"audio", "video", "run"} <=> pc[q] \in {"audio", "video", "run"}
                         /\ pc'[q] = "new" <=> pc[q] = "new"
                         /\ pc'[q] = "gone" <=> pc[q] = "gone"
    BY <1>1, <1>9, <2>1 DEF Alive
  <2>4. OnePipelineLives'
    BY <2>1, <2>3 DEF PipesInv, OnePipelineLives
  <2>5. PutsByPlace'
    BY <2>1, <2>3 DEF PipesInv, PutsByPlace
  <2>6. PageIsTaken'
    BY <2>1, <2>3 DEF PipesInv, PageIsTaken
  <2> QED
    BY <2>1, <2>2, <2>4, <2>5, <2>6
    DEF PipesInv, QualityRestartsOnce, SessionIsResolved, RestartIsAChange
<1>10. ASSUME NEW p \in Pipes, Plays(p) PROVE PipesInv'
  <2>1. UNCHANGED <<pc, put, leave, icept, fs, savedFs, ctrl, opening, gen, quality>>
        /\ started' \in [Pipes -> BOOLEAN] /\ sound' \in [Pipes -> BOOLEAN]
        /\ gate' \in BOOLEAN /\ (gate => gate')
    BY <1>1, <1>10 DEF Plays, TryStart, NativePlay, NativePause, session, page
  <2>2. TypeOK'
    BY <1>1, <2>1 DEF TypeOK
  <2>3. \A q \in Pipes : Alive(q)' <=> Alive(q)
    BY <2>1 DEF Alive
  <2>4. PageIsTaken'
    BY <2>1, <2>3 DEF PipesInv, PageIsTaken
  <2> QED
    BY <2>1, <2>2, <2>3, <2>4 DEF PipesInv, OnePipelineLives, QualityRestartsOnce,
      SessionIsResolved, PutsByPlace, RestartIsAChange
<1>11. ASSUME NEW p \in Pipes, Leaves(p) PROVE PipesInv'
  <2>1. /\ started' = started /\ leave' \in [Pipes -> BOOLEAN]
        /\ ctrl' = ctrl /\ opening' = opening /\ gen' = gen
    BY <1>1, <1>11 DEF Leaves, Escape, Ended, ExitClicked, ChooseQuality, session
  <2>2. \/ quality' = quality
        \/ quality' = [timer |-> TRUE, gen |-> gen, restarts |-> 0]
    BY <1>11 DEF Leaves, Escape, Ended, ExitClicked, ChooseQuality
  <2>3. /\ quality' \in [timer : BOOLEAN, gen : Nat, restarts : 0 .. 2]
        /\ quality'.restarts <= 1 /\ RestartIsAChange'
    <3>1. CASE quality' = quality
      BY <1>0, <1>1, <2>1, <3>1 DEF PipesInv, RestartIsAChange
    <3>2. CASE quality' = [timer |-> TRUE, gen |-> gen, restarts |-> 0]
      <4>1. /\ quality' \in [timer : BOOLEAN, gen : Nat, restarts : 0 .. 2]
            /\ quality'.gen = gen /\ quality'.restarts = 0
        BY <1>1, <3>2
      <4> QED BY <1>1, <2>1, <4>1 DEF RestartIsAChange
    <3> QED BY <2>2, <3>1, <3>2
  <2>4. CASE AbortSession
    <3>1. SessionOver
      BY <2>4, AbortEndsSession
    <3>2. SessionIsResolved'
      BY <2>1 DEF PipesInv, SessionIsResolved
    <3> QED BY <1>1, <2>1, <2>3, <3>1, <3>2, SessionOverPreserves
  <2>5. CASE ~AbortSession
    <3>1. UNCHANGED <<pc, put, sound, gate, icept, fs, savedFs, quality>>
      BY <1>11, <2>5 DEF Leaves, Escape, Ended, ExitClicked, ChooseQuality, page
    <3>2. \A q \in Pipes : Alive(q)' <=> Alive(q)
      BY <3>1 DEF Alive
    <3> QED
      BY <1>1, <2>1, <3>1, <3>2 DEF PipesInv, TypeOK, OnePipelineLives, QualityRestartsOnce,
        SessionIsResolved, PutsByPlace, PageIsTaken, RestartIsAChange
  <2> QED BY <2>4, <2>5
<1> QED BY <1>3, <1>4, <1>5, <1>6, <1>7, <1>8, <1>9, <1>10, <1>11 DEF Next, Goes

\* The invariant makes the page its own again.
LEMMA PipesConsequences == PipesInv => TypeOK /\ PageIsGivenBack /\ OnePipelineLives /\ QualityRestartsOnce
<1> SUFFICES ASSUME PipesInv PROVE PageIsGivenBack
  BY DEF PipesInv
<1> SUFFICES ASSUME \A p \in Pipes : ~Alive(p) /\ pc[p] # "early"
             PROVE  /\ gate /\ icept = None /\ fs = None
                    /\ \A p \in Pipes : put[p] \subseteq Stays
  BY DEF PageIsGivenBack
<1>1. gate /\ icept = None /\ fs = None
  BY DEF PipesInv, PageIsTaken
<1>2. \A p \in Pipes : pc[p] \in {"new", "gone"}
  BY DEF PipesInv, TypeOK, Alive
<1> QED BY <1>1, <1>2 DEF PipesInv, PutsByPlace

LEMMA PipesStutters == PipesInv /\ UNCHANGED vars => PipesInv'
  BY DEF PipesInv, vars, page, session, TypeOK, OnePipelineLives, Alive, QualityRestartsOnce,
    SessionIsResolved, PutsByPlace, PageIsTaken, RestartIsAChange

-----------------------------------------------------------------------------
(* The inductive invariant of the picture. *)

Works(h)  == handlers[h].pc # "off" /\ ~handlers[h].aborted
NoneWorks == \A h \in Feed!Seekers : ~Works(h)

\* Where the fragments of producer p belong.
Placed(p) == IF p.direct THEN -Raw ELSE p.start

\* A producer ends with the video, and a loop has got no more than there is.
ProducerEnds ==
  /\ IF active.base THEN active = Feed!BaseProducer ELSE active.start + active.made <= Last + 1
  /\ \A l \in loops : l.got => l.n <= Last

\* A handler that ended left nothing, and at most one has not been aborted.
OneWorks ==
  /\ \A h \in Feed!Seekers : handlers[h].pc = "off" => handlers[h] = Feed!Idle
  /\ \A g, h \in Feed!Seekers : Works(g) /\ Works(h) => g = h

\* Unless the first loop started late, a loop runs alone and never beside a handler that will
\* start another, and what has ended stays so.
OneLoop ==
  "late" \notin blame =>
    /\ \A l, m \in loops : l = m
    /\ loops # {} => NoneWorks /\ ~left
    /\ left => NoneWorks /\ ~running

\* Until the first loop starts nothing is appended or placed, and without a handler nothing
\* has switched producers.
BeforeFed ==
  stage # "fed" =>
    /\ loops = {} /\ buf = {} /\ shift = 0 /\ init = FALSE
    /\ \A h \in Feed!Seekers : handlers[h].pc # "reinit"
    /\ NoneWorks /\ ~left => active = Feed!BaseProducer /\ ~sbDirect

\* Before there is metadata nothing seeks.
Unopened ==
  stage \notin {"appended", "fed"} =>
    /\ ~seekingEv /\ active = Feed!BaseProducer /\ ~sbDirect
    /\ \A h \in Feed!Seekers : handlers[h].pc = "off"

\* The handler that is not aborted knows the producer that serves, and of the init segment.
Answered ==
  blame = {} =>
    \A h \in Feed!Seekers :
      Works(h) =>
        /\ ~handlers[h].reinit => init = sbDirect
        /\ handlers[h].pc # "ask" =>
             handlers[h].offset = Placed(active) /\ sbDirect = active.direct
        /\ handlers[h].pc = "reinit" => shift = Placed(active)
        /\ handlers[h].pc = "ask" /\ handlers[h].reinit => handlers[h].noDirect /\ sbDirect
        /\ handlers[h].pc = "probe" => sbDirect

\* Beside a loop, or a handler about to start one, none is about to empty the SourceBuffer.
NoneDrains ==
  blame = {} /\ (loops # {} \/ \E h \in Feed!Seekers : Works(h) /\ handlers[h].pc = "reinit") =>
    \A g \in Feed!Seekers : handlers[g].pc # "drain"

\* A loop finds its producer's init segment and place, and fetches what belongs there.
LoopFits ==
  blame = {} =>
    /\ loops # {} => init = active.direct /\ shift = Placed(active)
    /\ \A l \in loops : l.got => l.frag.what = l.frag.time + shift /\ l.frag.direct = init

FeedFacts ==
  /\ ProducerEnds /\ OneWorks /\ OneLoop /\ BeforeFed /\ Unopened /\ Answered /\ NoneDrains
  /\ LoopFits /\ Feed!FragmentsInPlace

FeedInv == Feed!TypeOK /\ FeedFacts

LEMMA FeedInit == Feed!Init => FeedInv
<1> SUFFICES ASSUME Feed!Init PROVE FeedInv
  OBVIOUS
<1>1. /\ base = 0 /\ active = Feed!BaseProducer /\ sbDirect = FALSE /\ running = TRUE
      /\ stage = "manifest" /\ ct = 0 /\ seeking = FALSE /\ seekingEv = FALSE /\ seekedEv = FALSE
      /\ busy = FALSE /\ handlers = [h \in Feed!Seekers |-> Feed!Idle] /\ loops = {}
      /\ buf = {} /\ shift = 0 /\ init = FALSE /\ verdict = "unknown"
      /\ left = FALSE /\ made = 0 /\ faults = 0 /\ crossed = FALSE /\ blame = {}
  BY DEF Feed!Init
<1>2. Feed!TypeOK
  <2>1. 0 \in Feed!Frags /\ 0 \in 0 .. Last + 1
    BY PlayerAssumption DEF PlayerAssumption, Feed!Frags
  <2>2. Feed!BaseProducer \in Feed!Producers /\ Feed!Idle \in Feed!Handlers
    BY <2>1 DEF Feed!BaseProducer, Feed!Producers, Feed!Idle, Feed!Handlers
  <2>3. handlers \in [Feed!Seekers -> Feed!Handlers]
    BY <1>1, <2>2
  <2>4. loops = {} /\ buf = {} /\ blame = {} /\ shift \in Int /\ made \in Nat /\ faults \in Nat
    BY <1>1
  <2>5. /\ sbDirect \in BOOLEAN /\ running \in BOOLEAN /\ seeking \in BOOLEAN
        /\ seekingEv \in BOOLEAN /\ seekedEv \in BOOLEAN /\ busy \in BOOLEAN
        /\ init \in BOOLEAN /\ left \in BOOLEAN /\ crossed \in BOOLEAN
    BY <1>1
  <2>6. base \in 0 .. Last + 1 /\ active \in Feed!Producers /\ ct \in Feed!Frags
    BY <1>1, <2>1, <2>2
  <2> QED BY <1>1, <2>3, <2>4, <2>5, <2>6 DEF Feed!TypeOK
<1>3. \A h \in Feed!Seekers : handlers[h] = Feed!Idle /\ ~Works(h)
  BY <1>1 DEF Works, Feed!Idle
<1>4. ProducerEnds /\ OneWorks
  BY <1>1, <1>3 DEF ProducerEnds, OneWorks, Feed!BaseProducer
<1>5. OneLoop /\ BeforeFed /\ Unopened
  BY <1>1, <1>3 DEF OneLoop, BeforeFed, Unopened, Feed!Idle
<1>6. Answered /\ NoneDrains /\ LoopFits /\ Feed!FragmentsInPlace
  BY <1>1, <1>3 DEF Answered, NoneDrains, LoopFits, Feed!FragmentsInPlace
<1> QED BY <1>2, <1>4, <1>5, <1>6 DEF FeedInv, FeedFacts

\* A step that leaves what the invariant is about keeps it.
LEMMA FeedKept ==
  ASSUME FeedInv,
         UNCHANGED <<active, sbDirect, handlers, loops, buf, shift, init, left>>,
         blame \subseteq blame',
         running' => running \/ ~left \/ "late" \in blame',
         stage' = stage \/ (stage \in {"manifest", "init"} /\ stage' # "fed"),
         seekingEv' => seekingEv \/ stage' \in {"appended", "fed"}
  PROVE  FeedFacts'
<1>1. /\ FeedFacts
      /\ "late" \notin blame' => "late" \notin blame
      /\ blame' = {} => blame = {}
  BY DEF FeedInv
<1>2. \A h \in Feed!Seekers : Works(h)' <=> Works(h)
  BY DEF Works
<1>3. NoneWorks' <=> NoneWorks
  BY <1>2 DEF NoneWorks
<1>4. ProducerEnds' /\ OneWorks'
  BY <1>1, <1>2 DEF FeedFacts, ProducerEnds, OneWorks
<1>5. OneLoop'
  BY <1>1, <1>3 DEF FeedFacts, OneLoop
<1>6. BeforeFed' /\ Unopened'
  BY <1>1, <1>3 DEF FeedFacts, BeforeFed, Unopened
<1>7. Answered'
  BY <1>1, <1>2 DEF FeedFacts, Answered, Placed
<1>8. NoneDrains'
  BY <1>1, <1>2 DEF FeedFacts, NoneDrains
<1>9. LoopFits' /\ Feed!FragmentsInPlace'
  BY <1>1 DEF FeedFacts, LoopFits, Placed, Feed!FragmentsInPlace
<1> QED BY <1>4, <1>5, <1>6, <1>7, <1>8, <1>9 DEF FeedFacts

\* Handler h ends: the others are as they were.
LEMMA HandlerEnds ==
  ASSUME FeedInv, NEW h \in Feed!Seekers, handlers' = [handlers EXCEPT ![h] = Feed!Idle]
  PROVE  /\ handlers' \in [Feed!Seekers -> Feed!Handlers]
         /\ handlers'[h] = Feed!Idle
         /\ \A g \in Feed!Seekers \ {h} : handlers'[g] = handlers[g]
         /\ \A g \in Feed!Seekers : Works(g)' <=> Works(g) /\ g # h
         /\ OneWorks'
<1>1. /\ handlers \in [Feed!Seekers -> Feed!Handlers]
      /\ Feed!Idle \in Feed!Handlers
  BY PlayerAssumption
  DEF PlayerAssumption, FeedInv, Feed!TypeOK, Feed!Idle, Feed!Handlers, Feed!Frags
<1>2. /\ handlers'[h] = Feed!Idle
      /\ \A g \in Feed!Seekers \ {h} : handlers'[g] = handlers[g]
      /\ handlers' \in [Feed!Seekers -> Feed!Handlers]
  BY <1>1
<1>3. \A g \in Feed!Seekers : Works(g)' <=> Works(g) /\ g # h
  BY <1>2 DEF Works, Feed!Idle
<1>4. OneWorks'
  BY <1>2, <1>3 DEF FeedInv, FeedFacts, OneWorks
<1> QED BY <1>2, <1>3, <1>4

\* Handler h, which works, goes on as H: the others are as they were.
LEMMA HandlerGoesOn ==
  ASSUME FeedInv, NEW h \in Feed!Seekers, NEW H \in Feed!Handlers,
         Works(h), H.pc # "off", ~H.aborted, handlers' = [handlers EXCEPT ![h] = H]
  PROVE  /\ handlers' \in [Feed!Seekers -> Feed!Handlers]
         /\ handlers'[h] = H
         /\ \A g \in Feed!Seekers \ {h} : handlers'[g] = handlers[g] /\ ~Works(g)
         /\ \A g \in Feed!Seekers : Works(g)' <=> Works(g)
         /\ OneWorks'
<1>1. handlers \in [Feed!Seekers -> Feed!Handlers]
  BY DEF FeedInv, Feed!TypeOK
<1>2. /\ handlers'[h] = H
      /\ \A g \in Feed!Seekers \ {h} : handlers'[g] = handlers[g]
      /\ handlers' \in [Feed!Seekers -> Feed!Handlers]
  BY <1>1
<1>3. \A g \in Feed!Seekers : Works(g)' <=> Works(g)
  BY <1>2 DEF Works
<1>4. OneWorks'
  BY <1>2, <1>3 DEF FeedInv, FeedFacts, OneWorks
<1>5. \A g \in Feed!Seekers \ {h} : ~Works(g)
  BY DEF FeedInv, FeedFacts, OneWorks
<1> QED BY <1>2, <1>3, <1>4, <1>5

\* All handlers are aborted.
LEMMA HandlersAbort ==
  ASSUME FeedInv
  PROVE  /\ Feed!Aborted(handlers) \in [Feed!Seekers -> Feed!Handlers]
         /\ \A h \in Feed!Seekers :
              /\ Feed!Aborted(handlers)[h].pc = handlers[h].pc
              /\ Feed!Aborted(handlers)[h].pc # "off" => Feed!Aborted(handlers)[h].aborted
              /\ Feed!Aborted(handlers)[h].pc = "off" => Feed!Aborted(handlers)[h] = Feed!Idle
<1>1. handlers \in [Feed!Seekers -> Feed!Handlers]
  BY DEF FeedInv, Feed!TypeOK
<1>2. ASSUME NEW h \in Feed!Seekers
      PROVE  LET H == Feed!Aborted(handlers)[h]
             IN /\ H \in Feed!Handlers
                /\ H.pc = handlers[h].pc
                /\ H.pc # "off" => H.aborted
                /\ H.pc = "off" => H = Feed!Idle
  <2>1. CASE handlers[h].pc = "off"
    <3>1. Feed!Aborted(handlers)[h] = handlers[h] /\ handlers[h] = Feed!Idle
      BY <2>1 DEF Feed!Aborted, FeedInv, FeedFacts, OneWorks
    <3> QED BY <1>1, <2>1, <3>1
  <2>2. CASE handlers[h].pc # "off"
    <3>1. Feed!Aborted(handlers)[h] = [handlers[h] EXCEPT !.aborted = TRUE]
      BY <2>2 DEF Feed!Aborted
    <3> QED BY <1>1, <2>2, <3>1 DEF Feed!Handlers
  <2> QED BY <2>1, <2>2
<1> QED BY <1>1, <1>2 DEF Feed!Aborted

\* What the engine answers a seek to t with.
LEMMA SeekAnswers ==
  ASSUME Feed!TypeOK, ProducerEnds, NEW t \in Feed!Frags, NEW noDirect \in BOOLEAN,
         NEW r \in Feed!SeekProducers(t, noDirect)
  PROVE  /\ r.producer \in Feed!Producers /\ r.n \in 0 .. Last + 1 /\ r.t \in Int
         /\ r.reused \in BOOLEAN
         /\ IF r.producer.base THEN r.producer = Feed!BaseProducer
                               ELSE r.producer.start + r.producer.made <= Last + 1
         /\ noDirect => ~r.producer.direct
         /\ ~r.reused => Placed(r.producer) = IF r.producer.direct THEN -Raw
                                              ELSE IF r.n = 0 THEN r.t ELSE 0
<1> DEFINE At(p, n, reused) == [producer |-> p, n |-> n, t |-> n, reused |-> reused]
<1> DEFINE new(d) == [base |-> FALSE, start |-> t, direct |-> d, made |-> 0]
<1> DEFINE k == IF t < Feed!Made(active) THEN t ELSE Feed!Made(active) - 1
<1>1. /\ Last \in Nat /\ t \in Int /\ 0 <= t /\ t <= Last /\ Raw \in Int
      /\ 0 \in Feed!Frags /\ 0 \in 0 .. Last + 1
  BY PlayerAssumption DEF PlayerAssumption, Feed!Frags
<1>2. \/ r = At(Feed!BaseProducer, t, FALSE)
      \/ ~active.base /\ ~active.direct /\ Feed!Past(active, t) /\ r = At(active, k, TRUE)
      \/ \E d \in BOOLEAN : (noDirect => ~d) /\ r = [At(new(d), 0, FALSE) EXCEPT !.t = t]
  BY DEF Feed!SeekProducers
<1>3. CASE r = At(Feed!BaseProducer, t, FALSE)
  <2>1. Feed!BaseProducer \in Feed!Producers
    BY <1>1 DEF Feed!BaseProducer, Feed!Producers
  <2> QED BY <1>1, <1>3, <2>1 DEF Placed, Feed!BaseProducer
<1>4. CASE ~active.base /\ ~active.direct /\ Feed!Past(active, t) /\ r = At(active, k, TRUE)
  <2>1. active \in Feed!Producers /\ Feed!Made(active) = active.made
    BY <1>4 DEF Feed!TypeOK, Feed!Made
  <2>2. k \in 0 .. Last + 1
    BY <1>1, <1>4, <2>1 DEF Feed!Past, Feed!Producers
  <2> QED BY <1>1, <1>4, <2>1, <2>2 DEF ProducerEnds
<1>5. ASSUME NEW d \in BOOLEAN, noDirect => ~d, r = [At(new(d), 0, FALSE) EXCEPT !.t = t]
      PROVE  /\ r.producer \in Feed!Producers /\ r.n = 0 /\ r.t = t /\ r.reused = FALSE
             /\ ~r.producer.base /\ r.producer.start = t /\ r.producer.made = 0
             /\ r.producer.direct = d
  BY <1>1, <1>5 DEF Feed!Producers
<1>6. CASE \E d \in BOOLEAN : (noDirect => ~d) /\ r = [At(new(d), 0, FALSE) EXCEPT !.t = t]
  <2>1. PICK d \in BOOLEAN : (noDirect => ~d) /\ r = [At(new(d), 0, FALSE) EXCEPT !.t = t]
    BY <1>6
  <2>2. /\ r.producer \in Feed!Producers /\ r.n = 0 /\ r.t = t /\ r.reused = FALSE
        /\ ~r.producer.base /\ r.producer.start = t /\ r.producer.made = 0
        /\ r.producer.direct = d
    BY <1>5, <2>1
  <2> QED BY <1>1, <2>1, <2>2 DEF Placed
<1> QED BY <1>2, <1>3, <1>4, <1>6

LEMMA FeedPreserves == FeedInv /\ Feed!Next => FeedInv'
<1> SUFFICES ASSUME FeedInv, Feed!Next PROVE FeedInv'
  OBVIOUS
<1> USE DEF Feed!eng, Feed!elem, Feed!sb, Feed!hist
<1>t. Feed!TypeOK /\ FeedFacts
  BY DEF FeedInv
<1>s. /\ 0 \in Feed!Frags /\ 0 \in 0 .. Last + 1 /\ Last \in Nat /\ Raw \in Int
      /\ \A n : n \in Feed!Frags <=> n \in Int /\ 0 <= n /\ n <= Last
  BY PlayerAssumption DEF PlayerAssumption, Feed!Frags
<1>1. CASE Feed!BaseEncodes
  <2>1. FeedFacts'
    BY <1>1, FeedKept DEF Feed!BaseEncodes
  <2>2. base' \in 0 .. Last + 1
    BY <1>1, <1>t, <1>s DEF Feed!BaseEncodes, Feed!TypeOK
  <2>3. Feed!TypeOK'
    BY <1>1, <1>t, <2>2 DEF Feed!BaseEncodes, Feed!TypeOK
  <2> QED BY <2>1, <2>3 DEF FeedInv
<1>2. CASE Feed!SeekEncodes
  <2>1. /\ active' \in Feed!Producers /\ ~active.base /\ ~active'.base
        /\ active'.start = active.start /\ active'.direct = active.direct
        /\ active'.start + active'.made <= Last + 1
    BY <1>2, <1>t, <1>s
    DEF Feed!SeekEncodes, Feed!TypeOK, Feed!Producers, FeedFacts, ProducerEnds, Feed!Done,
      Feed!Made
  <2>2. Feed!TypeOK'
    BY <1>2, <1>t, <2>1 DEF Feed!SeekEncodes, Feed!TypeOK
  <2>3. \A h \in Feed!Seekers : Works(h)' <=> Works(h)
    BY <1>2 DEF Feed!SeekEncodes, Works
  <2>4. ProducerEnds' /\ OneWorks'
    BY <1>2, <1>t, <2>1, <2>3 DEF Feed!SeekEncodes, FeedFacts, ProducerEnds, OneWorks
  <2>5. OneLoop' /\ BeforeFed' /\ Unopened'
    BY <1>2, <1>t, <2>1, <2>3
    DEF Feed!SeekEncodes, FeedFacts, OneLoop, BeforeFed, Unopened, NoneWorks, Feed!BaseProducer
  <2>6. Answered' /\ NoneDrains' /\ LoopFits' /\ Feed!FragmentsInPlace'
    BY <1>2, <1>t, <2>1, <2>3
    DEF Feed!SeekEncodes, FeedFacts, Answered, NoneDrains, LoopFits, Placed,
      Feed!FragmentsInPlace
  <2> QED BY <2>2, <2>4, <2>5, <2>6 DEF FeedInv, FeedFacts
<1>3. ASSUME NEW l \in loops, Feed!Fetch(l) PROVE FeedInv'
  <2> DEFINE f == Feed!Fragment(l.n)
  <2> DEFINE m == [l EXCEPT !.got = TRUE, !.frag = f]
  <2>1. /\ active \in Feed!Producers /\ base \in 0 .. Last + 1
        /\ loops \subseteq [n : 0 .. Last + 1, got : BOOLEAN, frag : Feed!Fetched]
        /\ l.n \in 0 .. Last + 1 /\ l.n < Feed!Made(active)
        /\ loops' = (loops \ {l}) \union {m}
    BY <1>3, <1>t DEF Feed!Fetch, Feed!TypeOK
  <2>2. /\ l.n \in Int /\ 0 <= l.n /\ l.n <= Last
        /\ active.start \in Int /\ 0 <= active.start /\ active.start + l.n <= Last
        /\ active.direct \in BOOLEAN
    BY <1>t, <1>s, <2>1
    DEF FeedFacts, ProducerEnds, Feed!Made, Feed!Producers, Feed!BaseProducer
  <2>3. /\ f \in Feed!Fetched /\ f.what = active.start + l.n /\ f.direct = active.direct
        /\ f.time = IF active.direct THEN active.start + l.n + Raw ELSE l.n
    BY <1>s, <2>2 DEF Feed!Fragment, Feed!Fetched
  <2>4. /\ m \in [n : 0 .. Last + 1, got : BOOLEAN, frag : Feed!Fetched]
        /\ m.n = l.n /\ m.got /\ m.frag = f
    BY <2>1, <2>3
  <2>5. Feed!TypeOK'
    <3>1. loops' \subseteq [n : 0 .. Last + 1, got : BOOLEAN, frag : Feed!Fetched]
      BY <2>1, <2>4
    <3> QED BY <1>3, <1>t, <3>1 DEF Feed!Fetch, Feed!TypeOK
  <2>6. \A h \in Feed!Seekers : Works(h)' <=> Works(h)
    BY <1>3 DEF Feed!Fetch, Works
  <2>7. ProducerEnds' /\ OneWorks'
    BY <1>3, <1>t, <2>1, <2>2, <2>4, <2>6 DEF Feed!Fetch, FeedFacts, ProducerEnds, OneWorks
  <2>8. OneLoop' /\ BeforeFed' /\ Unopened'
    BY <1>3, <1>t, <2>1, <2>6 DEF Feed!Fetch, FeedFacts, OneLoop, BeforeFed, Unopened, NoneWorks
  <2>9. Answered' /\ NoneDrains' /\ Feed!FragmentsInPlace'
    BY <1>3, <1>t, <2>6
    DEF Feed!Fetch, FeedFacts, Answered, NoneDrains, Placed, Feed!FragmentsInPlace
  <2>10. LoopFits'
    <3>1. ASSUME blame = {}
          PROVE  f.what = f.time + shift /\ f.direct = init
      <4>1. init = active.direct /\ shift = Placed(active)
        BY <1>t, <3>1 DEF FeedFacts, LoopFits
      <4> QED BY <1>t, <1>s, <2>2, <2>3, <4>1 DEF Placed, FeedFacts, ProducerEnds
    <3> QED BY <1>3, <1>t, <2>1, <2>4, <3>1 DEF Feed!Fetch, FeedFacts, LoopFits, Placed
  <2> QED BY <2>5, <2>7, <2>8, <2>9, <2>10 DEF FeedInv, FeedFacts
<1>4. ASSUME NEW l \in loops, Feed!FetchEnds(l) PROVE FeedInv'
  <2>1. /\ loops' = loops \ {l}
        /\ UNCHANGED <<base, active, sbDirect, running, stage, ct, seeking, seekingEv, seekedEv,
                       busy, handlers, buf, shift, init, verdict, left, made, crossed>>
        /\ faults' \in Nat /\ blame \subseteq blame' /\ blame' \subseteq blame \union {"lost"}
    BY <1>4, <1>t DEF Feed!FetchEnds, Feed!Fault, Feed!TypeOK
  <2>2. Feed!TypeOK'
    BY <1>t, <2>1 DEF Feed!TypeOK
  <2>3. \A h \in Feed!Seekers : Works(h)' <=> Works(h)
    BY <2>1 DEF Works
  <2>4. ProducerEnds' /\ OneWorks' /\ OneLoop' /\ BeforeFed' /\ Unopened'
    BY <1>t, <2>1, <2>3
    DEF FeedFacts, ProducerEnds, OneWorks, OneLoop, BeforeFed, Unopened, NoneWorks
  <2>5. Answered' /\ NoneDrains' /\ LoopFits' /\ Feed!FragmentsInPlace'
    BY <1>t, <2>1, <2>3
    DEF FeedFacts, Answered, NoneDrains, LoopFits, Placed, Feed!FragmentsInPlace
  <2> QED BY <2>2, <2>4, <2>5 DEF FeedInv, FeedFacts
<1>5. ASSUME NEW l \in loops, Feed!Append(l) PROVE FeedInv'
  <2> DEFINE at_ == l.frag.time + shift
  <2> DEFINE ok == l.frag.direct = init
  <2>1. /\ loops' = (loops \ {l}) \union (IF ok THEN {Feed!Loop(l.n + 1)} ELSE {})
        /\ buf' = {f \in buf : f.at # at_} \union {[what |-> l.frag.what, at |-> at_, ok |-> ok]}
        /\ l.got
        /\ UNCHANGED <<base, active, sbDirect, running, stage, ct, seeking, seekingEv, seekedEv,
                       busy, handlers, shift, init, verdict, left, made, faults, crossed, blame>>
    BY <1>5 DEF Feed!Append
  <2>2. /\ loops \subseteq [n : 0 .. Last + 1, got : BOOLEAN, frag : Feed!Fetched]
        /\ l.n \in 0 .. Last + 1 /\ l.n <= Last /\ l.frag.what \in Feed!Frags
        /\ at_ \in Int /\ ok \in BOOLEAN
    BY <1>t, <2>1 DEF Feed!TypeOK, Feed!Fetched, FeedFacts, ProducerEnds
  <2>3. /\ Feed!Loop(l.n + 1) \in [n : 0 .. Last + 1, got : BOOLEAN, frag : Feed!Fetched]
        /\ ~Feed!Loop(l.n + 1).got
    BY <1>s, <2>2 DEF Feed!Loop, Feed!NoFrag, Feed!Fetched
  <2>4. /\ loops' \subseteq [n : 0 .. Last + 1, got : BOOLEAN, frag : Feed!Fetched]
        /\ buf' \subseteq [what : Feed!Frags, at : Int, ok : BOOLEAN]
    BY <1>t, <2>1, <2>2, <2>3 DEF Feed!TypeOK
  <2>5. Feed!TypeOK'
    BY <1>t, <2>1, <2>4 DEF Feed!TypeOK
  <2>6. \A h \in Feed!Seekers : Works(h)' <=> Works(h)
    BY <2>1 DEF Works
  <2>7. ProducerEnds' /\ OneWorks'
    BY <1>t, <2>1, <2>3, <2>6 DEF FeedFacts, ProducerEnds, OneWorks
  <2>8. OneLoop'
    BY <1>t, <2>1, <2>6 DEF FeedFacts, OneLoop, NoneWorks
  <2>9. ASSUME blame = {} PROVE l.frag.what = at_ /\ ok
    BY <1>t, <2>1, <2>9 DEF FeedFacts, LoopFits
  <2>10. BeforeFed' /\ Unopened'
    BY <1>t, <2>1, <2>6 DEF FeedFacts, BeforeFed, Unopened, NoneWorks
  <2>11. Answered' /\ NoneDrains' /\ LoopFits'
    BY <1>t, <2>1, <2>3, <2>6 DEF FeedFacts, Answered, NoneDrains, LoopFits, Placed
  <2>12. Feed!FragmentsInPlace'
    BY <1>t, <2>1, <2>2, <2>9 DEF FeedFacts, Feed!FragmentsInPlace
  <2> QED BY <2>5, <2>7, <2>8, <2>10, <2>11, <2>12 DEF FeedInv, FeedFacts
<1>6. CASE Feed!Manifest
  <2>1. /\ stage = "manifest" /\ stage' = "init" /\ running' = TRUE
        /\ blame \subseteq blame' /\ blame' \subseteq blame \union {"late"}
        /\ left => "late" \in blame'
        /\ UNCHANGED <<base, active, sbDirect, ct, seeking, seekingEv, seekedEv, busy, handlers,
                       loops, buf, shift, init, verdict, left, made, faults, crossed>>
    BY <1>6 DEF Feed!Manifest, Feed!Reopens
  <2>2. Feed!TypeOK'
    BY <1>t, <2>1 DEF Feed!TypeOK
  <2>3. FeedFacts'
    <3>1. ~left \/ "late" \in blame'
      BY <1>t, <2>1 DEF Feed!TypeOK
    <3> QED BY <2>1, <3>1, FeedKept
  <2> QED BY <2>2, <2>3 DEF FeedInv
<1>7. CASE Feed!InitSegment
  <2>1. /\ stage = "init" /\ stage' = "appended" /\ running' = TRUE /\ init' = active.direct
        /\ seeking' \in BOOLEAN /\ seekingEv' \in BOOLEAN
        /\ blame \subseteq blame' /\ blame' \subseteq blame \union {"late"}
        /\ left => "late" \in blame'
        /\ UNCHANGED <<base, active, sbDirect, ct, seekedEv, busy, handlers, loops, buf, shift,
                       verdict, left, made, faults, crossed>>
    BY <1>7 DEF Feed!InitSegment, Feed!Reopens
  <2>2. Feed!TypeOK'
    BY <1>t, <2>1 DEF Feed!TypeOK, Feed!Producers
  <2>3. init' = init
    <3>1. active = Feed!BaseProducer /\ init = FALSE
      BY <1>t, <2>1 DEF FeedFacts, Unopened, BeforeFed
    <3>2. active.direct = FALSE
      BY <3>1 DEF Feed!BaseProducer
    <3> QED BY <2>1, <3>1, <3>2
  <2>4. FeedFacts'
    <3>1. ~left \/ "late" \in blame'
      BY <1>t, <2>1 DEF Feed!TypeOK
    <3> QED BY <2>1, <2>3, <3>1, FeedKept
  <2> QED BY <2>2, <2>4 DEF FeedInv
<1>8. CASE Feed!StartLoop
  <2>1. /\ stage = "appended" /\ stage' = "fed" /\ running' = TRUE
        /\ loops' = loops \union {Feed!Loop(0)}
        /\ blame \subseteq blame' /\ blame' \subseteq blame \union {"late"}
        /\ \/ "late" \in blame'
           \/ blame' = blame /\ ~left /\ loops = {} /\ \A h \in Feed!Seekers : handlers[h].pc = "off"
        /\ UNCHANGED <<base, active, sbDirect, ct, seeking, seekingEv, seekedEv, busy, handlers,
                       buf, shift, init, verdict, left, made, faults, crossed>>
    BY <1>8 DEF Feed!StartLoop
  <2>2. /\ Feed!Loop(0) \in [n : 0 .. Last + 1, got : BOOLEAN, frag : Feed!Fetched]
        /\ ~Feed!Loop(0).got
    BY <1>s DEF Feed!Loop, Feed!NoFrag, Feed!Fetched
  <2>3. Feed!TypeOK'
    <3>1. loops' \subseteq [n : 0 .. Last + 1, got : BOOLEAN, frag : Feed!Fetched]
      BY <1>t, <2>1, <2>2 DEF Feed!TypeOK
    <3> QED BY <1>t, <2>1, <3>1 DEF Feed!TypeOK
  <2>4. \A h \in Feed!Seekers : Works(h)' <=> Works(h)
    BY <2>1 DEF Works
  <2>5. ProducerEnds' /\ OneWorks' /\ BeforeFed' /\ Unopened'
    BY <1>t, <2>1, <2>2, <2>4 DEF FeedFacts, ProducerEnds, OneWorks, BeforeFed, Unopened
  <2>6. OneLoop'
    <3>1. ASSUME "late" \notin blame' PROVE NoneWorks /\ ~left /\ loops = {}
      BY <2>1, <3>1 DEF NoneWorks, Works
    <3>2. NoneWorks' <=> NoneWorks
      BY <2>4 DEF NoneWorks
    <3> QED BY <1>t, <2>1, <3>1, <3>2 DEF OneLoop
  <2>7. ASSUME blame' = {}
        PROVE  /\ blame = {} /\ init = active.direct /\ shift = Placed(active)
               /\ \A h \in Feed!Seekers : handlers[h].pc = "off"
    <3>1. blame = {} /\ ~left /\ \A h \in Feed!Seekers : handlers[h].pc = "off"
      BY <2>1, <2>7
    <3>2. NoneWorks
      BY <3>1 DEF NoneWorks, Works
    <3>3. active = Feed!BaseProducer /\ init = FALSE /\ shift = 0
      BY <1>t, <2>1, <3>1, <3>2 DEF FeedFacts, BeforeFed
    <3>4. active.direct = FALSE /\ active.start = 0
      BY <3>3 DEF Feed!BaseProducer
    <3> QED BY <3>1, <3>3, <3>4 DEF Placed
  <2>8. Answered' /\ NoneDrains'
    BY <1>t, <2>1, <2>4, <2>7 DEF FeedFacts, Answered, NoneDrains, Placed
  <2>9. LoopFits' /\ Feed!FragmentsInPlace'
    BY <1>t, <2>1, <2>2, <2>7 DEF FeedFacts, LoopFits, Placed, Feed!FragmentsInPlace
  <2> QED BY <2>3, <2>5, <2>6, <2>8, <2>9 DEF FeedInv, FeedFacts
<1>9. CASE Feed!OpeningFails
  <2>1. /\ stage \in {"manifest", "init"} /\ stage' = "failed" /\ faults' \in Nat
        /\ blame' = blame \union {"lost"}
        /\ UNCHANGED <<base, active, sbDirect, running, ct, seeking, seekingEv, seekedEv, busy,
                       handlers, loops, buf, shift, init, verdict, left, made, crossed>>
    BY <1>9, <1>t DEF Feed!OpeningFails, Feed!Fault, Feed!TypeOK
  <2>2. Feed!TypeOK'
    BY <1>t, <2>1 DEF Feed!TypeOK
  <2>3. FeedFacts'
    BY <2>1, FeedKept
  <2> QED BY <2>2, <2>3 DEF FeedInv
<1>10. CASE Feed!Arrive
  <2>1. /\ seeking' = FALSE /\ seekedEv' = TRUE
        /\ UNCHANGED <<base, active, sbDirect, running, stage, ct, seekingEv, busy, handlers, loops,
                       buf, shift, init, verdict, left, made, faults, crossed, blame>>
    BY <1>10 DEF Feed!Arrive
  <2>2. Feed!TypeOK'
    BY <1>t, <2>1 DEF Feed!TypeOK
  <2>3. FeedFacts'
    BY <2>1, FeedKept
  <2> QED BY <2>2, <2>3 DEF FeedInv
<1>11. CASE Feed!SeekedEvent
  <2>1. /\ seekedEv' = FALSE /\ busy' = FALSE
        /\ UNCHANGED <<base, active, sbDirect, running, stage, ct, seeking, seekingEv, handlers,
                       loops, buf, shift, init, verdict, left, made, faults, crossed, blame>>
    BY <1>11 DEF Feed!SeekedEvent
  <2>2. Feed!TypeOK'
    BY <1>t, <2>1 DEF Feed!TypeOK
  <2>3. FeedFacts'
    BY <2>1, FeedKept
  <2> QED BY <2>2, <2>3 DEF FeedInv
<1>12. CASE Feed!Play
  <2>1. /\ ct' = ct + 1 /\ ct < Last
        /\ UNCHANGED <<base, active, sbDirect, running, stage, seeking, seekingEv, seekedEv, busy,
                       handlers, loops, buf, shift, init, verdict, left, made, faults, crossed,
                       blame>>
    BY <1>12 DEF Feed!Play
  <2>2. ct' \in Feed!Frags
    BY <1>t, <1>s, <2>1 DEF Feed!TypeOK
  <2>3. Feed!TypeOK'
    BY <1>t, <2>1, <2>2 DEF Feed!TypeOK
  <2>4. FeedFacts'
    BY <2>1, FeedKept
  <2> QED BY <2>3, <2>4 DEF FeedInv
<1>13. ASSUME NEW t \in Feed!Frags, Feed!Seek(t) PROVE FeedInv'
  <2>1. /\ ct' = t /\ seeking' \in BOOLEAN /\ seekingEv' \in BOOLEAN /\ seekedEv' = FALSE
        /\ seekingEv' => stage \in {"appended", "fed"}
        /\ made' \in Nat /\ crossed' \in BOOLEAN
        /\ UNCHANGED <<base, active, sbDirect, running, stage, busy, handlers, loops, buf, shift,
                       init, verdict, left, faults, blame>>
    BY <1>13, <1>t DEF Feed!Seek, Feed!TypeOK
  <2>2. Feed!TypeOK'
    BY <1>t, <2>1 DEF Feed!TypeOK
  <2>3. FeedFacts'
    BY <2>1, FeedKept
  <2> QED BY <2>2, <2>3 DEF FeedInv
<1>14. CASE Feed!Leave
  <2>1. /\ left' = TRUE /\ running' = FALSE /\ loops' = {} /\ handlers' = Feed!Aborted(handlers)
        /\ UNCHANGED <<base, active, sbDirect, stage, ct, seeking, seekingEv, seekedEv, busy, buf,
                       shift, init, verdict, made, faults, crossed, blame>>
    BY <1>14 DEF Feed!Leave, Feed!StopFetchLoop
  <2>2. /\ handlers' \in [Feed!Seekers -> Feed!Handlers]
        /\ \A h \in Feed!Seekers : /\ handlers'[h].pc = handlers[h].pc /\ ~Works(h)'
                                   /\ handlers'[h].pc = "off" => handlers'[h] = Feed!Idle
    BY <2>1, HandlersAbort DEF Works
  <2>3. Feed!TypeOK'
    BY <1>t, <2>1, <2>2 DEF Feed!TypeOK
  <2>4. ProducerEnds' /\ OneWorks' /\ OneLoop'
    BY <1>t, <2>1, <2>2 DEF FeedFacts, ProducerEnds, OneWorks, OneLoop, NoneWorks
  <2>5. BeforeFed' /\ Unopened'
    BY <1>t, <2>1, <2>2 DEF FeedFacts, BeforeFed, Unopened
  <2>6. Answered' /\ NoneDrains' /\ LoopFits' /\ Feed!FragmentsInPlace'
    BY <1>t, <2>1, <2>2 DEF FeedFacts, Answered, NoneDrains, LoopFits, Feed!FragmentsInPlace
  <2> QED BY <2>3, <2>4, <2>5, <2>6 DEF FeedInv, FeedFacts
<1>15. CASE Feed!SeekingEvent
  <2>1. /\ seekingEv /\ seekingEv' = FALSE
        /\ UNCHANGED <<base, active, sbDirect, running, stage, ct, seeking, seekedEv, buf, shift, init,
                       verdict, left, made, faults, crossed>>
    BY <1>15 DEF Feed!SeekingEvent
  <2>2. CASE busy \/ Feed!Covered(ct)
    <3>1. UNCHANGED <<busy, loops, handlers, blame>>
      BY <1>15, <2>2 DEF Feed!SeekingEvent
    <3>2. Feed!TypeOK'
      BY <1>t, <2>1, <3>1, ZenonT(60) DEF Feed!TypeOK
    <3>3. FeedFacts'
      BY <2>1, <3>1, FeedKept
    <3> QED BY <3>2, <3>3 DEF FeedInv
  <2>3. CASE ~(busy \/ Feed!Covered(ct))
    <3> DEFINE H == [Feed!Idle EXCEPT !.pc = "ask", !.to = ct, !.noDirect = verdict = "bad"]
    <3>1. PICK h \in Feed!Seekers :
            /\ ~Feed!UnderWay(h)
            /\ handlers' = [Feed!Aborted(handlers) EXCEPT ![h] = H]
      BY <1>15, <2>3 DEF Feed!SeekingEvent
    <3>2. /\ busy' = TRUE /\ loops' = {}
          /\ blame \subseteq blame' /\ blame' \subseteq blame \union {"late", "unfit"}
          /\ left => "late" \in blame'
          /\ sbDirect # init => "unfit" \in blame'
      BY <1>15, <2>3 DEF Feed!SeekingEvent, Feed!StopFetchLoop, Feed!Unfit
    <3>3. /\ H \in Feed!Handlers /\ H.pc = "ask" /\ ~H.aborted /\ ~H.reinit
      BY <1>t, <1>s DEF Feed!TypeOK, Feed!Handlers, Feed!Idle
    <3>4. /\ handlers' \in [Feed!Seekers -> Feed!Handlers] /\ handlers'[h] = H
          /\ \A g \in Feed!Seekers \ {h} : handlers'[g] = Feed!Aborted(handlers)[g]
      BY <3>1, <3>3, HandlersAbort
    <3>5. /\ handlers'[h].pc = "ask" /\ ~handlers'[h].aborted /\ ~handlers'[h].reinit
          /\ handlers[h].pc = "off"
      BY <3>1, <3>3, <3>4 DEF Feed!UnderWay
    <3>6. \A g \in Feed!Seekers :
            /\ Works(g)' <=> g = h
            /\ g # h => /\ handlers'[g].pc = handlers[g].pc
                        /\ handlers'[g].pc = "off" => handlers'[g] = Feed!Idle
      BY <3>4, <3>5, HandlersAbort DEF Works
    <3>7. Feed!TypeOK'
      BY <1>t, <2>1, <3>2, <3>4 DEF Feed!TypeOK
    <3>8. ProducerEnds'
      BY <1>t, <2>1, <3>2 DEF FeedFacts, ProducerEnds
    <3>9. OneWorks'
      BY <3>5, <3>6 DEF OneWorks
    <3>10. OneLoop'
      BY <1>t, <2>1, <3>2 DEF FeedFacts, Feed!TypeOK, OneLoop
    <3>11. BeforeFed'
      <4>1. ~NoneWorks'
        BY <3>6 DEF NoneWorks
      <4> QED BY <1>t, <2>1, <3>2, <3>5, <3>6, <4>1 DEF FeedFacts, BeforeFed
    <3>12. Unopened'
      BY <1>t, <2>1 DEF FeedFacts, Unopened
    <3>13. Answered'
      BY <1>t, <2>1, <3>2, <3>5, <3>6 DEF Feed!TypeOK, Answered
    <3>14. NoneDrains' /\ LoopFits' /\ Feed!FragmentsInPlace'
      <4>1. \A g \in Feed!Seekers : Works(g)' => handlers'[g].pc # "reinit"
        BY <3>5, <3>6
      <4> QED
        BY <1>t, <2>1, <3>2, <4>1
        DEF FeedFacts, NoneDrains, LoopFits, Feed!FragmentsInPlace
    <3> QED BY <3>7, <3>8, <3>9, <3>10, <3>11, <3>12, <3>13, <3>14 DEF FeedInv, FeedFacts
  <2> QED BY <2>2, <2>3
<1>16. ASSUME NEW h \in Feed!Seekers, Feed!SeekAborted(h) PROVE FeedInv'
  <2>1. /\ handlers[h].aborted /\ busy' = FALSE /\ handlers' = [handlers EXCEPT ![h] = Feed!Idle]
        /\ UNCHANGED <<base, active, sbDirect, running, stage, ct, seeking, seekingEv, seekedEv,
                       loops, buf, shift, init, verdict, left, made, faults, crossed, blame>>
    BY <1>16 DEF Feed!SeekAborted, Feed!Ends
  <2>2. /\ handlers' \in [Feed!Seekers -> Feed!Handlers] /\ handlers'[h] = Feed!Idle
        /\ \A g \in Feed!Seekers \ {h} : handlers'[g] = handlers[g]
        /\ \A g \in Feed!Seekers : Works(g)' <=> Works(g)
        /\ OneWorks'
    BY <2>1, HandlerEnds DEF Works
  <2>3. Feed!TypeOK'
    BY <1>t, <2>1, <2>2 DEF Feed!TypeOK
  <2>4. ProducerEnds' /\ OneLoop' /\ BeforeFed' /\ Unopened'
    BY <1>t, <2>1, <2>2
    DEF FeedFacts, ProducerEnds, OneLoop, BeforeFed, Unopened, NoneWorks, Feed!Idle
  <2>5. ~Works(h) /\ handlers'[h].pc = "off"
    BY <2>1, <2>2 DEF Works, Feed!Idle
  <2>6. Answered' /\ NoneDrains' /\ LoopFits' /\ Feed!FragmentsInPlace'
    BY <1>t, <2>1, <2>2, <2>5
    DEF FeedFacts, Answered, NoneDrains, LoopFits, Placed, Feed!FragmentsInPlace
  <2> QED BY <2>2, <2>3, <2>4, <2>6 DEF FeedInv, FeedFacts
<1>17. ASSUME NEW h \in Feed!Seekers, Feed!SeekAnswered(h) PROVE FeedInv'
  <2>1. PICK r \in Feed!SeekProducers(handlers[h].to, handlers[h].noDirect) :
          /\ active' = r.producer /\ sbDirect' = r.producer.direct /\ running' = TRUE
          /\ handlers' =
               [handlers EXCEPT
                  ![h].pc = IF r.producer.direct /\ verdict = "unknown" THEN "probe" ELSE "drain",
                  ![h].n = r.n, ![h].direct = r.producer.direct,
                  ![h].reinit = sbDirect # r.producer.direct,
                  ![h].offset = IF r.producer.direct THEN -Raw ELSE IF r.n = 0 THEN r.t ELSE 0]
          /\ blame' = IF r.reused THEN blame \union {"reused"} ELSE blame
    BY <1>17 DEF Feed!SeekAnswered
  <2>2. /\ handlers[h].pc = "ask" /\ ~handlers[h].aborted /\ Works(h)
        /\ UNCHANGED <<base, stage, ct, seeking, seekingEv, seekedEv, busy, loops, buf, shift, init,
                       verdict, left, made, faults, crossed>>
    BY <1>17 DEF Feed!SeekAnswered, Works
  <2>3. handlers[h] \in Feed!Handlers /\ handlers[h].to \in Feed!Frags /\ handlers[h].noDirect \in BOOLEAN
    BY <1>t DEF Feed!TypeOK, Feed!Handlers
  <2>4. /\ r.producer \in Feed!Producers /\ r.n \in 0 .. Last + 1 /\ r.t \in Int
        /\ r.producer.direct \in BOOLEAN
        /\ IF r.producer.base THEN r.producer = Feed!BaseProducer
                              ELSE r.producer.start + r.producer.made <= Last + 1
        /\ handlers[h].noDirect => ~r.producer.direct
        /\ ~r.reused => Placed(r.producer) = IF r.producer.direct THEN -Raw
                                             ELSE IF r.n = 0 THEN r.t ELSE 0
    BY <1>t, <2>1, <2>3, SeekAnswers DEF FeedFacts, Feed!Producers
  <2> DEFINE H == [handlers[h] EXCEPT
                     !.pc = IF r.producer.direct /\ verdict = "unknown" THEN "probe" ELSE "drain",
                     !.n = r.n, !.direct = r.producer.direct,
                     !.reinit = sbDirect # r.producer.direct,
                     !.offset = IF r.producer.direct THEN -Raw ELSE IF r.n = 0 THEN r.t ELSE 0]
  <2>5. /\ H \in Feed!Handlers /\ H.pc \in {"probe", "drain"} /\ ~H.aborted
        /\ H.pc = "probe" => r.producer.direct
        /\ H.reinit = (sbDirect # r.producer.direct)
        /\ H.offset = IF r.producer.direct THEN -Raw ELSE IF r.n = 0 THEN r.t ELSE 0
    <3>1. /\ H.pc = IF r.producer.direct /\ verdict = "unknown" THEN "probe" ELSE "drain"
          /\ H.to = handlers[h].to /\ H.aborted = handlers[h].aborted
          /\ H.noDirect = handlers[h].noDirect /\ H.n = r.n /\ H.direct = r.producer.direct
          /\ H.offset = IF r.producer.direct THEN -Raw ELSE IF r.n = 0 THEN r.t ELSE 0
      BY <2>3 DEF Feed!Handlers
    <3>2. H.reinit = (sbDirect # r.producer.direct) /\ H.reinit \in BOOLEAN
      BY <2>3 DEF Feed!Handlers
    <3>3. H.offset \in Int
      BY <1>s, <2>4, <3>1
    <3>4. H \in Feed!Handlers
      BY <2>3, <2>4, <3>1, <3>2, <3>3 DEF Feed!Handlers
    <3> QED BY <2>2, <3>1, <3>2, <3>4
  <2>6. handlers' = [handlers EXCEPT ![h] = H]
    BY <1>t, <2>1 DEF Feed!TypeOK
  <2>7. /\ handlers' \in [Feed!Seekers -> Feed!Handlers] /\ handlers'[h] = H
        /\ \A g \in Feed!Seekers \ {h} : handlers'[g] = handlers[g] /\ ~Works(g)
        /\ \A g \in Feed!Seekers : Works(g)' <=> Works(g)
        /\ OneWorks'
    BY <2>2, <2>5, <2>6, HandlerGoesOn
  <2> HIDE DEF H
  <2>8. /\ "late" \notin blame' => "late" \notin blame
        /\ blame' = {} => blame = {} /\ ~r.reused
        /\ blame' \subseteq blame \union {"reused"}
    BY <2>1
  <2>9. Feed!TypeOK'
    BY <1>t, <2>1, <2>2, <2>4, <2>7, <2>8 DEF Feed!TypeOK
  <2>10. ProducerEnds'
    BY <1>t, <2>1, <2>2, <2>4 DEF FeedFacts, ProducerEnds
  <2>11. ~NoneWorks /\ ~NoneWorks'
    BY <2>2, <2>7 DEF NoneWorks
  <2>12. OneLoop'
    BY <1>t, <2>2, <2>8, <2>11 DEF FeedFacts, OneLoop
  <2>13. BeforeFed' /\ Unopened'
    BY <1>t, <2>2, <2>5, <2>7, <2>11 DEF FeedFacts, BeforeFed, Unopened
  <2>14. Answered'
    <3>1. ASSUME blame' = {}
          PROVE  /\ ~H.reinit => init = r.producer.direct
                 /\ H.offset = Placed(r.producer)
      <4>1. /\ ~handlers[h].reinit => init = sbDirect
            /\ handlers[h].reinit => handlers[h].noDirect /\ sbDirect
        BY <1>t, <2>2, <2>8, <3>1 DEF FeedFacts, Answered
      <4>4. H.offset = Placed(r.producer)
        BY <2>4, <2>5, <2>8, <3>1
      <4>b. sbDirect \in BOOLEAN /\ init \in BOOLEAN /\ r.producer.direct \in BOOLEAN
        BY <1>t, <2>4 DEF Feed!TypeOK
      <4>2. CASE handlers[h].reinit
        <5>1. sbDirect = TRUE /\ r.producer.direct = FALSE
          BY <2>4, <4>1, <4>2, <4>b
        <5>2. sbDirect # r.producer.direct
          BY <5>1
        <5> QED BY <2>5, <5>2, <4>4
      <4>3. CASE ~handlers[h].reinit
        <5>1. init = sbDirect
          BY <4>1, <4>3
        <5>2. ~H.reinit => sbDirect = r.producer.direct
          BY <2>5
        <5> QED BY <5>1, <5>2, <4>4
      <4> QED BY <4>2, <4>3, <4>4
    <3>2. Placed(active)' = Placed(r.producer)
      BY <2>1 DEF Placed
    <3>3. \A g \in Feed!Seekers : Works(g)' => g = h
      BY <2>7
    <3> QED BY <2>1, <2>2, <2>5, <2>7, <3>1, <3>2, <3>3 DEF Answered
  <2>15. NoneDrains' /\ LoopFits'
    <3>1. blame' = {} => loops' = {}
      BY <1>t, <2>2, <2>8, <2>11 DEF FeedFacts, OneLoop
    <3>2. \A g \in Feed!Seekers : Works(g)' => handlers'[g].pc # "reinit"
      BY <2>5, <2>7
    <3> QED BY <3>1, <3>2 DEF NoneDrains, LoopFits
  <2>16. Feed!FragmentsInPlace'
    BY <1>t, <2>2, <2>8 DEF FeedFacts, Feed!FragmentsInPlace
  <2> QED BY <2>7, <2>9, <2>10, <2>12, <2>13, <2>14, <2>15, <2>16 DEF FeedInv, FeedFacts
<1>18. ASSUME NEW h \in Feed!Seekers, Feed!SeekUnanswered(h) PROVE FeedInv'
  <2> DEFINE H == [handlers[h] EXCEPT !.pc = "drain"]
  <2>1. /\ handlers[h].pc = "ask" /\ ~handlers[h].aborted /\ Works(h) /\ faults' \in Nat
        /\ blame' = blame \union {"lost"} /\ handlers' = [handlers EXCEPT ![h].pc = "drain"]
        /\ UNCHANGED <<base, active, sbDirect, running, stage, ct, seeking, seekingEv, seekedEv,
                       busy, loops, buf, shift, init, verdict, left, made, crossed>>
    BY <1>18, <1>t DEF Feed!SeekUnanswered, Feed!Fault, Feed!TypeOK, Works
  <2>2. /\ H \in Feed!Handlers /\ H.pc = "drain" /\ ~H.aborted
        /\ handlers' = [handlers EXCEPT ![h] = H]
    BY <1>t, <2>1 DEF Feed!TypeOK, Feed!Handlers
  <2>3. /\ handlers' \in [Feed!Seekers -> Feed!Handlers] /\ handlers'[h] = H
        /\ \A g \in Feed!Seekers \ {h} : handlers'[g] = handlers[g]
        /\ \A g \in Feed!Seekers : Works(g)' <=> Works(g)
        /\ OneWorks'
    BY <2>1, <2>2, HandlerGoesOn
  <2>4. Feed!TypeOK'
    BY <1>t, <2>1, <2>3 DEF Feed!TypeOK
  <2>5. ProducerEnds' /\ OneLoop'
    BY <1>t, <2>1, <2>3 DEF FeedFacts, ProducerEnds, OneLoop, NoneWorks
  <2>6. BeforeFed' /\ Unopened'
    BY <1>t, <2>1, <2>2, <2>3 DEF FeedFacts, BeforeFed, Unopened, NoneWorks
  <2>7. Answered' /\ NoneDrains' /\ LoopFits' /\ Feed!FragmentsInPlace'
    BY <2>1 DEF Answered, NoneDrains, LoopFits, Feed!FragmentsInPlace
  <2> QED BY <2>3, <2>4, <2>5, <2>6, <2>7 DEF FeedInv, FeedFacts
<1>19. ASSUME NEW h \in Feed!Seekers, Feed!Probed(h) PROVE FeedInv'
  <2>1. PICK H \in {[handlers[h] EXCEPT !.pc = "drain"],
                    [handlers[h] EXCEPT !.pc = "ask", !.noDirect = TRUE]} :
          handlers' = [handlers EXCEPT ![h] = H]
    BY <1>19, <1>t DEF Feed!Probed, Feed!TypeOK
  <2>2. /\ handlers[h].pc = "probe" /\ ~handlers[h].aborted /\ Works(h) /\ verdict' \in {"ok", "bad"}
        /\ UNCHANGED <<base, active, sbDirect, running, stage, ct, seeking, seekingEv, seekedEv,
                       busy, loops, buf, shift, init, left, made, faults, crossed, blame>>
    BY <1>19 DEF Feed!Probed, Works
  <2>3. /\ H \in Feed!Handlers /\ H.pc \in {"drain", "ask"} /\ ~H.aborted
        /\ H.reinit = handlers[h].reinit /\ H.offset = handlers[h].offset
        /\ H.pc = "ask" => H.noDirect
    BY <1>t, <2>1, <2>2 DEF Feed!TypeOK, Feed!Handlers
  <2>4. /\ handlers' \in [Feed!Seekers -> Feed!Handlers] /\ handlers'[h] = H
        /\ \A g \in Feed!Seekers \ {h} : handlers'[g] = handlers[g] /\ ~Works(g)
        /\ \A g \in Feed!Seekers : Works(g)' <=> Works(g)
        /\ OneWorks'
    BY <2>1, <2>2, <2>3, HandlerGoesOn
  <2>5. Feed!TypeOK'
    BY <1>t, <2>2, <2>4 DEF Feed!TypeOK
  <2>6. ProducerEnds' /\ OneLoop'
    BY <1>t, <2>2, <2>4 DEF FeedFacts, ProducerEnds, OneLoop, NoneWorks
  <2>7. BeforeFed' /\ Unopened'
    BY <1>t, <2>2, <2>3, <2>4 DEF FeedFacts, BeforeFed, Unopened, NoneWorks
  <2>8. Answered'
    <3>1. \A g \in Feed!Seekers : Works(g)' => g = h
      BY <2>4
    <3>2. ASSUME blame = {}
          PROVE  /\ ~handlers[h].reinit => init = sbDirect
                 /\ handlers[h].offset = Placed(active) /\ sbDirect = active.direct /\ sbDirect
      BY <1>t, <2>2, <3>2 DEF FeedFacts, Answered
    <3> QED BY <2>2, <2>3, <2>4, <3>1, <3>2 DEF Answered, Placed
  <2>9. NoneDrains' /\ LoopFits' /\ Feed!FragmentsInPlace'
    <3>1. blame = {} => loops = {}
      BY <1>t, <2>2 DEF FeedFacts, OneLoop, NoneWorks
    <3>2. \A g \in Feed!Seekers : Works(g)' => handlers'[g].pc # "reinit"
      BY <2>3, <2>4
    <3> QED
      BY <1>t, <2>2, <3>1, <3>2 DEF FeedFacts, NoneDrains, LoopFits, Feed!FragmentsInPlace
  <2> QED BY <2>4, <2>5, <2>6, <2>7, <2>8, <2>9 DEF FeedInv, FeedFacts
<1>20. ASSUME NEW h \in Feed!Seekers, Feed!Drain(h) PROVE FeedInv'
  <2> DEFINE H == [handlers[h] EXCEPT !.pc = "reinit"]
  <2>1. /\ handlers[h].pc = "drain" /\ stage = "fed" /\ Feed!InTurn(h)
        /\ buf' = {} /\ shift' = handlers[h].offset
        /\ UNCHANGED <<base, active, sbDirect, running, stage, ct, seeking, seekingEv, seekedEv,
                       busy, init, verdict, left, made, faults, crossed, blame>>
        /\ loops' = IF handlers[h].reinit \/ handlers[h].aborted THEN loops
                    ELSE loops \union {Feed!Loop(handlers[h].n)}
    BY <1>20 DEF Feed!Drain, Feed!Feeds, Feed!OffsetOf
  <2>2. \A g \in Feed!Seekers :
          handlers'[g] = IF g \in Feed!Thrown(h) THEN Feed!Idle
                         ELSE IF g # h THEN handlers[g]
                         ELSE IF handlers[h].reinit THEN H ELSE Feed!Idle
    BY <1>20 DEF Feed!Drain
  <2>3. /\ handlers \in [Feed!Seekers -> Feed!Handlers] /\ handlers[h] \in Feed!Handlers
        /\ Feed!Idle \in Feed!Handlers /\ handlers[h].n \in 0 .. Last + 1 /\ handlers[h].offset \in Int
    BY <1>t, <1>s DEF Feed!TypeOK, Feed!Handlers, Feed!Idle
  <2>4. /\ H \in Feed!Handlers /\ H.pc = "reinit" /\ H.aborted = handlers[h].aborted
        /\ H.reinit = handlers[h].reinit /\ H.offset = handlers[h].offset
        /\ Feed!Idle.pc = "off"
    BY <2>3 DEF Feed!Handlers, Feed!Idle
  <2> HIDE DEF H
  <2>5. \A g \in Feed!Seekers : handlers'[g] \in Feed!Handlers
    BY <2>2, <2>3, <2>4
  <2>6. handlers' \in [Feed!Seekers -> Feed!Handlers]
    <3>1. handlers' = [g \in Feed!Seekers |-> handlers'[g]]
      BY <1>20 DEF Feed!Drain
    <3> QED BY <2>5, <3>1
  <2>7. \A g \in Feed!Seekers :
          /\ \/ handlers'[g] = Feed!Idle
             \/ g # h /\ handlers'[g] = handlers[g]
             \/ g = h /\ handlers'[g] = H /\ handlers[h].reinit
          /\ Works(g)' => Works(g)
    BY <2>1, <2>2, <2>4 DEF Works
  <2>8. ~handlers[h].aborted => /\ Works(h)
                                /\ \A g \in Feed!Seekers \ {h} : ~Works(g) /\ handlers[g].pc # "drain"
    <3>1. ASSUME ~handlers[h].aborted, NEW g \in Feed!Seekers \ {h}
          PROVE  Works(h) /\ ~Works(g) /\ handlers[g].pc # "drain"
      <4>1. Works(h) /\ ~Works(g)
        BY <1>t, <2>1, <3>1 DEF Works, FeedFacts, OneWorks
      <4>2. handlers[g].pc = "drain" => ~handlers[g].aborted
        BY <2>1, <3>1 DEF Feed!InTurn, Feed!Waiting
      <4> QED BY <4>1, <4>2 DEF Works
    <3> QED BY <2>1, <3>1 DEF Works
  <2>9. /\ Feed!Loop(handlers[h].n) \in [n : 0 .. Last + 1, got : BOOLEAN, frag : Feed!Fetched]
        /\ ~Feed!Loop(handlers[h].n).got
    BY <1>s, <2>3 DEF Feed!Loop, Feed!NoFrag, Feed!Fetched
  <2>10. Feed!TypeOK'
    <3>1. loops' \subseteq [n : 0 .. Last + 1, got : BOOLEAN, frag : Feed!Fetched]
      BY <1>t, <2>1, <2>9 DEF Feed!TypeOK
    <3> QED BY <1>t, <2>1, <2>3, <2>6, <3>1 DEF Feed!TypeOK
  <2>11. ProducerEnds'
    BY <1>t, <2>1, <2>9 DEF FeedFacts, ProducerEnds
  <2>12. OneWorks'
    <3>1. \A g \in Feed!Seekers : handlers'[g].pc = "off" => handlers'[g] = Feed!Idle
      BY <1>t, <2>4, <2>7 DEF FeedFacts, OneWorks
    <3> QED BY <1>t, <2>7, <3>1 DEF FeedFacts, OneWorks
  <2>13. CASE handlers[h].aborted
    <3>1. loops' = loops
      BY <2>1, <2>13
    <3>2. ~Works(h) /\ NoneWorks => NoneWorks'
      BY <2>7 DEF NoneWorks
    <3>3. ASSUME blame = {}
          PROVE  loops = {} /\ \A g \in Feed!Seekers : Works(g) => handlers[g].pc # "reinit"
      BY <1>t, <2>1, <3>3 DEF FeedFacts, NoneDrains
    <3>4. ~Works(h)
      BY <2>13 DEF Works
    <3>5. \A g \in Feed!Seekers : Works(g)' => Works(g) /\ handlers'[g] = handlers[g]
      BY <2>4, <2>7, <3>4 DEF Works
    <3>6. OneLoop'
      BY <1>t, <2>1, <3>1, <3>2, <3>4 DEF FeedFacts, OneLoop
    <3>7. BeforeFed' /\ Unopened'
      BY <2>1 DEF BeforeFed, Unopened
    <3>8. Answered'
      BY <1>t, <2>1, <3>3, <3>5 DEF FeedFacts, Answered, Placed
    <3>9. NoneDrains' /\ LoopFits' /\ Feed!FragmentsInPlace'
      BY <2>1, <3>1, <3>3, <3>5 DEF NoneDrains, LoopFits, Feed!FragmentsInPlace
    <3> QED BY <2>10, <2>11, <2>12, <3>6, <3>7, <3>8, <3>9 DEF FeedInv, FeedFacts
  <2>14. CASE ~handlers[h].aborted
    <3>1. ~NoneWorks
      BY <2>8, <2>14 DEF NoneWorks
    <3>2. "late" \notin blame => loops = {} /\ ~left
      BY <1>t, <3>1 DEF FeedFacts, OneLoop
    <3>3. handlers'[h] = IF handlers[h].reinit THEN H ELSE Feed!Idle
      BY <2>2 DEF Feed!Thrown, Feed!Waiting
    <3>4. \A g \in Feed!Seekers : Works(g)' => g = h /\ handlers[h].reinit
      BY <2>4, <2>7, <2>8, <2>14, <3>3 DEF Works
    <3>5. OneLoop'
      <4>1. ~handlers[h].reinit => NoneWorks'
        BY <3>4 DEF NoneWorks
      <4> QED BY <2>1, <2>14, <3>2, <4>1 DEF OneLoop
    <3>6. BeforeFed' /\ Unopened'
      BY <2>1 DEF BeforeFed, Unopened
    <3>7. ASSUME blame = {}
          PROVE  /\ ~handlers[h].reinit => init = sbDirect
                 /\ handlers[h].offset = Placed(active) /\ sbDirect = active.direct
      BY <1>t, <2>1, <2>8, <2>14, <3>7 DEF FeedFacts, Answered
    <3>8. Answered'
      BY <2>1, <2>4, <3>3, <3>4, <3>7 DEF Answered, Placed
    <3>9. NoneDrains'
      <4>1. \A g \in Feed!Seekers : handlers'[g].pc # "drain"
        BY <2>4, <2>7, <2>8, <2>14
      <4> QED BY <4>1 DEF NoneDrains
    <3>10. LoopFits' /\ Feed!FragmentsInPlace'
      <4>1. ASSUME blame = {}
            PROVE  \/ loops' = {}
                   \/ loops' = {Feed!Loop(handlers[h].n)} /\ ~handlers[h].reinit
        BY <2>1, <2>14, <3>2, <4>1
      <4>2. ASSUME blame = {}
            PROVE  ~handlers[h].reinit => init = active.direct
        BY <3>7, <4>2
      <4> QED BY <2>1, <2>9, <3>7, <4>1, <4>2 DEF LoopFits, Placed, Feed!FragmentsInPlace
    <3> QED BY <2>10, <2>11, <2>12, <3>5, <3>6, <3>8, <3>9, <3>10 DEF FeedInv, FeedFacts
  <2> QED BY <2>13, <2>14
<1>21. ASSUME NEW h \in Feed!Seekers, Feed!Reinit(h) PROVE FeedInv'
  <2>1. /\ handlers[h].pc = "reinit" /\ ~handlers[h].aborted /\ Works(h) /\ init' = active.direct
        /\ loops' = loops \union {Feed!Loop(handlers[h].n)}
        /\ handlers' = [handlers EXCEPT ![h] = Feed!Idle]
        /\ UNCHANGED <<base, active, sbDirect, running, stage, ct, seeking, seekingEv, seekedEv,
                       busy, buf, shift, verdict, left, made, faults, crossed, blame>>
    BY <1>21 DEF Feed!Reinit, Feed!Feeds, Feed!Ends, Works
  <2>2. /\ handlers' \in [Feed!Seekers -> Feed!Handlers] /\ handlers'[h] = Feed!Idle
        /\ \A g \in Feed!Seekers \ {h} : handlers'[g] = handlers[g]
        /\ \A g \in Feed!Seekers : Works(g)' <=> Works(g) /\ g # h
        /\ OneWorks'
    BY <2>1, HandlerEnds
  <2>3. \A g \in Feed!Seekers : ~Works(g)'
    BY <1>t, <2>1, <2>2 DEF FeedFacts, OneWorks
  <2>4. /\ Feed!Loop(handlers[h].n) \in [n : 0 .. Last + 1, got : BOOLEAN, frag : Feed!Fetched]
        /\ ~Feed!Loop(handlers[h].n).got
    BY <1>t, <1>s DEF Feed!TypeOK, Feed!Handlers, Feed!Loop, Feed!NoFrag, Feed!Fetched
  <2>5. Feed!TypeOK'
    <3>1. loops' \subseteq [n : 0 .. Last + 1, got : BOOLEAN, frag : Feed!Fetched]
      BY <1>t, <2>1, <2>4 DEF Feed!TypeOK
    <3>2. init' \in BOOLEAN
      BY <1>t, <2>1 DEF Feed!TypeOK, Feed!Producers
    <3> QED BY <1>t, <2>1, <2>2, <3>1, <3>2 DEF Feed!TypeOK
  <2>6. ProducerEnds'
    BY <1>t, <2>1, <2>4 DEF FeedFacts, ProducerEnds
  <2>7. "late" \notin blame => loops = {} /\ ~left
    BY <1>t, <2>1 DEF FeedFacts, OneLoop, NoneWorks
  <2>8. OneLoop'
    BY <2>1, <2>3, <2>7 DEF OneLoop, NoneWorks
  <2>9. BeforeFed' /\ Unopened'
    BY <1>t, <2>1 DEF FeedFacts, BeforeFed, Unopened
  <2>10. Answered'
    BY <2>3 DEF Answered
  <2>11. NoneDrains'
    <3>1. blame = {} => \A g \in Feed!Seekers : handlers[g].pc # "drain"
      BY <1>t, <2>1 DEF FeedFacts, NoneDrains
    <3> QED BY <2>1, <2>2, <3>1 DEF NoneDrains, Feed!Idle
  <2>12. LoopFits'
    <3>1. blame = {} => loops = {} /\ shift = Placed(active)
      BY <1>t, <2>1, <2>7 DEF FeedFacts, Answered
    <3> QED BY <2>1, <2>4, <3>1 DEF LoopFits, Placed
  <2>13. Feed!FragmentsInPlace'
    BY <1>t, <2>1 DEF FeedFacts, Feed!FragmentsInPlace
  <2> QED BY <2>2, <2>5, <2>6, <2>8, <2>9, <2>10, <2>11, <2>12, <2>13 DEF FeedInv, FeedFacts
<1>22. ASSUME NEW h \in Feed!Seekers, Feed!ReinitFails(h) PROVE FeedInv'
  <2>1. /\ busy' = FALSE /\ faults' \in Nat /\ blame' = blame \union {"lost"}
        /\ handlers' = [handlers EXCEPT ![h] = Feed!Idle] /\ handlers[h].pc = "reinit"
        /\ UNCHANGED <<base, active, sbDirect, running, stage, ct, seeking, seekingEv, seekedEv,
                       loops, buf, shift, init, verdict, left, made, crossed>>
    BY <1>22, <1>t DEF Feed!ReinitFails, Feed!Fault, Feed!Ends, Feed!TypeOK
  <2>2. /\ handlers' \in [Feed!Seekers -> Feed!Handlers]
        /\ \A g \in Feed!Seekers : Works(g)' => Works(g)
        /\ OneWorks'
    BY <2>1, HandlerEnds
  <2>3. Feed!TypeOK'
    BY <1>t, <2>1, <2>2, ZenonT(60) DEF Feed!TypeOK
  <2>4. ProducerEnds' /\ OneLoop'
    BY <1>t, <2>1, <2>2 DEF FeedFacts, ProducerEnds, OneLoop, NoneWorks
  <2>5. BeforeFed' /\ Unopened'
    BY <1>t, <2>1 DEF FeedFacts, BeforeFed, Unopened
  <2>6. Answered' /\ NoneDrains' /\ LoopFits' /\ Feed!FragmentsInPlace'
    BY <2>1 DEF Answered, NoneDrains, LoopFits, Feed!FragmentsInPlace
  <2> QED BY <2>2, <2>3, <2>4, <2>5, <2>6 DEF FeedInv, FeedFacts
<1> QED
  <2>1. Feed!Engine => Feed!BaseEncodes \/ Feed!SeekEncodes
    BY DEF Feed!Engine
  <2>2. Feed!Feed => \E l \in loops : Feed!Fetch(l) \/ Feed!FetchEnds(l) \/ Feed!Append(l)
    BY DEF Feed!Feed
  <2>3. Feed!Start => Feed!Manifest \/ Feed!InitSegment \/ Feed!StartLoop
    BY DEF Feed!Start
  <2>4. Feed!Handle => \E h \in Feed!Seekers : \/ Feed!SeekAborted(h) \/ Feed!SeekAnswered(h)
                                               \/ Feed!Probed(h) \/ Feed!Drain(h) \/ Feed!Reinit(h)
    BY DEF Feed!Handle
  <2>5. Feed!Events => Feed!SeekingEvent \/ Feed!Arrive \/ Feed!SeekedEvent
    BY DEF Feed!Events
  <2>6. Feed!Fails => \/ Feed!OpeningFails
                      \/ \E h \in Feed!Seekers : Feed!SeekUnanswered(h) \/ Feed!ReinitFails(h)
    BY DEF Feed!Fails
  <2>7. \/ Feed!Engine \/ Feed!Feed \/ Feed!Start \/ Feed!Handle \/ Feed!Events \/ Feed!Fails
        \/ Feed!Play \/ Feed!Leave \/ \E t \in Feed!Frags : Feed!Seek(t)
    BY DEF Feed!Next
  <2> QED
    BY <1>1, <1>2, <1>3, <1>4, <1>5, <1>6, <1>7, <1>8, <1>9, <1>10, <1>11, <1>12, <1>13, <1>14,
      <1>15, <1>16, <1>17, <1>18, <1>19, <1>20, <1>21, <1>22,
      <2>1, <2>2, <2>3, <2>4, <2>5, <2>6, <2>7

LEMMA FeedStutters == FeedInv /\ UNCHANGED feedVars => FeedInv'
<1> SUFFICES ASSUME FeedInv, UNCHANGED feedVars PROVE FeedInv'
  OBVIOUS
<1>1. Feed!TypeOK'
  BY DEF FeedInv, Feed!TypeOK, feedVars
<1>2. FeedFacts'
  BY FeedKept DEF feedVars
<1> QED BY <1>1, <1>2 DEF FeedInv

LEMMA FeedConsequences == FeedInv => Feed!TypeOK /\ Feed!FragmentsInPlace /\ Feed!OneFeeder /\ Feed!ProducersStayStopped
<1> SUFFICES ASSUME FeedInv
             PROVE  Feed!TypeOK /\ Feed!FragmentsInPlace /\ Feed!OneFeeder /\ Feed!ProducersStayStopped
  OBVIOUS
<1>1. Feed!TypeOK /\ Feed!FragmentsInPlace /\ Feed!ProducersStayStopped
  BY DEF FeedInv, FeedFacts, OneLoop, Feed!ProducersStayStopped
<1>2. ASSUME "late" \notin blame PROVE Feed!Cardinality(loops) <= (IF left THEN 0 ELSE 1)
  <2>1. /\ \A l, m \in loops : l = m
        /\ loops # {} => ~left
    BY <1>2 DEF FeedInv, FeedFacts, OneLoop
  <2>2. Feed!Cardinality(loops) = Cardinality(loops)
    BY DEF Feed!Cardinality, Cardinality
  <2>3. CASE loops = {}
    BY <2>2, <2>3, FS_EmptySet
  <2>4. CASE loops # {}
    <3>1. PICK l : loops = {l}
      BY <2>1, <2>4
    <3>2. Cardinality(loops) = 1
      BY <3>1, FS_Singleton
    <3> QED BY <2>1, <2>2, <2>4, <3>2
  <2> QED BY <2>3, <2>4
<1> QED BY <1>1, <1>2 DEF Feed!OneFeeder

-----------------------------------------------------------------------------
(* The inductive invariant of the two elements. *)

\* An event of these is in s.
Comes(s, names) == \E i \in DOMAIN s : s[i] \in names

\* After each event of these comes one of those.
Followed(s, these, those) ==
  \A i \in DOMAIN s : s[i] \in these => \E j \in DOMAIN s : i < j /\ s[j] \in those

VPlay    == {<<"v", "play">>, <<"v", "played">>}
VPause   == {<<"v", "pause">>}
VWaiting == {<<"v", "waiting">>}
VPlaying == {<<"v", "playing">>, <<"v", "played">>}
Remedies == {<<"v", "play">>, <<"a", "pause">>}
Later    == {<<"v", "pause">>, <<"v", "played">>, <<"v", "seeked">>, <<"a", "pause">>}

\* Before the start the sound is paused, the picture runs from its first 'canplay' on, and
\* nothing is paused or sought.
NotBegun ==
  ~begun => /\ aPaused /\ ~(videoCan /\ aData) /\ (videoCan => ~vPaused)
            /\ (~videoCan => events = <<>>)
            /\ ~onSeek /\ ~resume /\ ~Comes(events, Later)

\* Under a paused picture the sound is paused, or will be: its pause comes last.
PauseComes ==
  vPaused => (aPaused \/ Comes(events, VPause)) /\ Followed(events, VPlay, VPause)

\* Beside a picture that runs the sound plays, or something to come plays it or pauses both.
PlayComes == begun /\ ~vPaused /\ aPaused => resume \/ onSeek \/ Comes(events, Remedies)

\* The end of a stall comes after its beginning.
StallEnds ==
  vData /\ ~vPaused =>
    (videoStalled => Comes(events, VPlaying)) /\ Followed(events, VWaiting, VPlaying)

\* What a stall took is remembered by the flags that its end looks at.
StallIsNoted ==
  /\ begun /\ ~bar => videoStalled
  /\ aMuted => muteKey \/ mutedForStall \/ videoStalled
  /\ mutedForStall => vsegStalled
  /\ vsegStalled => videoStalled

SyncInv ==
  /\ Sync!TypeOK /\ NotBegun /\ PauseComes /\ PlayComes /\ StallEnds /\ StallIsNoted

\* What an event of its own kind adds to a queue.
LEMMA EventAdded ==
  ASSUME NEW s \in Seq(Sync!EventNames), NEW e \in Sync!EventNames
  PROVE  /\ Append(s, e) \in Seq(Sync!EventNames)
         /\ \A N : Comes(Append(s, e), N) <=> Comes(s, N) \/ e \in N
         /\ \A A, B : e \notin A /\ (Followed(s, A, B) \/ e \in B) => Followed(Append(s, e), A, B)
<1> DEFINE t == Append(s, e)
<1>1. /\ t \in Seq(Sync!EventNames) /\ Len(t) = Len(s) + 1 /\ Len(s) \in Nat
      /\ DOMAIN s = 1 .. Len(s) /\ DOMAIN t = 1 .. Len(s) + 1
      /\ \A i \in 1 .. Len(s) : t[i] = s[i]
      /\ t[Len(s) + 1] = e
  OBVIOUS
<1> HIDE DEF t
<1>2. \A N : Comes(t, N) <=> Comes(s, N) \/ e \in N
  <2> TAKE N
  <2>1. CASE Comes(s, N) \/ e \in N
    BY <1>1, <2>1 DEF Comes
  <2>2. ASSUME Comes(t, N) PROVE Comes(s, N) \/ e \in N
    <3>1. PICK i \in DOMAIN t : t[i] \in N
      BY <2>2 DEF Comes
    <3>2. i \in 1 .. Len(s) \/ i = Len(s) + 1
      BY <1>1
    <3> QED BY <1>1, <3>1, <3>2 DEF Comes
  <2> QED BY <2>1, <2>2
<1>3. ASSUME NEW A, NEW B, e \notin A, Followed(s, A, B) \/ e \in B PROVE Followed(t, A, B)
  <2> SUFFICES ASSUME NEW i \in DOMAIN t, t[i] \in A
               PROVE  \E j \in DOMAIN t : i < j /\ t[j] \in B
    BY DEF Followed
  <2>1. i \in 1 .. Len(s) /\ s[i] \in A
    BY <1>1, <1>3
  <2>2. CASE e \in B
    BY <1>1, <2>1, <2>2
  <2>3. CASE Followed(s, A, B)
    BY <1>1, <2>1, <2>3 DEF Followed
  <2> QED BY <1>3, <2>2, <2>3
<1> QED BY <1>1, <1>2, <1>3 DEF t

\* What is left of a queue whose head is handled.
LEMMA EventHandled ==
  ASSUME NEW s \in Seq(Sync!EventNames), s # <<>>
  PROVE  /\ Tail(s) \in Seq(Sync!EventNames) /\ Head(s) \in Sync!EventNames
         /\ \A N : Comes(s, N) <=> Head(s) \in N \/ Comes(Tail(s), N)
         /\ \A A, B : Followed(s, A, B) => /\ Followed(Tail(s), A, B)
                                           /\ Head(s) \in A => Comes(Tail(s), B)
<1> DEFINE t == Tail(s)
<1>1. /\ t \in Seq(Sync!EventNames) /\ Len(s) \in Nat \ {0} /\ Len(t) = Len(s) - 1
      /\ DOMAIN s = 1 .. Len(s) /\ DOMAIN t = 1 .. Len(s) - 1
      /\ \A i \in 1 .. Len(s) - 1 : t[i] = s[i + 1]
      /\ Head(s) = s[1] /\ Head(s) \in Sync!EventNames
  OBVIOUS
<1> HIDE DEF t
<1>2. \A i \in DOMAIN s : i = 1 \/ (i - 1 \in DOMAIN t /\ t[i - 1] = s[i])
  BY <1>1
<1>3. \A i \in DOMAIN t : i + 1 \in DOMAIN s /\ s[i + 1] = t[i]
  BY <1>1
<1>4. \A N : Comes(s, N) <=> Head(s) \in N \/ Comes(t, N)
  <2> TAKE N
  <2>1. CASE Head(s) \in N
    BY <1>1, <2>1 DEF Comes
  <2>2. CASE Comes(t, N)
    BY <1>3, <2>2 DEF Comes
  <2>3. ASSUME Comes(s, N) PROVE Head(s) \in N \/ Comes(t, N)
    BY <1>1, <1>2, <2>3 DEF Comes
  <2> QED BY <2>1, <2>2, <2>3
<1>5. ASSUME NEW A, NEW B, Followed(s, A, B)
      PROVE  Followed(t, A, B) /\ (Head(s) \in A => Comes(t, B))
  <2>1. ASSUME NEW i \in DOMAIN t, t[i] \in A PROVE \E j \in DOMAIN t : i < j /\ t[j] \in B
    <3>1. PICK j \in DOMAIN s : i + 1 < j /\ s[j] \in B
      BY <1>3, <1>5, <2>1 DEF Followed
    <3>2. j - 1 \in DOMAIN t /\ t[j - 1] \in B /\ i < j - 1
      BY <1>1, <1>2, <2>1, <3>1
    <3> QED BY <3>2
  <2>2. ASSUME Head(s) \in A PROVE Comes(t, B)
    <3>1. PICK j \in DOMAIN s : 1 < j /\ s[j] \in B
      BY <1>1, <1>5, <2>2 DEF Followed
    <3>2. j - 1 \in DOMAIN t /\ t[j - 1] \in B
      BY <1>1, <1>2, <3>1
    <3> QED BY <3>2 DEF Comes
  <2> QED BY <2>1, <2>2 DEF Followed
<1> QED BY <1>1, <1>4, <1>5 DEF t

\* Events are added one by one.
LEMMA EventsAdded ==
  ASSUME NEW s \in Seq(Sync!EventNames), NEW e \in Sync!EventNames, NEW f \in Sync!EventNames
  PROVE  s \o <<>> = s /\ s \o <<e>> = Append(s, e) /\ s \o <<e, f>> = Append(Append(s, e), f)
OBVIOUS

LEMMA SyncInit == Sync!Init => SyncInv
<1> SUFFICES ASSUME Sync!Init PROVE SyncInv
  OBVIOUS
<1>1. events = <<>> /\ DOMAIN events = {} /\ events \in Seq(Sync!EventNames)
  BY DEF Sync!Init
<1> QED
  BY <1>1 DEF SyncInv, Sync!Init, Sync!TypeOK, NotBegun, PauseComes, PlayComes, StallEnds,
              StallIsNoted, Comes, Followed

\* What e adds to what s has of each kind.
Adds(s, e, t) ==
  /\ t \in Seq(Sync!EventNames)
  /\ Comes(t, VPause) <=> Comes(s, VPause) \/ e = <<"v", "pause">>
  /\ Comes(t, Later) <=> Comes(s, Later) \/ e \in Later
  /\ Comes(t, Remedies) <=> Comes(s, Remedies) \/ e \in {<<"v", "play">>, <<"a", "pause">>}
  /\ Comes(t, VPlaying) <=> Comes(s, VPlaying) \/ e \in {<<"v", "playing">>, <<"v", "played">>}
  /\ e = <<"v", "pause">>
     \/ (Followed(s, VPlay, VPause) /\ e \notin {<<"v", "play">>, <<"v", "played">>})
       => Followed(t, VPlay, VPause)
  /\ e \in {<<"v", "playing">>, <<"v", "played">>}
     \/ (Followed(s, VWaiting, VPlaying) /\ e # <<"v", "waiting">>)
       => Followed(t, VWaiting, VPlaying)

LEMMA EachAdds ==
  ASSUME NEW s \in Seq(Sync!EventNames), NEW e \in Sync!EventNames
  PROVE  Adds(s, e, Append(s, e))
<1>1. /\ Append(s, e) \in Seq(Sync!EventNames)
      /\ \A N : Comes(Append(s, e), N) <=> Comes(s, N) \/ e \in N
      /\ \A A, B : e \notin A /\ (Followed(s, A, B) \/ e \in B) => Followed(Append(s, e), A, B)
  BY EventAdded
<1>2. /\ Comes(Append(s, e), VPause) <=> Comes(s, VPause) \/ e \in VPause
      /\ Comes(Append(s, e), Later) <=> Comes(s, Later) \/ e \in Later
      /\ Comes(Append(s, e), Remedies) <=> Comes(s, Remedies) \/ e \in Remedies
      /\ Comes(Append(s, e), VPlaying) <=> Comes(s, VPlaying) \/ e \in VPlaying
  BY <1>1
<1>3. /\ e \notin VPlay /\ (Followed(s, VPlay, VPause) \/ e \in VPause)
        => Followed(Append(s, e), VPlay, VPause)
      /\ e \notin VWaiting /\ (Followed(s, VWaiting, VPlaying) \/ e \in VPlaying)
        => Followed(Append(s, e), VWaiting, VPlaying)
  BY <1>1
<1>4. e \in VPause <=> e = <<"v", "pause">>
  BY DEF VPause
<1>6. e \in VPlay <=> e \in {<<"v", "play">>, <<"v", "played">>}
  BY DEF VPlay
<1>7. e \in VPlaying <=> e \in {<<"v", "playing">>, <<"v", "played">>}
  BY DEF VPlaying
<1>8. e \in VWaiting <=> e = <<"v", "waiting">>
  BY DEF VWaiting
<1>9. e \in VPause => e \notin VPlay
  BY DEF VPause, VPlay
<1>10. e \in VPlaying => e \notin VWaiting
  BY DEF VPlaying, VWaiting
<1>11. e \in Remedies <=> e \in {<<"v", "play">>, <<"a", "pause">>}
  BY DEF Remedies
<1> QED BY <1>1, <1>2, <1>3, <1>4, <1>6, <1>7, <1>8, <1>9, <1>10, <1>11 DEF Adds

\* What is left of s when its head e is taken.
Drops(s, e, t) ==
  /\ t \in Seq(Sync!EventNames)
  /\ Comes(s, VPause) <=> Comes(t, VPause) \/ e = <<"v", "pause">>
  /\ Comes(s, Later) <=> Comes(t, Later) \/ e \in Later
  /\ Comes(s, Remedies) <=> Comes(t, Remedies) \/ e \in {<<"v", "play">>, <<"a", "pause">>}
  /\ Comes(s, VPlaying) <=> Comes(t, VPlaying) \/ e \in {<<"v", "playing">>, <<"v", "played">>}
  /\ Followed(s, VPlay, VPause) =>
       /\ Followed(t, VPlay, VPause)
       /\ e \in {<<"v", "play">>, <<"v", "played">>} => Comes(t, VPause)
  /\ Followed(s, VWaiting, VPlaying) =>
       /\ Followed(t, VWaiting, VPlaying)
       /\ e = <<"v", "waiting">> => Comes(t, VPlaying)

LEMMA EachDrops ==
  ASSUME NEW s \in Seq(Sync!EventNames), s # <<>>
  PROVE  Drops(s, Head(s), Tail(s))
<1> DEFINE e == Head(s)
           t == Tail(s)
<1>1. /\ t \in Seq(Sync!EventNames)
      /\ \A N : Comes(s, N) <=> e \in N \/ Comes(t, N)
      /\ \A A, B : Followed(s, A, B) => Followed(t, A, B) /\ (e \in A => Comes(t, B))
  BY EventHandled
<1> HIDE DEF e, t
<1>2. /\ Comes(s, VPause) <=> Comes(t, VPause) \/ e = <<"v", "pause">>
  BY <1>1 DEF VPause
<1>3. Comes(s, Later) <=> Comes(t, Later) \/ e \in Later
  BY <1>1
<1>4. Comes(s, Remedies) <=> Comes(t, Remedies) \/ e \in {<<"v", "play">>, <<"a", "pause">>}
  BY <1>1 DEF Remedies
<1>5. Comes(s, VPlaying) <=> Comes(t, VPlaying) \/ e \in {<<"v", "playing">>, <<"v", "played">>}
  BY <1>1 DEF VPlaying
<1>6. ASSUME Followed(s, VPlay, VPause)
      PROVE  /\ Followed(t, VPlay, VPause)
             /\ e \in {<<"v", "play">>, <<"v", "played">>} => Comes(t, VPause)
  BY <1>1, <1>6 DEF VPlay
<1>7. ASSUME Followed(s, VWaiting, VPlaying)
      PROVE  Followed(t, VWaiting, VPlaying) /\ (e = <<"v", "waiting">> => Comes(t, VPlaying))
  BY <1>1, <1>7 DEF VWaiting
<1>8. Drops(s, e, t)
  BY <1>1, <1>2, <1>3, <1>4, <1>5, <1>6, <1>7 DEF Drops
<1> QED BY <1>8 DEF e, t

\* Two events are added one by one.
LEMMA TwoAdd ==
  ASSUME NEW s \in Seq(Sync!EventNames), NEW e \in Sync!EventNames, NEW f \in Sync!EventNames
  PROVE  \E m \in Seq(Sync!EventNames) : Adds(s, e, m) /\ Adds(m, f, s \o <<e, f>>)
<1>1. Append(s, e) \in Seq(Sync!EventNames)
  BY EventAdded
<1>2. s \o <<e, f>> = Append(Append(s, e), f)
  BY EventsAdded
<1> QED BY <1>1, <1>2, EachAdds

\* What looks alike to the invariant.
Alike(s, t) ==
  /\ t \in Seq(Sync!EventNames)
  /\ Comes(t, VPause) <=> Comes(s, VPause)
  /\ Comes(t, Later) <=> Comes(s, Later)
  /\ Comes(t, Remedies) <=> Comes(s, Remedies)
  /\ Comes(t, VPlaying) <=> Comes(s, VPlaying)
  /\ Followed(s, VPlay, VPause) => Followed(t, VPlay, VPause)
  /\ Followed(s, VWaiting, VPlaying) => Followed(t, VWaiting, VPlaying)

LEMMA AudioPlaysAlike ==
  ASSUME NEW s \in Seq(Sync!EventNames)
  PROVE  /\ Alike(s, s)
         /\ Alike(s, s \o <<<<"a", "play">>, <<"a", "playing">>>>)
         /\ Alike(s, s \o <<<<"a", "play">>, <<"a", "played">>>>)
<1>1. ASSUME NEW f \in {<<"a", "playing">>, <<"a", "played">>}
      PROVE  Alike(s, s \o <<<<"a", "play">>, f>>)
  <2>1. <<"a", "play">> \in Sync!EventNames /\ f \in Sync!EventNames
    BY DEF Sync!EventNames
  <2>2. PICK m \in Seq(Sync!EventNames) :
          Adds(s, <<"a", "play">>, m) /\ Adds(m, f, s \o <<<<"a", "play">>, f>>)
    BY <2>1, TwoAdd
  <2>3. Alike(s, m)
    BY <2>2 DEF Adds, Alike, Later
  <2>4. Alike(m, s \o <<<<"a", "play">>, f>>)
    BY <2>2 DEF Adds, Alike, Later
  <2> QED BY <2>3, <2>4 DEF Alike
<1>2. Alike(s, s)
  BY DEF Alike
<1> QED BY <1>1, <1>2

LEMMA SyncPreserves == SyncInv /\ Sync!Next => SyncInv'
<1> SUFFICES ASSUME SyncInv, Sync!Next PROVE SyncInv'
  OBVIOUS
<1>a. events \in Seq(Sync!EventNames)
  BY DEF SyncInv, Sync!TypeOK
<1>p. <<"a", "pause">> \in Sync!EventNames
  BY DEF Sync!EventNames
<1>1. CASE Sync!VideoCanPlay
  <2> DEFINE s == events \o <<<<"v", "play">>, <<"v", "playing">>>>
  <2>1. PICK m \in Seq(Sync!EventNames) :
          Adds(events, <<"v", "play">>, m) /\ Adds(m, <<"v", "playing">>, s)
    BY <1>a, TwoAdd DEF Sync!EventNames
  <2>2. s \in Seq(Sync!EventNames)
    BY <2>1 DEF Adds
  <2> HIDE DEF s
  <2>3. Alike(s, events')
    BY <1>1, <2>2, AudioPlaysAlike DEF Sync!VideoCanPlay, Sync!TryStart, Sync!AudioPlays, s
  <2>4. /\ ~videoCan /\ videoCan' = TRUE /\ vData' = TRUE /\ vPaused' = FALSE
        /\ \/ (begun \/ ~aData) /\ UNCHANGED <<begun, bar, aPaused>>
           \/ ~begun /\ aData /\ begun' = TRUE /\ bar' = TRUE /\ aPaused' = FALSE
        /\ begun' \in BOOLEAN /\ bar' \in BOOLEAN /\ aPaused' \in BOOLEAN
        /\ UNCHANGED <<aMuted, aData, onCan, vsegStalled, mutedForStall, videoStalled, onSeek,
                       resume, mirror, muteKey>>
    BY <1>1 DEF SyncInv, Sync!TypeOK, Sync!VideoCanPlay, Sync!TryStart, Sync!AudioPlays,
      Sync!video, Sync!audio, Sync!start, Sync!stall, Sync!bounds
  <2>5. events' \in Seq(Sync!EventNames)
    BY <1>a, <2>1, <2>3 DEF Adds, Alike
  <2>6. Sync!TypeOK'
    <3>1. begun' => videoCan' /\ aData'
      BY <2>4 DEF SyncInv, Sync!TypeOK
    <3> QED BY <2>4, <2>5, <3>1, ZenonT(60) DEF SyncInv, Sync!TypeOK
  <2>7. NotBegun'
    BY <2>1, <2>3, <2>4 DEF SyncInv, Sync!TypeOK, NotBegun, Later, Adds, Alike
  <2>8. StallIsNoted'
    BY <2>4 DEF SyncInv, Sync!TypeOK, StallIsNoted
  <2>9. PauseComes'
    BY <2>1, <2>3, <2>4 DEF SyncInv, Sync!TypeOK, NotBegun, PauseComes, Adds, Alike
  <2>10. PlayComes'
    BY <2>1, <2>3, <2>4 DEF SyncInv, Sync!TypeOK, NotBegun, PlayComes, Adds, Alike
  <2>11. StallEnds'
    BY <2>1, <2>3, <2>4 DEF SyncInv, Sync!TypeOK, NotBegun, StallEnds, Adds, Alike
  <2> QED BY <2>6, <2>7, <2>8, <2>9, <2>10, <2>11 DEF SyncInv
<1>2. CASE Sync!AudioCanPlay
  <2>1. Alike(events, events') /\ (~videoCan => events' = events)
    BY <1>2, <1>a, AudioPlaysAlike DEF Sync!AudioCanPlay, Sync!TryStart, Sync!AudioPlays
  <2>2. /\ ~aData /\ aData' = TRUE /\ onCan' = FALSE /\ mirror' \in BOOLEAN
        /\ \/ (begun \/ ~videoCan) /\ UNCHANGED <<begun, bar, aPaused>>
           \/ ~begun /\ videoCan /\ begun' = TRUE /\ bar' = TRUE /\ aPaused' = FALSE
        /\ begun' \in BOOLEAN /\ bar' \in BOOLEAN /\ aPaused' \in BOOLEAN
        /\ UNCHANGED <<vPaused, vData, aMuted, videoCan, vsegStalled, mutedForStall, videoStalled,
                       onSeek, resume, muteKey>>
    BY <1>2 DEF SyncInv, Sync!TypeOK, Sync!AudioCanPlay, Sync!TryStart, Sync!AudioPlays,
      Sync!video, Sync!audio, Sync!start, Sync!stall, Sync!bounds
  <2>3. events' \in Seq(Sync!EventNames)
    BY <1>a, <2>1 DEF Alike
  <2>4. Sync!TypeOK'
    <3>1. begun' => videoCan' /\ aData'
      BY <2>2 DEF SyncInv, Sync!TypeOK
    <3> QED BY <2>2, <2>3, <3>1, ZenonT(60) DEF SyncInv, Sync!TypeOK
  <2>5. NotBegun'
    BY <2>1, <2>2 DEF SyncInv, Sync!TypeOK, NotBegun, Later, Alike
  <2>6. StallIsNoted'
    BY <2>2 DEF SyncInv, Sync!TypeOK, StallIsNoted
  <2>7. PauseComes'
    BY <2>1, <2>2 DEF SyncInv, Sync!TypeOK, NotBegun, PauseComes, Alike
  <2>8. PlayComes'
    BY <2>1, <2>2 DEF SyncInv, Sync!TypeOK, NotBegun, PlayComes, Alike
  <2>9. StallEnds'
    BY <2>1, <2>2 DEF SyncInv, Sync!TypeOK, NotBegun, StallEnds, Alike
  <2> QED BY <2>4, <2>5, <2>6, <2>7, <2>8, <2>9 DEF SyncInv
<1>3. CASE Sync!OnVideoPlay
  <2>1. /\ events # <<>> /\ Tail(events) \in Seq(Sync!EventNames)
        /\ Drops(events, <<"v", "play">>, Tail(events))
    BY <1>3, <1>a, EachDrops, EventHandled DEF Sync!OnVideoPlay, Sync!Due
  <2>2. Alike(Tail(events), events')
    BY <1>3, <2>1, AudioPlaysAlike DEF Sync!OnVideoPlay, Sync!AudioPlays, Sync!Rest
  <2>3. /\ Head(events) = <<"v", "play">> /\ onCan' \in BOOLEAN /\ mirror' \in BOOLEAN
        /\ (aData /\ aPaused' = FALSE) \/ (~aData /\ aPaused' = aPaused)
        /\ UNCHANGED <<vPaused, vData, aMuted, aData, videoCan, begun, bar, vsegStalled,
                       mutedForStall, videoStalled, onSeek, resume, muteKey>>
    <3>1. onCan' \in BOOLEAN /\ ((aData /\ aPaused' = FALSE) \/ (~aData /\ aPaused' = aPaused))
      BY <1>3, Zenon DEF SyncInv, Sync!TypeOK, Sync!OnVideoPlay, Sync!AudioPlays
    <3>2. mirror' \in BOOLEAN
      BY <1>3, Zenon DEF SyncInv, Sync!TypeOK, Sync!OnVideoPlay, Sync!BusyWhile
    <3> QED
      BY <1>3, <3>1, <3>2 DEF Sync!OnVideoPlay, Sync!Due, Sync!video, Sync!start, Sync!stall,
        Sync!bounds
  <2>4. events' \in Seq(Sync!EventNames)
    BY <1>a, <2>1, <2>2 DEF Drops, Alike
  <2>5. Sync!TypeOK'
    BY <2>3, <2>4, ZenonT(60) DEF SyncInv, Sync!TypeOK
  <2>6. NotBegun'
    <3> SUFFICES ASSUME ~begun PROVE NotBegun'
      BY <2>3 DEF NotBegun
    <3>1. /\ aPaused /\ ~(videoCan /\ aData) /\ (videoCan => ~vPaused) /\ videoCan
          /\ ~onSeek /\ ~resume /\ ~Comes(events, Later)
      BY <2>1 DEF SyncInv, NotBegun
    <3>2. ~Comes(Tail(events), Later)
      BY <2>1, <3>1 DEF Drops, Later
    <3>3. ~Comes(events', Later)
      BY <2>2, <3>2 DEF Alike
    <3>4. aPaused'
      BY <2>3, <3>1
    <3> QED BY <2>3, <3>1, <3>3, <3>4 DEF NotBegun
  <2>7. StallIsNoted'
    BY <2>3 DEF SyncInv, Sync!TypeOK, StallIsNoted
  <2>8. PauseComes'
    BY <2>1, <2>2, <2>3 DEF SyncInv, Sync!TypeOK, NotBegun, PauseComes, Drops, Alike
  <2>9. PlayComes'
    BY <2>1, <2>2, <2>3 DEF SyncInv, Sync!TypeOK, NotBegun, PlayComes, Drops, Alike
  <2>10. StallEnds'
    BY <2>1, <2>2, <2>3 DEF SyncInv, Sync!TypeOK, NotBegun, StallEnds, Drops, Alike
  <2> QED BY <2>5, <2>6, <2>7, <2>8, <2>9, <2>10 DEF SyncInv
<1>4. CASE Sync!OnVideoPlaying
  <2>1. events # <<>> /\ Tail(events) \in Seq(Sync!EventNames)
        /\ \/ Head(events) = <<"v", "playing">> /\ Drops(events, <<"v", "playing">>, Tail(events))
           \/ Head(events) = <<"v", "played">> /\ Drops(events, <<"v", "played">>, Tail(events))
    <3>1. events # <<>> /\ (Head(events) = <<"v", "playing">> \/ Head(events) = <<"v", "played">>)
      BY <1>4 DEF Sync!OnVideoPlaying, Sync!Due
    <3>2. Drops(events, Head(events), Tail(events)) /\ Tail(events) \in Seq(Sync!EventNames)
      BY <1>a, <3>1, EachDrops, EventHandled
    <3> QED BY <3>1, <3>2
  <2>2. Alike(Tail(events), events')
    BY <1>4, <2>1, AudioPlaysAlike DEF Sync!OnVideoPlaying, Sync!AudioPlays, Sync!Rest
  <2>3. /\ Head(events) \in {<<"v", "playing">>, <<"v", "played">>}
        /\ vsegStalled' = FALSE /\ mutedForStall' = (mutedForStall /\ ~vsegStalled)
        /\ videoStalled' = FALSE
        /\ bar' = (IF videoStalled THEN begun ELSE bar)
        /\ aMuted' = (aMuted /\ ~(mutedForStall \/ videoStalled))
        /\ Head(events) = <<"v", "playing">> => aPaused' = aPaused
        /\ Head(events) = <<"v", "played">> => aPaused' = FALSE
        /\ aPaused' \in BOOLEAN
        /\ UNCHANGED <<vPaused, vData, aData, onCan, videoCan, begun, onSeek, resume, mirror,
                       muteKey>>
    <3>1. /\ Head(events) \in {<<"v", "playing">>, <<"v", "played">>}
          /\ UNCHANGED <<vPaused, vData, aData, onCan, videoCan, begun, onSeek, resume, mirror,
                         muteKey>>
      BY <1>4 DEF Sync!OnVideoPlaying, Sync!Due, Sync!video, Sync!start, Sync!bounds
    <3>2. /\ vsegStalled' = FALSE /\ mutedForStall' = (mutedForStall /\ ~vsegStalled)
          /\ videoStalled' = FALSE /\ bar' = (IF videoStalled THEN begun ELSE bar)
      BY <1>4 DEF Sync!OnVideoPlaying
    <3>3. aMuted' = (aMuted /\ ~(mutedForStall \/ videoStalled))
      BY <1>4 DEF Sync!OnVideoPlaying, Sync!Unmutes
    <3>4. Head(events) = <<"v", "playing">> => aPaused' = aPaused
      BY <1>4 DEF Sync!OnVideoPlaying, Sync!Due
    <3>5. Head(events) = <<"v", "played">> => aPaused' = FALSE
      BY <1>4, <2>1 DEF Sync!OnVideoPlaying, Sync!Due, Sync!AudioPlays
    <3>6. aPaused \in BOOLEAN
      BY DEF SyncInv, Sync!TypeOK
    <3>7. aPaused' \in BOOLEAN
      BY <3>1, <3>4, <3>5, <3>6
    <3> QED BY <3>1, <3>2, <3>3, <3>4, <3>5, <3>7
  <2>4. events' \in Seq(Sync!EventNames)
    BY <1>a, <2>1, <2>2 DEF Drops, Alike
  <2>5. Sync!TypeOK'
    BY <2>3, <2>4, ZenonT(60) DEF SyncInv, Sync!TypeOK
  <2>6. NotBegun'
    <3> SUFFICES ASSUME ~begun PROVE NotBegun'
      BY <2>3 DEF NotBegun
    <3>1. /\ aPaused /\ ~(videoCan /\ aData) /\ (videoCan => ~vPaused) /\ videoCan
          /\ ~onSeek /\ ~resume /\ ~Comes(events, Later)
      BY <2>1 DEF SyncInv, NotBegun
    <3>2. ~Comes(Tail(events), Later) /\ Head(events) # <<"v", "played">>
      BY <2>1, <3>1 DEF Drops, Later
    <3>3. ~Comes(events', Later)
      BY <2>2, <3>2 DEF Alike
    <3>4. aPaused'
      BY <2>3, <3>1, <3>2
    <3> QED BY <2>3, <3>1, <3>3, <3>4 DEF NotBegun
  <2>7. StallIsNoted'
    BY <2>3 DEF SyncInv, Sync!TypeOK, StallIsNoted
  <2>8. PauseComes'
    BY <2>1, <2>2, <2>3 DEF SyncInv, Sync!TypeOK, NotBegun, PauseComes, Drops, Alike
  <2>9. PlayComes'
    BY <2>1, <2>2, <2>3 DEF SyncInv, Sync!TypeOK, NotBegun, PlayComes, Drops, Alike
  <2>10. StallEnds'
    BY <2>1, <2>2, <2>3 DEF SyncInv, Sync!TypeOK, NotBegun, StallEnds, Drops, Alike
  <2> QED BY <2>5, <2>6, <2>7, <2>8, <2>9, <2>10 DEF SyncInv
<1>5. CASE Sync!OnVideoPause
  <2>1. /\ events # <<>> /\ Tail(events) \in Seq(Sync!EventNames)
        /\ Drops(events, <<"v", "pause">>, Tail(events))
    BY <1>5, <1>a, EachDrops, EventHandled DEF Sync!OnVideoPause, Sync!Due
  <2>2. \/ aPaused /\ events' = Tail(events)
        \/ ~aPaused /\ Adds(Tail(events), <<"a", "pause">>, events')
    BY <1>5, <1>p, <2>1, EachAdds DEF Sync!OnVideoPause, Sync!AudioPauses, Sync!Rest,
      Sync!PauseIsMirrored
  <2>3. /\ Head(events) = <<"v", "pause">> /\ aPaused' = TRUE
        /\ UNCHANGED <<vPaused, vData, aMuted, aData, onCan, videoCan, begun, bar, vsegStalled,
                       mutedForStall, videoStalled, onSeek, resume, mirror, muteKey>>
    BY <1>5 DEF SyncInv, Sync!TypeOK, Sync!OnVideoPause, Sync!Due, Sync!Rest,
      Sync!AudioPauses, Sync!PauseIsMirrored, Sync!video, Sync!audio, Sync!start, Sync!stall,
      Sync!bounds
  <2>4. events' \in Seq(Sync!EventNames)
    BY <1>a, <2>1, <2>2 DEF Drops, Adds
  <2>5. Sync!TypeOK'
    BY <2>3, <2>4, ZenonT(60) DEF SyncInv, Sync!TypeOK
  <2>6. NotBegun'
    BY <2>1, <2>2, <2>3 DEF SyncInv, Sync!TypeOK, NotBegun, Later, Drops, Adds
  <2>7. StallIsNoted'
    BY <2>3 DEF SyncInv, Sync!TypeOK, StallIsNoted
  <2>8. PauseComes'
    BY <2>1, <2>2, <2>3 DEF SyncInv, Sync!TypeOK, NotBegun, PauseComes, Drops, Adds
  <2>9. PlayComes'
    BY <2>1, <2>2, <2>3 DEF SyncInv, Sync!TypeOK, NotBegun, PlayComes, Drops, Adds
  <2>10. StallEnds'
    BY <2>1, <2>2, <2>3 DEF SyncInv, Sync!TypeOK, NotBegun, StallEnds, Drops, Adds
  <2> QED BY <2>5, <2>6, <2>7, <2>8, <2>9, <2>10 DEF SyncInv
<1>6. CASE Sync!OnVideoWait
  <2>1. /\ events # <<>> /\ Tail(events) \in Seq(Sync!EventNames)
        /\ Drops(events, <<"v", "waiting">>, Tail(events))
    BY <1>6, <1>a, EachDrops, EventHandled DEF Sync!OnVideoWait, Sync!Due
  <2>2. events' = Tail(events)
    BY <1>6 DEF Sync!OnVideoWait, Sync!Rest
  <2>3. /\ Head(events) = <<"v", "waiting">>
        /\ vsegStalled' \in BOOLEAN /\ mutedForStall' \in BOOLEAN /\ videoStalled' \in BOOLEAN
        /\ bar' \in BOOLEAN /\ aMuted' \in BOOLEAN
        /\ \/ ~begun /\ UNCHANGED <<vsegStalled, mutedForStall, videoStalled, bar, aMuted>>
           \/ videoStalled' = TRUE /\ (mutedForStall' => vsegStalled')
        /\ UNCHANGED <<vPaused, vData, aPaused, aData, onCan, videoCan, begun, onSeek, resume,
                       mirror, muteKey>>
    <3>1. UNCHANGED <<vPaused, vData, aPaused, aData, onCan, videoCan, begun, onSeek, resume,
                      mirror, muteKey>> /\ Head(events) = <<"v", "waiting">>
      BY <1>6 DEF Sync!OnVideoWait, Sync!Due, Sync!video, Sync!start, Sync!bounds
    <3>2. CASE ~begun
      <4>1. UNCHANGED <<vsegStalled, mutedForStall, videoStalled, bar, aMuted>>
        BY <1>6, <3>2 DEF Sync!OnVideoWait, Sync!stall
      <4> QED BY <3>1, <3>2, <4>1, Zenon DEF SyncInv, Sync!TypeOK
    <3>3. CASE begun
      <4> DEFINE fresh == ~onSeek /\ ~vsegStalled
      <4>1. /\ vsegStalled' = (vsegStalled \/ fresh)
            /\ mutedForStall' = (mutedForStall \/ (fresh /\ ~aMuted))
            /\ videoStalled' = TRUE /\ bar' = (bar /\ videoStalled)
            /\ aMuted' = (aMuted \/ fresh \/ ~videoStalled)
        BY <1>6, <3>3 DEF Sync!OnVideoWait
      <4>2. mutedForStall => vsegStalled
        BY DEF SyncInv, StallIsNoted
      <4>3. mutedForStall' => vsegStalled'
        BY <4>1, <4>2, Zenon
      <4>4. /\ vsegStalled' \in BOOLEAN /\ mutedForStall' \in BOOLEAN /\ videoStalled' \in BOOLEAN
            /\ bar' \in BOOLEAN /\ aMuted' \in BOOLEAN
        BY <4>1, Zenon
      <4> QED BY <3>1, <4>1, <4>3, <4>4
    <3> QED BY <3>2, <3>3
  <2>4. events' \in Seq(Sync!EventNames)
    BY <1>a, <2>1, <2>2 DEF Drops
  <2>5. Sync!TypeOK'
    <3>1. begun' => videoCan' /\ aData'
      BY <2>3 DEF SyncInv, Sync!TypeOK
    <3> QED BY <2>3, <2>4, <3>1, ZenonT(60) DEF SyncInv, Sync!TypeOK
  <2>6. NotBegun'
    BY <2>1, <2>2, <2>3 DEF SyncInv, Sync!TypeOK, NotBegun, Later, Drops
  <2>7. StallIsNoted'
    BY <2>3 DEF SyncInv, Sync!TypeOK, StallIsNoted
  <2>8. PauseComes'
    BY <2>1, <2>2, <2>3 DEF SyncInv, Sync!TypeOK, NotBegun, PauseComes, Drops
  <2>9. PlayComes'
    BY <2>1, <2>2, <2>3 DEF SyncInv, Sync!TypeOK, NotBegun, PlayComes, Drops
  <2>10. StallEnds'
    BY <2>1, <2>2, <2>3 DEF SyncInv, Sync!TypeOK, NotBegun, StallEnds, Drops
  <2> QED BY <2>5, <2>6, <2>7, <2>8, <2>9, <2>10 DEF SyncInv
<1>7. CASE Sync!OnSeeked
  <2>1. /\ events # <<>> /\ Tail(events) \in Seq(Sync!EventNames)
        /\ Drops(events, <<"v", "seeked">>, Tail(events))
    BY <1>7, <1>a, EachDrops, EventHandled DEF Sync!OnSeeked, Sync!Due
  <2>2. events' = Tail(events)
    BY <1>7 DEF Sync!OnSeeked, Sync!Rest
  <2>3. /\ Head(events) = <<"v", "seeked">>
        /\ onSeek' = FALSE /\ resume' = (resume \/ (~vPaused /\ aPaused))
        /\ UNCHANGED <<vPaused, vData, aPaused, aMuted, aData, onCan, videoCan, begun, bar,
                       vsegStalled, mutedForStall, videoStalled, mirror, muteKey>>
    BY <1>7 DEF SyncInv, Sync!TypeOK, Sync!OnSeeked, Sync!Due, Sync!Rest, Sync!video,
      Sync!audio, Sync!start, Sync!stall, Sync!bounds
  <2>4. events' \in Seq(Sync!EventNames)
    BY <1>a, <2>1, <2>2 DEF Drops
  <2>5. Sync!TypeOK'
    BY <2>3, <2>4, ZenonT(60) DEF SyncInv, Sync!TypeOK
  <2>6. NotBegun'
    BY <2>1, <2>2, <2>3 DEF SyncInv, Sync!TypeOK, NotBegun, Later, Drops
  <2>7. StallIsNoted'
    BY <2>3 DEF SyncInv, Sync!TypeOK, StallIsNoted
  <2>8. PauseComes'
    BY <2>1, <2>2, <2>3 DEF SyncInv, Sync!TypeOK, NotBegun, PauseComes, Drops
  <2>9. PlayComes'
    BY <2>1, <2>2, <2>3 DEF SyncInv, Sync!TypeOK, NotBegun, PlayComes, Drops
  <2>10. StallEnds'
    BY <2>1, <2>2, <2>3 DEF SyncInv, Sync!TypeOK, NotBegun, StallEnds, Drops
  <2> QED BY <2>5, <2>6, <2>7, <2>8, <2>9, <2>10 DEF SyncInv
<1>8. CASE Sync!OnAudioPlaying
  <2>1. events # <<>> /\ Tail(events) \in Seq(Sync!EventNames)
        /\ \/ Head(events) = <<"a", "playing">> /\ Drops(events, <<"a", "playing">>, Tail(events))
           \/ Head(events) = <<"a", "played">> /\ Drops(events, <<"a", "played">>, Tail(events))
    <3>1. events # <<>> /\ (Head(events) = <<"a", "playing">> \/ Head(events) = <<"a", "played">>)
      BY <1>8 DEF Sync!OnAudioPlaying, Sync!Due
    <3>2. Drops(events, Head(events), Tail(events)) /\ Tail(events) \in Seq(Sync!EventNames)
      BY <1>a, <3>1, EachDrops, EventHandled
    <3> QED BY <3>1, <3>2
  <2>2. events' = Tail(events)
    BY <1>8 DEF Sync!OnAudioPlaying, Sync!Rest
  <2>3. /\ Head(events) \in {<<"a", "playing">>, <<"a", "played">>} /\ mirror' \in BOOLEAN
        /\ UNCHANGED <<vPaused, vData, aPaused, aMuted, aData, onCan, videoCan, begun, bar,
                       vsegStalled, mutedForStall, videoStalled, onSeek, resume, muteKey>>
    BY <1>8 DEF SyncInv, Sync!TypeOK, Sync!OnAudioPlaying, Sync!Due, Sync!Rest, Sync!video,
      Sync!audio, Sync!start, Sync!stall, Sync!bounds
  <2>4. events' \in Seq(Sync!EventNames)
    BY <1>a, <2>1, <2>2 DEF Drops
  <2>5. Sync!TypeOK'
    BY <2>3, <2>4, ZenonT(60) DEF SyncInv, Sync!TypeOK
  <2>6. NotBegun'
    BY <2>1, <2>2, <2>3 DEF SyncInv, Sync!TypeOK, NotBegun, Later, Drops
  <2>7. StallIsNoted'
    BY <2>3 DEF SyncInv, Sync!TypeOK, StallIsNoted
  <2>8. PauseComes'
    BY <2>1, <2>2, <2>3 DEF SyncInv, Sync!TypeOK, NotBegun, PauseComes, Drops
  <2>9. PlayComes'
    BY <2>1, <2>2, <2>3 DEF SyncInv, Sync!TypeOK, NotBegun, PlayComes, Drops
  <2>10. StallEnds'
    BY <2>1, <2>2, <2>3 DEF SyncInv, Sync!TypeOK, NotBegun, StallEnds, Drops
  <2> QED BY <2>5, <2>6, <2>7, <2>8, <2>9, <2>10 DEF SyncInv
<1>9. CASE Sync!TryResume
  <2>1. Alike(events, events')
    BY <1>9, <1>a, AudioPlaysAlike DEF Sync!TryResume, Sync!AudioPlays
  <2>2. /\ resume /\ resume' = FALSE /\ aPaused' \in BOOLEAN
        /\ (vPaused /\ aPaused' = aPaused) \/ (~vPaused /\ aPaused' = FALSE)
        /\ UNCHANGED <<vPaused, vData, aMuted, aData, onCan, videoCan, begun, bar, vsegStalled,
                       mutedForStall, videoStalled, onSeek, mirror, muteKey>>
    <3>1. (vPaused /\ aPaused' = aPaused) \/ (~vPaused /\ aPaused' = FALSE)
      BY <1>9 DEF Sync!TryResume, Sync!AudioPlays
    <3>2. aPaused' \in BOOLEAN
      BY <3>1 DEF SyncInv, Sync!TypeOK
    <3> QED BY <1>9, <3>1, <3>2 DEF Sync!TryResume, Sync!video, Sync!start, Sync!stall,
      Sync!bounds
  <2>3. events' \in Seq(Sync!EventNames)
    BY <1>a, <2>1 DEF Alike
  <2>4. Sync!TypeOK'
    BY <2>2, <2>3, ZenonT(60) DEF SyncInv, Sync!TypeOK
  <2>5. NotBegun'
    BY <2>1, <2>2 DEF SyncInv, Sync!TypeOK, NotBegun, Later, Alike
  <2>6. StallIsNoted'
    BY <2>2 DEF SyncInv, Sync!TypeOK, StallIsNoted
  <2>7. PauseComes'
    BY <2>1, <2>2 DEF SyncInv, Sync!TypeOK, NotBegun, PauseComes, Alike
  <2>8. PlayComes'
    BY <2>1, <2>2 DEF SyncInv, Sync!TypeOK, NotBegun, PlayComes, Alike
  <2>9. StallEnds'
    BY <2>1, <2>2 DEF SyncInv, Sync!TypeOK, NotBegun, StallEnds, Alike
  <2> QED BY <2>4, <2>5, <2>6, <2>7, <2>8, <2>9 DEF SyncInv
<1>10. CASE Sync!OnAudioPlay
  <2>1. /\ events # <<>> /\ Tail(events) \in Seq(Sync!EventNames)
        /\ Drops(events, <<"a", "play">>, Tail(events))
    BY <1>10, <1>a, EachDrops, EventHandled DEF Sync!OnAudioPlay, Sync!Due
  <2> DEFINE last == IF vData THEN <<"v", "playing">> ELSE <<"v", "waiting">>
  <2>2. \/ events' = Tail(events) /\ vPaused' = vPaused
        \/ vPaused /\ ~vPaused' /\ events' = Tail(events) \o <<<<"v", "play">>, last>>
    BY <1>10 DEF Sync!OnAudioPlay, Sync!VideoPlays, Sync!Rest
  <2>3. last \in Sync!EventNames /\ <<"v", "play">> \in Sync!EventNames
    BY DEF Sync!EventNames
  <2>4. \/ events' = Tail(events) /\ vPaused' = vPaused
        \/ /\ vPaused /\ ~vPaused'
           /\ \E m \in Seq(Sync!EventNames) :
                /\ Adds(Tail(events), <<"v", "play">>, m)
                /\ vData => Adds(m, <<"v", "playing">>, events')
                /\ ~vData => Adds(m, <<"v", "waiting">>, events')
    <3>1. \E m \in Seq(Sync!EventNames) :
            /\ Adds(Tail(events), <<"v", "play">>, m)
            /\ Adds(m, last, Tail(events) \o <<<<"v", "play">>, last>>)
      BY <2>1, <2>3, TwoAdd
    <3> QED BY <2>2, <3>1
  <2>5. /\ Head(events) = <<"a", "play">> /\ vPaused' \in BOOLEAN
        /\ UNCHANGED <<vData, aPaused, aMuted, aData, onCan, videoCan, begun, bar, vsegStalled,
                       mutedForStall, videoStalled, onSeek, resume, mirror, muteKey>>
    BY <1>10 DEF SyncInv, Sync!TypeOK, Sync!OnAudioPlay, Sync!Due, Sync!Rest, Sync!VideoPlays,
      Sync!video, Sync!audio, Sync!start, Sync!stall, Sync!bounds
  <2>6. events' \in Seq(Sync!EventNames)
    BY <1>a, <2>1, <2>4 DEF Drops, Adds
  <2>7. Sync!TypeOK'
    BY <2>5, <2>6, ZenonT(60) DEF SyncInv, Sync!TypeOK
  <2>8. NotBegun'
    BY <2>1, <2>4, <2>5 DEF SyncInv, Sync!TypeOK, NotBegun, Later, Drops, Adds
  <2>9. StallIsNoted'
    BY <2>5 DEF SyncInv, Sync!TypeOK, StallIsNoted
  <2>10. PauseComes'
    BY <2>1, <2>4, <2>5 DEF SyncInv, Sync!TypeOK, NotBegun, PauseComes, Drops, Adds
  <2>11. PlayComes'
    BY <2>1, <2>4, <2>5 DEF SyncInv, Sync!TypeOK, NotBegun, PlayComes, Drops, Adds
  <2>12. StallEnds'
    BY <2>1, <2>4, <2>5 DEF SyncInv, Sync!TypeOK, NotBegun, StallEnds, Drops, Adds
  <2> QED BY <2>7, <2>8, <2>9, <2>10, <2>11, <2>12 DEF SyncInv
<1>11. CASE Sync!OnAudioPause
  <2>1. /\ events # <<>> /\ Tail(events) \in Seq(Sync!EventNames)
        /\ Drops(events, <<"a", "pause">>, Tail(events))
    BY <1>11, <1>a, EachDrops, EventHandled DEF Sync!OnAudioPause, Sync!Due
  <2>2. \/ events' = Tail(events) /\ vPaused' = vPaused /\ (vPaused \/ onSeek)
        \/ vPaused' /\ ~vPaused /\ Adds(Tail(events), <<"v", "pause">>, events')
    BY <1>11, <2>1, EachAdds DEF Sync!OnAudioPause, Sync!VideoPauses, Sync!Rest,
      Sync!EventNames, SyncInv, Sync!TypeOK
  <2>3. /\ Head(events) = <<"a", "pause">> /\ vPaused' \in BOOLEAN
        /\ UNCHANGED <<vData, aPaused, aMuted, aData, onCan, videoCan, begun, bar, vsegStalled,
                       mutedForStall, videoStalled, onSeek, resume, mirror, muteKey>>
    BY <1>11 DEF SyncInv, Sync!TypeOK, Sync!OnAudioPause, Sync!Due, Sync!Rest,
      Sync!VideoPauses, Sync!video, Sync!audio, Sync!start, Sync!stall, Sync!bounds
  <2>4. events' \in Seq(Sync!EventNames)
    BY <1>a, <2>1, <2>2 DEF Drops, Adds
  <2>5. Sync!TypeOK'
    BY <2>3, <2>4, ZenonT(60) DEF SyncInv, Sync!TypeOK
  <2>6. NotBegun'
    BY <2>1, <2>2, <2>3 DEF SyncInv, Sync!TypeOK, NotBegun, Later, Drops, Adds
  <2>7. StallIsNoted'
    BY <2>3 DEF SyncInv, Sync!TypeOK, StallIsNoted
  <2>8. PauseComes'
    BY <2>1, <2>2, <2>3 DEF SyncInv, Sync!TypeOK, NotBegun, PauseComes, Drops, Adds
  <2>9. PlayComes'
    BY <2>1, <2>2, <2>3 DEF SyncInv, Sync!TypeOK, NotBegun, PlayComes, Drops, Adds
  <2>10. StallEnds'
    BY <2>1, <2>2, <2>3 DEF SyncInv, Sync!TypeOK, NotBegun, StallEnds, Drops, Adds
  <2> QED BY <2>5, <2>6, <2>7, <2>8, <2>9, <2>10 DEF SyncInv
<1>12. CASE Sync!MvPlay
  <2> DEFINE last == IF vData THEN <<"v", "played">> ELSE <<"v", "waiting">>
  <2>1. events' = events \o <<<<"v", "play">>, last>>
    BY <1>12 DEF Sync!MvPlay, Sync!VideoPlays
  <2>2. last \in Sync!EventNames /\ <<"v", "play">> \in Sync!EventNames
    BY DEF Sync!EventNames
  <2>3. PICK m \in Seq(Sync!EventNames) :
          /\ Adds(events, <<"v", "play">>, m)
          /\ vData => Adds(m, <<"v", "played">>, events')
          /\ ~vData => Adds(m, <<"v", "waiting">>, events')
    <3>1. \E m \in Seq(Sync!EventNames) :
            /\ Adds(events, <<"v", "play">>, m)
            /\ Adds(m, last, events \o <<<<"v", "play">>, last>>)
      BY <1>a, <2>2, TwoAdd
    <3> QED BY <2>1, <3>1
  <2>4. /\ begun /\ vPaused /\ vPaused' = FALSE
        /\ UNCHANGED <<vData, aPaused, aMuted, aData, onCan, videoCan, begun, bar, vsegStalled,
                       mutedForStall, videoStalled, onSeek, resume, mirror, muteKey>>
    BY <1>12 DEF SyncInv, Sync!TypeOK, Sync!MvPlay, Sync!Acts, Sync!VideoPlays, Sync!video,
      Sync!audio, Sync!start, Sync!stall, Sync!bounds
  <2>5. events' \in Seq(Sync!EventNames)
    BY <1>a, <2>3 DEF Adds
  <2>6. Sync!TypeOK'
    BY <2>4, <2>5, ZenonT(60) DEF SyncInv, Sync!TypeOK
  <2>7. NotBegun'
    BY <2>3, <2>4 DEF SyncInv, Sync!TypeOK, NotBegun, Later, Adds
  <2>8. StallIsNoted'
    BY <2>4 DEF SyncInv, Sync!TypeOK, StallIsNoted
  <2>9. PauseComes'
    BY <2>3, <2>4 DEF SyncInv, Sync!TypeOK, NotBegun, PauseComes, Adds
  <2>10. PlayComes'
    BY <2>3, <2>4 DEF SyncInv, Sync!TypeOK, NotBegun, PlayComes, Adds
  <2>11. StallEnds'
    BY <2>3, <2>4 DEF SyncInv, Sync!TypeOK, NotBegun, StallEnds, Adds
  <2> QED BY <2>6, <2>7, <2>8, <2>9, <2>10, <2>11 DEF SyncInv
<1>13. CASE Sync!MvPause
  <2> DEFINE s == Append(events, <<"v", "pause">>)
  <2>1. Adds(events, <<"v", "pause">>, s) /\ s \in Seq(Sync!EventNames)
    BY <1>a, EachAdds DEF Sync!EventNames, Adds
  <2>2. IF aPaused THEN events' = s ELSE events' = Append(s, <<"a", "pause">>)
    BY <1>13 DEF Sync!MvPause, Sync!AudioPauses
  <2> HIDE DEF s
  <2>3. \/ aPaused /\ events' = s
        \/ ~aPaused /\ Adds(s, <<"a", "pause">>, events')
    BY <1>p, <2>1, <2>2, EachAdds
  <2>4. /\ begun /\ ~vPaused /\ vPaused' = TRUE /\ aPaused' = TRUE
        /\ UNCHANGED <<vData, aMuted, aData, onCan, videoCan, begun, bar, vsegStalled,
                       mutedForStall, videoStalled, onSeek, resume, mirror, muteKey>>
    BY <1>13 DEF SyncInv, Sync!TypeOK, Sync!MvPause, Sync!Acts, Sync!AudioPauses, Sync!video,
      Sync!audio, Sync!start, Sync!stall, Sync!bounds
  <2>5. events' \in Seq(Sync!EventNames)
    BY <1>a, <2>1, <2>3 DEF Adds
  <2>6. Sync!TypeOK'
    BY <2>4, <2>5, ZenonT(60) DEF SyncInv, Sync!TypeOK
  <2>7. NotBegun'
    BY <2>1, <2>3, <2>4 DEF SyncInv, Sync!TypeOK, NotBegun, Later, Adds
  <2>8. StallIsNoted'
    BY <2>4 DEF SyncInv, Sync!TypeOK, StallIsNoted
  <2>9. PauseComes'
    BY <2>1, <2>3, <2>4 DEF SyncInv, Sync!TypeOK, NotBegun, PauseComes, Adds
  <2>10. PlayComes'
    BY <2>1, <2>3, <2>4 DEF SyncInv, Sync!TypeOK, NotBegun, PlayComes, Adds
  <2>11. StallEnds'
    BY <2>1, <2>3, <2>4 DEF SyncInv, Sync!TypeOK, NotBegun, StallEnds, Adds
  <2> QED BY <2>6, <2>7, <2>8, <2>9, <2>10, <2>11 DEF SyncInv
<1>14. CASE Sync!Mute
  <2>1. events' = events
    BY <1>14 DEF Sync!Mute
  <2>2. /\ begun /\ aMuted' = ~aMuted /\ muteKey' = ~aMuted
        /\ UNCHANGED <<vPaused, vData, aPaused, aData, onCan, videoCan, begun, bar, vsegStalled,
                       mutedForStall, videoStalled, onSeek, resume, mirror>>
    BY <1>14 DEF SyncInv, Sync!TypeOK, Sync!Mute, Sync!Acts, Sync!video, Sync!audio,
      Sync!start, Sync!stall, Sync!bounds
  <2>3. events' \in Seq(Sync!EventNames)
    BY <1>a, <2>1 DEF Adds
  <2>4. Sync!TypeOK'
    BY <2>2, <2>3, ZenonT(60) DEF SyncInv, Sync!TypeOK
  <2>5. NotBegun'
    BY <1>a, <2>1, <2>2 DEF SyncInv, Sync!TypeOK, NotBegun, Later, Adds
  <2>6. StallIsNoted'
    BY <2>2 DEF SyncInv, Sync!TypeOK, StallIsNoted
  <2>7. PauseComes'
    BY <1>a, <2>1, <2>2 DEF SyncInv, Sync!TypeOK, NotBegun, PauseComes, Adds
  <2>8. PlayComes'
    BY <1>a, <2>1, <2>2 DEF SyncInv, Sync!TypeOK, NotBegun, PlayComes, Adds
  <2>9. StallEnds'
    BY <1>a, <2>1, <2>2 DEF SyncInv, Sync!TypeOK, NotBegun, StallEnds, Adds
  <2> QED BY <2>4, <2>5, <2>6, <2>7, <2>8, <2>9 DEF SyncInv
<1>15. CASE Sync!Seek
  <2> DEFINE s == IF vData /\ ~vPaused THEN Append(events, <<"v", "waiting">>) ELSE events
  <2>1. (s = events \/ Adds(events, <<"v", "waiting">>, s)) /\ s \in Seq(Sync!EventNames)
    BY <1>a, EachAdds DEF Sync!EventNames, Adds
  <2>2. IF aPaused THEN events' = s ELSE events' = Append(s, <<"a", "pause">>)
    BY <1>15 DEF Sync!Seek, Sync!AudioPauses
  <2> HIDE DEF s
  <2>3. \/ aPaused /\ events' = s
        \/ ~aPaused /\ Adds(s, <<"a", "pause">>, events')
    BY <1>p, <2>1, <2>2, EachAdds
  <2>4. /\ begun /\ onSeek' = TRUE /\ vData' = FALSE /\ aPaused' = TRUE
        /\ UNCHANGED <<vPaused, aMuted, aData, onCan, videoCan, begun, bar, vsegStalled,
                       mutedForStall, videoStalled, resume, mirror, muteKey>>
    BY <1>15 DEF SyncInv, Sync!TypeOK, Sync!Seek, Sync!Acts, Sync!AudioPauses, Sync!video,
      Sync!audio, Sync!start, Sync!stall, Sync!bounds
  <2>5. events' \in Seq(Sync!EventNames)
    BY <1>a, <2>1, <2>3 DEF Adds
  <2>6. Sync!TypeOK'
    BY <2>4, <2>5, ZenonT(60) DEF SyncInv, Sync!TypeOK
  <2>7. NotBegun'
    BY <2>1, <2>3, <2>4 DEF SyncInv, Sync!TypeOK, NotBegun, Later, Adds
  <2>8. StallIsNoted'
    BY <2>4 DEF SyncInv, Sync!TypeOK, StallIsNoted
  <2>9. PauseComes'
    BY <2>1, <2>3, <2>4 DEF SyncInv, Sync!TypeOK, NotBegun, PauseComes, Adds
  <2>10. PlayComes'
    BY <2>1, <2>3, <2>4 DEF SyncInv, Sync!TypeOK, NotBegun, PlayComes, Adds
  <2>11. StallEnds'
    BY <2>1, <2>3, <2>4 DEF SyncInv, Sync!TypeOK, NotBegun, StallEnds, Adds
  <2> QED BY <2>6, <2>7, <2>8, <2>9, <2>10, <2>11 DEF SyncInv
<1>16. CASE Sync!Starve
  <2>1. events' = events \/ Adds(events, <<"v", "waiting">>, events')
    BY <1>16, <1>a, EachAdds DEF Sync!Starve, Sync!EventNames
  <2>2. /\ vData' = FALSE /\ videoCan
        /\ UNCHANGED <<vPaused, aPaused, aMuted, aData, onCan, videoCan, begun, bar, vsegStalled,
                       mutedForStall, videoStalled, onSeek, resume, mirror, muteKey>>
    BY <1>16 DEF SyncInv, Sync!TypeOK, Sync!Starve, Sync!video, Sync!audio, Sync!start,
      Sync!stall, Sync!bounds
  <2>3. events' \in Seq(Sync!EventNames)
    BY <1>a, <2>1 DEF Adds
  <2>4. Sync!TypeOK'
    BY <2>2, <2>3, ZenonT(60) DEF SyncInv, Sync!TypeOK
  <2>5. NotBegun'
    BY <1>a, <2>1, <2>2 DEF SyncInv, Sync!TypeOK, NotBegun, Later, Adds
  <2>6. StallIsNoted'
    BY <2>2 DEF SyncInv, Sync!TypeOK, StallIsNoted
  <2>7. PauseComes'
    BY <1>a, <2>1, <2>2 DEF SyncInv, Sync!TypeOK, NotBegun, PauseComes, Adds
  <2>8. PlayComes'
    BY <1>a, <2>1, <2>2 DEF SyncInv, Sync!TypeOK, NotBegun, PlayComes, Adds
  <2>9. StallEnds'
    BY <1>a, <2>1, <2>2 DEF SyncInv, Sync!TypeOK, NotBegun, StallEnds, Adds
  <2> QED BY <2>4, <2>5, <2>6, <2>7, <2>8, <2>9 DEF SyncInv
<1>17. CASE Sync!Data
  <2> DEFINE p == <<"v", "playing">>
             q == <<"v", "seeked">>
  <2>1. \/ ~vPaused /\ onSeek /\ events' = events \o <<q>> \o <<p>>
        \/ ~vPaused /\ ~onSeek /\ events' = events \o <<>> \o <<p>>
        \/ vPaused /\ onSeek /\ events' = events \o <<q>> \o <<>>
        \/ vPaused /\ ~onSeek /\ events' = events \o <<>> \o <<>>
        \/ ~vPaused /\ onSeek /\ events' = events \o <<p>> \o <<q>>
        \/ ~vPaused /\ ~onSeek /\ events' = events \o <<p>> \o <<>>
        \/ vPaused /\ onSeek /\ events' = events \o <<>> \o <<q>>
    BY <1>17 DEF Sync!Data
  <2>2. p \in Sync!EventNames /\ q \in Sync!EventNames
    BY DEF Sync!EventNames
  <2> HIDE DEF p, q
  <2>3. \A s \in Seq(Sync!EventNames) :
          s \o <<>> = s /\ Adds(s, p, s \o <<p>>) /\ Adds(s, q, s \o <<q>>)
    BY <2>2, EachAdds, EventsAdded
  <2>4. \/ vPaused /\ events' = events
        \/ vPaused /\ onSeek /\ Adds(events, q, events')
        \/ ~vPaused /\ Adds(events, p, events')
        \/ ~vPaused /\ onSeek /\ \E m : Adds(events, q, m) /\ Adds(m, p, events')
        \/ ~vPaused /\ onSeek /\ \E m : Adds(events, p, m) /\ Adds(m, q, events')
    <3>1. events \o <<p>> \in Seq(Sync!EventNames) /\ events \o <<q>> \in Seq(Sync!EventNames)
      BY <1>a, <2>3 DEF Adds
    <3>2. /\ events \o <<>> = events /\ events \o <<p>> \o <<>> = events \o <<p>>
          /\ events \o <<q>> \o <<>> = events \o <<q>>
      BY <1>a, <2>3, <3>1
    <3>3. /\ Adds(events, p, events \o <<p>>) /\ Adds(events, q, events \o <<q>>)
          /\ Adds(events \o <<p>>, q, events \o <<p>> \o <<q>>)
          /\ Adds(events \o <<q>>, p, events \o <<q>> \o <<p>>)
      BY <1>a, <2>3, <3>1
    <3> QED BY <2>1, <3>2, <3>3
  <2> USE DEF p, q
  <2>5. /\ videoCan /\ vData' = TRUE
        /\ UNCHANGED <<vPaused, aPaused, aMuted, aData, onCan, videoCan, begun, bar, vsegStalled,
                       mutedForStall, videoStalled, onSeek, resume, mirror, muteKey>>
    BY <1>17 DEF SyncInv, Sync!TypeOK, Sync!Data, Sync!video, Sync!audio, Sync!start,
      Sync!stall, Sync!bounds
  <2>6. events' \in Seq(Sync!EventNames)
    BY <1>a, <2>4 DEF Adds
  <2>7. Sync!TypeOK'
    BY <2>5, <2>6, ZenonT(60) DEF SyncInv, Sync!TypeOK
  <2>8. NotBegun'
    BY <1>a, <2>4, <2>5 DEF SyncInv, Sync!TypeOK, NotBegun, Later, Adds
  <2>9. StallIsNoted'
    BY <2>5 DEF SyncInv, Sync!TypeOK, StallIsNoted
  <2>10. PauseComes'
    BY <1>a, <2>4, <2>5 DEF SyncInv, Sync!TypeOK, NotBegun, PauseComes, Adds
  <2>11. PlayComes'
    BY <1>a, <2>4, <2>5 DEF SyncInv, Sync!TypeOK, NotBegun, PlayComes, Adds
  <2>12. StallEnds'
    BY <1>a, <2>4, <2>5 DEF SyncInv, Sync!TypeOK, NotBegun, StallEnds, Adds
  <2> QED BY <2>7, <2>8, <2>9, <2>10, <2>11, <2>12 DEF SyncInv
<1> QED BY <1>1, <1>2, <1>3, <1>4, <1>5, <1>6, <1>7, <1>8, <1>9, <1>10, <1>11, <1>12, <1>13,
  <1>14, <1>15, <1>16, <1>17 DEF Sync!Next, Sync!VideoEvents, Sync!AudioEvents

LEMMA SyncStutters == SyncInv /\ UNCHANGED syncVars => SyncInv'
  BY DEF SyncInv, syncVars, Sync!TypeOK, NotBegun, PauseComes, PlayComes, StallEnds,
    StallIsNoted,
    Comes, Followed, VPlay, VPause, VWaiting, VPlaying, Remedies, Later

\* When no event is to come, nothing is left that could come.
LEMMA SyncConsequences ==
  SyncInv => Sync!TypeOK /\ Sync!PictureAndSoundAgree /\ Sync!StallLeavesNoTrace
<1> SUFFICES ASSUME SyncInv, Sync!AtRest
             PROVE  /\ vPaused = aPaused
                    /\ ~vPaused => bar /\ (aMuted => muteKey)
  BY DEF SyncInv, Sync!PictureAndSoundAgree, Sync!StallLeavesNoTrace
<1>1. \A names : ~Comes(events, names)
  BY DEF Sync!AtRest, Comes
<1>2. vPaused => aPaused
  BY <1>1 DEF SyncInv, PauseComes
<1>3. aPaused => vPaused
  BY <1>1 DEF SyncInv, Sync!AtRest, PlayComes
<1>4. vPaused \in BOOLEAN /\ aPaused \in BOOLEAN
  BY DEF SyncInv, Sync!TypeOK
<1>5. vPaused = aPaused
  BY <1>2, <1>3, <1>4
<1>6. ~vPaused => ~videoStalled
  BY <1>1 DEF SyncInv, Sync!AtRest, StallEnds
<1> QED BY <1>5, <1>6 DEF SyncInv, Sync!AtRest, StallIsNoted

-----------------------------------------------------------------------------
(* Whatever the lengths, limits and bounds, and whatever the user, the engine and the media
   elements do: the sound of a video starts with its picture, its end is declared only when
   every chunk was appended or given up, and no room is made of what is to be played
   (runAudioPipe, appendAudioChunk and evictAudio). *)
THEOREM SoundIsAlwaysWhole == PlayerSpec => []SoundIsWhole
<1> DEFINE Inv == part = "sound" => SoundInv
<1>1. PlayerInit => Inv
  BY SoundInit DEF PlayerInit
<1>2. Inv /\ [PlayerNext]_allVars => Inv'
  <2> SUFFICES ASSUME Inv, [PlayerNext]_allVars, part' = "sound" PROVE SoundInv'
    OBVIOUS
  <2>1. part = "sound" /\ SoundInv
    BY DEF PlayerNext, QueueNext, FeedNext, SyncNext, PipesNext, SoundNext, allVars
  <2>2. Sound!Next \/ UNCHANGED soundVars
    BY <2>1 DEF PlayerNext, QueueNext, FeedNext, SyncNext, PipesNext, SoundNext, allVars
  <2> QED BY <2>1, <2>2, SoundPreserves, SoundStutters
<1>3. Inv => SoundIsWhole
  <2>1. SoundInv => Sound!SoundIsShifted
    BY PlayerAssumption
    DEF SoundInv, Sound!TypeOK, Decided, Sound!SoundIsShifted, PlayerAssumption
  <2> QED BY <2>1 DEF SoundInv, SoundIsWhole
<1> QED BY <1>1, <1>2, <1>3, PTL DEF PlayerSpec

(* However many videos, and in whatever order track changes, late events, timers, clicks and
   changes of quality end their pipelines: at most one lives, with call and apply in its own
   hands, a change of quality restarts the track once, and the page is its own again when none
   lives, unless one left before its cleanup existed (startMVPipeline). *)
THEOREM PagesAreAlwaysGivenBack == PlayerSpec => []PagesAreGivenBack
<1> DEFINE Inv == part = "pipes" => PipesInv
<1>1. PlayerInit => Inv
  BY PipesInit DEF PlayerInit
<1>2. Inv /\ [PlayerNext]_allVars => Inv'
  <2> SUFFICES ASSUME Inv, [PlayerNext]_allVars, part' = "pipes" PROVE PipesInv'
    OBVIOUS
  <2>1. part = "pipes" /\ PipesInv
    BY DEF PlayerNext, QueueNext, FeedNext, SyncNext, PipesNext, SoundNext, allVars
  <2>2. Next \/ UNCHANGED vars
    BY <2>1 DEF PlayerNext, QueueNext, FeedNext, SyncNext, PipesNext, SoundNext, allVars
  <2> QED BY <2>1, <2>2, PipesPreserves, PipesStutters
<1>3. Inv => PagesAreGivenBack
  BY PipesConsequences DEF PagesAreGivenBack
<1> QED BY <1>1, <1>2, <1>3, PTL DEF PlayerSpec

(* However long the video, and however many seeks, switches of producer and lost requests: one
   loop at most feeds the SourceBuffer and none a session that was left, whose producers stay
   stopped, and every fragment is appended at its own place to an init segment of its kind,
   but for what the module blames on the start, the engine or a lost request (the handlers of
   _setupVsegVideo). *)
THEOREM FragmentsAreAlwaysInPlace == PlayerSpec => []FeedIsOne
<1> DEFINE Inv == part = "feed" => FeedInv
<1>1. PlayerInit => Inv
  BY FeedInit DEF PlayerInit
<1>2. Inv /\ [PlayerNext]_allVars => Inv'
  <2> SUFFICES ASSUME Inv, [PlayerNext]_allVars, part' = "feed" PROVE FeedInv'
    OBVIOUS
  <2>1. part = "feed" /\ FeedInv
    BY DEF PlayerNext, QueueNext, FeedNext, SyncNext, PipesNext, SoundNext, allVars
  <2>2. Feed!Next \/ UNCHANGED feedVars
    BY <2>1 DEF PlayerNext, QueueNext, FeedNext, SyncNext, PipesNext, SoundNext, allVars
  <2> QED BY <2>1, <2>2, FeedPreserves, FeedStutters
<1>3. Inv => FeedIsOne
  BY FeedConsequences DEF FeedIsOne
<1> QED BY <1>1, <1>2, <1>3, PTL DEF PlayerSpec

(* However often the user plays, pauses, mutes and seeks and the picture runs out of data: once
   no event is left to deliver, picture and sound run or pause together, and a picture that
   plays has its sound and its seek bar back (mvPlay, mvPause, the handlers of
   startMVPipeline and _setupVsegVideo that mirror the elements to each other). *)
THEOREM PictureAndSoundAlwaysAgree == PlayerSpec => []PictureAndSoundAgree
<1> DEFINE Inv == part = "sync" => SyncInv
<1>1. PlayerInit => Inv
  BY SyncInit DEF PlayerInit
<1>2. Inv /\ [PlayerNext]_allVars => Inv'
  <2> SUFFICES ASSUME Inv, [PlayerNext]_allVars, part' = "sync" PROVE SyncInv'
    OBVIOUS
  <2>1. part = "sync" /\ SyncInv
    BY DEF PlayerNext, QueueNext, FeedNext, SyncNext, PipesNext, SoundNext, allVars
  <2>2. Sync!Next \/ UNCHANGED syncVars
    BY <2>1 DEF PlayerNext, QueueNext, FeedNext, SyncNext, PipesNext, SoundNext, allVars
  <2> QED BY <2>1, <2>2, SyncPreserves, SyncStutters
<1>3. Inv => PictureAndSoundAgree
  BY SyncConsequences DEF PictureAndSoundAgree
<1> QED BY <1>1, <1>2, <1>3, PTL DEF PlayerSpec

=============================================================================
