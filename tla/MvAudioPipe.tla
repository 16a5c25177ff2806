----------------------------- MODULE MvAudioPipe -----------------------------
(***************************************************************************)
(* The sound of a music video (engine-playback.js, _setupVsegVideo): one    *)
(* pipe reads the engine's stream and appends it to the SourceBuffer of the *)
(* audio element.  The stream starts late on its own timeline, so the pipe  *)
(* holds what arrives until the time of the first fragment is known, shifts *)
(* the SourceBuffer, and appends from then on.  A full SourceBuffer is      *)
(* emptied behind the playhead and asked once more.                         *)
(* The stream is chunks 1..length; time is counted in chunks.               *)
(***************************************************************************)
EXTENDS Integers, FiniteSets, FiniteSetsExt

CONSTANTS
  MaxLength,   \* bound: chunks of a stream
  HoldMax,     \* MV_AUDIO_HOLD_MAX, in chunks
  Quota,       \* chunks the SourceBuffer takes
  Behind,      \* chunks kept behind the playhead when it is full (30 s)
  MaxSeeks     \* bound: seeks by the user

VARIABLES
  length, first, late,  \* the stream: its chunks, the one that completes the first fragment's head
                        \* (none may), and whether it starts more than half a second in
  pc,                   \* where runAudioPipe stands
  chunk,                \* chunks read
  held, offsetSet,      \* chunks held, and whether the shift is decided
  offset,               \* timestampOffset is the stream's start
  buffered, appended,   \* chunks in the SourceBuffer, and ever taken by it
  state,                \* audioMs.readyState: "open", "ended" by the pipe, "error" or "closed"
  broken,               \* the element is in error: appendBuffer throws
  aborted,              \* _audioPipeCtrl
  position, seeks,      \* mkAudio.currentTime, and the user's seeks
  lost                  \* chunks the pipe gave up (ghost)

stream == <<length, first, late>>
sb     == <<buffered, appended, offset>>
user   == <<position, seeks>>
vars   == <<stream, pc, chunk, held, offsetSet, sb, state, broken, aborted, user, lost>>

Pcs == {"fetch", "read", "first", "append", "evict", "again", "rest", "off"}

Init ==
  /\ length \in 1 .. MaxLength /\ first \in 1 .. MaxLength + 1 /\ late \in BOOLEAN
  /\ pc = "fetch" /\ chunk = 0 /\ held = {} /\ offsetSet = FALSE /\ offset = FALSE
  /\ buffered = {} /\ appended = {} /\ state = "open" /\ broken = FALSE /\ aborted = FALSE
  /\ position = 1 /\ seeks = 0 /\ lost = {}

Go(next) == pc' = next /\ UNCHANGED <<stream, aborted, broken, user>>
Live     == ~aborted /\ state = "open"

\* The answer, or none.
Answered ==
  /\ pc = "fetch"
  /\ Go(IF aborted THEN "off" ELSE "read") \/ Go("off")
  /\ UNCHANGED <<chunk, held, offsetSet, sb, state, lost>>

\* mp4FirstDecodeSeconds of the chunks held: known once init segment and fragment head are there.
StartKnown(chunks) == first \in chunks

Joined(chunks) == chunks

\* Hold on until the start is known, within the limit.
KeepHolding(chunks) == ~StartKnown(chunks) /\ Cardinality(chunks) < HoldMax

\* A chunk arrives.  Undecided, it is held; the chunk that decides has all of them appended.
Read ==
  /\ pc = "read" /\ chunk < length /\ chunk' = chunk + 1
  /\ LET all == held \union {chunk'} IN
     IF ~Live THEN Go("rest") /\ UNCHANGED <<held, offsetSet, offset>>
     ELSE IF offsetSet THEN Go("append") /\ UNCHANGED <<held, offsetSet, offset>>
     ELSE IF KeepHolding(all) THEN held' = all /\ Go("read") /\ UNCHANGED <<offsetSet, offset>>
     ELSE /\ held' = Joined(all) /\ offsetSet' = TRUE
          /\ offset' = (StartKnown(all) /\ late)
          /\ Go("first")
  /\ UNCHANGED <<buffered, appended, state, lost>>

\* The stream breaks off, or the signal ends the read: the error ends the pipe.
ReadFails ==
  /\ pc = "read" /\ Go("off")
  /\ UNCHANGED <<chunk, held, offsetSet, sb, state, lost>>

Take(chunks) == buffered' = buffered \union chunks /\ appended' = appended \union chunks
Full(chunks) == Cardinality(buffered \union chunks) > Quota

\* The SourceBuffer rejects what it is given: an error event ends the MediaSource.
Rejects == state' = IF state = "open" THEN "error" ELSE state

\* The first append; a failure is logged and the pipe goes on.
AppendHeld ==
  /\ pc = "first" /\ state # "closed" /\ held' = {} /\ Go("read")
  /\ \/ ~broken /\ Take(held) /\ UNCHANGED <<state, lost>>
     \/ Rejects /\ lost' = lost \union held /\ UNCHANGED <<buffered, appended>>
  /\ UNCHANGED <<chunk, offsetSet, offset>>

\* appendAudioChunk.  A full SourceBuffer throws QuotaExceededError, an element in error
\* InvalidStateError, twice; an error event ends the pipe.
Append ==
  /\ pc = "append" /\ state # "closed"
  /\ \/ broken /\ Go("off") /\ UNCHANGED <<buffered, appended, state>>
     \/ ~broken /\ Full({chunk}) /\ Go("evict") /\ UNCHANGED <<buffered, appended, state>>
     \/ ~broken /\ ~Full({chunk}) /\ Take({chunk}) /\ Go("read") /\ UNCHANGED state
     \/ ~broken /\ ~Full({chunk}) /\ Rejects /\ Go("off") /\ UNCHANGED <<buffered, appended>>
  /\ UNCHANGED <<chunk, held, offsetSet, offset, lost>>

\* evictAudio: what lies further than Behind behind the playhead.
Evicted == {c \in buffered : c < position - Behind}

Evict ==
  /\ pc = "evict" /\ state # "closed" /\ Go("again")
  /\ buffered' = IF state = "open" THEN buffered \ Evicted ELSE buffered
  /\ UNCHANGED <<chunk, held, offsetSet, offset, appended, state, lost>>

\* The second and last try: no room still, and the chunk is left out.
AppendAgain ==
  /\ pc = "again"
  /\ \/ ~Live /\ Go("rest") /\ UNCHANGED <<buffered, appended, lost>>
     \/ Live /\ Go("read") /\ IF broken \/ Full({chunk})
                              THEN lost' = lost \union {chunk} /\ UNCHANGED <<buffered, appended>>
                              ELSE Take({chunk}) /\ UNCHANGED lost
  /\ UNCHANGED <<chunk, held, offsetSet, offset, state>>

\* The stream is done: a stream too short to tell its start is appended unshifted.
StreamDone ==
  /\ pc = "read" /\ chunk = length /\ Go("rest") /\ held' = {}
  /\ IF held # {} /\ Live
     THEN \/ ~broken /\ Take(held) /\ UNCHANGED <<state, lost>>
          \/ Rejects /\ lost' = lost \union held /\ UNCHANGED <<buffered, appended>>
     ELSE UNCHANGED <<buffered, appended, state, lost>>
  /\ UNCHANGED <<chunk, offsetSet, offset>>

\* Mutant: the end is declared whoever owns the element by then.
MayEndBlind == state = "open"
MayEnd == Live

\* endOfStream, so that MusicKit hears of the end.
End ==
  /\ pc = "rest" /\ Go("off")
  /\ state' = IF MayEnd THEN "ended" ELSE state
  /\ UNCHANGED <<chunk, held, offsetSet, sb, lost>>

------------------------------------------------------------------------------
\* The element plays what it has.
Play ==
  /\ position \in buffered /\ position' = position + 1
  /\ UNCHANGED <<stream, pc, chunk, held, offsetSet, sb, state, broken, aborted, seeks, lost>>

\* The user seeks.
Seek ==
  /\ seeks < MaxSeeks /\ seeks' = seeks + 1
  /\ position' \in 1 .. length \ {position}
  /\ UNCHANGED <<stream, pc, chunk, held, offsetSet, sb, state, broken, aborted, lost>>

\* The element cannot decode what it plays.
Break ==
  /\ ~broken /\ buffered # {} /\ broken' = TRUE
  /\ UNCHANGED <<stream, pc, chunk, held, offsetSet, sb, state, aborted, user, lost>>

\* cleanup: the pipe is aborted.
Leave ==
  /\ ~aborted /\ aborted' = TRUE
  /\ UNCHANGED <<stream, pc, chunk, held, offsetSet, sb, state, broken, user, lost>>

\* The next track takes the element: the MediaSource is closed, and no event of the SourceBuffer follows.
Close ==
  /\ aborted /\ state # "closed" /\ state' = "closed"
  /\ UNCHANGED <<stream, pc, chunk, held, offsetSet, sb, broken, aborted, user, lost>>

Pipe == \/ Answered \/ Read \/ ReadFails \/ AppendHeld \/ Append \/ Evict \/ AppendAgain
        \/ StreamDone \/ End
Next == Pipe \/ Play \/ Seek \/ Break \/ Leave \/ Close

\* The engine answers and the SourceBuffer works.
Fairness == WF_vars(Pipe)
Spec == Init /\ [][Next]_vars /\ Fairness

------------------------------------------------------------------------------
TypeOK ==
  /\ length \in 1 .. MaxLength /\ first \in 1 .. MaxLength + 1 /\ pc \in Pcs /\ chunk \in 0 .. length
  /\ held \union appended \union lost \subseteq 1 .. chunk /\ buffered \subseteq appended
  /\ state \in {"open", "ended", "error", "closed"} /\ position \in 1 .. length + 1 /\ seeks \in 0 .. MaxSeeks
  /\ {late, offsetSet, offset, broken, aborted} \subseteq BOOLEAN

(* "The shift has to be set before the first append": nothing is played on   *)
(* the stream's own timeline when its start can be read in time.             *)
SoundIsShifted ==
  appended # {} /\ first <= HoldMax /\ first <= length => offset = late

(* The end of the sound, at which MusicKit goes on to the next track, is     *)
(* declared of a pipe that was not left, and when every chunk was appended   *)
(* in its turn or knowingly given up.                                        *)
EndedIsWhole ==
  state = "ended" => appended \union lost = 1 .. length

(* Making room never takes what is still to be played, nor what is within   *)
(* Behind behind the playhead: as long as the user does not seek, it is there.*)
UnplayedIsKept ==
  seeks = 0 => \A c \in appended : c >= position - Behind => c \in buffered

Over == pc = "off" \/ (state = "closed" /\ pc \in {"first", "append", "evict"})

(* The pipe never outlives its video: it ends, unless it waits for an event  *)
(* of a SourceBuffer that is gone.                                           *)
PipeEnds == <>Over
==============================================================================
