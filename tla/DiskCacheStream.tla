--------------------------- MODULE DiskCacheStream ---------------------------
(***************************************************************************)
(* engine/core/diskcache: one cache entry, that is one file name. Puts      *)
(* (downloads) write its temp file and rename it to the entry; readers      *)
(* (range requests, VLC, exports) are served from a writer still at work,   *)
(* wait for bytes it has not written, and share its file descriptor, which  *)
(* the last holder closes. The marker inFlight admits one put at a time.    *)
(*                                                                         *)
(* A step is one operation on a sync.Map, one system call, or one critical  *)
(* section of a writer's mutex. The bytes of the entry are Blocks blocks.   *)
(***************************************************************************)
EXTENDS Integers, FiniteSets

CONSTANTS Puts,         \* BeginStreamingPut and BeginPut calls, one each
          PlainPuts,    \* those that are BeginPut: no reader is ever attached
          Readers,
          AtReaders,    \* those that attach with NewReader or NewReaderAt, not
                        \* with NewReaderIfActive
          Blocks,       \* the length of the complete entry
          MaxCrashes,   \* bound: how often the process is restarted
          None

StreamAssumption == /\ PlainPuts \subseteq Puts
                    /\ AtReaders \subseteq Readers /\ IsFiniteSet(Readers)
                    /\ Blocks \in Nat \ {0}
                    /\ MaxCrashes \in Nat
                    /\ None \notin Puts

VARIABLES
  inFlight,   \* whether the marker of the key is set
  streaming,  \* the registered writer, or None
  tmp, entry, \* the file each path refers to, or None; a file is named after
              \* the put that created it
  blocks,     \* per file, the blocks that were written to it
  at,         \* per put, where it is
  file,       \* per put, the file it has open
  written,    \* sw.written
  done,       \* sw.done
  failed,     \* sw.writeErr # nil, or about to be
  refs,       \* sw.refs
  open,       \* the puts whose descriptor is open
  rd,         \* per reader: where it is, its writer, its position
  aborted,    \* the readers that Abort was called for
  crashes

putVars == <<at, file, written, done, failed>>
vars == <<inFlight, streaming, tmp, entry, blocks, putVars, refs, open, rd, aborted,
          crashes>>

NoReader == [at |-> "idle", sw |-> None, pos |-> 0]

Init == /\ inFlight = FALSE /\ streaming = None /\ tmp = None /\ entry = None
        /\ blocks = [p \in Puts |-> {}]
        /\ at = [p \in Puts |-> "idle"]
        /\ file = [p \in Puts |-> None]
        /\ written = [p \in Puts |-> 0]
        /\ done = [p \in Puts |-> FALSE]
        /\ failed = [p \in Puts |-> FALSE]
        /\ refs = [p \in Puts |-> 0]
        /\ open = {}
        /\ rd = [r \in Readers |-> NoReader]
        /\ aborted = {}
        /\ crashes = 0

Go(p, to) == at' = [at EXCEPT ![p] = to]
ReaderGo(r, to) == rd' = [rd EXCEPT ![r].at = to]
\* cond.Broadcast: every reader of p that waits goes back to its loop test.
Wake(p) == rd' = [r \in Readers |-> IF rd[r].at = "wait" /\ rd[r].sw = p
                                    THEN [rd[r] EXCEPT !.at = "read"] ELSE rd[r]]

DecRef(p) == /\ refs' = [refs EXCEPT ![p] = @ - 1]
             /\ open' = IF refs[p] = 1 THEN open \ {p} ELSE open
-----------------------------------------------------------------------------
(* A put. *)

ClaimAlways(p) ==                                                    \* mutant
  /\ at[p] = "idle"
  /\ inFlight' = TRUE
  /\ Go(p, "open")
  /\ UNCHANGED <<streaming, tmp, entry, blocks, file, written, done, failed, refs, open,
                 rd, aborted, crashes>>
\* inFlight.LoadOrStore; a caller that finds the marker set gives up caching.
Claim(p) ==
  /\ at[p] = "idle" /\ ~inFlight
  /\ inFlight' = TRUE
  /\ Go(p, "open")
  /\ UNCHANGED <<streaming, tmp, entry, blocks, file, written, done, failed, refs, open,
                 rd, aborted, crashes>>

\* O_CREATE|O_TRUNC on the temp path: a new file, or one a crash left, emptied.
OpenTmp(p) ==
  /\ at[p] = "open"
  /\ LET f == IF tmp = None THEN p ELSE tmp IN
     /\ tmp' = f
     /\ file' = [file EXCEPT ![p] = f]
     /\ blocks' = [blocks EXCEPT ![f] = {}]
  /\ refs' = [refs EXCEPT ![p] = 1]
  /\ open' = open \union {p}
  /\ Go(p, IF p \in PlainPuts THEN "write" ELSE "register")
  /\ UNCHANGED <<inFlight, streaming, entry, written, done, failed, rd, aborted, crashes>>

OpenError(p) ==
  /\ at[p] = "open"
  /\ inFlight' = FALSE
  /\ Go(p, "ended")
  /\ UNCHANGED <<streaming, tmp, entry, blocks, file, written, done, failed, refs, open,
                 rd, aborted, crashes>>

Register(p) ==
  /\ at[p] = "register"
  /\ streaming' = p
  /\ Go(p, "write")
  /\ UNCHANGED <<inFlight, tmp, entry, blocks, file, written, done, failed, refs, open,
                 rd, aborted, crashes>>

\* The bytes reach the file first, and are counted after.
WriteFile(p) ==
  /\ at[p] = "write" /\ written[p] < Blocks
  /\ blocks' = [blocks EXCEPT ![file[p]] = @ \union {written[p] + 1}]
  /\ Go(p, "count")
  /\ UNCHANGED <<inFlight, streaming, tmp, entry, file, written, done, failed, refs,
                 open, rd, aborted, crashes>>

Count(p) ==
  /\ at[p] = "count"
  /\ written' = [written EXCEPT ![p] = @ + 1]
  /\ Wake(p)
  /\ Go(p, "write")
  /\ UNCHANGED <<inFlight, streaming, tmp, entry, blocks, file, done, failed, refs,
                 open, aborted, crashes>>

\* Commit begins: the rename succeeds; or it fails because the entry is open and
\* keeps it (Windows); or it fails otherwise. The temp path is gone in each case.
CommitRename(p) ==
  /\ at[p] = "write" /\ written[p] = Blocks
  /\ tmp' = None
  /\ \/ tmp # None /\ entry' = tmp /\ UNCHANGED failed
     \/ entry # None /\ UNCHANGED <<entry, failed>>
     \/ UNCHANGED entry /\ failed' = [failed EXCEPT ![p] = TRUE]
  /\ Go(p, "unclaim")
  /\ UNCHANGED <<inFlight, streaming, blocks, file, written, done, refs, open, rd,
                 aborted, crashes>>

\* Discard begins: the temp file is removed, by name. A download may fail after
\* its last byte. (A BeginPut writer closes its file before Commit's rename and
\* before this; nobody shares that descriptor, so Drop stands for it.)
DiscardRemove(p) ==
  /\ at[p] = "write"
  /\ tmp' = None
  /\ failed' = [failed EXCEPT ![p] = TRUE]
  /\ Go(p, "unclaim")
  /\ UNCHANGED <<inFlight, streaming, entry, blocks, file, written, done, refs, open, rd,
                 aborted, crashes>>

Unclaim(p) ==
  /\ at[p] = "unclaim"
  /\ inFlight' = FALSE
  /\ Go(p, IF p \in PlainPuts THEN "drop" ELSE "unregister")
  /\ UNCHANGED <<streaming, tmp, entry, blocks, file, written, done, failed, refs, open,
                 rd, aborted, crashes>>

\* streaming.Delete(key): whoever is registered under the key.
Unregister(p) ==
  /\ at[p] = "unregister"
  /\ streaming' = None
  /\ Go(p, "mark")
  /\ UNCHANGED <<inFlight, tmp, entry, blocks, file, written, done, failed, refs, open,
                 rd, aborted, crashes>>

MarkSilent(p) ==                                                     \* mutant
  /\ at[p] = "mark"
  /\ done' = [done EXCEPT ![p] = TRUE]
  /\ Go(p, "drop")
  /\ UNCHANGED <<inFlight, streaming, tmp, entry, blocks, file, written, failed, refs,
                 open, rd, aborted, crashes>>
\* done and writeErr are set under the mutex, then the readers are woken.
Mark(p) ==
  /\ at[p] = "mark"
  /\ done' = [done EXCEPT ![p] = TRUE]
  /\ Wake(p)
  /\ Go(p, "drop")
  /\ UNCHANGED <<inFlight, streaming, tmp, entry, blocks, file, written, failed, refs,
                 open, aborted, crashes>>

Drop(p) ==
  /\ at[p] = "drop"
  /\ DecRef(p)
  /\ Go(p, "ended")
  /\ UNCHANGED <<inFlight, streaming, tmp, entry, blocks, file, written, done, failed, rd,
                 aborted, crashes>>
-----------------------------------------------------------------------------
(* A reader. *)

Unchanged == UNCHANGED <<inFlight, streaming, tmp, entry, blocks, putVars, crashes>>

\* GetStreaming; a caller that opened the put itself got it the same way.
GetStreaming(r) ==
  /\ rd[r].at = "idle" /\ streaming # None
  /\ rd' = [rd EXCEPT ![r] = [at |-> "got", sw |-> streaming, pos |-> 0]]
  /\ Unchanged /\ UNCHANGED <<refs, open, aborted>>

NewReaderAt(r) ==
  /\ rd[r].at = "got" /\ r \in AtReaders
  /\ refs' = [refs EXCEPT ![rd[r].sw] = @ + 1]
  /\ \E offset \in 0..Blocks : rd' = [rd EXCEPT ![r].at = "read", ![r].pos = offset]
  /\ Unchanged /\ UNCHANGED <<open, aborted>>

NewReaderIfActive(r) ==
  /\ rd[r].at = "got" /\ r \notin AtReaders
  /\ IF done[rd[r].sw]
     THEN ReaderGo(r, "closed") /\ UNCHANGED refs
     ELSE ReaderGo(r, "read") /\ refs' = [refs EXCEPT ![rd[r].sw] = @ + 1]
  /\ Unchanged /\ UNCHANGED <<open, aborted>>

\* Read, under the mutex: wait, give up, report the end, or go and read the
\* file outside it.
ReadTest(r) ==
  LET sw == rd[r].sw IN
  /\ rd[r].at = "read"
  /\ CASE r \in aborted -> ReaderGo(r, "abort")
       [] r \notin aborted /\ rd[r].pos < written[sw] -> ReaderGo(r, "pread")
       [] r \notin aborted /\ rd[r].pos >= written[sw] /\ done[sw] ->
            ReaderGo(r, IF failed[sw] THEN "error" ELSE "eof")
       [] OTHER -> ReaderGo(r, "wait")
  /\ Unchanged /\ UNCHANGED <<refs, open, aborted>>

\* The descriptor is used by whoever holds a reference, the file it refers to
\* whatever its name is by now.
ReadAt(r) ==
  LET sw == rd[r].sw IN
  /\ rd[r].at = "pread"
  /\ CASE sw \notin open -> ReaderGo(r, "badfd")
       [] sw \in open /\ rd[r].pos + 1 \notin blocks[file[sw]] -> ReaderGo(r, "hole")
       [] OTHER -> rd' = [rd EXCEPT ![r].at = "read", ![r].pos = @ + 1]
  /\ Unchanged /\ UNCHANGED <<refs, open, aborted>>

Abort(r) ==
  /\ rd[r].at \in {"read", "wait", "pread"}
  /\ aborted' = aborted \union {r}
  /\ IF rd[r].at = "wait" THEN ReaderGo(r, "read") ELSE UNCHANGED rd
  /\ Unchanged /\ UNCHANGED <<refs, open>>

Outcome == {"eof", "error", "abort", "badfd", "hole"}

\* Close, after the last Read or when the client is gone.
CloseReader(r) ==
  /\ rd[r].at \in Outcome \union {"read"}
  /\ DecRef(rd[r].sw)
  /\ ReaderGo(r, "closed")
  /\ Unchanged /\ UNCHANGED aborted
-----------------------------------------------------------------------------
\* Clear, Remove, Evict, EvictExpired and an expired Path or Get delete the
\* committed entry whatever goes on; none of them touches a temp file.
RemoveEntry ==
  /\ entry # None
  /\ entry' = None
  /\ UNCHANGED <<inFlight, streaming, tmp, blocks, putVars, refs, open, rd, aborted,
                 crashes>>

\* The process dies and starts again: what is on disk stays.
Crash ==
  /\ crashes < MaxCrashes
  /\ crashes' = crashes + 1
  /\ inFlight' = FALSE /\ streaming' = None /\ open' = {} /\ aborted' = {}
  /\ at' = [p \in Puts |-> IF at[p] = "idle" THEN "idle" ELSE "ended"]
  /\ refs' = [p \in Puts |-> 0]
  /\ rd' = [r \in Readers |-> [rd[r] EXCEPT !.at =
                             IF @ = "idle" THEN "idle" ELSE "closed"]]
  /\ UNCHANGED <<tmp, entry, blocks, file, written, done, failed>>

PutStep(p) == \/ Claim(p) \/ OpenTmp(p) \/ OpenError(p) \/ Register(p)
              \/ WriteFile(p) \/ Count(p) \/ CommitRename(p) \/ DiscardRemove(p)
              \/ Unclaim(p) \/ Unregister(p) \/ Mark(p) \/ Drop(p)

ReadStep(r) == ReadTest(r) \/ ReadAt(r)
ReaderStep(r) == \/ GetStreaming(r) \/ NewReaderAt(r) \/ NewReaderIfActive(r)
                 \/ ReadStep(r) \/ Abort(r) \/ CloseReader(r)

Next == \/ \E p \in Puts : PutStep(p)
        \/ \E r \in Readers : ReaderStep(r)
        \/ RemoveEntry \/ Crash

PutOwed(p) == at[p] # "idle" /\ PutStep(p)

\* A put that began goes on: the download returns data or an error. A Read that
\* is not blocked runs.
Fairness == /\ \A p \in Puts : WF_vars(PutOwed(p))
            /\ \A r \in Readers : WF_vars(ReadStep(r))

Spec == Init /\ [][Next]_vars /\ Fairness
-----------------------------------------------------------------------------
TypeOK ==
  /\ inFlight \in BOOLEAN
  /\ {streaming, tmp, entry} \subseteq Puts \union {None}
  /\ blocks \in [Puts -> SUBSET (1..Blocks)]
  /\ at \in [Puts -> {"idle", "open", "register", "write", "count", "unclaim",
                      "unregister", "mark", "drop", "ended"}]
  /\ file \in [Puts -> Puts \union {None}]
  /\ written \in [Puts -> 0..Blocks]
  /\ done \in [Puts -> BOOLEAN] /\ failed \in [Puts -> BOOLEAN]
  /\ refs \in [Puts -> 0..(Cardinality(Readers) + 1)]
  /\ open \subseteq Puts
  /\ rd \in [Readers -> [at : {"idle", "got", "read", "wait", "pread", "closed"}
                                \union Outcome,
                         sw : Puts \union {None}, pos : 0..Blocks]]
  /\ aborted \subseteq Readers
  /\ crashes \in 0..MaxCrashes

Attached(r) == rd[r].at \in {"read", "wait", "pread"}

\* What is under the entry's final name is always the complete track, whichever
\* puts start, fail, commit or die around it: the marker is released after the
\* rename, so no new put truncates a file that is about to be committed
\* (diskcache.go:184-192, 398-405).
CommittedIsWhole == entry # None => blocks[entry] = 1..Blocks

\* A reader that NewReaderIfActive attached never uses a descriptor that was
\* closed under it, whatever the other readers do: the last holder closes it
\* (diskcache.go:337, 388-393, 492-502).
DescriptorOutlivesReaders ==
  \A r \in Readers \ AtReaders : Attached(r) => rd[r].sw \in open

\* A reader is never handed bytes that were not written (diskcache.go:377-386):
\* a hole would be played as noise.
NoHoleRead == \A r \in Readers : rd[r].at # "hole"

\* The end of the file is reported for a complete track only: the client of a
\* failed download is told (diskcache.go:507-510).
EofMeansWhole ==
  \A r \in Readers : rd[r].at = "eof" =>
    written[rd[r].sw] = Blocks /\ rd[r].pos >= Blocks

\* GetStreaming returns no writer that has finished (diskcache.go:404-408).
RegisteredIsUnfinished == streaming # None => ~done[streaming]

Waits(r) == rd[r].at = "wait"

\* A reader that waits for bytes is woken: by bytes, by the end or by Abort.
WaitersWake == \A r \in Readers : Waits(r) ~> ~Waits(r)

\* diskcache.go:52-55 says that an in-progress streaming put is in the map, so
\* that concurrent requests are served from it, until its Commit or Discard.
InProgressIsRegistered ==
  \A p \in Puts \ PlainPuts : at[p] \in {"write", "count"} => streaming = p

\* diskcache.go:507-510 says that a reader ends with io.EOF after the writer
\* commits and all bytes have been read, and with an error after Discard.
CommittedReadsEnd ==
  \A r \in Readers : rd[r].at = "badfd" => failed[rd[r].sw]
-----------------------------------------------------------------------------
(* Proofs, for any puts and readers, any length of the entry and any number  *)
(* of crashes. That a committed entry is whole rests on the marker, which    *)
(* lets one put at a time touch the temp file; that nobody reads a hole, on  *)
(* the files of open descriptors, which are never truncated; that a          *)
(* descriptor outlives its readers, on refs, which counts exactly those who  *)
(* share it.                                                                 *)

Claimed(p) == at[p] \in {"open", "register", "write", "count", "unclaim"}
Filling(p) == at[p] \in {"register", "write", "count"}
Holding(p) == Filling(p) \/ at[p] \in {"unclaim", "unregister", "mark", "drop"}
Fresh(p)   == at[p] \in {"idle", "open"}
Sharing    == {"read", "wait", "pread"} \union Outcome
Sharers(p) == {r \in Readers : rd[r].at \in Sharing /\ rd[r].sw = p}

OneClaim == /\ \A p \in Puts : Claimed(p) => inFlight = TRUE
            /\ \A p, q \in Puts : Claimed(p) /\ Claimed(q) => p = q

Registered ==
  streaming # None => /\ streaming \notin PlainPuts
                      /\ at[streaming] \in {"write", "count", "unclaim", "unregister"}

Progress ==
  \A p \in Puts :
    /\ at[p] \in {"idle", "open", "register"} => written[p] = 0
    /\ at[p] = "register" => p \notin PlainPuts
    /\ at[p] = "count" => written[p] < Blocks
    /\ done[p] = TRUE => at[p] \in {"drop", "ended"}
    /\ at[p] \in {"unclaim", "unregister", "mark", "drop"} \/ done[p] = TRUE
         => failed[p] = TRUE \/ written[p] = Blocks

\* The put that fills the temp file has written to it what it counted, or one
\* block more.
Filled(p) == IF at[p] = "count" THEN written[p] + 1 ELSE written[p]

Files ==
  /\ tmp # None => ~Fresh(tmp)
  /\ entry # None => ~Fresh(entry) /\ entry # tmp
  /\ \A p \in Puts : file[p] # None => ~Fresh(file[p])
  /\ \A p \in Puts : Filling(p) => file[p] = tmp /\ tmp # None /\ blocks[tmp] = 1..Filled(p)
  /\ \A p \in open : /\ file[p] # None /\ 1..written[p] \subseteq blocks[file[p]]
                     /\ file[p] = tmp => Filling(p)
  /\ CommittedIsWhole

Shared ==
  /\ \A p \in Puts : /\ refs[p] = Cardinality(Sharers(p)) + IF Holding(p) THEN 1 ELSE 0
                     /\ Holding(p) => p \in open
  /\ \A r \in Readers \ AtReaders : rd[r].at \in Sharing => rd[r].sw \in open

Reads ==
  \A r \in Readers :
    /\ rd[r].at # "idle" => rd[r].sw \in Puts
    /\ rd[r].at = "got" \/ rd[r].at \in Sharing
         => /\ rd[r].sw \notin PlainPuts
            /\ done[rd[r].sw] = TRUE \/ at[rd[r].sw] \in {"write", "count", "unclaim", "unregister", "mark"}
    /\ rd[r].at = "pread" => rd[r].pos < written[rd[r].sw]
    /\ rd[r].at # "hole"
    /\ rd[r].at = "eof" => written[rd[r].sw] = Blocks /\ rd[r].pos >= Blocks

\* What the puts and the paths are, apart from the descriptors that are shared.
PutInv == OneClaim /\ Registered /\ Progress /\ Files
IInv == TypeOK /\ PutInv /\ Shared /\ Reads
=============================================================================
