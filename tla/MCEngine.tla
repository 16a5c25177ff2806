---------------------------------- MODULE MCEngine --------------------------
(***************************************************************************)
(* The engine's playback sessions, disk cache and file moves, side by      *)
(* side. They share no state, so a behaviour is of one part, chosen at the *)
(* start. The evictions' module is extended, and has its own variables;    *)
(* for the other parts v1, v2, ... stand for the variables of the part's   *)
(* module, in their order of declaration. At the end, CacheKeepsItsLimit   *)
(* is proved, and what the other modules prove is lifted to the properties *)
(* of this one.                                                            *)
(***************************************************************************)
EXTENDS DiskCacheEviction, FiniteSetTheorems, TLAPS

CONSTANTS Parts,   \* the parts to consider
          None,
          Callers, PrivateCallers, Keys, Ids, MaxOpens, Reaper,            \* sessions
          Puts, PlainPuts, Readers, AtReaders, Blocks, MaxCrashes,         \* stream
          Jobs, FileSystems, Policies, MaxAttempts, MaxBase, MaxUserFiles, \* move
          User, Free,
          Watched   \* the actors and ids whose progress EngineSettles states

VARIABLES part,   \* the part this behaviour is of
          \* its variables, unless it is the evictions
          v1, v2, v3, v4, v5, v6, v7, v8, v9, v10, v11, v12, v13, v14, v15

partVars == <<v1, v2, v3, v4, v5, v6, v7, v8, v9, v10, v11, v12, v13, v14, v15>>
allVars == <<part, vars, partVars>>

\* The variables from the ninth on, which the moves leave at 0.
after8 == <<v9, v10, v11, v12, v13, v14, v15>>
Unused8 == v9 = 0 /\ v10 = 0 /\ v11 = 0 /\ v12 = 0 /\ v13 = 0 /\ v14 = 0 /\ v15 = 0
Unused == v1 = 0 /\ v2 = 0 /\ v3 = 0 /\ v4 = 0 /\ v5 = 0 /\ v6 = 0 /\ v7 = 0 /\ v8 = 0 /\ Unused8

\* The variables of DiskCacheEviction, which the other parts leave at 0.
NoEviction == mtime = 0 /\ clock = 0 /\ evicting = 0 /\ evictAgain = 0 /\ at = 0 /\ victims = 0
-----------------------------------------------------------------------------
Sessions == INSTANCE PlaybackSessions WITH
  contexts <- v1, expired <- v2, index <- v3, keyOf <- v4, inflight <- v5, ended <- v6, at <- v7,
  key <- v8, got <- v9, fl <- v10, released <- v11, batch <- v12, reported <- v13, used <- v14,
  opens <- v15
Stream == INSTANCE DiskCacheStream WITH
  inFlight <- v1, streaming <- v2, tmp <- v3, entry <- v4, blocks <- v5, at <- v6, file <- v7,
  written <- v8, done <- v9, failed <- v10, refs <- v11, open <- v12, rd <- v13, aborted <- v14,
  crashes <- v15
Move == INSTANCE ExportMove WITH
  fs <- v1, policy <- v2, dir <- v3, partial <- v4, at <- v5, base <- v6, attempt <- v7, out <- v8

ASSUME PartsAssumption == /\ Sessions!CallersAssumption /\ Stream!StreamAssumption
                          /\ EvictionAssumption /\ Move!MoveAssumption

\* A name may stand for an actor of each part, but not for two of the same.
ASSUME ActorsAssumption == Puts \intersect Readers = {}
-----------------------------------------------------------------------------
EngineInit ==
  /\ part \in Parts
  /\ \/ part = "sessions" /\ Sessions!Init /\ NoEviction
     \/ part = "stream" /\ Stream!Init /\ NoEviction
     \/ part = "eviction" /\ Init /\ Unused
     \/ part = "move" /\ Move!Init /\ Unused8 /\ NoEviction

SessionsNext == part = "sessions" /\ Sessions!Next /\ UNCHANGED <<part, vars>>
StreamNext == part = "stream" /\ Stream!Next /\ UNCHANGED <<part, vars>>
EvictionNext == part = "eviction" /\ Next /\ UNCHANGED <<part, partVars>>
MoveNext == part = "move" /\ Move!Next /\ UNCHANGED <<part, after8, vars>>

EngineNext == SessionsNext \/ StreamNext \/ EvictionNext \/ MoveNext

(* The actions each part's module states weak fairness of, for the actor x. As a behaviour
   never changes its part, weak fairness of their disjunction is weak fairness of the one of
   its part. *)
Owed(x) ==
  \/ part = "sessions" /\ x \in Callers /\ Sessions!OpenOwed(x) /\ UNCHANGED <<part, vars>>
  \/ part = "stream" /\ x \in Puts /\ Stream!PutOwed(x) /\ UNCHANGED <<part, vars>>
  \/ part = "stream" /\ x \in Readers /\ Stream!ReadStep(x) /\ UNCHANGED <<part, vars>>
  \/ part = "eviction" /\ x \in Evictors /\ EvictStep(x) /\ UNCHANGED <<part, partVars>>
  \/ part = "move" /\ x \in Jobs /\ Move!JobStep(x) /\ UNCHANGED <<part, after8, vars>>
RemovalOwed(a) == part = "sessions" /\ Sessions!RemoveStep(a) /\ UNCHANGED <<part, vars>>

Actors == Callers \union Puts \union Readers \union Evictors \union Jobs

Fairness == /\ \A x \in Actors : WF_allVars(Owed(x))
            /\ \A a \in Callers \union {Reaper} : WF_allVars(RemovalOwed(a))

EngineSpec == EngineInit /\ [][EngineNext]_allVars /\ Fairness
-----------------------------------------------------------------------------
(* The playback index follows the sessions, a removed session is reported once, and a private
   one has one holder (PlaybackSessions). *)
SessionsAgree ==
  part = "sessions" =>
    /\ Sessions!TypeOK
    /\ Sessions!IndexFollowsSessions
    /\ Sessions!HookOnceAfterRemoval
    /\ Sessions!PrivateHasOneHolder

(* What is committed is whole, a descriptor outlives its readers, and no reader reads a hole
   or takes a break for the end (DiskCacheStream). *)
StreamIsWhole ==
  part = "stream" =>
    /\ Stream!TypeOK
    /\ Stream!CommittedIsWhole
    /\ Stream!DescriptorOutlivesReaders
    /\ Stream!NoHoleRead
    /\ Stream!EofMeansWhole
    /\ Stream!RegisteredIsUnfinished

(* One eviction pass at a time, and a cache at rest is within its limit (DiskCacheEviction). *)
CacheKeepsItsLimit ==
  part = "eviction" => (TypeOK /\ OnePassAtATime /\ RestWithinLimit)

(* What a finished move leaves is a file, renamed ones are apart, and no partial file stays
   (ExportMove). *)
MovesAreApart ==
  part = "move" =>
    /\ Move!TypeOK
    /\ Move!OutputIsAFile
    /\ Move!RenamedApart
    /\ Move!NoPartialFileLeft

(* A complete file is replaced only under the policy that says so (ExportMove). *)
CompleteFilesStay == [][part = "move" => Move!FilesStay]_allVars

Busy(x) == \/ part = "sessions" /\ x \in Callers /\ Sessions!Opening(x)
           \/ part = "stream" /\ x \in Readers /\ Stream!Waits(x)
           \/ part = "eviction" /\ x \in Evictors /\ Called(x)
           \/ part = "move" /\ x \in Jobs /\ ~Move!Ended(x)
Settled(x) == /\ part = "sessions" /\ x \in Callers => Sessions!Answered(x)
              /\ part = "stream" /\ x \in Readers => ~Stream!Waits(x)
              /\ part = "eviction" /\ x \in Evictors => Returned(x)
              /\ part = "move" /\ x \in Jobs => Move!Ended(x)

(* Opens return, readers wake, eviction passes return, moves end, and removals are reported. *)
EngineSettles ==
  /\ \A x \in Actors \intersect Watched : Busy(x) ~> Settled(x)
  /\ \A s \in Ids \intersect Watched : part = "sessions" /\ Sessions!Removed(s)
                      ~> (part = "sessions" => Sessions!Reported(s))
-----------------------------------------------------------------------------
(* Proofs, for any finite set of names, any evictors and any limit.         *)
(* OnePassAtATime is inductive with what the flag evicting says of the      *)
(* evictor that holds it. RestWithinLimit needs to know who takes care of   *)
(* an excess: somebody about to scan, a request, or the running pass, whose *)
(* victims then cover it whatever was committed, touched or deleted since.  *)

Passing(e) == at[e] \in {"scan", "remove", "reset"}
VictimNames(e) == {v.name : v \in victims[e]}

FlagIsHeld == /\ evicting <=> \E e \in Evictors : Passing(e)
              /\ \A e \in Evictors : at[e] # "remove" => victims[e] = {}

\* The running pass removes enough.
PassSuffices(e) == at[e] = "remove" /\ Cardinality(Entries \ VictimNames(e)) <= Limit

Covered == \/ Total <= Limit
           \/ evictAgain
           \/ \E e \in Evictors : at[e] \in {"call", "ask", "scan"} \/ PassSuffices(e)

EvictionInv == TypeOK /\ FlagIsHeld /\ OnePassAtATime /\ Covered

\* A nonempty set of entries has an oldest one.
LEMMA OldestExists ==
  ASSUME TypeOK, NEW S \in SUBSET CacheNames, S # {}
  PROVE  \E n \in S : \A m \in S : mtime[n] <= mtime[m]
<1> DEFINE T == {mtime[n] : n \in S}
<1>1. /\ T \subseteq Nat /\ T # {}
      /\ \A n \in S : mtime[n] \in Nat
  BY DEF TypeOK
<1>2. \E x \in T : \A y \in T : ~(<<y, x>> \in OpToRel(<, Nat))
  BY <1>1, NatLessThanWellFounded, WFMin
<1>3. PICK x \in T : \A y \in T : ~(y < x)
  BY <1>1, <1>2 DEF OpToRel
<1>4. PICK n \in S : x = mtime[n]
  OBVIOUS
<1>5. \A m \in S : ~(mtime[m] < mtime[n])
  BY <1>3, <1>4
<1> QED BY <1>1, <1>5

LEMMA EntriesFinite ==
  ASSUME EvictionAssumption, NEW S \in SUBSET Entries
  PROVE  IsFiniteSet(S) /\ Cardinality(S) \in Nat
BY FS_Subset, FS_CardinalityType DEF EvictionAssumption, Entries

\* What a scan picks covers the excess: an entry that is kept has at least
\* that many older ones.
LEMMA OldestCovers ==
  ASSUME EvictionAssumption, TypeOK
  PROVE  Cardinality(Entries \ Oldest(Total - Limit)) <= Limit
<1> DEFINE Kept == Entries \ Oldest(Total - Limit)
<1>1. /\ IsFiniteSet(Entries) /\ Total \in Nat /\ Limit \in Nat
      /\ IsFiniteSet(Kept) /\ Cardinality(Kept) \in Nat
  BY EntriesFinite DEF Total, EvictionAssumption
<1>2. CASE Kept = {}
  BY <1>1, <1>2, FS_EmptySet
<1>3. CASE Kept # {}
  <2>1. PICK n \in Kept : \A m \in Kept : mtime[n] <= mtime[m]
    BY <1>3, OldestExists DEF Entries
  <2> DEFINE Older == {m \in Entries : mtime[m] < mtime[n]}
  <2>2. \A m \in Entries : mtime[m] \in Nat
    BY DEF TypeOK, Entries
  <2>3. Older \subseteq Entries \ Kept
    BY <2>1, <2>2
  <2>4. ~(Cardinality(Older) < Total - Limit)
    BY <2>1 DEF Oldest
  <2>5. Cardinality(Older) \in Nat /\ Cardinality(Older) <= Cardinality(Entries \ Kept)
    <3>1. IsFiniteSet(Entries \ Kept)
      BY EntriesFinite
    <3> QED BY <2>3, <3>1, EntriesFinite, FS_Subset
  <2>6. Cardinality(Entries \ Kept) = Total - Cardinality(Kept)
    <3>1. Entries \intersect Kept = Kept
      OBVIOUS
    <3> QED BY <1>1, <3>1, FS_Difference DEF Total
  <2> QED BY <1>1, <2>4, <2>5, <2>6
<1> QED BY <1>2, <1>3

LEMMA EvictionInit ==
  ASSUME EvictionAssumption
  PROVE  Init => EvictionInv
<1> SUFFICES ASSUME Init PROVE EvictionInv
  OBVIOUS
<1>1. TypeOK
  <2>1. /\ mtime \in [CacheNames -> 0..MaxTime] /\ clock \in 0..MaxTime
        /\ at \in [Evictors -> {"idle", "call", "ask", "scan", "remove", "reset"}]
    BY DEF EvictionAssumption, Init
  <2>2. victims \in [Evictors -> SUBSET [name : CacheNames, time : 1..MaxTime]]
    BY DEF Init
  <2> QED BY <2>1, <2>2 DEF Init, TypeOK
<1>2. \A e \in Evictors : at[e] = "idle" /\ victims[e] = {}
  BY DEF Init
<1>3. FlagIsHeld /\ OnePassAtATime
  BY <1>2 DEF Init, FlagIsHeld, OnePassAtATime, Passing
<1>4. Entries = {}
  BY DEF Init, Entries
<1>5. Covered
  BY <1>4, FS_EmptySet DEF Covered, Total, EvictionAssumption
<1> QED BY <1>1, <1>3, <1>5 DEF EvictionInv

\* Entries that were covered stay so while none is added.
LEMMA FewerEntries ==
  ASSUME EvictionAssumption, Entries' \subseteq Entries
  PROVE  /\ Total <= Limit => Total' <= Limit
         /\ \A e \in Evictors :
              PassSuffices(e) /\ at'[e] = "remove" /\
                Entries' \ VictimNames(e)' \subseteq Entries \ VictimNames(e)
              => PassSuffices(e)'
<1>1. Limit \in Nat
  BY DEF EvictionAssumption
<1>2. ASSUME NEW S \in SUBSET Entries, NEW R \in SUBSET S
      PROVE  Cardinality(S) <= Limit => Cardinality(R) <= Limit
  <2>1. R \subseteq Entries
    OBVIOUS
  <2> QED BY <1>1, <2>1, EntriesFinite, FS_Subset
<1>3. Total <= Limit => Total' <= Limit
  BY <1>2 DEF Total
<1>4. ASSUME NEW e \in Evictors, PassSuffices(e), at'[e] = "remove",
             Entries' \ VictimNames(e)' \subseteq Entries \ VictimNames(e)
      PROVE  PassSuffices(e)'
  BY <1>2, <1>4 DEF PassSuffices
<1> QED BY <1>3, <1>4

LEMMA EvictionTypes ==
  ASSUME EvictionAssumption, EvictionInv, [Next]_vars
  PROVE  TypeOK' /\ FlagIsHeld' /\ OnePassAtATime'
<1> USE DEF EvictionAssumption, EvictionInv, TypeOK, FlagIsHeld, OnePassAtATime, Passing, Go
<1>1. ASSUME NEW n \in CacheNames, NEW e \in Evictors, Commit(n, e)
      PROVE  TypeOK' /\ FlagIsHeld' /\ OnePassAtATime'
  BY <1>1 DEF Commit
<1>2. ASSUME NEW n \in CacheNames, Touch(n) \/ Delete(n)
      PROVE  TypeOK' /\ FlagIsHeld' /\ OnePassAtATime'
  BY <1>2 DEF Touch, Delete
<1>3. ASSUME NEW e \in Evictors, Begin(e)
      PROVE  TypeOK' /\ FlagIsHeld' /\ OnePassAtATime'
  <2>1. CASE evicting
    <3>1. at' = [at EXCEPT ![e] = "ask"] /\ at[e] = "call"
          /\ UNCHANGED <<evicting, mtime, clock, evictAgain, victims>>
      BY <1>3, <2>1 DEF Begin
    <3> QED BY <3>1
  <2>2. CASE ~evicting
    <3>1. at' = [at EXCEPT ![e] = "scan"] /\ at[e] = "call" /\ evicting' = TRUE
          /\ UNCHANGED <<mtime, clock, evictAgain, victims>>
      BY <1>3, <2>2 DEF Begin
    <3>2. \A f \in Evictors : at'[f] # at[f] => f = e
      BY <3>1
    <3>3. TypeOK'
      BY <3>1
    <3>4. FlagIsHeld' /\ OnePassAtATime'
      BY <2>2, <3>1, <3>2
    <3> QED BY <3>3, <3>4
  <2> QED BY <2>1, <2>2
<1>4. ASSUME NEW e \in Evictors, Ask(e)
      PROVE  TypeOK' /\ FlagIsHeld' /\ OnePassAtATime'
  BY <1>4 DEF Ask
<1>5. ASSUME NEW e \in Evictors, Scan(e)
      PROVE  TypeOK' /\ FlagIsHeld' /\ OnePassAtATime'
  <2>1. \A n \in Oldest(Total - Limit) : n \in CacheNames /\ mtime[n] \in 1..MaxTime
    BY DEF Oldest, Entries
  <2>2. {[name |-> n, time |-> mtime[n]] : n \in Oldest(Total - Limit)}
          \in SUBSET [name : CacheNames, time : 1..MaxTime]
    BY <2>1
  <2> QED BY <1>5, <2>2 DEF Scan
<1>6. ASSUME NEW e \in Evictors, RemoveVictim(e)
      PROVE  TypeOK' /\ FlagIsHeld' /\ OnePassAtATime'
  <2>1. PICK v \in victims[e] : /\ victims' = [victims EXCEPT ![e] = @ \ {v}]
                                /\ mtime' = [mtime EXCEPT ![v.name] = 0]
    BY <1>6 DEF RemoveVictim
  <2>2. v.name \in CacheNames /\ at[e] = "remove"
    BY <1>6 DEF RemoveVictim
  <2>3. UNCHANGED <<clock, evicting, evictAgain, at>>
    BY <1>6 DEF RemoveVictim
  <2>4. mtime' \in [CacheNames -> 0..MaxTime]
    BY <2>1, <2>2
  <2>5. victims' \in [Evictors -> SUBSET [name : CacheNames, time : 1..MaxTime]]
    BY <2>1
  <2> QED BY <2>1, <2>2, <2>3, <2>4, <2>5
<1>7. ASSUME NEW e \in Evictors, PassEnd(e)
      PROVE  TypeOK' /\ FlagIsHeld' /\ OnePassAtATime'
  BY <1>7 DEF PassEnd
<1>8. ASSUME NEW e \in Evictors, Reset(e)
      PROVE  TypeOK' /\ FlagIsHeld' /\ OnePassAtATime'
  BY <1>8 DEF Reset
<1>9. CASE UNCHANGED vars
  BY <1>9 DEF vars
<1> QED BY <1>1, <1>2, <1>3, <1>4, <1>5, <1>6, <1>7, <1>8, <1>9 DEF Next, EvictStep

LEMMA EvictionCovers ==
  ASSUME EvictionAssumption, EvictionInv, [Next]_vars
  PROVE  Covered'
<1> USE DEF Go
<1>0. TypeOK /\ FlagIsHeld /\ OnePassAtATime /\ Covered
  BY DEF EvictionInv
<1>1. ASSUME NEW n \in CacheNames, NEW e \in Evictors, Commit(n, e)
      PROVE  Covered'
  BY <1>0, <1>1 DEF Commit, Covered, TypeOK
<1>2. ASSUME NEW n \in CacheNames, Touch(n) \/ Delete(n)
      PROVE  Covered'
  <2>1. Entries' \subseteq Entries
    BY <1>0, <1>2 DEF Touch, Delete, Entries, TypeOK
  <2>2. \A e \in Evictors : at'[e] = at[e] /\ VictimNames(e)' = VictimNames(e)
    BY <1>2 DEF Touch, Delete, VictimNames
  <2>3. evictAgain' = evictAgain
    BY <1>2 DEF Touch, Delete
  <2> QED BY <1>0, <2>1, <2>2, <2>3, FewerEntries DEF Covered, PassSuffices
<1>3. ASSUME NEW e \in Evictors, Begin(e) \/ Ask(e) \/ Reset(e)
      PROVE  Covered'
  <2>1. Entries' = Entries
    BY <1>3 DEF Begin, Ask, Reset, Entries
  <2>2. \A f \in Evictors : /\ VictimNames(f)' = VictimNames(f)
                            /\ PassSuffices(f) => at'[f] = "remove"
    BY <1>0, <1>3 DEF Begin, Ask, Reset, VictimNames, PassSuffices, TypeOK
  <2>3. \/ evictAgain' = TRUE
        \/ \E f \in Evictors : at'[f] \in {"ask", "scan"}
        \/ /\ evictAgain' = evictAgain
           /\ \A f \in Evictors : at[f] \in {"call", "ask", "scan"} => at'[f] = at[f]
    BY <1>0, <1>3 DEF Begin, Ask, Reset, TypeOK
  <2> QED BY <1>0, <2>1, <2>2, <2>3, FewerEntries DEF Covered
<1>4. ASSUME NEW e \in Evictors, Scan(e)
      PROVE  Covered'
  <2>1. /\ victims'[e] = {[name |-> n, time |-> mtime[n]] : n \in Oldest(Total - Limit)}
        /\ Entries' = Entries /\ at'[e] = "remove"
    BY <1>0, <1>4 DEF Scan, Entries, TypeOK
  <2>2. VictimNames(e)' = {v.name : v \in victims'[e]}
    BY DEF VictimNames
  <2>3. \A n : n \in {v.name : v \in victims'[e]} <=> n \in Oldest(Total - Limit)
    <3>1. \A n \in Oldest(Total - Limit) :
            /\ [name |-> n, time |-> mtime[n]] \in victims'[e]
            /\ [name |-> n, time |-> mtime[n]].name = n
      BY <2>1
    <3>2. \A v \in victims'[e] : v.name \in Oldest(Total - Limit)
      BY <2>1
    <3> QED BY <3>1, <3>2
  <2> QED BY <1>0, <2>1, <2>2, <2>3, OldestCovers DEF Covered, PassSuffices
<1>5. ASSUME NEW e \in Evictors, RemoveVictim(e)
      PROVE  Covered'
  <2>1. PICK v \in victims[e] : /\ victims' = [victims EXCEPT ![e] = @ \ {v}]
                                /\ mtime' = [mtime EXCEPT ![v.name] = 0]
    BY <1>5 DEF RemoveVictim
  <2>2. v.name \in CacheNames
    BY <1>0 DEF TypeOK
  <2>3. Entries' = Entries \ {v.name}
    BY <1>0, <2>1, <2>2 DEF Entries, TypeOK
  <2>4. \A f \in Evictors : VictimNames(f) \subseteq VictimNames(f)' \union {v.name}
    BY <1>0, <2>1 DEF VictimNames, TypeOK
  <2>5. UNCHANGED <<at, evictAgain>>
    BY <1>5 DEF RemoveVictim
  <2> QED BY <1>0, <2>3, <2>4, <2>5, FewerEntries DEF Covered, PassSuffices
<1>6. ASSUME NEW e \in Evictors, PassEnd(e)
      PROVE  Covered'
  <2>1. /\ at[e] = "remove" /\ VictimNames(e) = {} /\ Entries' = Entries
        /\ at'[e] = IF evictAgain THEN "scan" ELSE "reset"
        /\ \A f \in Evictors : f # e => at'[f] = at[f]
    BY <1>0, <1>6 DEF PassEnd, VictimNames, Entries, TypeOK
  <2>2. \A f \in Evictors : PassSuffices(f) => Total <= Limit
    <3>1. Entries \ {} = Entries
      OBVIOUS
    <3>2. \A f \in Evictors : PassSuffices(f) => f = e
      BY <1>0, <2>1 DEF PassSuffices, OnePassAtATime
    <3> QED BY <2>1, <3>1, <3>2 DEF PassSuffices, Total
  <2>3. Total' = Total
    BY <2>1 DEF Total
  <2> QED BY <1>0, <2>1, <2>2, <2>3 DEF Covered
<1>7. CASE UNCHANGED vars
  BY <1>0, <1>7 DEF vars, Covered, PassSuffices, VictimNames, Total, Entries
<1> QED BY <1>1, <1>2, <1>3, <1>4, <1>5, <1>6, <1>7 DEF Next, EvictStep

LEMMA EvictionPreserves ==
  ASSUME EvictionAssumption
  PROVE  EvictionInv /\ [Next]_vars => EvictionInv'
BY EvictionTypes, EvictionCovers DEF EvictionInv

\* Whoever is at rest covers nothing, so the limit holds by itself.
LEMMA EvictionConsequences ==
  ASSUME EvictionInv
  PROVE  TypeOK /\ OnePassAtATime /\ RestWithinLimit
BY DEF EvictionInv, Covered, PassSuffices, RestWithinLimit, AtRest
-----------------------------------------------------------------------------
(* The moves: for any jobs and any policies, either file system, and any bounds on attempts *)
(* and names, Move!IInv is inductive.                                                        *)

LEMMA MoveNameTypes ==
  ASSUME Move!MoveAssumption, Move!TypeOK, NEW j \in Jobs
  PROVE  /\ <<0, 0>> \in Move!Names /\ Move!Final(j) \in Move!Names /\ Move!Dest(j) \in Move!Names
         /\ v7[j] = 0 => Move!Final(j) = Move!Dest(j)
<1>1. /\ MaxAttempts \in Nat \ {0} /\ MaxBase \in Nat /\ MaxBase >= MaxAttempts
      /\ v6[j] \in 0..MaxBase /\ v7[j] \in 0..(MaxAttempts - 1)
  BY DEF Move!MoveAssumption, Move!TypeOK
<1>2. \A b \in 0..MaxBase, i \in 0..(MaxAttempts - 1) : Move!NameOf(b, i) \in Move!Names
  BY <1>1 DEF Move!NameOf, Move!Names
<1>3. 0 \in 0..MaxBase /\ 0 \in 0..(MaxAttempts - 1)
  BY <1>1
<1> QED BY <1>1, <1>2, <1>3 DEF Move!NameOf, Move!Names, Move!Final, Move!Dest

LEMMA MoveInitEstablishes ==
  ASSUME Move!MoveAssumption
  PROVE  Move!Init => Move!IInv
<1> SUFFICES ASSUME Move!Init PROVE Move!IInv
  OBVIOUS
<1>1. Move!TypeOK
  <2>1. <<0, 0>> \in Move!Names /\ 0 \in 0..MaxBase /\ 0 \in 0..(MaxAttempts - 1)
    BY DEF Move!MoveAssumption, Move!Names
  <2> QED BY <2>1 DEF Move!MoveAssumption, Move!Init, Move!TypeOK
<1>2. \A j \in Jobs : v5[j] = "check" /\ v7[j] = 0
  BY DEF Move!Init
<1> QED BY <1>1, <1>2 DEF Move!Init, Move!IInv, Move!HeldApart, Move!OwnHeld,
      Move!CopiesArePartial, Move!AtomicStays,
                          Move!SkipFirst, Move!Holder, Move!Copying

LEMMA MoveStepTypes ==
  ASSUME Move!MoveAssumption, Move!IInv, [Move!Next]_(Move!vars)
  PROVE  Move!TypeOK'
<1> USE DEF Move!MoveAssumption, Move!IInv, Move!TypeOK, Move!Go, Move!Publish
<1>1. ASSUME NEW j \in Jobs, Move!overwritePath(j)
      PROVE  Move!TypeOK'
  BY <1>1, MoveNameTypes DEF Move!overwritePath
<1>2. ASSUME NEW j \in Jobs, Move!moveFile(j)
      PROVE  Move!TypeOK'
  BY <1>2, MoveNameTypes DEF Move!moveFile
<1>3. ASSUME NEW j \in Jobs, Move!Claim(j)
      PROVE  Move!TypeOK'
  BY <1>3, MoveNameTypes DEF Move!Claim
<1>4. ASSUME NEW j \in Jobs, Move!Taken(j) \/ Move!MoveError(j)
      PROVE  Move!TypeOK'
  BY <1>4, MoveNameTypes DEF Move!Taken, Move!MoveError
<1>5. ASSUME NEW j \in Jobs, Move!CopyDone(j) \/ Move!CopyFailed(j)
      PROVE  Move!TypeOK'
  BY <1>5, MoveNameTypes DEF Move!CopyDone, Move!CopyFailed
<1>6. ASSUME NEW n \in Move!Names, Move!UserCreates(n)
      PROVE  Move!TypeOK'
  BY <1>6 DEF Move!UserCreates
<1>7. CASE UNCHANGED Move!vars
  BY <1>7 DEF Move!vars
<1> QED BY <1>1, <1>2, <1>3, <1>4, <1>5, <1>6, <1>7 DEF Move!Next, Move!JobStep

LEMMA MoveOthersHold ==
  ASSUME NEW j \in Jobs, Move!Others(j), UNCHANGED v2
  PROVE  \A k \in Jobs : k # j => /\ Move!Copying(k)' <=> Move!Copying(k)
                                  /\ Move!Holder(k)' <=> Move!Holder(k)
                                  /\ Move!Held(k)' = Move!Held(k)
BY DEF Move!Others, Move!Holder, Move!Held, Move!Copying, Move!Dest

LEMMA MoveStepHolds ==
  ASSUME Move!MoveAssumption, Move!IInv, [Move!Next]_(Move!vars)
  PROVE  Move!HeldApart' /\ Move!OwnHeld' /\ Move!CopiesArePartial' /\ Move!AtomicStays' /\
           Move!SkipFirst'
<1> DEFINE Goal == Move!HeldApart /\ Move!OwnHeld /\ Move!CopiesArePartial /\ Move!AtomicStays /\
             Move!SkipFirst
<1>0. /\ Move!TypeOK /\ Move!HeldApart /\ Move!OwnHeld /\ Move!CopiesArePartial /\
           Move!AtomicStays /\ Move!SkipFirst
      /\ User \notin Jobs /\ Free \notin Jobs /\ User # Free
      /\ \A j \in Jobs : Move!Held(j) \in Move!Names /\ Move!Dest(j) \in Move!Names /\
           Move!Final(j) \in Move!Names
      /\ <<0, 0>> \in Move!Names
      /\ \A j \in Jobs : v7[j] = 0 => Move!Final(j) = Move!Dest(j)
  <2>1. \A j \in Jobs : Move!Dest(j) \in Move!Names /\ Move!Final(j) \in Move!Names
    BY MoveNameTypes DEF Move!IInv
  <2>2. \A j \in Jobs : v8[j] \in Move!Names
    BY DEF Move!IInv, Move!TypeOK
  <2>3. \A j \in Jobs : Move!Held(j) \in Move!Names
    BY <2>1, <2>2 DEF Move!Held
  <2>4. <<0, 0>> \in Move!Names
    BY DEF Move!Names, Move!MoveAssumption
  <2> QED BY <2>1, <2>3, <2>4, MoveNameTypes DEF Move!IInv, Move!MoveAssumption
\* Steps after which j is no holder and every name that existed does.
<1>1. ASSUME NEW j \in Jobs, Move!Others(j), ~Move!Holder(j), ~Move!Holder(j)', ~Move!Copying(j)',
             \A n \in Move!Names : Move!Exists(n) => Move!Exists(n)',
             (\A k \in Jobs : v2[k] # "overwrite") => UNCHANGED v3,
             UNCHANGED <<v1, v2, v4>>
      PROVE  Move!HeldApart' /\ Move!OwnHeld' /\ Move!CopiesArePartial'
  <2>1. ~Move!Copying(j)
    BY <1>1 DEF Move!Holder
  <2>2. \A k \in Jobs : Move!Holder(k)' => k # j /\ Move!Holder(k) /\ Move!Held(k)' = Move!Held(k)
    BY <1>1, MoveOthersHold
  <2>3. Move!HeldApart'
    BY <1>0, <1>1, <2>2 DEF Move!HeldApart
  <2>4. Move!OwnHeld'
    BY <1>0, <1>1, <2>2 DEF Move!OwnHeld
  <2>5. Move!CopiesArePartial'
    BY <1>0, <1>1, <2>1, MoveOthersHold DEF Move!CopiesArePartial
  <2> QED BY <2>3, <2>4, <2>5
<1>2. ASSUME NEW j \in Jobs, Move!overwritePath(j) \/ Move!Taken(j) \/ Move!MoveError(j)
      PROVE  Goal'
  <2>1. /\ Move!Others(j) /\ UNCHANGED <<v1, v2, v4, v3>>
        /\ v5[j] \in {"check", "move"} /\ v5'[j] \in {"move", "done", "failed"}
        /\ v5'[j] = "done" => v2[j] = "skip" /\ Move!Exists(v8'[j])
        /\ v7'[j] # v7[j] => v2[j] = "rename"
    BY <1>0, <1>2 DEF Move!overwritePath, Move!Taken, Move!MoveError, Move!Moving, Move!Go,
       Move!Publish, Move!Others, Move!TypeOK, Move!SkipFirst
  <2>2. ~Move!Holder(j) /\ ~Move!Holder(j)' /\ ~Move!Copying(j)'
    BY <2>1 DEF Move!Holder, Move!Copying
  <2>3. \A n \in Move!Names : Move!Exists(n) => Move!Exists(n)'
    BY <2>1 DEF Move!Exists
  <2>4. Move!HeldApart' /\ Move!OwnHeld' /\ Move!CopiesArePartial'
    BY <1>1, <2>1, <2>2, <2>3
  <2>5. Move!AtomicStays' /\ Move!SkipFirst'
    BY <1>0, <2>1 DEF Move!AtomicStays, Move!SkipFirst, Move!Others, Move!Exists
  <2> QED BY <2>4, <2>5
<1>3. ASSUME NEW j \in Jobs, Move!moveFile(j)
      PROVE  Goal'
  <2>1. /\ Move!Others(j) /\ UNCHANGED <<v1, v2, v4, v7>>
        /\ v5[j] = "move" /\ v2[j] = "overwrite"
        /\ \/ /\ v3' = [v3 EXCEPT ![Move!Final(j)] = j]
              /\ v5'[j] = "done" /\ v8'[j] = Move!Final(j)
           \/ v3' = v3 /\ v5'[j] = "failed"
    BY <1>0, <1>3 DEF Move!moveFile, Move!Go, Move!Publish, Move!Others, Move!TypeOK
  <2>2. ~Move!Holder(j) /\ ~Move!Holder(j)' /\ ~Move!Copying(j)'
    BY <2>1 DEF Move!Holder, Move!Copying
  <2>3. \A n \in Move!Names : Move!Exists(n) => Move!Exists(n)'
    BY <1>0, <2>1 DEF Move!Exists, Move!TypeOK
  <2>4. Move!HeldApart' /\ Move!OwnHeld' /\ Move!CopiesArePartial'
    BY <1>1, <2>1, <2>2, <2>3
  <2>5. v5'[j] = "done" => Move!Exists(v8[j])'
    BY <1>0, <2>1 DEF Move!Exists, Move!TypeOK
  <2>6. Move!AtomicStays' /\ Move!SkipFirst'
    BY <1>0, <2>1, <2>3, <2>5 DEF Move!AtomicStays, Move!SkipFirst, Move!Others, Move!TypeOK
  <2> QED BY <2>4, <2>6
<1>4. ASSUME NEW j \in Jobs, Move!Claim(j)
      PROVE  Goal'
  <2>1. /\ Move!Others(j) /\ UNCHANGED <<v1, v2, v6, v7>>
        /\ v5[j] = "move" /\ v2[j] # "overwrite" /\ ~Move!Exists(Move!Dest(j))
        /\ v3' = [v3 EXCEPT ![Move!Dest(j)] = j]
        /\ \/ v1 = "copy" /\ v4' = v4 \union {j} /\ v5'[j] = "copy"
           \/ v1 # "copy" /\ v4' = v4 /\ v5'[j] = "done" /\ v8'[j] = Move!Dest(j)
    BY <1>0, <1>4 DEF Move!Claim, Move!Moving, Move!Go, Move!Publish, Move!Others, Move!TypeOK
  <2>2. ~Move!Holder(j) /\ ~Move!Copying(j) /\ Move!Held(j)' = Move!Dest(j)
    BY <2>1 DEF Move!Holder, Move!Copying, Move!Held, Move!Dest
  <2>3. /\ v3'[Move!Dest(j)] = j /\ Move!Dest(j)' = Move!Dest(j) /\ j # Free
        /\ \A n \in Move!Names : Move!Exists(n) => Move!Exists(n)' /\ v3'[n] = v3[n]
    BY <1>0, <2>1 DEF Move!Exists, Move!TypeOK, Move!Dest
  <2>4. \A k \in Jobs : k # j /\ Move!Holder(k)' =>
          Move!Holder(k) /\ Move!Held(k)' = Move!Held(k) /\ Move!Exists(Move!Held(k)) /\
            Move!Held(k) # Move!Dest(j)
    BY <1>0, <2>1, MoveOthersHold DEF Move!HeldApart
  <2>5. Move!HeldApart'
    <3>1. \A k \in Jobs : Move!Holder(k)' => v3'[Move!Held(k)'] # Free
      BY <1>0, <2>2, <2>3, <2>4 DEF Move!Exists
    <3>2. \A k, l \in Jobs : Move!Holder(k)' /\ Move!Holder(l)' /\ k # l =>
            Move!Held(k)' # Move!Held(l)'
      BY <1>0, <2>2, <2>4 DEF Move!HeldApart
    <3> QED BY <3>1, <3>2 DEF Move!HeldApart, Move!Exists
  <2>6. Move!OwnHeld'
    BY <1>0, <2>1, <2>2, <2>3, <2>4 DEF Move!OwnHeld
  <2>7. Move!CopiesArePartial'
    BY <1>0, <2>1, <2>2, MoveOthersHold DEF Move!CopiesArePartial, Move!Copying
  <2>8. Move!AtomicStays' /\ Move!SkipFirst'
    BY <1>0, <2>1, <2>3 DEF Move!AtomicStays, Move!SkipFirst, Move!Others, Move!TypeOK, Move!Exists
  <2> QED BY <2>5, <2>6, <2>7, <2>8
<1>5. ASSUME NEW j \in Jobs, Move!CopyDone(j)
      PROVE  Goal'
  <2>1. /\ Move!Others(j) /\ UNCHANGED <<v1, v2, v3, v6, v7>>
        /\ v5[j] = "copy" /\ v5'[j] = "done" /\ v8'[j] = Move!Dest(j)
        /\ v4' = v4 \ {j}
    BY <1>0, <1>5 DEF Move!CopyDone, Move!Go, Move!Publish, Move!Others, Move!TypeOK
  <2>2. Move!Copying(j) /\ Move!Holder(j) /\ Move!Held(j)' = Move!Held(j) /\ ~Move!Copying(j)' /\
          v1 # "atomic"
    BY <1>0, <2>1 DEF Move!Copying, Move!Holder, Move!Held, Move!Dest, Move!CopiesArePartial
  <2>3. \A k \in Jobs : Move!Holder(k)' => Move!Holder(k) /\ Move!Held(k)' = Move!Held(k)
    BY <2>1, <2>2, MoveOthersHold
  <2>4. Move!HeldApart'
    BY <1>0, <2>1, <2>3 DEF Move!HeldApart, Move!Exists
  <2>5. Move!OwnHeld'
    BY <1>0, <2>1, <2>3 DEF Move!OwnHeld
  <2>6. Move!CopiesArePartial'
    BY <1>0, <2>1, <2>2, MoveOthersHold DEF Move!CopiesArePartial
  <2>7. Move!AtomicStays' /\ Move!SkipFirst'
    BY <1>0, <2>1, <2>2 DEF Move!AtomicStays, Move!SkipFirst
  <2> QED BY <2>4, <2>5, <2>6, <2>7
<1>6. ASSUME NEW j \in Jobs, Move!CopyFailed(j)
      PROVE  Goal'
  <2>1. /\ Move!Others(j) /\ UNCHANGED <<v1, v2, v6, v7>>
        /\ v5[j] = "copy" /\ v5'[j] = "failed" /\ v8' = v8
        /\ v4' = v4 \ {j} /\ v3' = [v3 EXCEPT ![Move!Dest(j)] = Free]
    BY <1>0, <1>6 DEF Move!CopyFailed, Move!Go, Move!Others, Move!TypeOK
  <2>2. /\ Move!Copying(j) /\ Move!Holder(j) /\ Move!Held(j) = Move!Dest(j)
        /\ ~Move!Copying(j)' /\ ~Move!Holder(j)' /\ v1 # "atomic"
    BY <1>0, <2>1 DEF Move!Copying, Move!Holder, Move!Held, Move!CopiesArePartial
  <2>3. \A k \in Jobs : Move!Holder(k)' =>
          k # j /\ Move!Holder(k) /\ Move!Held(k)' = Move!Held(k) /\ Move!Exists(Move!Held(k)) /\
            Move!Held(k) # Move!Dest(j)
    BY <1>0, <2>1, <2>2, MoveOthersHold DEF Move!HeldApart
  <2>4. \A n \in Move!Names : n # Move!Dest(j) => v3'[n] = v3[n]
    BY <1>0, <2>1 DEF Move!TypeOK
  <2>5. Move!HeldApart'
    BY <1>0, <2>3, <2>4 DEF Move!HeldApart, Move!Exists
  <2>6. Move!OwnHeld'
    BY <1>0, <2>1, <2>3, <2>4 DEF Move!OwnHeld
  <2>7. Move!CopiesArePartial'
    BY <1>0, <2>1, <2>2, MoveOthersHold DEF Move!CopiesArePartial
  <2>8. Move!AtomicStays' /\ Move!SkipFirst'
    BY <1>0, <2>1, <2>2 DEF Move!AtomicStays, Move!SkipFirst
  <2> QED BY <2>5, <2>6, <2>7, <2>8
<1>7. ASSUME NEW n \in Move!Names, Move!UserCreates(n)
      PROVE  Goal'
  <2>1. /\ ~Move!Exists(n) /\ v3' = [v3 EXCEPT ![n] = User]
        /\ UNCHANGED <<v1, v2, v4, v5, v6, v7, v8>>
    BY <1>7 DEF Move!UserCreates
  <2>2. \A m \in Move!Names : Move!Exists(m) => Move!Exists(m)' /\ v3'[m] = v3[m]
    BY <1>0, <2>1 DEF Move!Exists, Move!TypeOK
  <2>3. \A k \in Jobs : /\ Move!Copying(k)' <=> Move!Copying(k)
                        /\ Move!Holder(k)' <=> Move!Holder(k)
                        /\ Move!Held(k)' = Move!Held(k)
    BY <2>1 DEF Move!Copying, Move!Holder, Move!Held, Move!Dest
  <2>4. Move!HeldApart' /\ Move!OwnHeld'
    BY <1>0, <2>1, <2>2, <2>3 DEF Move!HeldApart, Move!OwnHeld
  <2>5. Move!CopiesArePartial' /\ Move!AtomicStays' /\ Move!SkipFirst'
    BY <1>0, <2>1, <2>2, <2>3 DEF Move!CopiesArePartial, Move!AtomicStays, Move!SkipFirst,
       Move!TypeOK
  <2> QED BY <2>4, <2>5
<1>8. CASE UNCHANGED Move!vars
  BY <1>0, <1>8 DEF Move!vars, Move!HeldApart, Move!OwnHeld, Move!CopiesArePartial,
     Move!AtomicStays, Move!SkipFirst, Move!Held,
                   Move!Holder, Move!Copying, Move!Dest, Move!Exists
<1> QED BY <1>2, <1>3, <1>4, <1>5, <1>6, <1>7, <1>8 DEF Move!Next, Move!JobStep

LEMMA MoveStepPreserves ==
  ASSUME Move!MoveAssumption
  PROVE  Move!IInv /\ [Move!Next]_(Move!vars) => Move!IInv'
BY MoveStepTypes, MoveStepHolds DEF Move!IInv

LEMMA MoveConsequences ==
  ASSUME Move!MoveAssumption, Move!IInv
  PROVE  Move!TypeOK /\ Move!OutputIsAFile /\ Move!RenamedApart /\ Move!NoPartialFileLeft
<1>1. Move!OutputIsAFile
  <2> SUFFICES ASSUME Move!ClaimsAreFiles, NEW j \in Jobs, v5[j] = "done"
               PROVE  Move!Exists(v8[j]) /\ v3[v8[j]] \notin v4
    BY DEF Move!OutputIsAFile
  <2>1. CASE v1 = "atomic"
    BY <2>1 DEF Move!IInv, Move!AtomicStays, Move!CopiesArePartial
  <2>2. CASE \A k \in Jobs : v2[k] = "rename"
    <3>1. Move!Holder(j) /\ Move!Held(j) = v8[j] /\ ~Move!Copying(j)
      BY <2>2 DEF Move!Holder, Move!Held, Move!Copying
    <3>2. v3[v8[j]] = j /\ Move!Exists(v8[j])
      BY <2>2, <3>1 DEF Move!IInv, Move!OwnHeld, Move!HeldApart
    <3> QED BY <3>1, <3>2 DEF Move!IInv, Move!CopiesArePartial
  <2> QED BY <2>1, <2>2 DEF Move!ClaimsAreFiles
<1>2. Move!RenamedApart
  <2> SUFFICES ASSUME NEW j \in Jobs, NEW k \in Jobs, v5[j] = "done", v5[k] = "done", j # k,
                      v2[j] = "rename", v2[k] = "rename"
               PROVE  v8[j] # v8[k]
    BY DEF Move!RenamedApart
  <2>1. Move!Holder(j) /\ Move!Holder(k) /\ Move!Held(j) = v8[j] /\ Move!Held(k) = v8[k]
    BY DEF Move!Holder, Move!Held, Move!Copying
  <2> QED BY <2>1 DEF Move!IInv, Move!HeldApart
<1>3. Move!NoPartialFileLeft
  BY DEF Move!NoPartialFileLeft, Move!IInv, Move!CopiesArePartial, Move!Copying
<1> QED BY <1>1, <1>2, <1>3 DEF Move!IInv

LEMMA MoveStepKeepsFiles ==
  ASSUME Move!MoveAssumption, Move!IInv, [Move!Next]_(Move!vars)
  PROVE  Move!FilesStay
<1> SUFFICES ASSUME v1 = "atomic" \/ (\A j \in Jobs : v2[j] # "overwrite"), NEW n \in Move!Names,
                    v3[n] \in Jobs \union {User}, v3[n] \notin v4, v3'[n] # v3[n]
             PROVE  \E j \in Jobs : v2[j] = "overwrite" /\ v3'[n] = j
  BY DEF Move!FilesStay, Move!CompleteFileKept
<1> USE DEF Move!IInv, Move!TypeOK, Move!MoveAssumption
<1>1. Move!Exists(n)
  BY DEF Move!Exists
<1>2. ASSUME NEW j \in Jobs, Move!moveFile(j)
      PROVE  v2[j] = "overwrite" /\ v3'[n] = j
  BY <1>2 DEF Move!moveFile
<1>3. ASSUME NEW j \in Jobs, Move!Claim(j)
      PROVE  FALSE
  BY <1>1, <1>3 DEF Move!Claim, Move!Exists
<1>4. ASSUME NEW j \in Jobs, Move!CopyFailed(j)
      PROVE  FALSE
  <2>1. Move!Copying(j) /\ j \in v4 /\ v3' = [v3 EXCEPT ![Move!Dest(j)] = Free]
    BY <1>4 DEF Move!CopyFailed, Move!Copying, Move!CopiesArePartial
  <2>2. Move!Holder(j) /\ Move!Held(j) = Move!Dest(j) /\ v1 # "atomic"
    BY <2>1 DEF Move!Holder, Move!Held, Move!CopiesArePartial
  <2>3. v3[Move!Dest(j)] = j
    BY <2>2 DEF Move!OwnHeld
  <2>4. n = Move!Dest(j)
    BY <2>1
  <2> QED BY <2>1, <2>3, <2>4
<1>5. ASSUME NEW m \in Move!Names, Move!UserCreates(m)
      PROVE  FALSE
  BY <1>1, <1>5 DEF Move!UserCreates, Move!Exists
<1>6. ASSUME NEW j \in Jobs, Move!overwritePath(j) \/ Move!Taken(j) \/ Move!MoveError(j) \/
             Move!CopyDone(j)
      PROVE  FALSE
  BY <1>6 DEF Move!overwritePath, Move!Taken, Move!MoveError, Move!CopyDone
<1>7. CASE UNCHANGED Move!vars
  BY <1>7 DEF Move!vars
<1> QED BY <1>2, <1>3, <1>4, <1>5, <1>6, <1>7 DEF Move!Next, Move!JobStep
-----------------------------------------------------------------------------
(* The stream: whatever the puts, the readers, the length of the entry and the crashes,     *)
(* Stream!IInv is inductive.                                                                *)

\* The stream counts with its own instance of the library's module: the two agree.
LEMMA StreamSameCardinality ==
  ASSUME NEW S
  PROVE  /\ Stream!IsFiniteSet(S) <=> IsFiniteSet(S)
         /\ Stream!Cardinality(S) = Cardinality(S)
<1>1. Stream!IsFiniteSet(S) <=> IsFiniteSet(S)
  BY DEF Stream!IsFiniteSet, IsFiniteSet
<1> QED BY <1>1 DEF Stream!Cardinality, Cardinality

\* The library's facts, for the stream's counts.
LEMMA StreamCardinalityType ==
  ASSUME NEW S, Stream!IsFiniteSet(S)
  PROVE  Stream!Cardinality(S) \in Nat
BY FS_CardinalityType, StreamSameCardinality

LEMMA StreamEmptySet ==
  /\ Stream!IsFiniteSet({})
  /\ Stream!Cardinality({}) = 0
  /\ \A S : Stream!IsFiniteSet(S) => (Stream!Cardinality(S) = 0 <=> S = {})
BY FS_EmptySet, StreamSameCardinality

LEMMA StreamSingleton ==
  ASSUME NEW S, Stream!IsFiniteSet(S)
  PROVE  Stream!Cardinality(S) = 1 <=> \E x : S = {x}
BY FS_Singleton, StreamSameCardinality

LEMMA StreamSubset ==
  ASSUME NEW S, Stream!IsFiniteSet(S), NEW T \in SUBSET S
  PROVE  /\ Stream!IsFiniteSet(T)
         /\ Stream!Cardinality(T) <= Stream!Cardinality(S)
<1>1. IsFiniteSet(S)
  BY StreamSameCardinality
<1>2. IsFiniteSet(T) /\ Cardinality(T) <= Cardinality(S)
  BY <1>1, FS_Subset
<1> QED BY <1>2, StreamSameCardinality

LEMMA StreamAddElement ==
  ASSUME NEW S, NEW x, Stream!IsFiniteSet(S)
  PROVE  Stream!Cardinality(S \union {x}) =
           IF x \in S THEN Stream!Cardinality(S) ELSE Stream!Cardinality(S) + 1
<1>1. IsFiniteSet(S)
  BY StreamSameCardinality
<1>2. Cardinality(S \union {x}) = IF x \in S THEN Cardinality(S) ELSE Cardinality(S) + 1
  BY <1>1, FS_AddElement
<1> QED BY <1>2, StreamSameCardinality

LEMMA StreamRemoveElement ==
  ASSUME NEW S, NEW x, Stream!IsFiniteSet(S)
  PROVE  Stream!Cardinality(S \ {x}) =
           IF x \in S THEN Stream!Cardinality(S) - 1 ELSE Stream!Cardinality(S)
<1>1. IsFiniteSet(S)
  BY StreamSameCardinality
<1>2. Cardinality(S \ {x}) = IF x \in S THEN Cardinality(S) - 1 ELSE Cardinality(S)
  BY <1>1, FS_RemoveElement
<1> QED BY <1>2, StreamSameCardinality

LEMMA StreamInitEstablishes ==
  ASSUME Stream!StreamAssumption
  PROVE  Stream!Init => Stream!IInv
<1> SUFFICES ASSUME Stream!Init PROVE Stream!IInv
  OBVIOUS
<1>1. /\ Blocks \in Nat \ {0} /\ MaxCrashes \in Nat /\ None \notin Puts
      /\ Stream!Cardinality(Readers) \in Nat
  BY StreamCardinalityType DEF Stream!StreamAssumption
<1>2. Stream!TypeOK
  <2>1. v13 \in [Readers -> [at :
          {"idle", "got", "read", "wait", "pread", "closed"} \union Stream!Outcome,
                            sw : Puts \union {None}, pos : 0..Blocks]]
    BY <1>1 DEF Stream!Init, Stream!NoReader
  <2>2. v11 \in [Puts -> 0..(Stream!Cardinality(Readers) + 1)] /\ v8 \in [Puts -> 0..Blocks]
           /\ v15 \in 0..MaxCrashes
    BY <1>1 DEF Stream!Init
  <2> QED BY <1>1, <2>1, <2>2 DEF Stream!Init, Stream!TypeOK
<1>3. Stream!PutInv
  BY <1>1 DEF Stream!Init, Stream!PutInv, Stream!OneClaim, Stream!Registered, Stream!Progress,
     Stream!Files, Stream!CommittedIsWhole, Stream!Claimed, Stream!Filling, Stream!Fresh
<1>4. \A p \in Puts : Stream!Sharers(p) = {}
  BY DEF Stream!Init, Stream!NoReader, Stream!Sharers, Stream!Sharing, Stream!Outcome
<1>5. Stream!Shared
  <2>1. \A p \in Puts : v11[p] = 0 /\ ~Stream!Holding(p) /\
          Stream!Cardinality(Stream!Sharers(p)) = 0
    BY <1>4, StreamEmptySet DEF Stream!Init, Stream!Holding, Stream!Filling
  <2>2. \A r \in Readers : v13[r].at \notin Stream!Sharing
    BY DEF Stream!Init, Stream!NoReader, Stream!Sharing, Stream!Outcome
  <2> QED BY <2>1, <2>2 DEF Stream!Shared
<1>6. Stream!Reads
  BY DEF Stream!Init, Stream!NoReader, Stream!Reads, Stream!Sharing, Stream!Outcome
<1> QED BY <1>2, <1>3, <1>5, <1>6 DEF Stream!IInv

(* The steps of puts, and the paths. *)

LEMMA StreamPutKeepsPuts ==
  ASSUME Stream!StreamAssumption, Stream!TypeOK, Stream!PutInv, \A q \in Puts :
         Stream!Holding(q) => q \in v12,
         NEW p \in Puts, Stream!PutStep(p)
  PROVE  Stream!PutInv'
<1> USE DEF Stream!StreamAssumption, Stream!TypeOK, Stream!PutInv, Stream!OneClaim,
            Stream!Registered, Stream!Progress, Stream!Files, Stream!Filled,
            Stream!CommittedIsWhole, Stream!Claimed, Stream!Filling, Stream!Fresh,
              Stream!Holding, Stream!Go
<1>1. CASE Stream!Claim(p)
  BY <1>1 DEF Stream!Claim
<1>2. CASE Stream!OpenTmp(p)
  BY <1>2 DEF Stream!OpenTmp
<1>3. CASE Stream!OpenError(p)
  BY <1>3 DEF Stream!OpenError
<1>4. CASE Stream!Register(p)
  BY <1>4 DEF Stream!Register
<1>5. CASE Stream!WriteFile(p)
  <2>0. v6[p] = "write" /\ v7[p] = v3 /\ v3 # None
    BY <1>5 DEF Stream!WriteFile
  <2>1. /\ v6[p] = "write" /\ v8[p] < Blocks /\ v8[p] \in Nat
        /\ v5' = [v5 EXCEPT ![v3] = @ \union {v8[p] + 1}]
        /\ v6' = [v6 EXCEPT ![p] = "count"] /\ v3 \in Puts /\ v3 # v4
        /\ UNCHANGED <<v1, v2, v3, v4, v7, v8, v9, v10, v12>>
    <3>1. v3 \in Puts /\ v3 # v4
      BY <2>0
    <3>2. v8[p] \in Nat
      OBVIOUS
    <3> QED BY <1>5, <2>0, <3>1, <3>2 DEF Stream!WriteFile
  <2>2. Stream!OneClaim' /\ Stream!Registered' /\ Stream!Progress'
    BY <2>1
  <2>3. v5'[v3] = 1..(v8[p] + 1)
    <3>1. v5[v3] = 1..v8[p]
      BY <2>1
    <3> QED BY <2>1, <3>1
  <2>4. \A f \in Puts : v5[f] \subseteq v5'[f] /\ (f # v3 => v5'[f] = v5[f])
    BY <2>1
  <2>5. \A q \in Puts : /\ Stream!Fresh(q)' <=> Stream!Fresh(q)
                        /\ Stream!Filling(q)' <=> Stream!Filling(q)
                        /\ Stream!Filling(q) => q = p
    BY <2>1
  <2>6. \A q \in Puts : Stream!Filling(q)' =>
          v7'[q] = v3' /\ v3' # None /\ v5'[v3'] = 1..Stream!Filled(q)'
    BY <2>1, <2>3, <2>5
  <2>7. \A q \in v12' : /\ v7'[q] # None /\ 1..v8'[q] \subseteq v5'[v7'[q]]
                         /\ v7'[q] = v3' => Stream!Filling(q)'
    BY <2>1, <2>4, <2>5
  <2>8. Stream!CommittedIsWhole'
    BY <2>1, <2>4
  <2> QED BY <2>1, <2>2, <2>5, <2>6, <2>7, <2>8
<1>6. CASE Stream!Count(p)
  BY <1>6 DEF Stream!Count
<1>7. CASE Stream!CommitRename(p)
  <2>1. /\ v6[p] = "write" /\ v8[p] = Blocks /\ v3' = None
        /\ v7[p] = v3 /\ v3 # None /\ v5[v3] = 1..Blocks /\ ~Stream!Fresh(v3)
        /\ v4' = v3 \/ v4' = v4
        /\ v6' = [v6 EXCEPT ![p] = "unclaim"]
        /\ \A q \in Puts : v10'[q] = v10[q] \/ v10'[q] = TRUE
        /\ UNCHANGED <<v1, v2, v5, v7, v8, v9, v12>>
    BY <1>7 DEF Stream!CommitRename
  <2>2. Stream!OneClaim' /\ Stream!Registered'
    BY <2>1
  <2>3. Stream!Progress'
    BY <2>1
  <2>4. \A q \in Puts : /\ Stream!Fresh(q)' <=> Stream!Fresh(q)
                        /\ ~Stream!Filling(q)'
    BY <2>1
  <2>5. Stream!Files'
    BY <2>1, <2>4
  <2> QED BY <2>2, <2>3, <2>5
<1>8. CASE Stream!DiscardRemove(p)
  BY <1>8 DEF Stream!DiscardRemove
<1>9. CASE Stream!Unclaim(p)
  BY <1>9 DEF Stream!Unclaim
<1>10. CASE Stream!Unregister(p)
  BY <1>10 DEF Stream!Unregister
<1>11. CASE Stream!Mark(p)
  BY <1>11 DEF Stream!Mark
<1>12. CASE Stream!Drop(p)
  BY <1>12 DEF Stream!Drop, Stream!DecRef
<1> QED BY <1>1, <1>2, <1>3, <1>4, <1>5, <1>6, <1>7, <1>8, <1>9, <1>10, <1>11,
      <1>12 DEF Stream!PutStep

(* The readers, as puts go on under them. *)

LEMMA StreamPutKeepsReaders ==
  ASSUME Stream!StreamAssumption, Stream!TypeOK, Stream!PutInv, Stream!Shared, Stream!Reads,
         NEW p \in Puts, Stream!PutStep(p)
  PROVE  /\ Stream!Reads'
         /\ \A r \in Readers : /\ v13'[r].sw = v13[r].sw
                               /\ v13'[r].at \in Stream!Sharing <=> v13[r].at \in Stream!Sharing
<1> USE DEF Stream!StreamAssumption, Stream!TypeOK, Stream!Reads, Stream!Sharing, Stream!Outcome,
            Stream!Go
<1>1. ASSUME UNCHANGED <<v13, v8, v9>>,
             v6' = [v6 EXCEPT ![p] = v6'[p]],
             v6[p] \in {"write", "count", "unclaim", "unregister", "mark"} /\ p \notin PlainPuts
               => v6'[p] \in {"write", "count", "unclaim", "unregister", "mark"}
      PROVE  Stream!Reads'
  BY <1>1
<1>2. CASE Stream!Claim(p) \/ Stream!OpenTmp(p) \/ Stream!OpenError(p) \/ Stream!Register(p) \/
             Stream!WriteFile(p)
           \/ Stream!CommitRename(p) \/ Stream!DiscardRemove(p) \/ Stream!Unclaim(p) \/
                Stream!Unregister(p) \/ Stream!Drop(p)
  BY <1>1, <1>2 DEF Stream!Claim, Stream!OpenTmp, Stream!OpenError, Stream!Register,
     Stream!WriteFile, Stream!CommitRename, Stream!DiscardRemove,
                    Stream!Unclaim, Stream!Unregister, Stream!Drop
<1>3. CASE Stream!Count(p)
  <2>1. v8[p] < Blocks /\ v8[p] \in Nat
    BY <1>3 DEF Stream!Count, Stream!PutInv, Stream!Progress
  <2> QED BY <1>3, <2>1 DEF Stream!Count, Stream!Wake
<1>4. CASE Stream!Mark(p)
  BY <1>4 DEF Stream!Mark, Stream!Wake
<1> QED BY <1>2, <1>3, <1>4 DEF Stream!PutStep

(* Who shares a descriptor. *)

LEMMA StreamSharersType ==
  ASSUME Stream!StreamAssumption, NEW p \in Puts
  PROVE  /\ Stream!IsFiniteSet(Stream!Sharers(p)) /\ Stream!Cardinality(Stream!Sharers(p)) \in Nat
         /\ Stream!Cardinality(Stream!Sharers(p)) <= Stream!Cardinality(Readers) /\
              Stream!Cardinality(Readers) \in Nat
         /\ Stream!Cardinality(Stream!Sharers(p)) = 0 <=> Stream!Sharers(p) = {}
<1>1. Stream!Sharers(p) \in SUBSET Readers
  BY DEF Stream!Sharers
<1> QED BY <1>1, StreamSubset, StreamCardinalityType, StreamEmptySet DEF Stream!StreamAssumption

LEMMA StreamPutKeepsSharers ==
  ASSUME Stream!StreamAssumption, Stream!TypeOK, Stream!PutInv, Stream!Shared, Stream!Reads,
         NEW p \in Puts, Stream!PutStep(p)
  PROVE  Stream!Shared' /\ v11' \in [Puts -> 0..(Stream!Cardinality(Readers) + 1)]
<1>1. \A q \in Puts : Stream!Sharers(q)' = Stream!Sharers(q)
  BY StreamPutKeepsReaders DEF Stream!Sharers
<1>2. \A r \in Readers : /\ v13'[r].sw = v13[r].sw
                         /\ v13'[r].at \in Stream!Sharing <=> v13[r].at \in Stream!Sharing
  BY StreamPutKeepsReaders
<1>3. \A q \in Puts : Stream!Cardinality(Stream!Sharers(q)) \in Nat /\
        Stream!Cardinality(Stream!Sharers(q)) <= Stream!Cardinality(Readers)
  BY StreamSharersType
<1>4. Stream!Cardinality(Readers) \in Nat
  BY StreamCardinalityType DEF Stream!StreamAssumption
<1>5. ASSUME \A q \in Puts : Stream!Holding(q)' <=> Stream!Holding(q), UNCHANGED <<v11, v12>>
      PROVE  Stream!Shared' /\ v11' \in [Puts -> 0..(Stream!Cardinality(Readers) + 1)]
  <2>1. v11' \in [Puts -> 0..(Stream!Cardinality(Readers) + 1)]
    BY <1>5 DEF Stream!TypeOK
  <2>2. \A q \in Puts : /\ v11'[q] = Stream!Cardinality(Stream!Sharers(q)')
                                      + IF Stream!Holding(q)' THEN 1 ELSE 0
                        /\ Stream!Holding(q)' => q \in v12'
    BY <1>1, <1>5 DEF Stream!Shared
  <2>3. \A r \in Readers \ AtReaders : v13'[r].at \in Stream!Sharing => v13'[r].sw \in v12'
    BY <1>2, <1>5 DEF Stream!Shared
  <2> QED BY <2>1, <2>2, <2>3 DEF Stream!Shared
<1>6. CASE \/ Stream!Claim(p) \/ Stream!OpenError(p) \/ Stream!Register(p) \/
                Stream!WriteFile(p) \/ Stream!Count(p)
           \/ Stream!CommitRename(p) \/ Stream!DiscardRemove(p) \/ Stream!Unclaim(p) \/
                Stream!Unregister(p) \/ Stream!Mark(p)
  <2>1. UNCHANGED <<v11, v12>>
    BY <1>6 DEF Stream!Claim, Stream!OpenError, Stream!Register, Stream!WriteFile, Stream!Count,
       Stream!CommitRename, Stream!DiscardRemove, Stream!Unclaim,
                Stream!Unregister, Stream!Mark
  <2>2. \A q \in Puts : Stream!Holding(q)' <=> Stream!Holding(q)
    BY <1>6 DEF Stream!Claim, Stream!OpenError, Stream!Register, Stream!WriteFile, Stream!Count,
       Stream!CommitRename, Stream!DiscardRemove, Stream!Unclaim,
                Stream!Unregister, Stream!Mark, Stream!TypeOK, Stream!Holding, Stream!Filling,
                  Stream!Go
  <2> QED BY <1>5, <2>1, <2>2
<1>7. CASE Stream!OpenTmp(p)
  <2>1. /\ v6[p] = "open"
        /\ v6' = [v6 EXCEPT ![p] = IF p \in PlainPuts THEN "write" ELSE "register"]
        /\ v11' = [v11 EXCEPT ![p] = 1] /\ v12' = v12 \union {p}
    BY <1>7 DEF Stream!OpenTmp, Stream!Go
  <2>2. \A q \in Puts : Stream!Holding(q)' <=> Stream!Holding(q) \/ q = p
    BY <2>1 DEF Stream!TypeOK, Stream!Holding, Stream!Filling
  <2>3. Stream!Sharers(p) = {}
    <3>1. \A r \in Readers : v13[r].at \in Stream!Sharing /\ v13[r].sw = p => FALSE
      <4>1. v9[p] # TRUE
        BY <2>1 DEF Stream!PutInv, Stream!Progress
      <4> QED BY <2>1, <4>1 DEF Stream!Reads
    <3> QED BY <3>1 DEF Stream!Sharers
  <2>4. Stream!Cardinality(Stream!Sharers(p)) = 0
    BY <2>3, StreamEmptySet
  <2>5. v11' \in [Puts -> 0..(Stream!Cardinality(Readers) + 1)]
    BY <1>4, <2>1 DEF Stream!TypeOK
  <2>6. \A q \in Puts : /\ v11'[q] = Stream!Cardinality(Stream!Sharers(q)')
                                      + IF Stream!Holding(q)' THEN 1 ELSE 0
                        /\ Stream!Holding(q)' => q \in v12'
    BY <1>1, <2>1, <2>2, <2>4 DEF Stream!Shared, Stream!TypeOK
  <2>7. \A r \in Readers \ AtReaders : v13'[r].at \in Stream!Sharing => v13'[r].sw \in v12'
    BY <1>2, <2>1 DEF Stream!Shared
  <2> QED BY <2>5, <2>6, <2>7 DEF Stream!Shared
<1>8. CASE Stream!Drop(p)
  <2>1. /\ v6[p] = "drop" /\ v6' = [v6 EXCEPT ![p] = "ended"]
        /\ v11' = [v11 EXCEPT ![p] = @ - 1]
        /\ v12' = IF v11[p] = 1 THEN v12 \ {p} ELSE v12
    BY <1>8 DEF Stream!Drop, Stream!DecRef, Stream!Go
  <2>2. Stream!Holding(p) /\ \A q \in Puts : Stream!Holding(q)' <=> Stream!Holding(q) /\ q # p
    BY <2>1 DEF Stream!TypeOK, Stream!Holding, Stream!Filling
  <2>3. v11[p] = Stream!Cardinality(Stream!Sharers(p)) + 1
    BY <2>2 DEF Stream!Shared
  <2>4. v11'[p] = Stream!Cardinality(Stream!Sharers(p)) /\ \A q \in Puts : q # p =>
          v11'[q] = v11[q]
    BY <1>3, <2>1, <2>3 DEF Stream!TypeOK
  <2>5. v11' \in [Puts -> 0..(Stream!Cardinality(Readers) + 1)]
    BY <1>3, <1>4, <2>1, <2>4 DEF Stream!TypeOK
  <2>6. \A q \in Puts : /\ v11'[q] = Stream!Cardinality(Stream!Sharers(q)')
                                      + IF Stream!Holding(q)' THEN 1 ELSE 0
                        /\ Stream!Holding(q)' => q \in v12'
    <3>1. ASSUME NEW q \in Puts, q # p
          PROVE  v11'[q] = Stream!Cardinality(Stream!Sharers(q)')
                            + IF Stream!Holding(q)' THEN 1 ELSE 0
      BY <1>1, <2>2, <2>4, <3>1 DEF Stream!Shared
    <3>2. v11'[p] = Stream!Cardinality(Stream!Sharers(p)') + IF Stream!Holding(p)' THEN 1 ELSE 0
      BY <1>1, <1>3, <2>2, <2>4
    <3>3. \A q \in Puts : Stream!Holding(q)' => q \in v12'
      BY <2>1, <2>2 DEF Stream!Shared
    <3> QED BY <3>1, <3>2, <3>3
  <2>7. ASSUME NEW r \in Readers \ AtReaders, v13'[r].at \in Stream!Sharing
        PROVE  v13'[r].sw \in v12'
    <3>1. v13[r].at \in Stream!Sharing /\ v13[r].sw \in v12 /\ v13'[r].sw = v13[r].sw
      BY <1>2, <2>7 DEF Stream!Shared
    <3>2. CASE v13[r].sw = p
      <4>1. r \in Stream!Sharers(p)
        BY <3>1, <3>2 DEF Stream!Sharers
      <4>2. Stream!Cardinality(Stream!Sharers(p)) # 0
        BY <4>1, StreamSharersType
      <4> QED BY <1>3, <2>1, <2>3, <3>1, <4>2
    <3>3. CASE v13[r].sw # p
      BY <2>1, <3>1, <3>3
    <3> QED BY <3>2, <3>3
  <2> QED BY <2>5, <2>6, <2>7 DEF Stream!Shared
<1> QED BY <1>6, <1>7, <1>8 DEF Stream!PutStep

LEMMA StreamPutKeepsTypes ==
  ASSUME Stream!StreamAssumption, Stream!TypeOK, Stream!PutInv, Stream!Shared, Stream!Reads,
         NEW p \in Puts, Stream!PutStep(p)
  PROVE  Stream!TypeOK'
<1> USE DEF Stream!StreamAssumption, Stream!Go
<1>1. v11' \in [Puts -> 0..(Stream!Cardinality(Readers) + 1)]
  BY StreamPutKeepsSharers
<1>2. /\ v2' \in Puts \union {None} /\ v3' \in Puts \union {None} /\ v4' \in Puts \union {None}
      /\ v1' \in BOOLEAN /\ v12' \subseteq Puts /\ v7' \in [Puts -> Puts \union {None}]
  <2>1. CASE Stream!OpenTmp(p)
    <3>1. PICK f \in Puts : v3' = f /\ v7' = [v7 EXCEPT ![p] = f]
      BY <2>1 DEF Stream!OpenTmp, Stream!TypeOK
    <3> QED BY <2>1, <3>1 DEF Stream!OpenTmp, Stream!TypeOK
  <2>0. /\ v2 \in Puts \union {None} /\ v3 \in Puts \union {None} /\ v4 \in Puts \union {None}
        /\ v1 \in BOOLEAN /\ v12 \subseteq Puts /\ v7 \in [Puts -> Puts \union {None}]
    BY DEF Stream!TypeOK
  <2>2. CASE Stream!CommitRename(p)
    BY <2>0, <2>2 DEF Stream!CommitRename
  <2>3. CASE \/ Stream!Claim(p) \/ Stream!OpenError(p) \/ Stream!Register(p) \/
                  Stream!WriteFile(p) \/ Stream!Count(p)
             \/ Stream!DiscardRemove(p) \/ Stream!Unclaim(p) \/ Stream!Unregister(p) \/
                  Stream!Mark(p)
    BY <2>0, <2>3 DEF Stream!Claim, Stream!OpenError, Stream!Register, Stream!WriteFile,
       Stream!Count, Stream!DiscardRemove, Stream!Unclaim,
                Stream!Unregister, Stream!Mark
  <2>4. CASE Stream!Drop(p)
    BY <2>4 DEF Stream!Drop, Stream!DecRef, Stream!TypeOK
  <2> QED BY <2>1, <2>2, <2>3, <2>4 DEF Stream!PutStep
<1>3. v6' \in [Puts -> {"idle", "open", "register", "write", "count", "unclaim",
                        "unregister", "mark", "drop", "ended"}]
  BY DEF Stream!TypeOK, Stream!PutStep, Stream!Claim, Stream!OpenTmp, Stream!OpenError,
         Stream!Register, Stream!WriteFile, Stream!Count, Stream!CommitRename,
         Stream!DiscardRemove, Stream!Unclaim, Stream!Unregister, Stream!Mark, Stream!Drop
<1>4. v9' \in [Puts -> BOOLEAN] /\ v10' \in [Puts -> BOOLEAN]
  BY DEF Stream!TypeOK, Stream!PutStep, Stream!Claim, Stream!OpenTmp, Stream!OpenError,
         Stream!Register, Stream!WriteFile, Stream!Count, Stream!CommitRename,
         Stream!DiscardRemove, Stream!Unclaim, Stream!Unregister, Stream!Mark, Stream!Drop
<1>5. v8' \in [Puts -> 0..Blocks]
  <2>1. CASE Stream!Count(p)
    BY <2>1 DEF Stream!Count, Stream!TypeOK, Stream!PutInv, Stream!Progress
  <2> QED BY <2>1 DEF Stream!TypeOK, Stream!PutStep, Stream!Claim, Stream!OpenTmp,
        Stream!OpenError, Stream!Register, Stream!WriteFile, Stream!CommitRename,
                      Stream!DiscardRemove, Stream!Unclaim, Stream!Unregister, Stream!Mark,
                        Stream!Drop
<1>6. v5' \in [Puts -> SUBSET (1..Blocks)]
  <2>1. CASE Stream!WriteFile(p)
    <3>1. v8[p] + 1 \in 1..Blocks
      BY <2>1 DEF Stream!WriteFile, Stream!TypeOK
    <3> QED BY <2>1, <3>1 DEF Stream!WriteFile, Stream!TypeOK
  <2>2. CASE Stream!OpenTmp(p)
    BY <2>2 DEF Stream!OpenTmp, Stream!TypeOK
  <2> QED BY <2>1, <2>2 DEF Stream!TypeOK, Stream!PutStep, Stream!Claim, Stream!OpenError,
        Stream!Register, Stream!Count, Stream!CommitRename,
                      Stream!DiscardRemove, Stream!Unclaim, Stream!Unregister, Stream!Mark,
                        Stream!Drop
<1>7. v13' \in [Readers -> [at :
        {"idle", "got", "read", "wait", "pread", "closed"} \union Stream!Outcome,
                           sw : Puts \union {None}, pos : 0..Blocks]]
  <2>1. Stream!Wake(p) => v13' \in [Readers -> [at :
          {"idle", "got", "read", "wait", "pread", "closed"} \union Stream!Outcome,
                                        sw : Puts \union {None}, pos : 0..Blocks]]
    BY DEF Stream!TypeOK, Stream!Wake
  <2> QED BY <2>1 DEF Stream!TypeOK, Stream!PutStep, Stream!Claim, Stream!OpenTmp,
        Stream!OpenError, Stream!Register, Stream!WriteFile, Stream!Count,
                      Stream!CommitRename, Stream!DiscardRemove, Stream!Unclaim,
                        Stream!Unregister, Stream!Mark, Stream!Drop
<1>8. UNCHANGED <<v14, v15>>
  BY DEF Stream!PutStep, Stream!Claim, Stream!OpenTmp, Stream!OpenError, Stream!Register,
         Stream!WriteFile, Stream!Count, Stream!CommitRename,
         Stream!DiscardRemove, Stream!Unclaim, Stream!Unregister, Stream!Mark, Stream!Drop
<1> QED BY <1>1, <1>2, <1>3, <1>4, <1>5, <1>6, <1>7, <1>8 DEF Stream!TypeOK

(* The steps of readers. *)

\* A step of r that keeps what it shares.
LEMMA StreamReaderGoes ==
  ASSUME Stream!StreamAssumption, Stream!IInv, NEW r \in Readers,
         v13' = [v13 EXCEPT ![r] = v13'[r]],
         v13'[r] \in [at : {"idle", "got", "read", "wait", "pread",
           "closed"} \union Stream!Outcome,
                     sw : Puts \union {None}, pos : 0..Blocks],
         v13'[r].at \in Stream!Sharing <=> v13[r].at \in Stream!Sharing,
         v13'[r].at \in Stream!Sharing => v13'[r].sw = v13[r].sw,
         Stream!Unchanged, UNCHANGED <<v11, v12>>, v14' \subseteq Readers
  PROVE  Stream!TypeOK' /\ Stream!PutInv' /\ Stream!Shared'
<1>1. Stream!TypeOK'
  BY DEF Stream!IInv, Stream!TypeOK, Stream!Unchanged, Stream!putVars
<1>2. Stream!PutInv'
  BY DEF Stream!IInv, Stream!PutInv, Stream!OneClaim, Stream!Registered, Stream!Progress,
         Stream!Files, Stream!Filled, Stream!CommittedIsWhole, Stream!Claimed,
         Stream!Filling, Stream!Fresh, Stream!Unchanged, Stream!putVars
<1>3. \A q \in Puts : Stream!Sharers(q)' = Stream!Sharers(q)
  <2>1. \A q \in Readers \ {r} : v13'[q] = v13[q]
    BY DEF Stream!IInv, Stream!TypeOK
  <2>2. \A p \in Puts, q \in Readers : v13'[q].at \in Stream!Sharing /\ v13'[q].sw = p
                                       <=> v13[q].at \in Stream!Sharing /\ v13[q].sw = p
    BY <2>1
  <2> QED BY <2>2 DEF Stream!Sharers
<1>4. \A q \in Puts : Stream!Holding(q)' <=> Stream!Holding(q)
  BY DEF Stream!Holding, Stream!Filling, Stream!Unchanged, Stream!putVars
<1>5. Stream!Shared'
  BY <1>3, <1>4 DEF Stream!IInv, Stream!TypeOK, Stream!Shared
<1> QED BY <1>1, <1>2, <1>5

\* What a reader must be for Reads to go on, when the puts stand still.
StreamReadOf(r) ==
  /\ v13[r].at # "idle" => v13[r].sw \in Puts
  /\ v13[r].at = "got" \/ v13[r].at \in Stream!Sharing
       => /\ v13[r].sw \notin PlainPuts
          /\ v9[v13[r].sw] = TRUE \/ v6[v13[r].sw] \in {"write", "count", "unclaim",
               "unregister", "mark"}
  /\ v13[r].at = "pread" => v13[r].pos < v8[v13[r].sw]
  /\ v13[r].at # "hole"
  /\ v13[r].at = "eof" => v8[v13[r].sw] = Blocks /\ v13[r].pos >= Blocks

LEMMA StreamReadsGo ==
  ASSUME Stream!IInv, NEW r \in Readers, v13' = [v13 EXCEPT ![r] = v13'[r]], Stream!Unchanged,
         StreamReadOf(r)'
  PROVE  Stream!Reads'
BY DEF Stream!IInv, Stream!TypeOK, Stream!Reads, StreamReadOf, Stream!Unchanged, Stream!putVars

LEMMA StreamReadStepKeeps ==
  ASSUME Stream!StreamAssumption, Stream!IInv, NEW r \in Readers, Stream!GetStreaming(r) \/
         Stream!ReadTest(r) \/ Stream!ReadAt(r) \/ Stream!Abort(r)
  PROVE  Stream!IInv'
<1> USE DEF Stream!Sharing, Stream!Outcome, Stream!ReaderGo
<1>0. /\ v13[r].pos \in 0..Blocks /\ v8 \in [Puts -> 0..Blocks] /\ Blocks \in Nat /\
           None \notin Puts
      /\ v13[r].sw \in Puts \union {None} /\ StreamReadOf(r)
      /\ v13 \in [Readers -> [at :
           {"idle", "got", "read", "wait", "pread", "closed"} \union Stream!Outcome,
                             sw : Puts \union {None}, pos : 0..Blocks]]
  BY DEF Stream!IInv, Stream!TypeOK, Stream!StreamAssumption, Stream!Reads, StreamReadOf
<1>1. CASE Stream!GetStreaming(r)
  <2>1. /\ v13[r].at = "idle" /\ v2 \in Puts
        /\ v13' = [v13 EXCEPT ![r] = [at |-> "got", sw |-> v2, pos |-> 0]]
        /\ Stream!Unchanged /\ UNCHANGED <<v11, v12, v14>>
    BY <1>1 DEF Stream!GetStreaming, Stream!IInv, Stream!TypeOK
  <2>2. Stream!TypeOK' /\ Stream!PutInv' /\ Stream!Shared'
    <3>1. /\ v13' = [v13 EXCEPT ![r] = v13'[r]]
          /\ v13'[r] \in [at : {"idle", "got", "read", "wait", "pread",
               "closed"} \union Stream!Outcome,
                         sw : Puts \union {None}, pos : 0..Blocks]
          /\ v13'[r].at \notin Stream!Sharing /\ v13[r].at \notin Stream!Sharing
      BY <1>0, <2>1
    <3>2. v14' \subseteq Readers
      BY <2>1 DEF Stream!IInv, Stream!TypeOK
    <3> HIDE DEF Stream!Sharing, Stream!Outcome
    <3> QED BY <2>1, <3>1, <3>2, StreamReaderGoes
  <2>3. StreamReadOf(r)'
    BY <1>0, <2>1 DEF StreamReadOf, Stream!IInv, Stream!PutInv, Stream!Registered,
       Stream!Unchanged, Stream!putVars
  <2> QED BY <1>0, <2>1, <2>2, <2>3, StreamReadsGo DEF Stream!IInv
<1>2. CASE Stream!ReadTest(r)
  <2> DEFINE sw == v13[r].sw
  <2>1. /\ v13[r].at = "read" /\ Stream!Unchanged /\ UNCHANGED <<v11, v12, v14>>
        /\ \E to \in {"abort", "pread", "error", "eof", "wait"} :
             /\ v13' = [v13 EXCEPT ![r].at = to]
             /\ to = "pread" => v13[r].pos < v8[sw]
             /\ to = "eof" => v13[r].pos >= v8[sw] /\ v9[sw] = TRUE /\ v10[sw] # TRUE
    BY <1>2 DEF Stream!ReadTest
  <2>2. Stream!TypeOK' /\ Stream!PutInv' /\ Stream!Shared'
    <3>1. /\ v13' = [v13 EXCEPT ![r] = v13'[r]]
          /\ v13'[r] \in [at : {"idle", "got", "read", "wait", "pread",
               "closed"} \union Stream!Outcome,
                         sw : Puts \union {None}, pos : 0..Blocks]
          /\ v13'[r].at \in Stream!Sharing /\ v13[r].at \in Stream!Sharing /\
               v13'[r].sw = v13[r].sw
      BY <1>0, <2>1
    <3>2. v14' \subseteq Readers
      BY <2>1 DEF Stream!IInv, Stream!TypeOK
    <3> HIDE DEF Stream!Sharing, Stream!Outcome
    <3> QED BY <2>1, <3>1, <3>2, StreamReaderGoes
  <2>3. sw \in Puts
    BY <1>0, <2>1 DEF StreamReadOf
  <2>4. v9[sw] = TRUE /\ v10[sw] # TRUE => v8[sw] = Blocks
    BY <2>3 DEF Stream!IInv, Stream!PutInv, Stream!Progress
  <2>5. StreamReadOf(r)'
    <3>1. /\ v13'[r].sw = sw /\ v13'[r].pos = v13[r].pos /\ v8' = v8 /\ v9' = v9 /\ v6' = v6
          /\ v13'[r].at \in {"abort", "pread", "error", "eof", "wait"}
      BY <1>0, <2>1 DEF Stream!Unchanged, Stream!putVars
    <3>2. v13'[r].at = "eof" => v8[sw] = Blocks /\ v13[r].pos >= Blocks
      BY <1>0, <2>1, <2>4
    <3>3. v13'[r].at = "pread" => v13[r].pos < v8[sw]
      BY <1>0, <2>1
    <3> QED BY <1>0, <2>1, <2>3, <3>1, <3>2, <3>3 DEF StreamReadOf
  <2> QED BY <1>0, <2>1, <2>2, <2>5, StreamReadsGo DEF Stream!IInv
<1>3. CASE Stream!ReadAt(r)
  <2> DEFINE sw == v13[r].sw
  <2>1. v13[r].at = "pread" /\ sw \in Puts /\ v13[r].pos < v8[sw]
    BY <1>0, <1>3 DEF Stream!ReadAt, StreamReadOf
  <2>2. sw \in v12 => v13[r].pos + 1 \in v5[v7[sw]]
    <3>1. v13[r].pos + 1 \in 1..v8[sw]
      BY <1>0, <2>1
    <3> QED BY <3>1 DEF Stream!IInv, Stream!PutInv, Stream!Files
  <2>3. /\ Stream!Unchanged /\ UNCHANGED <<v11, v12, v14>>
        /\ \/ v13' = [v13 EXCEPT ![r].at = "badfd"]
           \/ v13' = [v13 EXCEPT ![r].at = "read", ![r].pos = @ + 1]
    BY <1>3, <2>2 DEF Stream!ReadAt
  <2>4. v13[r].pos + 1 \in 0..Blocks
    BY <1>0, <2>1
  <2>5. Stream!TypeOK' /\ Stream!PutInv' /\ Stream!Shared'
    <3>1. /\ v13' = [v13 EXCEPT ![r] = v13'[r]]
          /\ v13'[r] \in [at : {"idle", "got", "read", "wait", "pread",
               "closed"} \union Stream!Outcome,
                         sw : Puts \union {None}, pos : 0..Blocks]
          /\ v13'[r].at \in Stream!Sharing /\ v13[r].at \in Stream!Sharing /\
               v13'[r].sw = v13[r].sw
      BY <1>0, <2>1, <2>3, <2>4
    <3> QED BY <2>3, <3>1, StreamReaderGoes DEF Stream!IInv, Stream!TypeOK
  <2>6. StreamReadOf(r)'
    BY <1>0, <2>1, <2>3 DEF StreamReadOf, Stream!Unchanged, Stream!putVars
  <2> QED BY <1>0, <2>3, <2>5, <2>6, StreamReadsGo DEF Stream!IInv
<1>4. CASE Stream!Abort(r)
  <2>1. /\ v13[r].at \in {"read", "wait", "pread"} /\ Stream!Unchanged /\ UNCHANGED <<v11, v12>>
        /\ v14' = v14 \union {r}
        /\ v13' = v13 \/ v13' = [v13 EXCEPT ![r].at = "read"]
    BY <1>4 DEF Stream!Abort
  <2>2. Stream!TypeOK' /\ Stream!PutInv' /\ Stream!Shared'
    <3>1. /\ v13' = [v13 EXCEPT ![r] = v13'[r]]
          /\ v13'[r] \in [at : {"idle", "got", "read", "wait", "pread",
               "closed"} \union Stream!Outcome,
                         sw : Puts \union {None}, pos : 0..Blocks]
          /\ v13'[r].at \in Stream!Sharing /\ v13[r].at \in Stream!Sharing /\
               v13'[r].sw = v13[r].sw
      BY <1>0, <2>1
    <3>2. v14' \subseteq Readers
      BY <2>1 DEF Stream!IInv, Stream!TypeOK
    <3> HIDE DEF Stream!Sharing
    <3> QED BY <2>1, <3>1, <3>2, StreamReaderGoes
  <2>3. StreamReadOf(r)'
    BY <1>0, <2>1 DEF StreamReadOf, Stream!Unchanged, Stream!putVars
  <2> QED BY <1>0, <2>1, <2>2, <2>3, StreamReadsGo DEF Stream!IInv
<1> QED BY <1>1, <1>2, <1>3, <1>4

\* NewReaderAt and NewReaderIfActive: one more shares the descriptor.
LEMMA StreamAttaches ==
  ASSUME Stream!StreamAssumption, Stream!IInv, NEW r \in Readers, v13[r].at = "got",
         NEW offset \in 0..Blocks, v13' = [v13 EXCEPT ![r].at = "read", ![r].pos = offset],
         v11' = [v11 EXCEPT ![v13[r].sw] = @ + 1], Stream!Unchanged, UNCHANGED <<v12, v14>>,
         r \notin AtReaders => v9[v13[r].sw] # TRUE
  PROVE  Stream!IInv'
<1> DEFINE sw == v13[r].sw
<1>0. /\ v13 \in [Readers -> [at :
           {"idle", "got", "read", "wait", "pread", "closed"} \union Stream!Outcome,
                             sw : Puts \union {None}, pos : 0..Blocks]]
      /\ v11 \in [Puts -> 0..(Stream!Cardinality(Readers) + 1)] /\ sw \in Puts /\ StreamReadOf(r)
  BY DEF Stream!IInv, Stream!TypeOK, Stream!Reads, StreamReadOf
<1>1. /\ v13' = [v13 EXCEPT ![r] = v13'[r]] /\ v13'[r].at = "read" /\ v13'[r].sw = sw
      /\ v13'[r] \in [at : {"idle", "got", "read", "wait", "pread",
           "closed"} \union Stream!Outcome,
                     sw : Puts \union {None}, pos : 0..Blocks]
      /\ v13' \in [Readers -> [at :
           {"idle", "got", "read", "wait", "pread", "closed"} \union Stream!Outcome,
                              sw : Puts \union {None}, pos : 0..Blocks]]
  BY <1>0
<1>2. r \notin Stream!Sharers(sw) /\ Stream!Sharers(sw)' = Stream!Sharers(sw) \union {r}
  BY <1>0, <1>1 DEF Stream!Sharers, Stream!Sharing, Stream!Outcome
<1>3. \A p \in Puts : p # sw => Stream!Sharers(p)' = Stream!Sharers(p)
  BY <1>0, <1>1 DEF Stream!Sharers, Stream!Sharing, Stream!Outcome
<1>4. /\ Stream!Cardinality(Stream!Sharers(sw)') = Stream!Cardinality(Stream!Sharers(sw)) + 1
      /\ Stream!Cardinality(Stream!Sharers(sw)') <= Stream!Cardinality(Readers)
      /\ Stream!Cardinality(Stream!Sharers(sw)) \in Nat /\ Stream!Cardinality(Readers) \in Nat
  <2>1. Stream!Sharers(sw)' \in SUBSET Readers
    BY DEF Stream!Sharers
  <2> QED BY <1>0, <1>2, <2>1, StreamSharersType, StreamAddElement,
        StreamSubset DEF Stream!StreamAssumption
<1>5. \A p \in Puts : Stream!Holding(p)' <=> Stream!Holding(p)
  BY DEF Stream!Holding, Stream!Filling, Stream!Unchanged, Stream!putVars
<1>6. v11' \in [Puts -> 0..(Stream!Cardinality(Readers) + 1)]
  <2>1. v11[sw] <= Stream!Cardinality(Stream!Sharers(sw)) + 1
    BY <1>0, <1>4 DEF Stream!IInv, Stream!Shared
  <2>2. v11[sw] + 1 \in 0..(Stream!Cardinality(Readers) + 1)
    BY <1>0, <1>4, <2>1
  <2> QED BY <1>0, <2>2
<1>7. Stream!TypeOK'
  BY <1>1, <1>6 DEF Stream!IInv, Stream!TypeOK, Stream!Unchanged, Stream!putVars
<1>8. Stream!PutInv'
  BY DEF Stream!IInv, Stream!PutInv, Stream!OneClaim, Stream!Registered, Stream!Progress,
         Stream!Files, Stream!Filled, Stream!CommittedIsWhole, Stream!Claimed,
         Stream!Filling, Stream!Fresh, Stream!Unchanged, Stream!putVars
<1>9. Stream!Shared'
  <2>1. ASSUME NEW p \in Puts
        PROVE  /\ v11'[p] = Stream!Cardinality(Stream!Sharers(p)')
                             + IF Stream!Holding(p)' THEN 1 ELSE 0
               /\ Stream!Holding(p)' => p \in v12'
    <3>1. v11[p] = Stream!Cardinality(Stream!Sharers(p)) + (IF Stream!Holding(p) THEN 1 ELSE 0)
      BY DEF Stream!IInv, Stream!Shared
    <3>0. Stream!Holding(p) => p \in v12
      BY DEF Stream!IInv, Stream!Shared
    <3>2. CASE p = sw
      BY <1>0, <1>4, <1>5, <3>0, <3>1, <3>2
    <3>3. CASE p # sw
      BY <1>0, <1>3, <1>5, <3>0, <3>1, <3>3
    <3> QED BY <3>2, <3>3
  <2>2. ASSUME NEW q \in Readers \ AtReaders, v13'[q].at \in Stream!Sharing
        PROVE  v13'[q].sw \in v12'
    <3>1. CASE q = r
      <4>1. v6[sw] \in {"write", "count", "unclaim", "unregister", "mark"}
        BY <1>0, <2>2, <3>1 DEF StreamReadOf
      <4>2. sw \in v12
        BY <1>0, <4>1 DEF Stream!IInv, Stream!Shared, Stream!Holding, Stream!Filling
      <4> QED BY <1>1, <3>1, <4>2
    <3>2. CASE q # r
      BY <1>0, <1>1, <2>2, <3>2 DEF Stream!IInv, Stream!Shared
    <3> QED BY <3>1, <3>2
  <2> QED BY <2>1, <2>2 DEF Stream!Shared
<1>10. StreamReadOf(r)'
  BY <1>0, <1>1 DEF StreamReadOf, Stream!Unchanged, Stream!putVars
<1>11. Stream!Reads'
  BY <1>1, <1>10, StreamReadsGo
<1> QED BY <1>7, <1>8, <1>9, <1>11 DEF Stream!IInv

LEMMA StreamAttachStep ==
  ASSUME Stream!StreamAssumption, Stream!IInv, NEW r \in Readers, Stream!NewReaderAt(r) \/
         Stream!NewReaderIfActive(r)
  PROVE  Stream!IInv'
<1>0. /\ v13 \in [Readers -> [at :
           {"idle", "got", "read", "wait", "pread", "closed"} \union Stream!Outcome,
                             sw : Puts \union {None}, pos : 0..Blocks]]
      /\ Blocks \in Nat
  BY DEF Stream!IInv, Stream!TypeOK, Stream!StreamAssumption
<1>1. CASE Stream!NewReaderAt(r)
  BY <1>1, StreamAttaches DEF Stream!NewReaderAt
<1>2. CASE Stream!NewReaderIfActive(r) /\ v9[v13[r].sw]
  <2>1. /\ v13[r].at = "got" /\ v13' = [v13 EXCEPT ![r].at = "closed"]
        /\ Stream!Unchanged /\ UNCHANGED <<v11, v12, v14>>
    BY <1>2 DEF Stream!NewReaderIfActive, Stream!ReaderGo
  <2>2. /\ v13' = [v13 EXCEPT ![r] = v13'[r]]
        /\ v13'[r] \in [at : {"idle", "got", "read", "wait", "pread",
             "closed"} \union Stream!Outcome,
                       sw : Puts \union {None}, pos : 0..Blocks]
        /\ v13'[r].at = "closed" /\ v13'[r].sw = v13[r].sw
    BY <1>0, <2>1
  <2>3. v13'[r].at \notin Stream!Sharing /\ v13[r].at \notin Stream!Sharing
    BY <2>1, <2>2 DEF Stream!Sharing, Stream!Outcome
  <2>4. v14' \subseteq Readers
    BY <2>1 DEF Stream!IInv, Stream!TypeOK
  <2>5. Stream!TypeOK' /\ Stream!PutInv' /\ Stream!Shared'
    BY <2>1, <2>2, <2>3, <2>4, StreamReaderGoes
  <2>6. StreamReadOf(r)'
    BY <2>1, <2>2, <2>3 DEF Stream!IInv, Stream!Reads, StreamReadOf
  <2> QED BY <2>1, <2>2, <2>5, <2>6, StreamReadsGo DEF Stream!IInv
<1>3. CASE Stream!NewReaderIfActive(r) /\ ~v9[v13[r].sw]
  <2>1. /\ v13[r].at = "got" /\ v13' = [v13 EXCEPT ![r].at = "read"] /\ r \notin AtReaders
        /\ v11' = [v11 EXCEPT ![v13[r].sw] = @ + 1]
        /\ Stream!Unchanged /\ UNCHANGED <<v12, v14>>
    BY <1>3 DEF Stream!NewReaderIfActive, Stream!ReaderGo
  <2>2. v13[r].pos \in 0..Blocks /\ v13' = [v13 EXCEPT ![r].at = "read", ![r].pos = v13[r].pos]
    BY <1>0, <2>1
  <2>3. v9[v13[r].sw] # TRUE
    BY <1>3
  <2> QED BY <2>1, <2>2, <2>3, StreamAttaches
<1> QED BY <1>1, <1>2, <1>3 DEF Stream!NewReaderIfActive

\* The last holder closes the descriptor, and no one else.
LEMMA StreamCloseStep ==
  ASSUME Stream!StreamAssumption, Stream!IInv, NEW r \in Readers, Stream!CloseReader(r)
  PROVE  Stream!IInv'
<1> DEFINE sw == v13[r].sw
<1>0. /\ v13 \in [Readers -> [at :
           {"idle", "got", "read", "wait", "pread", "closed"} \union Stream!Outcome,
                             sw : Puts \union {None}, pos : 0..Blocks]]
      /\ v11 \in [Puts -> 0..(Stream!Cardinality(Readers) + 1)] /\ StreamReadOf(r)
  BY DEF Stream!IInv, Stream!TypeOK, Stream!Reads, StreamReadOf
<1>1. /\ v13[r].at \in Stream!Outcome \union {"read"} /\ v13' = [v13 EXCEPT ![r].at = "closed"]
      /\ v11' = [v11 EXCEPT ![sw] = @ - 1]
      /\ v12' = IF v11[sw] = 1 THEN v12 \ {sw} ELSE v12
      /\ Stream!Unchanged /\ v14' = v14
  BY DEF Stream!CloseReader, Stream!DecRef, Stream!ReaderGo
<1>2. /\ v13[r].at \in Stream!Sharing /\ v13[r].at # "idle" /\ sw \in Puts
      /\ v13' = [v13 EXCEPT ![r] = v13'[r]] /\ v13'[r].at = "closed" /\ v13'[r].sw = sw
      /\ v13' \in [Readers -> [at :
           {"idle", "got", "read", "wait", "pread", "closed"} \union Stream!Outcome,
                              sw : Puts \union {None}, pos : 0..Blocks]]
  BY <1>0, <1>1 DEF Stream!Sharing, Stream!Outcome, StreamReadOf
<1>3. r \in Stream!Sharers(sw) /\ Stream!Sharers(sw)' = Stream!Sharers(sw) \ {r}
  BY <1>0, <1>2 DEF Stream!Sharers, Stream!Sharing, Stream!Outcome
<1>4. \A p \in Puts : p # sw => Stream!Sharers(p)' = Stream!Sharers(p)
  BY <1>0, <1>2 DEF Stream!Sharers, Stream!Sharing, Stream!Outcome
<1>5. /\ Stream!Cardinality(Stream!Sharers(sw)') = Stream!Cardinality(Stream!Sharers(sw)) - 1
      /\ Stream!Cardinality(Stream!Sharers(sw)) \in Nat /\
           Stream!Cardinality(Stream!Sharers(sw)) # 0
      /\ Stream!IsFiniteSet(Stream!Sharers(sw)) /\ Stream!Cardinality(Readers) \in Nat
  <2>1. /\ Stream!IsFiniteSet(Stream!Sharers(sw)) /\
             Stream!Cardinality(Stream!Sharers(sw)) \in Nat /\ Stream!Cardinality(Readers) \in Nat
        /\ Stream!Cardinality(Stream!Sharers(sw)) = 0 <=> Stream!Sharers(sw) = {}
    BY <1>2, StreamSharersType
  <2>2. Stream!Cardinality(Stream!Sharers(sw) \ {r}) = Stream!Cardinality(Stream!Sharers(sw)) - 1
    BY <1>3, <2>1, StreamRemoveElement
  <2> QED BY <1>3, <2>1, <2>2
<1>6. \A p \in Puts : Stream!Holding(p)' <=> Stream!Holding(p)
  BY <1>1 DEF Stream!Holding, Stream!Filling, Stream!Unchanged, Stream!putVars
<1>7. /\ v11[sw] = Stream!Cardinality(Stream!Sharers(sw)) + IF Stream!Holding(sw) THEN 1 ELSE 0
      /\ v11[sw] \in 0..(Stream!Cardinality(Readers) + 1)
  BY <1>0, <1>2 DEF Stream!IInv, Stream!Shared
\* Whoever still holds the descriptor keeps it open.
<1>8. /\ Stream!Holding(sw) \/ Stream!Sharers(sw) \ {r} # {} => v12' = v12
      /\ v12' \subseteq v12 /\ v12 \subseteq v12' \union {sw}
  <2>1. Stream!Sharers(sw) \ {r} # {} => Stream!Cardinality(Stream!Sharers(sw)) # 1
    BY <1>3, <1>5, StreamSingleton
  <2> QED BY <1>1, <1>5, <1>7, <2>1
<1>9. Stream!TypeOK'
  <2>1. v11[sw] - 1 \in 0..(Stream!Cardinality(Readers) + 1)
    BY <1>5, <1>7
  <2>2. v11' \in [Puts -> 0..(Stream!Cardinality(Readers) + 1)]
    BY <1>0, <1>1, <1>2, <2>1
  <2> QED BY <1>1, <1>2, <1>8, <2>2 DEF Stream!IInv, Stream!TypeOK, Stream!Unchanged,
        Stream!putVars
<1>10. Stream!PutInv'
  BY <1>1, <1>8 DEF Stream!IInv, Stream!PutInv, Stream!OneClaim, Stream!Registered,
     Stream!Progress, Stream!Files, Stream!Filled, Stream!CommittedIsWhole,
                    Stream!Claimed, Stream!Filling, Stream!Fresh, Stream!Unchanged, Stream!putVars
<1>11. Stream!Shared'
  <2>1. ASSUME NEW p \in Puts
        PROVE  /\ v11'[p] = Stream!Cardinality(Stream!Sharers(p)')
                             + IF Stream!Holding(p)' THEN 1 ELSE 0
               /\ Stream!Holding(p)' => p \in v12'
    <3>1. v11[p] = Stream!Cardinality(Stream!Sharers(p)) + IF Stream!Holding(p) THEN 1 ELSE 0
      BY DEF Stream!IInv, Stream!Shared
    <3>2. Stream!Holding(p) => p \in v12
      BY DEF Stream!IInv, Stream!Shared
    <3>3. CASE p = sw
      BY <1>0, <1>1, <1>5, <1>6, <1>8, <3>1, <3>2, <3>3
    <3>4. CASE p # sw
      BY <1>0, <1>1, <1>4, <1>6, <1>8, <3>1, <3>2, <3>4
    <3> QED BY <3>3, <3>4
  <2>2. ASSUME NEW q \in Readers \ AtReaders, v13'[q].at \in Stream!Sharing
        PROVE  v13'[q].sw \in v12'
    <3>1. q # r
      BY <1>2, <2>2 DEF Stream!Sharing, Stream!Outcome
    <3>2. v13'[q] = v13[q] /\ v13[q].sw \in v12
      BY <1>0, <1>2, <2>2, <3>1 DEF Stream!IInv, Stream!Shared
    <3>3. v13[q].sw = sw => q \in Stream!Sharers(sw) \ {r}
      BY <2>2, <3>1, <3>2 DEF Stream!Sharers
    <3> QED BY <1>8, <3>2, <3>3
  <2> QED BY <2>1, <2>2 DEF Stream!Shared
<1>12. StreamReadOf(r)'
  BY <1>2 DEF StreamReadOf, Stream!Sharing, Stream!Outcome
<1>13. Stream!Reads'
  BY <1>1, <1>2, <1>12, StreamReadsGo
<1> QED BY <1>9, <1>10, <1>11, <1>13 DEF Stream!IInv

LEMMA StreamDiskStep ==
  ASSUME Stream!StreamAssumption, Stream!IInv, Stream!RemoveEntry \/ Stream!Crash
  PROVE  Stream!IInv'
<1>1. CASE Stream!RemoveEntry
  <2>1. v4' = None /\ UNCHANGED <<v1, v2, v3, v5, Stream!putVars, v11, v12, v13, v14, v15>>
    BY <1>1 DEF Stream!RemoveEntry
  <2>2. Stream!TypeOK' /\ Stream!PutInv'
    BY <2>1 DEF Stream!IInv, Stream!TypeOK, Stream!PutInv, Stream!OneClaim, Stream!Registered,
       Stream!Progress, Stream!Files, Stream!Filled, Stream!CommittedIsWhole,
                Stream!Claimed, Stream!Filling, Stream!Fresh, Stream!putVars
  <2>3. \A p \in Puts : Stream!Sharers(p)' = Stream!Sharers(p) /\
          (Stream!Holding(p)' <=> Stream!Holding(p))
    BY <2>1 DEF Stream!Sharers, Stream!Holding, Stream!Filling, Stream!putVars
  <2>4. Stream!Shared' /\ Stream!Reads'
    BY <2>1, <2>3 DEF Stream!IInv, Stream!Shared, Stream!Reads, Stream!putVars
  <2> QED BY <2>2, <2>4 DEF Stream!IInv
<1>2. CASE Stream!Crash
  <2>1. /\ v15 < MaxCrashes /\ v15' = v15 + 1
        /\ v1' = FALSE /\ v2' = None /\ v12' = {} /\ v14' = {}
        /\ v6' = [p \in Puts |-> IF v6[p] = "idle" THEN "idle" ELSE "ended"]
        /\ v11' = [p \in Puts |-> 0]
        /\ v13' = [r \in Readers |->
                  [v13[r] EXCEPT !.at = IF @ = "idle" THEN "idle" ELSE "closed"]]
        /\ UNCHANGED <<v3, v4, v5, v7, v8, v9, v10>>
    BY <1>2 DEF Stream!Crash
  <2>2. /\ Stream!Cardinality(Readers) \in Nat /\ MaxCrashes \in Nat
    BY StreamCardinalityType DEF Stream!StreamAssumption
  <2>3. Stream!TypeOK'
    <3>1. v13' \in [Readers -> [at :
            {"idle", "got", "read", "wait", "pread", "closed"} \union Stream!Outcome,
                               sw : Puts \union {None}, pos : 0..Blocks]]
      BY <2>1 DEF Stream!IInv, Stream!TypeOK
    <3>2. v11' \in [Puts -> 0..(Stream!Cardinality(Readers) + 1)] /\ v15' \in 0..MaxCrashes
      BY <2>1, <2>2 DEF Stream!IInv, Stream!TypeOK
    <3>3. v6' \in [Puts -> {"idle", "open", "register", "write", "count", "unclaim",
                            "unregister", "mark", "drop", "ended"}]
      BY <2>1
    <3> QED BY <2>1, <3>1, <3>2, <3>3 DEF Stream!IInv, Stream!TypeOK
  <2>4. Stream!PutInv'
    BY <2>1 DEF Stream!IInv, Stream!TypeOK, Stream!PutInv, Stream!OneClaim, Stream!Registered,
       Stream!Progress, Stream!Files, Stream!Filled, Stream!CommittedIsWhole,
                Stream!Claimed, Stream!Filling, Stream!Fresh
  <2>5. \A r \in Readers : v13'[r].at \in {"idle", "closed"} /\ v13'[r].sw = v13[r].sw
                           /\ (v13'[r].at # "idle" => v13[r].at # "idle")
    BY <2>1 DEF Stream!IInv, Stream!TypeOK
  <2>6. \A p \in Puts : Stream!Sharers(p)' = {} /\ ~Stream!Holding(p)'
    BY <2>1, <2>5 DEF Stream!Sharers, Stream!Sharing, Stream!Outcome, Stream!Holding,
       Stream!Filling
  <2>7. \A p \in Puts : Stream!Cardinality(Stream!Sharers(p)') = 0 /\ v11'[p] = 0
    BY <2>1, <2>6, StreamEmptySet
  <2>8. Stream!Shared'
    BY <2>5, <2>6, <2>7 DEF Stream!Shared, Stream!Sharing, Stream!Outcome
  <2>9. Stream!Reads'
    BY <2>5 DEF Stream!IInv, Stream!Reads, Stream!Sharing, Stream!Outcome
  <2> QED BY <2>3, <2>4, <2>8, <2>9 DEF Stream!IInv
<1> QED BY <1>1, <1>2

LEMMA StreamStepPreserves ==
  ASSUME Stream!StreamAssumption
  PROVE  Stream!IInv /\ [Stream!Next]_(Stream!vars) => Stream!IInv'
<1> SUFFICES ASSUME Stream!IInv, [Stream!Next]_(Stream!vars) PROVE Stream!IInv'
  OBVIOUS
<1>1. ASSUME NEW p \in Puts, Stream!PutStep(p)
      PROVE  Stream!IInv'
  <2>1. \A q \in Puts : Stream!Holding(q) => q \in v12
    BY DEF Stream!IInv, Stream!Shared
  <2> QED BY <1>1, <2>1, StreamPutKeepsPuts, StreamPutKeepsReaders, StreamPutKeepsSharers,
        StreamPutKeepsTypes DEF Stream!IInv
<1>2. ASSUME NEW r \in Readers, Stream!ReaderStep(r)
      PROVE  Stream!IInv'
  BY <1>2, StreamReadStepKeeps, StreamAttachStep, StreamCloseStep DEF Stream!ReaderStep,
     Stream!ReadStep
<1>3. CASE UNCHANGED Stream!vars
  <2>1. Stream!TypeOK' /\ Stream!PutInv' /\ Stream!Reads'
    BY <1>3 DEF Stream!vars, Stream!putVars, Stream!IInv, Stream!TypeOK, Stream!PutInv,
       Stream!OneClaim, Stream!Registered, Stream!Progress, Stream!Files, Stream!Filled,
                Stream!CommittedIsWhole, Stream!Claimed, Stream!Filling, Stream!Fresh, Stream!Reads
  <2>2. Stream!Shared'
    BY <1>3 DEF Stream!vars, Stream!putVars, Stream!IInv, Stream!Shared, Stream!Sharers,
       Stream!Holding, Stream!Filling
  <2> QED BY <2>1, <2>2 DEF Stream!IInv
<1> QED BY <1>1, <1>2, <1>3, StreamDiskStep DEF Stream!Next

LEMMA StreamConsequences ==
  ASSUME Stream!IInv
  PROVE  /\ Stream!TypeOK /\ Stream!CommittedIsWhole /\ Stream!DescriptorOutlivesReaders /\
              Stream!NoHoleRead
         /\ Stream!EofMeansWhole /\ Stream!RegisteredIsUnfinished
<1>1. Stream!DescriptorOutlivesReaders
  BY DEF Stream!IInv, Stream!Shared, Stream!DescriptorOutlivesReaders, Stream!Attached,
         Stream!Sharing
<1>2. Stream!NoHoleRead /\ Stream!EofMeansWhole
  BY DEF Stream!IInv, Stream!Reads, Stream!NoHoleRead, Stream!EofMeansWhole
<1>3. Stream!RegisteredIsUnfinished
  BY DEF Stream!IInv, Stream!TypeOK, Stream!PutInv, Stream!Registered, Stream!Progress,
         Stream!RegisteredIsUnfinished
<1> QED BY <1>1, <1>2, <1>3 DEF Stream!IInv, Stream!PutInv, Stream!Files
-----------------------------------------------------------------------------
(* The parts' theorems, for the composition. Each module proves its inductive invariant  *)
(* for every value of its constants (its lemmas InitEstablishes and StepPreserves); here *)
(* it holds in the behaviours of its part, which no other part's step touches.           *)

\* In every behaviour of the sessions' part their properties hold, whatever the callers,
\* the keys and the ids.
THEOREM SessionsAgreeAlways == EngineSpec => []SessionsAgree
<1> DEFINE I == part = "sessions" => Sessions!IInv
<1>1. EngineInit => I
  BY PartsAssumption, Sessions!InitEstablishes DEF EngineInit
<1>2. I /\ [EngineNext]_allVars => I'
  <2> SUFFICES ASSUME I, [EngineNext]_allVars, part' = "sessions" PROVE Sessions!IInv'
    OBVIOUS
  <2>1. part = "sessions" /\ Sessions!IInv
    BY DEF EngineNext, SessionsNext, StreamNext, EvictionNext, MoveNext, allVars
  <2>2. Sessions!Next \/ UNCHANGED allVars
    BY <2>1 DEF EngineNext, SessionsNext, StreamNext, EvictionNext, MoveNext
  <2>3. [Sessions!Next]_(Sessions!vars)
    BY <2>2 DEF allVars, partVars, Sessions!vars
  <2> QED BY <2>1, <2>3, PartsAssumption, Sessions!StepPreserves
<1>3. I => SessionsAgree
  BY Sessions!Consequences DEF SessionsAgree
<1> QED BY <1>1, <1>2, <1>3, PTL DEF EngineSpec

\* In every behaviour of the stream's part: whatever the puts, the readers, the length of
\* the entry and the crashes.
THEOREM StreamIsWholeAlways == EngineSpec => []StreamIsWhole
<1> DEFINE I == part = "stream" => Stream!IInv
<1>1. EngineInit => I
  BY PartsAssumption, StreamInitEstablishes DEF EngineInit
<1>2. I /\ [EngineNext]_allVars => I'
  <2> SUFFICES ASSUME I, [EngineNext]_allVars, part' = "stream" PROVE Stream!IInv'
    OBVIOUS
  <2>1. part = "stream" /\ Stream!IInv
    BY DEF EngineNext, SessionsNext, StreamNext, EvictionNext, MoveNext, allVars
  <2>2. Stream!Next \/ UNCHANGED allVars
    BY <2>1 DEF EngineNext, SessionsNext, StreamNext, EvictionNext, MoveNext
  <2>3. [Stream!Next]_(Stream!vars)
    BY <2>2 DEF allVars, partVars, Stream!vars, Stream!putVars
  <2> QED BY <2>1, <2>3, PartsAssumption, StreamStepPreserves
<1>3. I => StreamIsWhole
  BY StreamConsequences DEF StreamIsWhole
<1> QED BY <1>1, <1>2, <1>3, PTL DEF EngineSpec

\* In every behaviour of the eviction's part: whatever the names, the evictors and the limit.
THEOREM CacheKeepsItsLimitAlways == EngineSpec => []CacheKeepsItsLimit
<1> DEFINE I == part = "eviction" => EvictionInv
<1>1. EngineInit => I
  BY PartsAssumption, EvictionInit DEF EngineInit
<1>2. I /\ [EngineNext]_allVars => I'
  <2> SUFFICES ASSUME I, [EngineNext]_allVars, part' = "eviction" PROVE EvictionInv'
    OBVIOUS
  <2>1. part = "eviction" /\ EvictionInv
    BY DEF EngineNext, SessionsNext, StreamNext, EvictionNext, MoveNext, allVars
  <2>2. Next \/ UNCHANGED allVars
    BY <2>1 DEF EngineNext, SessionsNext, StreamNext, EvictionNext, MoveNext
  <2>3. [Next]_vars
    BY <2>2 DEF allVars
  <2> QED BY <2>1, <2>3, PartsAssumption, EvictionPreserves
<1>3. I => CacheKeepsItsLimit
  BY EvictionConsequences DEF CacheKeepsItsLimit
<1> QED BY <1>1, <1>2, <1>3, PTL DEF EngineSpec

\* What the moves' part preserves, whatever the jobs, their policies and the file system.
LEMMA MoveInvariant ==
  /\ EngineInit => (part = "move" => Move!IInv)
  /\ (part = "move" => Move!IInv) /\ [EngineNext]_allVars
       => (part = "move" => Move!IInv)' /\ (part = "move" => Move!FilesStay)
<1>1. EngineInit => (part = "move" => Move!IInv)
  BY PartsAssumption, MoveInitEstablishes DEF EngineInit
<1>2. ASSUME part = "move" => Move!IInv, [EngineNext]_allVars, part = "move" \/ part' = "move"
      PROVE  Move!IInv' /\ Move!FilesStay
  <2>1. part = "move" /\ Move!IInv
    BY <1>2 DEF EngineNext, SessionsNext, StreamNext, EvictionNext, MoveNext, allVars
  <2>2. Move!Next \/ UNCHANGED allVars
    BY <1>2, <2>1 DEF EngineNext, SessionsNext, StreamNext, EvictionNext, MoveNext
  <2>3. [Move!Next]_(Move!vars)
    BY <2>2 DEF allVars, partVars, Move!vars
  <2> QED BY <2>1, <2>3, PartsAssumption, MoveStepPreserves, MoveStepKeepsFiles
<1> QED BY <1>1, <1>2

\* In every behaviour of the moves' part a finished job reports a file, and so on.
THEOREM MovesAreApartAlways == EngineSpec => []MovesAreApart
<1> DEFINE I == part = "move" => Move!IInv
<1>1. EngineInit => I
  BY MoveInvariant
<1>2. I /\ [EngineNext]_allVars => I'
  BY MoveInvariant
<1>3. I => MovesAreApart
  BY PartsAssumption, MoveConsequences DEF MovesAreApart
<1> QED BY <1>1, <1>2, <1>3, PTL DEF EngineSpec

\* A complete file is replaced or removed only by a job that overwrites.
THEOREM CompleteFilesStayAlways == EngineSpec => CompleteFilesStay
<1> DEFINE I == part = "move" => Move!IInv
<1>1. EngineInit => I
  BY MoveInvariant
<1>2. I /\ [EngineNext]_allVars => I' /\ (part = "move" => Move!FilesStay)
  BY MoveInvariant
<1> QED BY <1>1, <1>2, PTL DEF EngineSpec, CompleteFilesStay
=============================================================================
