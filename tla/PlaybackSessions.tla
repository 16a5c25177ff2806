-------------------------- MODULE PlaybackSessions --------------------------
(***************************************************************************)
(* engine/core/playback/manager.go: the sessions that HTTP handlers, the   *)
(* prefetcher and exports open, share, keep alive and release. A caller    *)
(* opens for one asset key, shared or Private, uses what it got, and       *)
(* releases it; the reaper removes what expired. Concurrent shared opens   *)
(* of a key are meant to be one: the first leads a flight, the others join *)
(* it. Each step is one critical section (m.mu, inflightMu) or one call to  *)
(* the provider, which may return a session, an error, a cancellation of    *)
(* its caller's context, or panic.                                          *)
(***************************************************************************)
EXTENDS Integers, FiniteSets, TLAPS

CONSTANTS Callers,    \* goroutines that call Open
          PrivateCallers, \* those that ask for a Private session (exports)
          Keys,       \* asset keys: asset, storefront and capabilities
          Ids,        \* session ids, each used once
          MaxOpens,   \* bound: how many times a caller calls Open
          Reaper,     \* the reaper goroutine
          None

Failure == {"error", "canceled"}

CallersAssumption == /\ PrivateCallers \subseteq Callers
                     /\ Reaper \notin Callers
                     /\ MaxOpens \in Nat
                     /\ None \notin Ids \union Keys \union Callers \union Failure
                     /\ Ids \intersect Failure = {}

VARIABLES
  contexts,   \* m.sessions and m.contexts, always changed together
  expired,    \* the sessions whose expiry has passed
  index,      \* assetIndex: per key, a session or None
  keyOf,      \* sessionToAsset: per session, a key or None
  inflight,   \* per key, the caller that leads the registered flight, or None
  ended,      \* the leaders whose flight has its result (done is closed)
  at,         \* per goroutine, where it is
  key,        \* per caller, the key it opens
  got,        \* per caller: the session it holds or a flight's outcome
  fl,         \* per caller, the leader whose flight it waits for
  released,   \* removed sessions not yet reported to the hook
  batch,      \* per goroutine, the sessions it is about to report
  reported,   \* per session, how often the hook was called with it
  used,       \* the ids handed out so far
  opens       \* per caller, how many times it called Open (bounded)

vars == <<contexts, expired, index, keyOf, inflight, ended, at, key, got, fl,
          released, batch, reported, used, opens>>
maps == <<contexts, expired, index, keyOf, released, used>>

Actors == Callers \union {Reaper}

Init == /\ contexts = {} /\ expired = {} /\ released = {} /\ used = {}
        /\ index = [k \in Keys |-> None]
        /\ keyOf = [s \in Ids |-> None]
        /\ inflight = [k \in Keys |-> None]
        /\ ended = {}
        /\ at = [a \in Actors |-> "idle"]
        /\ key = [c \in Callers |-> None]
        /\ got = [c \in Callers |-> None]
        /\ fl = [c \in Callers |-> None]
        /\ batch = [a \in Actors |-> {}]
        /\ reported = [s \in Ids |-> 0]
        /\ opens = [c \in Callers |-> 0]

Go(a, to) == at' = [at EXCEPT ![a] = to]
Hold(c, x) == got' = [got EXCEPT ![c] = x]
Live(s) == s \in contexts \ expired

\* Open returns x: a session to hold, or a failure.
Return(c, x) ==
  IF x \in Failure THEN Go(c, "idle") /\ Hold(c, None)
                   ELSE Go(c, "holds") /\ Hold(c, x)
-----------------------------------------------------------------------------
(* Open. *)

Open(c, k) ==
  /\ at[c] = "idle" /\ opens[c] < MaxOpens
  /\ opens' = [opens EXCEPT ![c] = @ + 1]
  /\ key' = [key EXCEPT ![c] = k]
  /\ Go(c, IF c \in PrivateCallers THEN "open" ELSE "look")
  /\ UNCHANGED <<maps, inflight, ended, got, fl, batch, reported>>

\* getByAssetKey: reuse a live session.
Look(c) ==
  /\ at[c] = "look"
  /\ LET s == index[key[c]] IN
     IF s # None /\ Live(s) THEN Return(c, s) ELSE Go(c, "flight") /\ UNCHANGED got
  /\ UNCHANGED <<maps, inflight, ended, key, fl, batch, reported, opens>>

\* No flight is registered: lead one.
Lead(c) ==
  /\ at[c] = "flight" /\ inflight[key[c]] = None
  /\ inflight' = [inflight EXCEPT ![key[c]] = c]
  /\ Go(c, "open")
  /\ UNCHANGED <<maps, ended, key, got, fl, batch, reported, opens>>

\* Join the registered flight, which may have its result already.
Join(c) ==
  /\ at[c] = "flight" /\ inflight[key[c]] # None
  /\ LET leader == inflight[key[c]] IN
     IF leader \in ended
     THEN Go(c, "joined") /\ Hold(c, got[leader]) /\ UNCHANGED fl
     ELSE Go(c, "wait") /\ fl' = [fl EXCEPT ![c] = leader] /\ UNCHANGED got
  /\ UNCHANGED <<maps, inflight, ended, key, batch, reported, opens>>

\* The joiner's own context is done first.
JoinCanceled(c) ==
  /\ at[c] = "wait"
  /\ Return(c, "canceled")
  /\ fl' = [fl EXCEPT ![c] = None]
  /\ UNCHANGED <<maps, inflight, ended, key, batch, reported, opens>>

\* The leader's cancellation is not the joiner's: it tries again, unless its
\* own context is done too.
Joined(c) ==
  /\ at[c] = "joined"
  /\ \/ got[c] = "canceled" /\ Go(c, "look") /\ Hold(c, None)
     \/ Return(c, got[c])
  /\ UNCHANGED <<maps, inflight, ended, key, fl, batch, reported, opens>>

\* store: an indexed session replaces the key's entry.
Store(s, k, indexed) ==
  /\ contexts' = contexts \union {s}
  /\ used' = used \union {s}
  /\ IF indexed THEN index' = [index EXCEPT ![k] = s] /\ keyOf' = [keyOf EXCEPT ![s] = k]
                ELSE UNCHANGED <<index, keyOf>>
  /\ UNCHANGED <<expired, released>>

\* openDirect for a Private caller: the session is in no index.
OpenPrivate(c) ==
  /\ at[c] = "open" /\ c \in PrivateCallers
  /\ \/ \E s \in Ids \ used : Store(s, key[c], FALSE) /\ Return(c, s)
     \/ Return(c, "error") /\ UNCHANGED maps
  /\ UNCHANGED <<inflight, ended, key, fl, batch, reported, opens>>

\* openDirect for a leader; a panic is recovered into an error.
OpenShared(c) ==
  /\ at[c] = "open" /\ c \notin PrivateCallers
  /\ \/ \E s \in Ids \ used : Store(s, key[c], TRUE) /\ Hold(c, s)
     \/ \E f \in Failure : Hold(c, f) /\ UNCHANGED maps
  /\ Go(c, "close")
  /\ UNCHANGED <<inflight, ended, key, fl, batch, reported, opens>>

\* close(fl.done): every waiter has the leader's outcome.
CloseFlight(c) ==
  /\ at[c] = "close"
  /\ ended' = ended \union {c}
  /\ LET waiters == {w \in Callers : at[w] = "wait" /\ fl[w] = c} IN
     /\ at' = [a \in Actors |-> IF a = c THEN "delete"
                                ELSE IF a \in waiters THEN "joined" ELSE at[a]]
     /\ got' = [w \in Callers |-> IF w \in waiters THEN got[c] ELSE got[w]]
     /\ fl' = [w \in Callers |-> IF w \in waiters THEN None ELSE fl[w]]
  /\ UNCHANGED <<maps, inflight, key, batch, reported, opens>>

DeleteFlight(c) ==
  /\ at[c] = "delete"
  /\ inflight' = [inflight EXCEPT ![key[c]] = None]
  /\ ended' = ended \ {c}
  /\ Return(c, got[c])
  /\ UNCHANGED <<maps, key, fl, batch, reported, opens>>
-----------------------------------------------------------------------------
(* Removal: Release, an expired lookup, the reaper. All go through          *)
(* deleteLocked, and report what was removed after the lock is released.    *)

DeleteLockedKeepsIndex(gone) ==                                      \* mutant
  /\ contexts' = contexts \ gone
  /\ expired' = expired \ gone
  /\ released' = released \union (gone \intersect contexts)
  /\ keyOf' = [s \in Ids |-> IF s \in gone THEN None ELSE keyOf[s]]
  /\ UNCHANGED <<used, index>>
DeleteLocked(gone) ==
  /\ contexts' = contexts \ gone
  /\ expired' = expired \ gone
  /\ released' = released \union (gone \intersect contexts)
  /\ index' = [k \in Keys |-> IF index[k] \in gone THEN None ELSE index[k]]
  /\ keyOf' = [s \in Ids |-> IF s \in gone THEN None ELSE keyOf[s]]
  /\ UNCHANGED used

Release(c) ==
  /\ at[c] = "holds"
  /\ DeleteLocked({got[c]})
  /\ Go(c, "drain") /\ Hold(c, None)
  /\ UNCHANGED <<inflight, ended, key, fl, batch, reported, opens>>

\* lookup: the read-locked part of every use of a session. A use that is long
\* after the last one pushes the expiry back; when it is up to date nothing
\* happens, and the step is left out.
Lookup(c) ==
  /\ at[c] = "holds"
  /\ CASE got[c] \notin contexts -> Go(c, "idle") /\ Hold(c, None)
       [] got[c] \in expired -> Go(c, "expire") /\ UNCHANGED got
       [] OTHER -> Go(c, "refresh") /\ UNCHANGED got
  /\ UNCHANGED <<maps, inflight, ended, key, fl, batch, reported, opens>>

\* The write-locked refresh, if the session is still there.
Refresh(c) ==
  /\ at[c] = "refresh"
  /\ expired' = expired \ {got[c]}
  /\ Go(c, "holds")
  /\ UNCHANGED <<contexts, index, keyOf, released, used, inflight, ended, key, got, fl,
                 batch, reported, opens>>

\* The write-locked recheck: the reaper may have been faster, or another
\* caller may have refreshed the session.
ExpireOnLookup(c) ==
  /\ at[c] = "expire"
  /\ DeleteLocked({got[c]} \intersect expired)
  /\ Go(c, "drain") /\ Hold(c, None)
  /\ UNCHANGED <<inflight, ended, key, fl, batch, reported, opens>>

Sweep ==
  /\ at[Reaper] = "idle" /\ expired # {}
  /\ DeleteLocked(expired)
  /\ Go(Reaper, "drain")
  /\ UNCHANGED <<inflight, ended, key, got, fl, batch, reported, opens>>

\* drainReleased: take the whole list under the lock ...
Drain(a) ==
  /\ at[a] = "drain"
  /\ batch' = [batch EXCEPT ![a] = released]
  /\ released' = {}
  /\ Go(a, "report")
  /\ UNCHANGED <<contexts, expired, index, keyOf, used, inflight, ended, key, got, fl,
                 reported, opens>>

\* ... and call the hook outside it, once per session.
Report(a) ==
  /\ at[a] = "report"
  /\ reported' = [s \in Ids |-> IF s \in batch[a] THEN reported[s] + 1 ELSE reported[s]]
  /\ batch' = [batch EXCEPT ![a] = {}]
  /\ Go(a, "idle")
  /\ UNCHANGED <<maps, inflight, ended, key, got, fl, opens>>

TimePasses(s) ==
  /\ Live(s)
  /\ expired' = expired \union {s}
  /\ UNCHANGED <<contexts, index, keyOf, released, used, inflight, ended, at, key, got,
                 fl, batch, reported, opens>>
-----------------------------------------------------------------------------
\* What an Open that began goes on to do; its own cancellation is owed by nobody.
OpenOwed(c) == Look(c) \/ Lead(c) \/ Join(c) \/ Joined(c) \/ OpenPrivate(c)
               \/ OpenShared(c) \/ CloseFlight(c) \/ DeleteFlight(c)
OpenStep(c) == OpenOwed(c) \/ JoinCanceled(c)

RemoveStep(a) == Drain(a) \/ Report(a)

UseStep(c) == Release(c) \/ Lookup(c) \/ Refresh(c) \/ ExpireOnLookup(c)

Next == \/ \E c \in Callers : (\E k \in Keys : Open(c, k)) \/ OpenStep(c) \/ UseStep(c)
        \/ \E a \in Actors : RemoveStep(a)
        \/ Sweep
        \/ \E s \in Ids : TimePasses(s)

\* An Open or a removal that began goes on: the provider returns and the
\* goroutines run.
Fairness == /\ \A c \in Callers : WF_vars(OpenOwed(c))
            /\ \A a \in Actors : WF_vars(RemoveStep(a))

Spec == Init /\ [][Next]_vars /\ Fairness
-----------------------------------------------------------------------------
Ats == {"idle", "look", "flight", "wait", "joined", "open", "close", "delete", "holds",
        "refresh", "expire", "drain", "report"}

TypeOK == /\ contexts \subseteq Ids /\ expired \subseteq contexts
          /\ released \subseteq Ids /\ used \subseteq Ids
          /\ index \in [Keys -> Ids \union {None}]
          /\ keyOf \in [Ids -> Keys \union {None}]
          /\ inflight \in [Keys -> Callers \union {None}]
          /\ ended \subseteq Callers
          /\ at \in [Actors -> Ats]
          /\ key \in [Callers -> Keys \union {None}]
          /\ got \in [Callers -> Ids \union Failure \union {None}]
          /\ \A c \in Callers :
               at[c] \in {"holds", "refresh", "expire"} => got[c] \in Ids
          /\ fl \in [Callers -> Callers \union {None}]
          /\ batch \in [Actors -> SUBSET Ids]
          /\ reported \in [Ids -> 0..3]
          /\ opens \in [Callers -> 0..MaxOpens]

\* The secondary maps never outlive their session, and the index only holds
\* sessions that know their key, so Release can always take an entry out
\* (manager.go:605-620).
IndexFollowsSessions ==
  /\ \A k \in Keys : index[k] # None => index[k] \in contexts /\ keyOf[index[k]] = k
  /\ \A s \in Ids : keyOf[s] # None => s \in contexts

\* The hook frees what a session owns (producers, scratch files): it is called
\* at most once for a session, and never while the session can be found, however
\* Release, lookup and the reaper race (manager.go:574-620).
HookOnceAfterRemoval ==
  \A s \in Ids : /\ reported[s] <= 1
                 /\ reported[s] = 1 => s \notin contexts

Removed(s)  == s \in used /\ s \notin contexts
Reported(s) == reported[s] = 1

\* A removed session is reported in the end, whoever removed it.
EveryRemovalReported == \A s \in Ids : Removed(s) ~> Reported(s)

\* Release by an export never takes away a session that another caller was
\* given: a Private session has one holder (manager.go:54-58).
PrivateHasOneHolder ==
  \A c \in PrivateCallers, d \in Callers :
    c # d /\ got[c] \in Ids => got[d] # got[c]

Opening(c)  == at[c] \in {"look", "flight", "wait", "open"}
Answered(c) == at[c] \in {"idle", "holds"}

\* An Open that joins a flight is never stuck on it, whether the leader
\* succeeds, fails, is cancelled or panics (manager.go:269-287).
EveryOpenReturns == \A c \in Callers : Opening(c) ~> Answered(c)

\* manager.go:61-64 and 233-235: concurrent calls for a key receive the same
\* session, so a key never has two sessions that are live.
OneLiveSessionPerKey ==
  \A s, t \in contexts : Live(s) /\ Live(t) /\ keyOf[s] # None /\ keyOf[s] = keyOf[t]
                         => s = t
-----------------------------------------------------------------------------
(* Proofs, for any callers, keys and ids and any number of calls. Each      *)
(* checked invariant needs another: that the hook is called once, that a    *)
(* session is in one place of the ledger; that a Private session has one    *)
(* holder, that no index entry leads to it and that its holder takes no     *)
(* part in flights; and all of them, what a caller's position says of its   *)
(* key and of what it holds.                                                *)

\* Between the calls of a shared Open, and with its outcome.
InOpen    == {"look", "flight", "wait", "joined", "open", "close", "delete"}
InFlights == {"look", "flight", "wait", "joined", "close", "delete"}
Outcome   == Ids \union Failure

Positions ==
  /\ \A c \in Callers : at[c] \in InOpen => key[c] \in Keys
  /\ \A c \in Callers : at[c] \in {"joined", "close", "delete"} => got[c] \in Outcome
  /\ \A c \in ended : at[c] = "delete"
  /\ \A c \in PrivateCallers : at[c] \notin InFlights

\* A session is unused, in the manager, removed, about to be reported by one
\* goroutine, or reported.
Ledger ==
  /\ contexts \subseteq used
  /\ released \subseteq used \ contexts
  /\ \A a \in Actors : batch[a] \subseteq used \ (contexts \union released)
  /\ \A a, b \in Actors : a # b => batch[a] \intersect batch[b] = {}
  /\ \A s \in Ids :
       /\ reported[s] \in {0, 1}
       /\ reported[s] = 1 => /\ s \in used \ (contexts \union released)
                             /\ \A a \in Actors : s \notin batch[a]

Holders ==
  /\ \A c \in Callers : got[c] \in Ids => got[c] \in used
  /\ \A c \in PrivateCallers, k \in Keys : got[c] \in Ids => index[k] # got[c]
  /\ PrivateHasOneHolder

IInv == TypeOK /\ Positions /\ Ledger /\ IndexFollowsSessions /\ Holders

LEMMA InitEstablishes ==
  ASSUME CallersAssumption
  PROVE  Init => IInv
<1> SUFFICES ASSUME Init PROVE IInv
  OBVIOUS
<1>1. TypeOK
  BY DEF CallersAssumption, Init, TypeOK, Actors, Ats
<1>2. Positions
  BY DEF CallersAssumption, Init, Positions, Actors, InOpen, InFlights
<1>3. Ledger
  BY DEF Init, Ledger
<1>4. IndexFollowsSessions /\ Holders
  BY DEF CallersAssumption, Init, IndexFollowsSessions, Holders, PrivateHasOneHolder
<1> QED BY <1>1, <1>2, <1>3, <1>4 DEF IInv

(* What Store and DeleteLocked do to the maps. *)

LEMMA StoreFact ==
  ASSUME CallersAssumption, IInv, NEW s \in Ids \ used, NEW k \in Keys, NEW indexed \in BOOLEAN,
         Store(s, k, indexed), UNCHANGED <<batch, reported>>
  PROVE  /\ contexts' \subseteq Ids /\ expired' \subseteq contexts' /\ released' \subseteq Ids
         /\ used' = used \union {s} /\ used' \subseteq Ids
         /\ index' \in [Keys -> Ids \union {None}] /\ keyOf' \in [Ids -> Keys \union {None}]
         /\ Ledger' /\ IndexFollowsSessions'
         /\ \A l \in Keys : index'[l] = index[l] \/ index'[l] = s
         /\ ~indexed => index' = index
<1>1. Ledger'
  BY DEF IInv, TypeOK, Ledger, Store
<1>2. IndexFollowsSessions'
  <2>1. CASE indexed
    BY <2>1 DEF CallersAssumption, IInv, TypeOK, Ledger, IndexFollowsSessions, Store
  <2>2. CASE ~indexed
    BY <2>2 DEF CallersAssumption, IInv, TypeOK, Ledger, IndexFollowsSessions, Store
  <2> QED BY <2>1, <2>2
<1>3. CASE indexed
  BY <1>1, <1>2, <1>3 DEF IInv, TypeOK, Store
<1>4. CASE ~indexed
  BY <1>1, <1>2, <1>4 DEF IInv, TypeOK, Store
<1> QED BY <1>3, <1>4

LEMMA DeleteFact ==
  ASSUME CallersAssumption, IInv, NEW gone \in SUBSET Ids,
         DeleteLocked(gone), UNCHANGED <<batch, reported>>
  PROVE  /\ contexts' \subseteq Ids /\ expired' \subseteq contexts' /\ released' \subseteq Ids
         /\ used' = used
         /\ index' \in [Keys -> Ids \union {None}] /\ keyOf' \in [Ids -> Keys \union {None}]
         /\ Ledger' /\ IndexFollowsSessions'
         /\ \A k \in Keys : index'[k] = index[k] \/ index'[k] = None
<1>1. Ledger'
  BY DEF IInv, TypeOK, Ledger, DeleteLocked
<1>2. IndexFollowsSessions'
  BY DEF CallersAssumption, IInv, TypeOK, Ledger, IndexFollowsSessions, DeleteLocked
<1> QED BY <1>1, <1>2 DEF IInv, TypeOK, DeleteLocked

(* The steps that leave the sessions alone: what is left to show is what they *)
(* do to the caller and to the flights.                                      *)

LEMMA CallerStep ==
  ASSUME CallersAssumption, IInv, NEW c \in Callers
  PROVE  (\E k \in Keys : Open(c, k)) \/ Look(c) \/ Lead(c) \/ Join(c) \/ JoinCanceled(c)
         \/ Joined(c) \/ CloseFlight(c) \/ DeleteFlight(c) \/ Lookup(c)
         => IInv'
<1> USE DEF CallersAssumption, IInv, TypeOK, Positions, Holders, PrivateHasOneHolder, Actors, Ats,
            InOpen, InFlights, Outcome, Go, Hold
<1>1. ASSUME NEW k \in Keys, Open(c, k)
      PROVE  TypeOK' /\ Positions' /\ Holders'
  BY <1>1 DEF Open, maps
<1>2. ASSUME Look(c)
      PROVE  TypeOK' /\ Positions' /\ Holders'
  <2> DEFINE s == index[key[c]]
  <2>1. c \notin PrivateCallers /\ key[c] \in Keys /\ s \in Ids \union {None}
    BY <1>2 DEF Look
  <2>2. CASE s # None /\ Live(s)
    <3>1. s \in Ids /\ s \in used /\ s \notin Failure
      BY <2>1, <2>2 DEF Ledger, Live
    <3>2. at' = [at EXCEPT ![c] = "holds"] /\ got' = [got EXCEPT ![c] = s]
      BY <1>2, <2>2, <3>1 DEF Look, Return
    <3>3. UNCHANGED <<maps, inflight, ended, key, fl, batch, reported, opens>> /\ at[c] = "look"
      BY <1>2 DEF Look
    <3>4. \A d \in PrivateCallers : got[d] \in Ids => s # got[d]
      BY <2>1
    <3> HIDE DEF s
    <3> QED BY <2>1, <3>1, <3>2, <3>3, <3>4 DEF maps
  <2>3. CASE ~(s # None /\ Live(s))
    <3>1. /\ at' = [at EXCEPT ![c] = "flight"] /\ at[c] = "look"
          /\ UNCHANGED <<maps, got, inflight, ended, key, fl, batch, reported, opens>>
      BY <1>2, <2>3 DEF Look
    <3> QED BY <2>1, <3>1 DEF maps
  <2> QED BY <2>2, <2>3
<1>3. ASSUME Lead(c)
      PROVE  TypeOK' /\ Positions' /\ Holders'
  BY <1>3 DEF Lead, maps
<1>4. ASSUME Join(c)
      PROVE  TypeOK' /\ Positions' /\ Holders'
  BY <1>4 DEF Join, maps
<1>5. ASSUME JoinCanceled(c)
      PROVE  TypeOK' /\ Positions' /\ Holders'
  <2>1. /\ at' = [at EXCEPT ![c] = "idle"] /\ got' = [got EXCEPT ![c] = None] /\ at[c] = "wait"
        /\ fl' = [fl EXCEPT ![c] = None]
        /\ UNCHANGED <<maps, inflight, ended, key, batch, reported, opens>>
    BY <1>5 DEF JoinCanceled, Return, Failure
  <2> QED BY <2>1 DEF maps
<1>6. ASSUME Joined(c)
      PROVE  TypeOK' /\ Positions' /\ Holders'
  BY <1>6 DEF Joined, Return, maps
<1>7. ASSUME CloseFlight(c)
      PROVE  TypeOK' /\ Positions' /\ Holders'
  BY <1>7 DEF CloseFlight, maps
<1>8. ASSUME DeleteFlight(c)
      PROVE  TypeOK' /\ Positions' /\ Holders'
  BY <1>8 DEF DeleteFlight, Return, maps
<1>9. ASSUME Lookup(c)
      PROVE  TypeOK' /\ Positions' /\ Holders'
  BY <1>9 DEF Lookup, maps
<1>10. ASSUME UNCHANGED <<maps, batch, reported>>
      PROVE  Ledger' /\ IndexFollowsSessions'
  BY <1>10 DEF maps, Ledger, IndexFollowsSessions
<1> QED BY <1>1, <1>2, <1>3, <1>4, <1>5, <1>6, <1>7, <1>8, <1>9, <1>10
        DEF Open, Look, Lead, Join, JoinCanceled, Joined, CloseFlight, DeleteFlight, Lookup

(* The steps that store a session, or fail to. *)

LEMMA OpenPrivateStep ==
  ASSUME CallersAssumption, IInv, NEW c \in Callers, OpenPrivate(c)
  PROVE  IInv'
<1> USE DEF CallersAssumption, IInv, TypeOK, Positions, Holders, PrivateHasOneHolder, Actors, Ats,
            InOpen, InFlights, Outcome, Go, Hold
<1>1. /\ at[c] = "open" /\ c \in PrivateCallers /\ key[c] \in Keys
      /\ UNCHANGED <<inflight, ended, key, fl, batch, reported, opens>>
  BY DEF OpenPrivate
<1>2. ASSUME NEW s \in Ids \ used, Store(s, key[c], FALSE), Return(c, s)
      PROVE  IInv'
  <2>1. /\ contexts' \subseteq Ids /\ expired' \subseteq contexts' /\ released' \subseteq Ids
        /\ used' = used \union {s} /\ used' \subseteq Ids
        /\ index' \in [Keys -> Ids \union {None}] /\ keyOf' \in [Ids -> Keys \union {None}]
        /\ Ledger' /\ IndexFollowsSessions' /\ index' = index
    BY <1>1, <1>2, StoreFact
  <2>2. at' = [at EXCEPT ![c] = "holds"] /\ got' = [got EXCEPT ![c] = s]
    BY <1>2 DEF Return
  <2>3. \A k \in Keys : index[k] # s
    BY DEF Ledger, IndexFollowsSessions
  <2>4. \A d \in Callers : got[d] # s
    OBVIOUS
  <2>5. TypeOK'
    BY <1>1, <2>1, <2>2
  <2>6. Positions' /\ Holders'
    BY <1>1, <2>1, <2>2, <2>3, <2>4
  <2> QED BY <2>1, <2>5, <2>6
<1>3. ASSUME Return(c, "error"), UNCHANGED maps
      PROVE  IInv'
  <2>1. at' = [at EXCEPT ![c] = "idle"] /\ got' = [got EXCEPT ![c] = None]
    BY <1>3 DEF Return, Failure
  <2>2. Ledger' /\ IndexFollowsSessions'
    BY <1>1, <1>3 DEF maps, Ledger, IndexFollowsSessions
  <2> QED BY <1>1, <1>3, <2>1, <2>2 DEF maps
<1> QED BY <1>2, <1>3 DEF OpenPrivate

LEMMA OpenSharedStep ==
  ASSUME CallersAssumption, IInv, NEW c \in Callers, OpenShared(c)
  PROVE  IInv'
<1> USE DEF CallersAssumption, IInv, TypeOK, Positions, Holders, PrivateHasOneHolder, Actors, Ats,
            InOpen, InFlights, Outcome, Go, Hold
<1>1. /\ at[c] = "open" /\ c \notin PrivateCallers /\ key[c] \in Keys
      /\ at' = [at EXCEPT ![c] = "close"]
      /\ UNCHANGED <<inflight, ended, key, fl, batch, reported, opens>>
  BY DEF OpenShared
<1>2. ASSUME NEW s \in Ids \ used, Store(s, key[c], TRUE), Hold(c, s)
      PROVE  IInv'
  <2>1. /\ contexts' \subseteq Ids /\ expired' \subseteq contexts' /\ released' \subseteq Ids
        /\ used' = used \union {s} /\ used' \subseteq Ids
        /\ index' \in [Keys -> Ids \union {None}] /\ keyOf' \in [Ids -> Keys \union {None}]
        /\ Ledger' /\ IndexFollowsSessions'
        /\ \A k \in Keys : index'[k] = index[k] \/ index'[k] = s
    BY <1>1, <1>2, StoreFact
  <2>2. got' = [got EXCEPT ![c] = s]
    BY <1>2
  <2>3. \A d \in Callers : got[d] # s
    OBVIOUS
  <2>4. TypeOK'
    BY <1>1, <2>1, <2>2
  <2>5. Positions' /\ Holders'
    BY <1>1, <2>1, <2>2, <2>3
  <2> QED BY <2>1, <2>4, <2>5
<1>3. ASSUME NEW f \in Failure, Hold(c, f), UNCHANGED maps
      PROVE  IInv'
  <2>1. Ledger' /\ IndexFollowsSessions'
    BY <1>1, <1>3 DEF maps, Ledger, IndexFollowsSessions
  <2> QED BY <1>1, <1>3, <2>1 DEF maps
<1> QED BY <1>2, <1>3 DEF OpenShared

(* The steps that remove sessions, and those that report what was removed. *)

LEMMA RemovalStep ==
  ASSUME CallersAssumption, IInv
  PROVE  /\ \A c \in Callers : Release(c) \/ ExpireOnLookup(c) => IInv'
         /\ Sweep => IInv'
<1> USE DEF CallersAssumption, IInv, TypeOK, Positions, Holders, PrivateHasOneHolder, Actors, Ats,
            InOpen, InFlights, Outcome, Go, Hold
<1>1. ASSUME NEW a \in Actors, NEW gone \in SUBSET Ids, DeleteLocked(gone),
             at[a] \notin InFlights, at' = [at EXCEPT ![a] = "drain"],
             \/ a \in Callers /\ got' = [got EXCEPT ![a] = None]
             \/ UNCHANGED got,
             UNCHANGED <<inflight, ended, key, fl, batch, reported, opens>>
      PROVE  IInv'
  <2>1. /\ contexts' \subseteq Ids /\ expired' \subseteq contexts' /\ released' \subseteq Ids
        /\ used' = used
        /\ index' \in [Keys -> Ids \union {None}] /\ keyOf' \in [Ids -> Keys \union {None}]
        /\ Ledger' /\ IndexFollowsSessions'
        /\ \A k \in Keys : index'[k] = index[k] \/ index'[k] = None
    BY <1>1, DeleteFact
  <2>2. \A c \in Callers : got'[c] = got[c] \/ got'[c] = None
    BY <1>1
  <2>3. TypeOK'
    BY <1>1, <2>1
  <2>4. Positions'
    BY <1>1, <2>1
  <2>5. Holders'
    BY <1>1, <2>1, <2>2
  <2> QED BY <2>1, <2>3, <2>4, <2>5
<1>2. ASSUME NEW c \in Callers, Release(c)
      PROVE  IInv'
  <2>1. {got[c]} \in SUBSET Ids /\ at[c] = "holds"
    BY <1>2 DEF Release
  <2> QED BY <1>1, <1>2, <2>1 DEF Release
<1>3. ASSUME NEW c \in Callers, ExpireOnLookup(c)
      PROVE  IInv'
  <2>1. {got[c]} \intersect expired \in SUBSET Ids /\ at[c] = "expire"
    BY <1>3 DEF ExpireOnLookup
  <2> QED BY <1>1, <1>3, <2>1 DEF ExpireOnLookup
<1>4. ASSUME Sweep
      PROVE  IInv'
  <2>1. expired \in SUBSET Ids /\ at[Reaper] = "idle" /\ Reaper \in Actors
    BY <1>4 DEF Sweep
  <2> QED BY <1>1, <1>4, <2>1 DEF Sweep
<1> QED BY <1>2, <1>3, <1>4

LEMMA ReportStep ==
  ASSUME CallersAssumption, IInv
  PROVE  /\ \A a \in Actors : RemoveStep(a) => IInv'
         /\ \A c \in Callers : Refresh(c) => IInv'
         /\ \A s \in Ids : TimePasses(s) => IInv'
<1> USE DEF CallersAssumption, IInv, TypeOK, Positions, Holders, PrivateHasOneHolder, Actors, Ats,
            InOpen, InFlights, Outcome, Go, Hold, Ledger, IndexFollowsSessions
<1>1. ASSUME NEW a \in Actors, Drain(a)
      PROVE  IInv'
  <2>1. TypeOK' /\ Positions' /\ Holders' /\ IndexFollowsSessions'
    BY <1>1 DEF Drain
  <2>2. Ledger'
    BY <1>1 DEF Drain
  <2> QED BY <2>1, <2>2
<1>2. ASSUME NEW a \in Actors, Report(a)
      PROVE  IInv'
  <2>1. ASSUME NEW s \in batch[a] PROVE reported[s] = 0
    <3>1. s \in Ids
      OBVIOUS
    <3>2. reported[s] \in {0, 1} /\ reported[s] # 1
      BY <3>1
    <3> QED BY <3>2
  <2>2. Ledger'
    BY <1>2, <2>1 DEF Report, maps
  <2>3. reported' \in [Ids -> 0..3]
    BY <1>2, <2>1 DEF Report
  <2>4. TypeOK' /\ Positions' /\ Holders' /\ IndexFollowsSessions'
    BY <1>2, <2>3 DEF Report, maps
  <2> QED BY <2>2, <2>4
<1>3. ASSUME NEW c \in Callers, Refresh(c)
      PROVE  IInv'
  BY <1>3 DEF Refresh
<1>4. ASSUME NEW s \in Ids, TimePasses(s)
      PROVE  IInv'
  BY <1>4 DEF TimePasses, Live
<1> QED BY <1>1, <1>2, <1>3, <1>4 DEF RemoveStep

LEMMA StepPreserves ==
  ASSUME CallersAssumption
  PROVE  IInv /\ [Next]_vars => IInv'
<1> SUFFICES ASSUME IInv, [Next]_vars PROVE IInv'
  OBVIOUS
<1>1. ASSUME NEW c \in Callers, (\E k \in Keys : Open(c, k)) \/ OpenStep(c) \/ UseStep(c)
      PROVE  IInv'
  BY <1>1, CallerStep, OpenPrivateStep, OpenSharedStep, RemovalStep, ReportStep
     DEF OpenStep, OpenOwed, UseStep
<1>2. CASE UNCHANGED vars
  BY <1>2 DEF vars, maps, IInv, TypeOK, Positions, Ledger, IndexFollowsSessions, Holders,
              PrivateHasOneHolder
<1> QED BY <1>1, <1>2, RemovalStep, ReportStep DEF Next

LEMMA Consequences ==
  ASSUME IInv
  PROVE  TypeOK /\ IndexFollowsSessions /\ HookOnceAfterRemoval /\ PrivateHasOneHolder
<1>1. HookOnceAfterRemoval
  <2>1. ASSUME NEW s \in Ids PROVE reported[s] <= 1 /\ (reported[s] = 1 => s \notin contexts)
    <3>1. reported[s] \in {0, 1} /\ (reported[s] = 1 => s \in used \ (contexts \union released))
      BY DEF IInv, Ledger
    <3> QED BY <3>1
  <2> QED BY <2>1 DEF HookOnceAfterRemoval
<1> QED BY <1>1 DEF IInv, Holders

\* Whatever the callers, the keys and the ids: the index follows the sessions, the
\* hook is called once and after the removal, and a Private session has one holder.
THEOREM SessionsAreSafe ==
  ASSUME CallersAssumption
  PROVE  Spec => [](TypeOK /\ IndexFollowsSessions /\ HookOnceAfterRemoval /\ PrivateHasOneHolder)
<1>1. Init => IInv
  BY InitEstablishes
<1>2. IInv /\ [Next]_vars => IInv'
  BY StepPreserves
<1>3. IInv => TypeOK /\ IndexFollowsSessions /\ HookOnceAfterRemoval /\ PrivateHasOneHolder
  BY Consequences
<1> QED BY <1>1, <1>2, <1>3, PTL DEF Spec
=============================================================================
