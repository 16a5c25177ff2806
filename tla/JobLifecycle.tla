---------------------------- MODULE JobLifecycle ----------------------------
(***************************************************************************)
(* What an export job's phase promises the client that polls it: it moves  *)
(* forward through the phases, ends once, and then may only be forgotten.  *)
(* A job that turns out to be an album or a playlist is forgotten instead  *)
(* of ending: its tracks take its place. engine/core/export/job.go.        *)
(***************************************************************************)
EXTENDS Integers

CONSTANT Jobs

VARIABLE life       \* the phase of each job, "none" before it is enqueued

TerminalPhase == {"done", "failed", "cancelled"}
RunPhase == {"queued", "resolving", "downloading", "tagging", "moving"}
Phase == RunPhase \union TerminalPhase

IsTerminal(p) == p \in TerminalPhase

rank == [p \in RunPhase |->
           CASE p = "queued" -> 0 [] p = "resolving" -> 1
             [] p = "downloading" -> 2 [] p = "tagging" -> 3 [] OTHER -> 4]

CanTransition(from, to) ==
  /\ from \in RunPhase
  /\ IsTerminal(to) \/ rank[to] >= rank[from]

LifeInit == life = [j \in Jobs |-> "none"]

Create(j) == life[j] = "none" /\ life' = [life EXCEPT ![j] = "queued"]

Progress(j) == \E to \in RunPhase : /\ CanTransition(life[j], to)
                                    /\ life' = [life EXCEPT ![j] = to]

End(j) == \E to \in TerminalPhase : /\ CanTransition(life[j], to)
                                    /\ life' = [life EXCEPT ![j] = to]

Forget(j) == /\ life[j] \in TerminalPhase \union {"resolving"}
             /\ life' = [life EXCEPT ![j] = "forgotten"]

\* The step every enqueued job is owed: it ends, or its tracks replace it.
Settle(j) == life[j] \in RunPhase /\ (End(j) \/ Forget(j))

LifeNext == \E j \in Jobs : Create(j) \/ Progress(j) \/ End(j) \/ Forget(j)

LifeSpec == LifeInit /\ [][LifeNext]_life /\ \A j \in Jobs : WF_life(Settle(j))
=============================================================================
