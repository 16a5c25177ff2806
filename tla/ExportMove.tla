----------------------------- MODULE ExportMove -----------------------------
(***************************************************************************)
(* How export jobs that render the same output name share one directory:   *)
(* the early check of the overwrite policy (template.go, overwritePath),   *)
(* then, after download and post-processing, the move that enforces it     *)
(* (fs.go, noreplace.go). Post-process goroutines of different jobs run at  *)
(* the same time, and the user may create files of his own meanwhile.      *)
(*                                                                         *)
(* One system call is one step. What a filesystem offers decides how a name *)
(* is claimed: "atomic" is a hard link, or failing that renameat2 with      *)
(* RENAME_NOREPLACE; "copy" is an O_EXCL file that a copy then fills and    *)
(* that can fail half-way.                                                 *)
(***************************************************************************)
EXTENDS Integers, FiniteSets

CONSTANTS Jobs,
          FileSystems,  \* the kinds to consider: a subset of FileSystem
          Policies,     \* the overwrite policies jobs may have
          MaxAttempts,  \* maxRenameAttempts, 10000 in the code
          MaxBase,      \* bound: the largest number overwritePath tries
          MaxUserFiles, \* bound: how many files the user has or creates
          User, Free    \* what else a name may hold

FileSystem == {"atomic", "copy"}
Policy == {"skip", "overwrite", "rename"}

MoveAssumption == /\ FileSystems \subseteq FileSystem
                  /\ Policies \subseteq Policy
                  /\ MaxAttempts \in Nat \ {0}
                  /\ MaxBase \in Nat /\ MaxBase >= MaxAttempts
                  /\ MaxUserFiles \in Nat
                  /\ User \notin Jobs /\ Free \notin Jobs /\ User # Free

VARIABLES fs,       \* the filesystem of the output directory
          policy,   \* per job, its overwrite policy
          dir,      \* what each name refers to: a job's file, the user's, nothing
          partial,  \* jobs whose claimed file is still being copied
          at,       \* per job, how far it is
          base,     \* per job, the number overwritePath picked ("name (base)")
          attempt,  \* per job, the loop counter i of moveNoClobber
          out       \* per job, the name reported as its output

vars == <<fs, policy, dir, partial, at, base, attempt, out>>

\* "name", "name (n)" and "name (n) (i)": the rename loop started from a name
\* that overwritePath had already numbered.
Names == (0..MaxBase) \X (0..MaxAttempts - 1)
NameOf(b, i) == IF b = 0 THEN <<i, 0>> ELSE <<b, i>>
Final(j) == NameOf(base[j], 0)
Dest(j) == NameOf(base[j], attempt[j])
Exists(n) == dir[n] # Free

Init ==
  /\ fs \in FileSystems
  /\ policy \in [Jobs -> Policies]
  /\ dir \in [Names -> {Free, User}]
  /\ \A n \in Names : n # <<0, 0>> => dir[n] = Free
  /\ partial = {}
  /\ at = [j \in Jobs |-> "check"]
  /\ base = [j \in Jobs |-> 0]
  /\ attempt = [j \in Jobs |-> 0]
  /\ out = [j \in Jobs |-> <<0, 0>>]

Go(j, to) == at' = [at EXCEPT ![j] = to]
Publish(j, n) == Go(j, "done") /\ out' = [out EXCEPT ![j] = n]

\* overwritePath: "skip" ends the job when the name is taken, "rename" picks
\* the first free number (the code's loop has no bound, Names has).
overwritePath(j) ==
  /\ at[j] = "check"
  /\ \/ /\ policy[j] = "skip" /\ Exists(<<0, 0>>)
        /\ Publish(j, <<0, 0>>)
        /\ UNCHANGED base
     \/ /\ policy[j] = "rename" /\ Exists(<<0, 0>>)
        /\ \E b \in 1..MaxBase :
             /\ ~Exists(<<b, 0>>)
             /\ \A c \in 1..(b - 1) : Exists(<<c, 0>>)
             /\ base' = [base EXCEPT ![j] = b]
        /\ Go(j, "move")
        /\ UNCHANGED out
     \/ /\ policy[j] = "overwrite" \/ ~Exists(<<0, 0>>)
        /\ Go(j, "move")
        /\ UNCHANGED <<base, out>>
  /\ UNCHANGED <<fs, policy, dir, partial, attempt>>

\* Policy "overwrite": rename over whatever is there, or over it after a copy
\* to a name of its own; either is atomic. It may also fail.
moveFile(j) ==
  /\ at[j] = "move" /\ policy[j] = "overwrite"
  /\ \/ dir' = [dir EXCEPT ![Final(j)] = j] /\ Publish(j, Final(j))
     \/ Go(j, "failed") /\ UNCHANGED <<dir, out>>
  /\ UNCHANGED <<fs, policy, partial, base, attempt>>

Moving(j) == at[j] = "move" /\ policy[j] # "overwrite"

ClaimOver(j) ==                                                      \* mutant
  /\ Moving(j)
  /\ dir' = [dir EXCEPT ![Dest(j)] = j]
  /\ IF fs = "copy"
     THEN partial' = partial \union {j} /\ Go(j, "copy") /\ UNCHANGED out
     ELSE Publish(j, Dest(j)) /\ UNCHANGED partial
  /\ UNCHANGED <<fs, policy, base, attempt>>
ClaimReportsFirst(j) ==                                              \* mutant
  /\ Moving(j) /\ ~Exists(Dest(j))
  /\ dir' = [dir EXCEPT ![Dest(j)] = j]
  /\ IF fs = "copy"
     THEN partial' = partial \union {j} /\ Go(j, "copy") /\ UNCHANGED out
     ELSE Publish(j, Final(j)) /\ UNCHANGED partial
  /\ UNCHANGED <<fs, policy, base, attempt>>
\* The name is free: the link or the no-replace rename publishes the file, the
\* O_EXCL open only claims the name.
Claim(j) ==
  /\ Moving(j) /\ ~Exists(Dest(j))
  /\ dir' = [dir EXCEPT ![Dest(j)] = j]
  /\ IF fs = "copy"
     THEN partial' = partial \union {j} /\ Go(j, "copy") /\ UNCHANGED out
     ELSE Publish(j, Dest(j)) /\ UNCHANGED partial
  /\ UNCHANGED <<fs, policy, base, attempt>>

\* The name is taken: "skip" keeps what is there and reports it, "rename" goes
\* on to the next name until the attempts are used up.
Taken(j) ==
  /\ Moving(j) /\ Exists(Dest(j))
  /\ \/ policy[j] = "skip" /\ Publish(j, Final(j)) /\ UNCHANGED attempt
     \/ /\ policy[j] = "rename" /\ attempt[j] + 1 < MaxAttempts
        /\ attempt' = [attempt EXCEPT ![j] = @ + 1]
        /\ UNCHANGED <<at, out>>
     \/ /\ policy[j] = "rename" /\ attempt[j] + 1 = MaxAttempts
        /\ Go(j, "failed")
        /\ UNCHANGED <<attempt, out>>
  /\ UNCHANGED <<fs, policy, dir, partial, base>>

\* Any other error of link, rename or open.
MoveError(j) ==
  /\ Moving(j)
  /\ Go(j, "failed")
  /\ UNCHANGED <<fs, policy, dir, partial, base, attempt, out>>

CopyDone(j) ==
  /\ at[j] = "copy"
  /\ partial' = partial \ {j}
  /\ Publish(j, Dest(j))
  /\ UNCHANGED <<fs, policy, dir, base, attempt>>

\* The failed copy removes the name it claimed, by name.
CopyFailed(j) ==
  /\ at[j] = "copy"
  /\ partial' = partial \ {j}
  /\ dir' = [dir EXCEPT ![Dest(j)] = Free]
  /\ Go(j, "failed")
  /\ UNCHANGED <<fs, policy, base, attempt, out>>

UserCreates(n) ==
  /\ ~Exists(n)
  /\ Cardinality({m \in Names : dir[m] = User}) < MaxUserFiles
  /\ dir' = [dir EXCEPT ![n] = User]
  /\ UNCHANGED <<fs, policy, partial, at, base, attempt, out>>

JobStep(j) == overwritePath(j) \/ moveFile(j) \/ Claim(j) \/ Taken(j) \/ MoveError(j)
              \/ CopyDone(j) \/ CopyFailed(j)

Next == \/ \E j \in Jobs : JobStep(j)
        \/ \E n \in Names : UserCreates(n)

Spec == Init /\ [][Next]_vars /\ \A j \in Jobs : WF_vars(JobStep(j))
-----------------------------------------------------------------------------
TypeOK == /\ fs \in FileSystem
          /\ policy \in [Jobs -> Policy]
          /\ dir \in [Names -> Jobs \union {User, Free}]
          /\ partial \subseteq Jobs
          /\ at \in [Jobs -> {"check", "move", "copy", "done", "failed"}]
          /\ base \in [Jobs -> 0..MaxBase]
          /\ attempt \in [Jobs -> 0..(MaxAttempts - 1)]
          /\ out \in [Jobs -> Names]

\* Where a name is claimed by a copy, a job that overwrites or skips meets claims
\* that are not files yet.
ClaimsAreFiles == fs = "atomic" \/ \A j \in Jobs : policy[j] = "rename"

CompleteFileKept(n) ==
  /\ dir[n] \in Jobs \union {User} /\ dir[n] \notin partial
  /\ dir'[n] # dir[n]
  => \E j \in Jobs : policy[j] = "overwrite" /\ dir'[n] = j

FilesStay == fs = "atomic" \/ (\A j \in Jobs : policy[j] # "overwrite")
               => \A n \in Names : CompleteFileKept(n)

\* A complete file, the user's or a job's, is replaced or removed only by a job
\* whose policy is "overwrite": the policy holds although it was first checked
\* long before the move (manager.go:913-915, fs.go:104-110). Where files are
\* copied this needs that no job overwrites; see FailedCopyRemovesOwn.
CompleteFilesStay == [][FilesStay]_vars

\* noreplace.go:23-25 says that a failed copy removes only what its own job wrote,
\* "nobody else can have written it", whatever the policies of the others.
FailedCopyRemovesOwn == [][\A n \in Names : CompleteFileKept(n)]_vars

\* A job that reports success reports a name that holds a complete file: its
\* own, or with "skip" the one it kept (fs.go:109-110).
OutputIsAFile ==
  ClaimsAreFiles =>
    \A j \in Jobs : at[j] = "done" => Exists(out[j]) /\ dir[out[j]] \notin partial

\* Two jobs never report the same file as their own unless one chose to skip or
\* to overwrite: "rename" gives every job a name of its own.
RenamedApart ==
  \A j, k \in Jobs : /\ at[j] = "done" /\ at[k] = "done" /\ j # k
                     /\ policy[j] = "rename" /\ policy[k] = "rename"
                     => out[j] # out[k]

\* No partly copied file stays visible once its job has ended.
NoPartialFileLeft == \A n \in Names : dir[n] \in partial => at[dir[n]] = "copy"

Ended(j) == at[j] \in {"done", "failed"}

\* The rename loop ends for every job, whatever names others keep taking.
EveryMoveEnds == \A j \in Jobs : <>Ended(j)
-----------------------------------------------------------------------------
(* The inductive invariant, proved in MCEngine. A job holds a name from the claim on: while it   *)
(* copies, and when it is done and was to be renamed. That held names exist and differ is what  *)
(* keeps a failed copy, which removes by name, away from every other job's output.              *)

Copying(j) == at[j] = "copy"
Holder(j) == Copying(j) \/ (at[j] = "done" /\ policy[j] = "rename")
Held(j) == IF Copying(j) THEN Dest(j) ELSE out[j]

HeldApart ==
  /\ \A j \in Jobs : Holder(j) => Exists(Held(j))
  /\ \A j, k \in Jobs : Holder(j) /\ Holder(k) /\ j # k => Held(j) # Held(k)

\* Where nobody overwrites, what a job holds is its own file.
OwnHeld ==
  (\A j \in Jobs : policy[j] # "overwrite") => \A j \in Jobs : Holder(j) => dir[Held(j)] = j

CopiesArePartial ==
  /\ partial = {j \in Jobs : Copying(j)}
  /\ fs = "atomic" => partial = {}

\* Without copies no name is ever given up.
AtomicStays == fs = "atomic" => \A j \in Jobs : at[j] = "done" => Exists(out[j])

SkipFirst == \A j \in Jobs : policy[j] = "skip" => attempt[j] = 0

IInv == TypeOK /\ HeldApart /\ OwnHeld /\ CopiesArePartial /\ AtomicStays /\ SkipFirst

\* What a step of j leaves of what the others hold.
Others(j) == \A k \in Jobs : k # j => /\ at'[k] = at[k] /\ out'[k] = out[k]
                                      /\ base'[k] = base[k] /\ attempt'[k] = attempt[k]

=============================================================================
