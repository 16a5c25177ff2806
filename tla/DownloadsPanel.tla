--------------------------- MODULE DownloadsPanel ---------------------------
(***************************************************************************)
(* The downloads panel of the renderer (engine-playback.js, bottom): it    *)
(* polls the engine's export list while it is read, renders rows, retries  *)
(* failed downloads after a countdown, and lets the user cancel, retry and *)
(* clear.  The engine's export manager (core/export/manager.go, modelled   *)
(* by ExportManager) appears by what its list answers: a retry enqueues a  *)
(* new job and leaves the failed one in the list.  Jobs are numbered in    *)
(* queue order.                                                            *)
(***************************************************************************)
EXTENDS Integers, FiniteSets

CONSTANTS MaxJobs,   \* jobs the engine ever holds; further ones are refused
          MaxUser,   \* what the user does: open, close, hide, press
          MaxFaults  \* requests that fail

PanelAssumption == /\ MaxJobs \in Nat \ {0} /\ MaxUser \in Nat /\ MaxFaults \in Nat

VARIABLES
  jobs,     \* the engine: job -> "none", "active", "done", "failed", "cancelled", "removed"
  open,     \* the panel is displayed
  visible,  \* document.visibilityState
  polling,  \* _pollTimer
  polls,    \* pollJobs() calls under way: newest of all?, and the answer it has
  rows,     \* the rendered rows, by job: its phase, and "Retrying..." on the button
  failedAt, \* the keys of _failedAt
  timers,   \* the jobs whose auto-retry timer is set
  calls,    \* requests under way
  retryOn,  \* the setting retry-on-fail
  again,    \* the jobs the engine has taken a retry of
  user, faults

panel == <<open, visible, polling>>
vars == <<jobs, panel, polls, rows, failedAt, timers, calls, retryOn, again, user, faults>>

Jobs == 1..MaxJobs
Terminal == {"done", "failed", "cancelled"}
Phases == Terminal \cup {"none", "active", "removed"}
Listed(snap) == {j \in Jobs : snap[j] \notin {"none", "removed"}}
None == [j \in Jobs |-> "none"]

Init ==
  /\ jobs = None /\ open = FALSE /\ visible = TRUE /\ polling = FALSE
  /\ polls = {} /\ rows = [j \in {} |-> [phase |-> "none", retrying |-> FALSE]] /\ failedAt = {} /\ timers = {} /\ calls = {} /\ again = {}
  /\ retryOn \in BOOLEAN /\ user = 0 /\ faults = 0

(* pollJobs(): the newest call makes every older one stale.  A stale call  *)
(* shows nothing whatever its answer; those without one yet are left out.  *)
PollJobs == polls' = {[p EXCEPT !.newest = FALSE] : p \in {q \in polls : q.answered}}
                       \cup {[newest |-> TRUE, answered |-> FALSE, snap |-> None]}

MayPoll(v) == v
StartPolling ==
  IF polling \/ ~MayPoll(visible') THEN polling' = polling /\ UNCHANGED polls
  ELSE polling' = TRUE /\ PollJobs

OpenDownloadsPanel == open' = TRUE /\ UNCHANGED visible /\ StartPolling
CloseDownloadsPanel == open' = FALSE /\ polling' = FALSE /\ UNCHANGED <<visible, polls>>

----------------------------------------------------------------------------
(* What the user does.                                                     *)

Acts == user < MaxUser /\ user' = user + 1

ToggleDownloads ==
  /\ Acts
  /\ IF open THEN CloseDownloadsPanel ELSE OpenDownloadsPanel
  /\ UNCHANGED <<jobs, again, rows, failedAt, timers, calls, retryOn, faults>>

VisibilityChange ==
  /\ Acts /\ visible' = ~visible /\ UNCHANGED open
  /\ IF visible THEN polling' = FALSE /\ UNCHANGED polls
     ELSE IF open THEN StartPolling ELSE UNCHANGED <<polling, polls>>
  /\ UNCHANGED <<jobs, again, rows, failedAt, timers, calls, retryOn, faults>>

Send(kind, j) == calls' = calls \cup {[kind |-> kind, job |-> j]}
Sent(kind, j) == \E c \in calls : c.kind = kind /\ c.job = j

(* A menu's "Download": the settings and the hint are fetched, then the    *)
(* export is posted; the panel opens with the answer.                      *)
StartDownload ==
  /\ Acts /\ ~Sent("export", 0) /\ Send("export", 0)
  /\ UNCHANGED <<jobs, again, panel, polls, rows, failedAt, timers, retryOn, faults>>

Shown(j) == open /\ visible /\ j \in DOMAIN rows

PressCancel(j) ==
  /\ Acts /\ Shown(j) /\ rows[j].phase \notin Terminal /\ Send("cancel", j)
  /\ UNCHANGED <<jobs, again, panel, polls, rows, failedAt, timers, retryOn, faults>>

PressRetry(j) ==
  /\ Acts /\ Shown(j) /\ rows[j].phase \in {"failed", "cancelled"} /\ ~rows[j].retrying
  /\ failedAt' = failedAt \ {j} /\ timers' = timers \ {j}
  /\ rows' = [rows EXCEPT ![j].retrying = TRUE] /\ Send("retry", j)
  /\ UNCHANGED <<jobs, again, panel, polls, retryOn, faults>>

PressClearDone ==
  /\ Acts /\ \E j \in DOMAIN rows : Shown(j) /\ rows[j].phase \in Terminal
  /\ ~Sent("clear", 0) /\ Send("clear", 0)
  /\ UNCHANGED <<jobs, again, panel, polls, rows, failedAt, timers, retryOn, faults>>

----------------------------------------------------------------------------
(* The engine takes a request; a job runs.                                 *)

NextJob == CHOOSE j \in Jobs : jobs[j] = "none" /\ \A k \in 1..(j - 1) : jobs[k] # "none"
Enqueue == IF \E j \in Jobs : jobs[j] = "none"
           THEN jobs' = [jobs EXCEPT ![NextJob] = "active"] ELSE UNCHANGED jobs

(* DELETE of a job: a live one is cancelled, an ended one leaves the list. *)
Delete(j) == jobs' = [jobs EXCEPT ![j] = IF @ \in Terminal THEN "removed" ELSE
                                         IF @ = "active" THEN "cancelled" ELSE @]
(* POST retry: the stored request is enqueued as a new job.                *)
Retry(j) == IF jobs[j] \in {"failed", "cancelled"} THEN Enqueue ELSE UNCHANGED jobs

JobEnds(j) ==
  /\ jobs[j] = "active" /\ \E phase \in {"done", "failed"} : jobs' = [jobs EXCEPT ![j] = phase]
  /\ UNCHANGED <<again, panel, polls, rows, failedAt, timers, calls, retryOn, user, faults>>

----------------------------------------------------------------------------
(* A request ends, answered or lost: cancel, retry and the last delete of  *)
(* "Clear done" poll at once; an export the engine took opens the panel.   *)

CallAnswered(c) ==
  /\ c \in calls
  /\ c.kind = "cleared" => \A d \in calls : d.kind # "delete"
  /\ CASE c.kind = "export" -> Enqueue
       [] c.kind = "retry" -> Retry(c.job)
       [] c.kind \in {"cancel", "delete"} -> Delete(c.job)
       [] OTHER -> UNCHANGED jobs
  /\ calls' = (calls \ {c}) \cup
       IF c.kind # "clear" THEN {}
       ELSE [kind : {"delete"}, job : {j \in Jobs : jobs[j] \in Terminal}] \cup {[kind |-> "cleared", job |-> 0]}
  /\ again' = IF c.kind = "retry" /\ jobs' # jobs THEN again \cup {c.job} ELSE again
  /\ CASE c.kind = "export" -> OpenDownloadsPanel
       [] c.kind \in {"delete", "clear"} -> UNCHANGED <<panel, polls>>
       [] OTHER -> PollJobs /\ UNCHANGED panel
  /\ UNCHANGED <<rows, failedAt, timers, retryOn, user, faults>>

CallLost(c) ==
  /\ faults < MaxFaults /\ faults' = faults + 1 /\ c \in calls /\ c.kind # "cleared"
  /\ calls' = calls \ {c}
  /\ IF c.kind \in {"export", "delete"} THEN UNCHANGED polls ELSE PollJobs
  /\ UNCHANGED <<jobs, again, panel, rows, failedAt, timers, retryOn, user>>

(* setInterval(pollJobs, 2000)                                             *)
PollTick ==
  /\ polling /\ (\A p \in polls : p.newest) /\ PollJobs
  /\ UNCHANGED <<jobs, again, panel, rows, failedAt, timers, calls, retryOn, user, faults>>

PollAnswer(p) ==
  /\ p \in polls /\ ~p.answered
  /\ polls' = (polls \ {p}) \cup {[p EXCEPT !.answered = TRUE, !.snap = jobs]}
  /\ UNCHANGED <<jobs, again, panel, rows, failedAt, timers, calls, retryOn, user, faults>>

PollFails(p) ==
  /\ faults < MaxFaults /\ faults' = faults + 1 /\ p \in polls /\ ~p.answered
  /\ polls' = polls \ {p}
  /\ UNCHANGED <<jobs, again, panel, rows, failedAt, timers, calls, retryOn, user>>

(* Rows of jobs no longer listed go, new ones are inserted; a row that     *)
(* stays is updated in place (updateJobRow): its button keeps its          *)
(* "Retrying..." for as long as the job stays failed or cancelled.         *)
UpdateJobRow(j, snap) ==
  [phase |-> snap[j], retrying |-> rows[j].retrying /\ snap[j] \in {"failed", "cancelled"}]
BuildJobRow(j, snap) == [phase |-> snap[j], retrying |-> FALSE]
Rendered(snap) ==
  [j \in Listed(snap) |-> IF j \in DOMAIN rows THEN UpdateJobRow(j, snap) ELSE BuildJobRow(j, snap)]

(* syncJobRetry of every listed job: the timer of a job that is no longer  *)
(* listed stays.                                                           *)
SyncJobRetry(snap) ==
  LET failed == {j \in Listed(snap) : snap[j] = "failed" /\ retryOn}
      other == Listed(snap) \ failed
  IN /\ failedAt' = (failedAt \ other) \cup failed
     /\ timers' = (timers \ (other \cap failedAt)) \cup (failed \ failedAt)

Newest(p) == p.newest

(* getPrefs() answered: the newest poll renders, a stale one does not.     *)
RenderJobs(p) ==
  /\ p \in polls /\ p.answered /\ polls' = polls \ {p}
  /\ IF Newest(p) THEN rows' = Rendered(p.snap) /\ SyncJobRetry(p.snap)
     ELSE UNCHANGED <<rows, failedAt, timers>>
  /\ UNCHANGED <<jobs, again, panel, calls, retryOn, user, faults>>

RetryFires(j) ==
  /\ j \in timers /\ timers' = timers \ {j} /\ failedAt' = failedAt \ {j} /\ Send("retry", j)
  /\ UNCHANGED <<jobs, again, panel, polls, rows, retryOn, user, faults>>

----------------------------------------------------------------------------
User ==
  \/ ToggleDownloads \/ VisibilityChange \/ StartDownload \/ PressClearDone
  \/ \E j \in DOMAIN rows : PressCancel(j) \/ PressRetry(j)
Runs ==
  \/ PollTick \/ \E p \in polls : PollAnswer(p) \/ RenderJobs(p)
  \/ \E c \in calls : CallAnswered(c)
  \/ \E j \in Jobs : JobEnds(j) \/ RetryFires(j)
Next ==
  \/ User \/ Runs
  \/ \E c \in calls : CallLost(c)
  \/ \E p \in polls : PollFails(p)

Spec == Init /\ [][Next]_vars

----------------------------------------------------------------------------
TypeOK ==
  /\ jobs \in [Jobs -> Phases]
  /\ open \in BOOLEAN /\ visible \in BOOLEAN /\ polling \in BOOLEAN /\ retryOn \in BOOLEAN
  /\ polls \subseteq [newest : BOOLEAN, answered : BOOLEAN, snap : [Jobs -> Phases]]
  /\ DOMAIN rows \subseteq Jobs /\ rows \in [DOMAIN rows -> [phase : Phases, retrying : BOOLEAN]]
  /\ again \subseteq Jobs /\ failedAt \subseteq Jobs /\ timers \subseteq failedAt
  /\ calls \subseteq [kind : {"cancel", "retry", "delete"}, job : Jobs]
                     \cup [kind : {"export", "clear", "cleared"}, job : {0}]

(* The engine is polled exactly while the panel is open in a visible       *)
(* window ("Open panel + hidden window used to keep a 2s and a 1s timer    *)
(* running forever"), whatever order opening, closing, hiding and a late   *)
(* export answer come in.                                                  *)
PolledWhileRead == polling = (open /\ visible)

RowsStay ==
  \A j \in DOMAIN rows \cap DOMAIN rows' :
    rows[j].phase \in Terminal => rows'[j].phase = rows[j].phase

(* A row never goes back: what an older poll saw is not rendered over what *)
(* a newer one showed.                                                     *)
RowsNeverGoBack == [][RowsStay]_vars

(* Only a job that is not in _failedAt gets a timer, so one that is has a  *)
(* timer that will fire: without it the job would never be retried, nor    *)
(* its countdown end.                                                      *)
RetryIsArmed == failedAt \subseteq timers

(* Why: one poll at most is the newest; what it answers is no older than the rows, and *)
(* neither is newer than the engine's own list.                                        *)
Later(a, b) ==
  a = b \/ a = "none" \/ (a = "active" /\ b # "none") \/ (a \in Terminal /\ b = "removed")
OneNewest == \A p, q \in polls : p.newest /\ q.newest => p = q
AnswersAreOld == \A p \in polls : p.answered => \A j \in Jobs : Later(p.snap[j], jobs[j])
RowsAreOlder ==
  \A j \in DOMAIN rows :
    /\ Later(rows[j].phase, jobs[j])
    /\ \A p \in polls : p.newest /\ p.answered => Later(rows[j].phase, p.snap[j])

\* The inductive invariant.
IInv ==
  /\ TypeOK /\ PolledWhileRead /\ RetryIsArmed
  /\ OneNewest /\ AnswersAreOld /\ RowsAreOlder

(* Expected to fail.  "Retry re-enqueues the original request for a failed *)
(* or cancelled job" (manager.go:347): once is enough.  But it does so     *)
(* under a new job and the failed one stays in the list, so the next poll  *)
(* sets its timer again: one failed download is enqueued again and again,  *)
(* also while, and after, its retry succeeds.                              *)
RetriedOnce ==
  [][\A j \in again : Sent("retry", j)' => Sent("retry", j)]_vars
=============================================================================
