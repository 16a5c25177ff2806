----------------------------- MODULE AccountSheet -----------------------------
(***************************************************************************)
(* The Apple Account sheet (engine/account-sheet.js, verification-code.js and *)
(* what engine-playback.js gives it): a form that asks the engine to sign in, *)
(* and the entry of the code Apple may ask for.  The outcome comes as a DRM   *)
(* snapshot: an event, which a dropped stream loses, or the answer to a poll. *)
(* Assumed: the engine takes the sheet's calls in the order they were made.   *)
(***************************************************************************)
EXTENDS Naturals, Sequences

CONSTANTS MaxTries,  \* bound: sign-ins the user submits, each with credentials of its own, and
                     \* codes Apple asks for, together
          MaxFaults  \* bound: lost events and failed calls

SheetAssumption == MaxTries \in Nat /\ MaxFaults \in Nat

Attempts == 1..MaxTries
None == 0

VARIABLES
  engine,   \* the engine's sign-in: auth, the challenge, and the attempt it runs
  events,   \* snapshots sent and not read yet
  poll,     \* the timer of the polls, and the answer that is on its way
  sheet,    \* view, busy, and the challenge known, submitted and dismissed
  calls,    \* the sheet's calls, which the engine takes in order
  answers,  \* its answers, on their way
  pending, saved,  \* _pendingCredentials, and what is stored: attempts
  accepted, \* history: the attempts Apple accepted
  tried, faults

vars == <<engine, events, poll, sheet, calls, answers, pending, saved, accepted, tried, faults>>

Snap(e) == [auth |-> e.auth, ch |-> e.ch]

Init ==
  /\ engine = [auth |-> "out", ch |-> None, pending |-> FALSE, asked |-> 0, run |-> None]
  /\ events = <<>> /\ poll = [on |-> FALSE, answer |-> <<>>]
  /\ sheet = [view |-> "none", busy |-> FALSE, known |-> None, sent |-> None, dismissed |-> None, opening |-> FALSE]
  /\ calls = <<>> /\ answers = {} /\ pending = None /\ saved = None /\ accepted = {} /\ tried = 0 /\ faults = 0

Tries == tried + engine.asked

-----------------------------------------------------------------------------
(* The engine. *)

\* Every change is announced.
Engine(e) == engine' = e /\ events' = Append(events, Snap(e))

Idle == engine.auth \in {"out", "failed", "in"}

Apple ==
  /\ engine.auth = "logging" /\ engine.run # None
  /\ \/ /\ Tries < MaxTries
        /\ Engine([engine EXCEPT !.auth = "asking", !.ch = engine.asked + 1, !.asked = @ + 1, !.pending = TRUE])
        /\ UNCHANGED accepted
     \/ Engine([engine EXCEPT !.auth = "in"]) /\ accepted' = accepted \union {engine.run}
     \/ Engine([engine EXCEPT !.auth = "failed"]) /\ UNCHANGED accepted
  /\ UNCHANGED <<poll, sheet, calls, answers, pending, saved, tried, faults>>

\* Apple, or the engine, gives up waiting for the code.
GivesUp ==
  /\ engine.auth = "asking" /\ Engine([engine EXCEPT !.auth = "failed", !.ch = None, !.pending = FALSE])
  /\ UNCHANGED <<poll, sheet, calls, answers, pending, saved, accepted, tried, faults>>

Answered(ok) == calls' = Tail(calls) /\ answers' = answers \union {[Head(calls) EXCEPT !.ok = ok]}

\* handleDRMAuthenticate: refused while a sign-in runs, and when Apple's servers pause it.
Authenticate ==
  /\ calls # <<>> /\ Head(calls).kind = "signin"
  /\ \/ Idle /\ Engine([engine EXCEPT !.auth = "logging", !.run = Head(calls).arg]) /\ Answered(TRUE) /\ UNCHANGED faults
     \/ ~Idle /\ Answered(FALSE) /\ UNCHANGED <<engine, events, faults>>
     \/ faults < MaxFaults /\ faults' = faults + 1 /\ Answered(FALSE) /\ UNCHANGED <<engine, events>>
  /\ UNCHANGED <<poll, sheet, pending, saved, accepted, tried>>

\* handleDRMChallenge: whatever challenge is pending takes the code.
Challenge ==
  /\ calls # <<>> /\ Head(calls).kind = "code"
  /\ IF engine.pending THEN Engine([engine EXCEPT !.auth = "logging", !.ch = None, !.pending = FALSE]) ELSE UNCHANGED <<engine, events>>
  /\ Answered(engine.pending)
  /\ UNCHANGED <<poll, sheet, pending, saved, accepted, tried, faults>>

\* handleDRMLogout: ends the sign-in that runs.
Logout ==
  /\ calls # <<>> /\ Head(calls).kind = "logout" /\ calls' = Tail(calls)
  /\ Engine([engine EXCEPT !.auth = "out", !.ch = None, !.pending = FALSE, !.run = None])
  /\ UNCHANGED <<answers, poll, sheet, pending, saved, accepted, tried, faults>>

-----------------------------------------------------------------------------
(* The user. *)

Send(kind, arg) == calls' = Append(calls, [kind |-> kind, arg |-> arg, ok |-> FALSE])

\* openSignIn: the saved account is read first.
OpenSignIn ==
  /\ sheet.view = "none" /\ ~sheet.opening /\ Tries < MaxTries /\ sheet' = [sheet EXCEPT !.opening = TRUE]
  /\ UNCHANGED <<engine, events, poll, calls, answers, pending, saved, accepted, tried, faults>>

ShowSignIn ==
  /\ sheet.opening /\ sheet' = [sheet EXCEPT !.opening = FALSE, !.view = "signin", !.busy = FALSE]
  /\ UNCHANGED <<engine, events, poll, calls, answers, pending, saved, accepted, tried, faults>>

SubmitSignIn ==
  /\ sheet.view = "signin" /\ ~sheet.busy /\ Tries < MaxTries /\ tried' = tried + 1
  /\ sheet' = [sheet EXCEPT !.busy = TRUE] /\ Send("signin", tried')
  /\ UNCHANGED <<engine, events, poll, answers, pending, saved, accepted, faults>>

SubmitCode ==
  /\ sheet.view = "code" /\ ~sheet.busy
  /\ sheet' = [sheet EXCEPT !.busy = TRUE, !.sent = sheet.known] /\ Send("code", sheet.known)
  /\ UNCHANGED <<engine, events, poll, answers, pending, saved, accepted, tried, faults>>

Closed(s) == [s EXCEPT !.view = "none", !.busy = FALSE, !.sent = None]

\* cancel: a sign-in the engine runs is ended, its credentials are forgotten.
Cancel ==
  /\ sheet.view # "none"
  /\ sheet' = Closed([sheet EXCEPT !.dismissed = IF sheet.view = "code" THEN sheet.known ELSE @])
  /\ poll' = [poll EXCEPT !.on = FALSE]
  /\ IF sheet.view = "code" \/ sheet.busy
     THEN pending' = None /\ saved' = None /\ Send("logout", None)
     ELSE UNCHANGED <<pending, saved, calls>>
  /\ UNCHANGED <<engine, events, answers, accepted, tried, faults>>

-----------------------------------------------------------------------------
(* What comes back. *)

\* The answer to the sign-in: the credentials are kept, and the polls begin, if the form is there.
SignInAnswered(c) ==
  /\ c.kind = "signin" /\ answers' = answers \ {c}
  /\ pending' = IF c.ok THEN c.arg ELSE pending
  /\ CASE sheet.view = "signin" /\ c.ok -> poll' = [poll EXCEPT !.on = TRUE] /\ UNCHANGED sheet
       [] sheet.view = "signin" /\ ~c.ok -> sheet' = [sheet EXCEPT !.busy = FALSE] /\ UNCHANGED poll
       [] OTHER -> UNCHANGED <<sheet, poll>>
  /\ UNCHANGED <<engine, events, calls, saved, accepted, tried, faults>>

CodeAnswered(c) ==
  /\ c.kind = "code" /\ answers' = answers \ {c}
  /\ sheet' = IF sheet.view = "code" /\ ~c.ok THEN [sheet EXCEPT !.sent = None, !.busy = FALSE] ELSE sheet
  /\ UNCHANGED <<engine, events, poll, calls, pending, saved, accepted, tried, faults>>

\* promptAction
Action(s) ==
  LET open == sheet.view # "none" IN
  CASE s.auth = "in" -> IF open THEN "close" ELSE "none"
    [] s.auth # "in" /\ s.ch # None ->
         IF ~open THEN IF s.ch = sheet.dismissed THEN "none" ELSE "code"
         ELSE IF sheet.view # "code" THEN "code"
         ELSE IF sheet.sent # None /\ s.ch # sheet.sent THEN "retry" ELSE "none"
    [] s.auth = "failed" /\ s.ch = None /\ open -> IF sheet.view = "code" THEN "expired" ELSE "failed"
    [] OTHER -> "none"

OnSnapshot(s) ==
  LET a == Action(s)
      k == [sheet EXCEPT !.known = IF s.ch # None THEN s.ch ELSE @]
  IN /\ sheet' = CASE a = "code" -> [k EXCEPT !.view = "code", !.busy = FALSE]
                   [] a = "retry" -> [k EXCEPT !.sent = None, !.busy = FALSE]
                   [] a = "close" -> Closed(k)
                   [] a = "expired" -> [k EXCEPT !.view = "signin", !.busy = FALSE]
                   [] a = "failed" /\ k.busy -> [k EXCEPT !.busy = FALSE]
                   [] OTHER -> k
     /\ IF a = "close" THEN saved' = (IF pending # None THEN pending ELSE saved) /\ pending' = None
        ELSE UNCHANGED <<saved, pending>>

Event ==
  /\ events # <<>> /\ OnSnapshot(Head(events)) /\ events' = Tail(events)
  /\ poll' = IF sheet'.view = "none" THEN [poll EXCEPT !.on = FALSE] ELSE poll
  /\ UNCHANGED <<engine, calls, answers, accepted, tried, faults>>

Lost ==
  /\ events # <<>> /\ faults < MaxFaults /\ faults' = faults + 1 /\ events' = Tail(events)
  /\ UNCHANGED <<engine, poll, sheet, calls, answers, pending, saved, accepted, tried>>

\* startPoll: the timer asks; the answer may be read late.
Ask ==
  /\ poll.on /\ poll.answer = <<>> /\ poll' = [poll EXCEPT !.answer = <<Snap(engine)>>]
  /\ UNCHANGED <<engine, events, sheet, calls, answers, pending, saved, accepted, tried, faults>>

PollAnswered ==
  /\ poll.answer # <<>>
  /\ IF sheet.view = "none" THEN UNCHANGED <<sheet, saved, pending>> ELSE OnSnapshot(Head(poll.answer))
  /\ poll' = [on |-> poll.on /\ sheet'.view # "none", answer |-> <<>>]
  /\ UNCHANGED <<engine, events, calls, answers, accepted, tried, faults>>

Calls == Authenticate \/ Challenge \/ Logout
Answers == \E c \in answers : SignInAnswered(c) \/ CodeAnswered(c)
Next ==
  \/ Apple \/ GivesUp \/ OpenSignIn \/ ShowSignIn \/ SubmitSignIn \/ SubmitCode \/ Cancel \/ Calls \/ Answers
  \/ Event \/ Lost \/ Ask \/ PollAnswered

Spec ==
  /\ Init /\ [][Next]_vars
  /\ WF_vars(Apple) /\ WF_vars(ShowSignIn) /\ WF_vars(Calls) /\ WF_vars(Answers) /\ WF_vars(Event) /\ WF_vars(Ask) /\ WF_vars(PollAnswered)

-----------------------------------------------------------------------------
(* Properties. *)

Auths == {"out", "logging", "asking", "in", "failed"}
Codes == 0..MaxTries
Snaps == [auth : Auths, ch : Codes]
CallTypes == [kind : {"signin"}, arg : Attempts, ok : BOOLEAN]
               \union [kind : {"code", "logout"}, arg : Codes, ok : BOOLEAN]
TypeOK ==
  /\ engine \in [auth : Auths, ch : Codes, pending : BOOLEAN, asked : Nat, run : {None} \union Attempts]
  /\ events \in Seq(Snaps) /\ calls \in Seq(CallTypes) /\ answers \subseteq CallTypes
  /\ poll \in [on : BOOLEAN, answer : Seq(Snaps)]
  /\ sheet \in [view : {"none", "signin", "code"}, busy : BOOLEAN, known : Codes, sent : Codes,
                dismissed : Codes, opening : BOOLEAN]
  /\ sheet.busy => sheet.view # "none"
  /\ pending \in {None} \union Attempts /\ saved \in {None} \union Attempts /\ tried \in Nat
  /\ Tries <= MaxTries

SignInWaits == sheet.busy /\ sheet.view = "signin"

\* The form does not wait for ever: while the engine answers its calls and ends its sign-ins, "Signing
\* In..." ends in the code entry, an error or a closed sheet, also when the event that told the outcome
\* was lost (the comment on fetchSnapshot, account-sheet.js 96-98, and the poll of 286-292).
SignInWaitEnds == SignInWaits ~> ~SignInWaits

\* The comment on onDone (engine-playback.js 66-67): what is stored was accepted by Apple.
SavedWereAccepted == saved # None => saved \in accepted
=============================================================================
