------------------------------ MODULE Verifier ------------------------------
(***************************************************************************)
(* The forked password verifier (auth/verifier.rs, auth/ipc.rs).           *)
(*                                                                         *)
(* Three parties share a pair of pipes: the locker's main thread, which    *)
(* starts and polls attempts; one worker thread per attempt, which does    *)
(* the round trip; and a forked helper process, which asks PAM.  A helper  *)
(* may hang, crash or be killed at any moment, and a grandchild forked by  *)
(* a PAM module may keep its pipe ends open after it is gone.  Time is one *)
(* fact: the running attempt's deadline has passed or it has not.          *)
(***************************************************************************)
EXTENDS Naturals, Sequences

CONSTANTS MaxHelper,    \* how many helpers may ever be forked (a bound)
          MaxAttempt    \* how many attempts may ever be started (a bound)

ASSUME BoundsAssumption == MaxHelper \in Nat \ {0} /\ MaxAttempt \in Nat

NoHelper == 0                   \* a pid of None, a descriptor of -1
Helper   == 1 .. MaxHelper      \* a helper and its pair of pipes, by age
Attempt  == 1 .. MaxAttempt

VARIABLES
  main,      \* what the main thread is in the middle of
  pid,       \* the helper the parent believes it has
  fds,       \* the helper whose pipes the parent's own descriptors open
  pending,   \* whether an attempt's receiver is held
  chan,      \* the result waiting in that attempt's channel
  deadline,  \* "none", "running" or "passed"
  worker,    \* the worker thread's program counter
  outcome,   \* the result the worker is about to send
  dups,      \* the helper whose pipes the worker's descriptors open
  cancel,    \* the flag that tells the worker to give up
  hpc,       \* each helper's program counter
  held,      \* whether a grandchild still holds a helper's own pipe ends
  copies,    \* the older pipes whose parent ends a helper inherited
  job,       \* the attempt a helper is serving
  req, rep,  \* the frames in each helper's request and reply pipe
  attempt,   \* how many attempts have been started
  verdict,   \* what PAM said of each attempt
  answer     \* what poll() returned for each attempt

callVars   == <<pending, chan, deadline>>
workerVars == <<worker, outcome, dups, cancel>>
helperVars == <<hpc, held, copies, job, verdict>>
pipeVars   == <<req, rep>>
vars == <<main, pid, fds, callVars, workerVars, helperVars, pipeVars,
          attempt, answer>>

Frame  == [kind : {"header", "body", "yes", "no", "message"},
           of : Attempt \cup {0}]
Result == {"none", "yes", "no", "error"}

MainState   == {"idle", "reap", "join", "wait", "reapLast", "joinLast", "gone"}
WorkerState == {"none", "header", "body", "status", "yes", "no", "report",
                "exited"}
HelperState == {"unborn", "read", "half", "verify", "yes", "no", "message",
                "killed", "dead"}

ParentOK ==
  /\ main \in MainState
  /\ pid \in Helper \cup {NoHelper}
  /\ fds \in Helper \cup {NoHelper}
  /\ pending \in BOOLEAN
  /\ chan \in Result
  /\ deadline \in {"none", "running", "passed"}
  /\ attempt \in Attempt \cup {0}
  /\ answer \in [Attempt -> Result]

WorkerOK ==
  /\ worker \in WorkerState
  /\ outcome \in Result
  /\ dups \in Helper \cup {NoHelper}
  /\ cancel \in BOOLEAN

HelperOK ==
  /\ hpc \in [Helper -> HelperState]
  /\ held \in [Helper -> BOOLEAN]
  /\ copies \in [Helper -> SUBSET Helper]
  /\ job \in [Helper -> Attempt \cup {0}]
  /\ verdict \in [Attempt -> {"none", "yes", "no"}]

PipeOK ==
  /\ req \in [Helper -> Seq(Frame)]
  /\ rep \in [Helper -> Seq(Frame)]

TypeOK == ParentOK /\ WorkerOK /\ HelperOK /\ PipeOK

-----------------------------------------------------------------------------
(* Who holds which end of a pipe.                                          *)

Alive(h) == hpc[h] \notin {"unborn", "dead"}

\* The helper's ends: they break (EPIPE, EOF at the parent) with the last one.
HelperEnds(h) == Alive(h) \/ held[h]

\* The parent's ends: they break (EOF, EPIPE at the helper) with the last one,
\* counting the copies that a later helper was forked with.
ParentEnds(h) ==
  fds = h \/ dups = h \/ \E k \in Helper : Alive(k) /\ h \in copies[k]

\* Once fork() has succeeded the helper waits for a request, owning copies of
\* every parent end that was open; its own it closes at once.
Newborn(h, open) ==
  /\ hpc[h] = "unborn" /\ \A k \in 1 .. h - 1 : hpc[k] # "unborn"
  /\ hpc' = [hpc EXCEPT ![h] = "read"]
  /\ copies' = [copies EXCEPT ![h] = open \ {NoHelper}]
  /\ UNCHANGED <<held, job, verdict>>

\* Mutant: the helper given up on is forgotten, not killed.
KillForgotten(h) == UNCHANGED hpc

Kill(h) == hpc' = [hpc EXCEPT ![h] = IF @ = "dead" THEN @ ELSE "killed"]

-----------------------------------------------------------------------------
(* The main thread: start(), poll(), and drop.                             *)

\* spawn() gave the locker its first helper before the screen is locked.
Init ==
  /\ main = "idle" /\ pid = 1 /\ fds = 1
  /\ pending = FALSE /\ chan = "none" /\ deadline = "none"
  /\ worker = "none" /\ outcome = "none" /\ dups = NoHelper /\ cancel = FALSE
  /\ hpc = [h \in Helper |-> IF h = 1 THEN "read" ELSE "unborn"]
  /\ held = [h \in Helper |-> FALSE]
  /\ copies = [h \in Helper |-> {}]
  /\ job = [h \in Helper |-> 0]
  /\ req = [h \in Helper |-> <<>>]
  /\ rep = [h \in Helper |-> <<>>]
  /\ attempt = 0
  /\ verdict = [a \in Attempt |-> "none"]
  /\ answer = [a \in Attempt |-> "none"]

\* The caller starts an attempt only when the last one has been answered.
BeginAttempt ==
  /\ main = "idle" /\ ~pending /\ attempt < MaxAttempt
  /\ attempt' = attempt + 1
  /\ pending' = TRUE /\ deadline' = "running"
  /\ UNCHANGED <<main, pipeVars, answer>>

\* The worker gets duplicates of the descriptors that reach helper h.
SpawnWorker(h) ==
  /\ chan' = "none" /\ worker' = "header" /\ outcome' = "none"
  /\ dups' = h /\ cancel' = FALSE

\* The attempt fails before any worker exists: the error is already waiting.
FailAtOnce ==
  /\ chan' = "error"
  /\ UNCHANGED workerVars

\* start() with a helper at hand; dup() or fcntl() may fail.
Start ==
  /\ BeginAttempt /\ pid # NoHelper
  /\ SpawnWorker(fds) \/ FailAtOnce
  /\ UNCHANGED <<pid, fds, helperVars>>

\* start() after a helper could not be replaced: try again first.
StartWithoutHelper ==
  /\ BeginAttempt /\ pid = NoHelper
  /\ \/ /\ FailAtOnce
        /\ UNCHANGED <<pid, fds, helperVars>>
     \/ \E h \in Helper :
          /\ Newborn(h, {fds, dups})
          /\ pid' = h /\ fds' = h
          /\ SpawnWorker(h) \/ FailAtOnce

\* poll() finds a result, and joins the worker that sent it.
PollResult ==
  /\ main = "idle" /\ pending /\ chan # "none"
  /\ worker \in {"none", "exited"}
  /\ answer' = [answer EXCEPT ![attempt] = chan]
  /\ pending' = FALSE /\ chan' = "none" /\ deadline' = "none"
  /\ worker' = "none" /\ outcome' = "none" /\ cancel' = FALSE
  /\ UNCHANGED <<main, pid, fds, dups, helperVars, pipeVars, attempt>>

\* Mutant: a timeout reports the error and keeps the helper and its pipes.
PollTimeoutKeepsHelper ==
  /\ main = "idle" /\ pending /\ chan = "none" /\ deadline = "passed"
  /\ pending' = FALSE /\ deadline' = "none"
  /\ answer' = [answer EXCEPT ![attempt] = "error"]
  /\ worker' = "none" /\ outcome' = "none" /\ dups' = NoHelper
  /\ UNCHANGED <<main, pid, fds, chan, cancel, helperVars, pipeVars, attempt>>

\* poll() finds none and the deadline has passed: the helper is killed.
PollTimeout ==
  /\ main = "idle" /\ pending /\ chan = "none" /\ deadline = "passed"
  /\ pending' = FALSE /\ deadline' = "none"
  /\ Kill(pid)
  /\ pid' = NoHelper /\ main' = "reap"
  /\ UNCHANGED <<fds, chan, workerVars, held, copies, job, verdict, pipeVars,
                 attempt, answer>>

\* The wait for a killed helper ends, reaped or not; the worker is cancelled.
Reap ==
  /\ main \in {"reap", "reapLast"}
  /\ cancel' = TRUE
  /\ main' = IF main = "reap" THEN "join" ELSE "joinLast"
  /\ UNCHANGED <<pid, fds, callVars, worker, outcome, dups, helperVars,
                 pipeVars, attempt, answer>>

\* Mutant: the replacement is forked without joining the worker.
RestartWithoutJoin ==
  /\ main = "join"
  /\ worker' = "none" /\ outcome' = "none" /\ cancel' = FALSE
  /\ answer' = [answer EXCEPT ![attempt] = "error"]
  /\ main' = "idle" /\ UNCHANGED <<callVars, dups, pipeVars, attempt>>
  /\ \/ \E h \in Helper :
          /\ Newborn(h, {dups})
          /\ pid' = h /\ fds' = h
     \/ /\ pid' = NoHelper /\ fds' = NoHelper
        /\ UNCHANGED helperVars

\* The worker is joined, the old descriptors closed and a helper forked, or
\* not; poll() returns an error either way.
Restart ==
  /\ main = "join" /\ worker \in {"none", "exited"}
  /\ worker' = "none" /\ outcome' = "none" /\ cancel' = FALSE
  /\ answer' = [answer EXCEPT ![attempt] = "error"]
  /\ main' = "idle" /\ UNCHANGED <<callVars, dups, pipeVars, attempt>>
  /\ \/ \E h \in Helper :
          /\ Newborn(h, {dups})
          /\ pid' = h /\ fds' = h
     \/ /\ pid' = NoHelper /\ fds' = NoHelper
        /\ UNCHANGED helperVars

\* shutdown(), when the locker drops its verifier: a worker's helper is killed
\* first, an idle one is told by end of file.
Shutdown ==
  /\ main = "idle"
  /\ pending' = FALSE /\ deadline' = "none"
  /\ \/ /\ worker # "none"
        /\ Kill(pid) /\ main' = "reapLast" /\ pid' = NoHelper
        /\ UNCHANGED fds
     \/ /\ worker = "none"
        /\ main' = IF pid = NoHelper THEN "gone" ELSE "wait"
        /\ fds' = NoHelper
        /\ UNCHANGED <<pid, hpc>>
  /\ UNCHANGED <<chan, workerVars, held, copies, job, verdict, pipeVars,
                 attempt, answer>>

\* A helper with no request in hand should see end of file and exit; one that
\* has not within the grace period is killed, unless daemon() has made a locker
\* of which it is no child: waitpid() fails then, and nobody waits.
Wait ==
  /\ main = "wait"
  /\ UNCHANGED hpc \/ Kill(pid)
  /\ main' = "gone" /\ pid' = NoHelper
  /\ UNCHANGED <<fds, callVars, workerVars, held, copies, job, verdict,
                 pipeVars, attempt, answer>>

ShutdownJoin ==
  /\ main = "joinLast" /\ worker = "exited"
  /\ worker' = "none" /\ outcome' = "none" /\ cancel' = FALSE
  /\ fds' = NoHelper /\ main' = "gone"
  /\ UNCHANGED <<pid, callVars, dups, helperVars, pipeVars, attempt, answer>>

\* The whole locker process dies: no destructor runs, its descriptors close.
Crash ==
  /\ main # "gone"
  /\ main' = "gone" /\ pid' = NoHelper /\ fds' = NoHelper
  /\ pending' = FALSE /\ chan' = "none" /\ deadline' = "none"
  /\ worker' = "none" /\ outcome' = "none" /\ dups' = NoHelper
  /\ cancel' = FALSE
  /\ UNCHANGED <<helperVars, pipeVars, attempt, answer>>

\* Thirty seconds go by.
DeadlinePasses ==
  /\ deadline = "running"
  /\ deadline' = "passed"
  /\ UNCHANGED <<main, pid, fds, pending, chan, workerVars, helperVars,
                 pipeVars, attempt, answer>>

-----------------------------------------------------------------------------
(* The worker thread: write the request, read the reply, send the result.  *)

workerFrame == <<main, pid, fds, callVars, dups, cancel, helperVars, attempt,
                 answer>>

\* Mutant: only a broken pipe wakes the worker.
GiveUpOnEOF(broken) ==
  /\ broken
  /\ worker' = "report" /\ outcome' = "error"
  /\ UNCHANGED <<workerFrame, pipeVars>>

\* Every read or write first looks at the cancellation flag, and polls with a
\* timeout, so a worker waiting on a pipe sees the flag even without EOF.
GiveUp(broken) ==
  /\ cancel \/ broken
  /\ worker' = "report" /\ outcome' = "error"
  /\ UNCHANGED <<workerFrame, pipeVars>>

WriteFrame(at, kind, next) ==
  /\ worker = at
  /\ \/ GiveUp(~HelperEnds(dups))
     \/ /\ ~cancel /\ HelperEnds(dups)
        /\ req' = [req EXCEPT ![dups] =
                     Append(@, [kind |-> kind, of |-> attempt])]
        /\ worker' = next
        /\ UNCHANGED <<workerFrame, outcome, rep>>

WriteHeader == WriteFrame("header", "header", "body")
WriteBody   == WriteFrame("body", "body", "status")

ReadStatus ==
  /\ worker = "status"
  /\ \/ GiveUp(rep[dups] = <<>> /\ ~HelperEnds(dups))
     \/ /\ ~cancel /\ rep[dups] # <<>>
        /\ rep' = [rep EXCEPT ![dups] = Tail(@)]
        /\ IF Head(rep[dups]).kind \in {"yes", "no"}
             THEN worker' = Head(rep[dups]).kind /\ UNCHANGED outcome
             ELSE worker' = "report" /\ outcome' = "error"
        /\ UNCHANGED <<workerFrame, req>>

ReadMessage ==
  /\ worker \in {"yes", "no"}
  /\ \/ GiveUp(rep[dups] = <<>> /\ ~HelperEnds(dups))
     \/ /\ ~cancel /\ rep[dups] # <<>>
        /\ rep' = [rep EXCEPT ![dups] = Tail(@)]
        /\ worker' = "report" /\ outcome' = worker
        /\ UNCHANGED <<workerFrame, req>>

\* The duplicates are closed and the result sent, to nobody if poll() has
\* already given the attempt up.
Report ==
  /\ worker = "report"
  /\ worker' = "exited" /\ dups' = NoHelper
  /\ chan' = IF pending THEN outcome ELSE chan
  /\ UNCHANGED <<main, pid, fds, pending, deadline, outcome, cancel,
                 helperVars, pipeVars, attempt, answer>>

-----------------------------------------------------------------------------
(* The helper: child_loop_once(), over and over.                           *)

parentVars == <<main, pid, fds, callVars, workerVars, attempt, answer>>

\* Dying drops the helper's ends unless a grandchild holds them too.
Dies(h) ==
  /\ hpc' = [hpc EXCEPT ![h] = "dead"]
  /\ \E b \in BOOLEAN : held' = [held EXCEPT ![h] = b]
  /\ UNCHANGED <<copies, job, verdict, pipeVars, parentVars>>

ReadRequest(h) ==
  /\ hpc[h] \in {"read", "half"} /\ req[h] # <<>>
  /\ job' = [job EXCEPT ![h] = Head(req[h]).of]
  /\ req' = [req EXCEPT ![h] = Tail(@)]
  /\ hpc' = [hpc EXCEPT ![h] = IF @ = "read" THEN "half" ELSE "verify"]
  /\ UNCHANGED <<held, copies, verdict, rep, parentVars>>

\* Mutant: end of file is noticed between requests only.
ReadEOFBetweenRequests(h) ==
  /\ hpc[h] = "read" /\ req[h] = <<>> /\ ~ParentEnds(h)
  /\ Dies(h)

\* End of file is a clean shutdown.
ReadEOF(h) ==
  /\ hpc[h] \in {"read", "half"} /\ req[h] = <<>> /\ ~ParentEnds(h)
  /\ Dies(h)

\* PAM decides, if it ever returns.
Verify(h) ==
  /\ hpc[h] = "verify"
  /\ \E v \in {"yes", "no"} :
       /\ hpc' = [hpc EXCEPT ![h] = v]
       /\ verdict' = [verdict EXCEPT ![job[h]] = v]
  /\ UNCHANGED <<held, copies, job, pipeVars, parentVars>>

\* A reply nobody can read ends the helper too.
WriteReply(h) ==
  /\ hpc[h] \in {"yes", "no", "message"}
  /\ IF ParentEnds(h)
       THEN /\ rep' = [rep EXCEPT ![h] =
                         Append(@, [kind |-> hpc[h], of |-> job[h]])]
            /\ hpc' = [hpc EXCEPT ![h] =
                         IF @ = "message" THEN "read" ELSE "message"]
            /\ UNCHANGED <<held, copies, job, verdict, req, parentVars>>
       ELSE Dies(h)

\* A crash in PAM, the OOM killer, or the SIGKILL the parent sent.
HelperDies(h) == Alive(h) /\ Dies(h)

-----------------------------------------------------------------------------
MainStep ==
  \/ PollResult \/ PollTimeout \/ Reap \/ Restart
  \/ Wait \/ ShutdownJoin

WorkerStep ==
  WriteHeader \/ WriteBody \/ ReadStatus \/ ReadMessage \/ Report

HelperStep(h) == ReadRequest(h) \/ ReadEOF(h) \/ WriteReply(h)

Next ==
  \/ Start \/ StartWithoutHelper \/ MainStep \/ Shutdown \/ Crash
  \/ DeadlinePasses
  \/ WorkerStep
  \/ \E h \in Helper : HelperStep(h) \/ Verify(h) \/ HelperDies(h)

\* The event loop polls again while an attempt is pending, both threads run,
\* time passes, and a killed process exits.  Nothing is owed by PAM.
Fairness ==
  /\ WF_vars(MainStep) /\ WF_vars(WorkerStep) /\ WF_vars(DeadlinePasses)
  /\ \A h \in Helper :
       /\ WF_vars(HelperStep(h))
       /\ WF_vars(hpc[h] = "killed" /\ HelperDies(h))

Spec == Init /\ [][Next]_vars /\ Fairness
-----------------------------------------------------------------------------
(* Properties.                                                             *)

\* A result is never credited to an attempt PAM did not decide that way: a late
\* reply from a helper given up on cannot answer a later attempt, and a request
\* cut short cannot be completed by the next one (poll, restart, worker).
AnswersAreVerdicts ==
  \A a \in Attempt : answer[a] \in {"yes", "no"} => answer[a] = verdict[a]

\* The helper reads whole requests: what follows a header is its own body, even
\* when an earlier worker was cancelled between the two writes.
RequestsStayFramed ==
  \A h \in Helper : hpc[h] = "half" /\ req[h] # <<>> =>
    Head(req[h]) = [kind |-> "body", of |-> job[h]]

\* Every helper still serving is the one the parent can kill: none is left
\* behind by a timeout or by a replacement (restart, replace_helper).
NoStrayHelper ==
  main # "gone" =>
    \A h \in Helper : hpc[h] \notin {"unborn", "killed", "dead"} => h = pid

\* "Keep fork single-threaded: a worker must always be joined before
\* re-forking", and the child inherits no pipe end but its own.
ForkIsSingleThreaded ==
  [][\A h \in Helper : hpc[h] = "unborn" /\ hpc'[h] = "read" =>
       worker \in {"none", "exited"} /\ copies'[h] = {}]_vars

\* Every attempt is answered, however the helper hangs, dies or leaves its pipe
\* ends to a grandchild, unless the locker goes away.
EveryAttemptAnswered ==
  \A a \in Attempt :
    attempt = a ~> answer[a] # "none" \/ main \in {"wait", "reapLast", "gone"}

\* Dropping the verifier terminates: the worker is cancelled and joined even
\* when the reply pipe never reaches end of file.
ShutdownTerminates ==
  main \in {"wait", "reapLast", "joinLast"} ~> main = "gone"

\* Once the locker is gone, by any route, its helpers follow, but for one that
\* is still inside PAM.
HelpersFollow ==
  main = "gone" ~> \A h \in Helper : hpc[h] \in {"unborn", "dead", "verify"}
-----------------------------------------------------------------------------
(* The service this amounts to, which the main thread is modelled against. *)

\* While poll() is replacing a helper the attempt is still unanswered.
phase ==
  IF main \in {"wait", "reapLast", "joinLast", "gone"} THEN "down"
  ELSE IF pending \/ main \in {"reap", "join"} THEN "asked" ELSE "ready"

Service == INSTANCE AuthService WITH
  MaxAttempt <- MaxAttempt, phase <- phase, attempt <- attempt,
  verdict <- verdict, answer <- answer

\* The verifier implements the authentication service: attempts are answered,
\* one at a time, with PAM's verdict on that very attempt or an error.
ImplementsService == Service!Spec
=============================================================================
