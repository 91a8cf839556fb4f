--------------------------- MODULE VerifierProofs ---------------------------
(***************************************************************************)
(* The verifier's safety, for every number of helpers and attempts.  The   *)
(* argument is that worker and helper stay in step: whatever is in the     *)
(* pipes of a helper that can still be heard belongs to the attempt the    *)
(* parent is waiting for.  An attempt given up on costs the helper its     *)
(* life before the next one starts, so its reply has no pipe to arrive by. *)
(***************************************************************************)
EXTENDS VerifierTypes

\* A second element appended to a sequence of one.
LEMMA AppendOne == ASSUME NEW x, NEW y PROVE Append(<<x>>, y) = <<x, y>>
<1> DEFINE S == {x, y}
<1>1. <<x>> \in Seq(S) /\ y \in S
  OBVIOUS
<1>2. Append(<<x>>, y) \in Seq(S) /\ <<x, y>> \in Seq(S)
  BY <1>1
<1>3. Len(Append(<<x>>, y)) = 2 /\ Len(<<x, y>>) = 2
  BY <1>1
<1>4. \A i \in 1 .. 2 : Append(<<x>>, y)[i] = <<x, y>>[i]
  BY <1>1
<1>5. QED
  BY <1>2, <1>3, <1>4, SeqEqual

\* Between attempts a helper still serving has nothing in hand.
LEMMA IdleQuiet ==
  ASSUME TypeOK, IInv, main = "idle", ~Active, NEW h \in Helper, Serving(h)
  PROVE  h = pid /\ hpc[h] = "read" /\ req[h] = <<>> /\ rep[h] = <<>>
<1>1. h = pid /\ pid # NoHelper
  BY DEF IInv, HelperInv, Helper, NoHelper
<1>2. HelperEnds(h)
  BY DEF Serving, HelperEnds, Alive
<1>3. QED
  BY <1>1, <1>2 DEF IInv, StageInv, Quiet, At, Serving, Down

\* While a worker is at work, a helper still serving is the one it talks to.
LEMMA ActiveServing ==
  ASSUME TypeOK, IInv, Active, NEW h \in Helper, Serving(h)
  PROVE  h = pid /\ h = dups /\ main = "idle"
<1>1. h = pid /\ pid # NoHelper
  BY DEF IInv, HelperInv, ThreadInv, Active, Helper, NoHelper
<1>2. QED
  BY <1>1 DEF IInv, HelperInv, ThreadInv, Active

\* start() begins a round trip with a quiet helper, or with a broken one.
LEMMA StartInv == ASSUME TypeOK, TypeOK', IInv, Start PROVE IInv'
<1> USE DEF TypeOK, IInv
<1>1. /\ main = "idle" /\ main' = "idle" /\ ~pending /\ pid # NoHelper /\ pending' /\ cancel' = FALSE
      /\ worker = "none" /\ pid = fds /\ dups = NoHelper /\ chan = "none"
      /\ attempt' = attempt + 1 /\ attempt \in Nat /\ attempt' \in Attempt
      /\ UNCHANGED <<main, pid, fds, helperVars, pipeVars, answer>>
  BY BoundsAssumption DEF Start, BeginAttempt, ThreadInv, ParentOK, Attempt,
     SpawnWorker, FailAtOnce, workerVars, Active
<1>2. answer'[attempt'] = "none" /\ verdict'[attempt'] = "none"
  BY <1>1 DEF AnswerInv, helperVars, Attempt
<1>3. \/ worker' = "header" /\ chan' = "none" /\ dups' = fds
      \/ worker' = "none" /\ chan' = "error" /\ dups' = NoHelper
  BY <1>1 DEF Start, SpawnWorker, FailAtOnce, workerVars
<1>4. ThreadInv'
  BY <1>1, <1>2, <1>3 DEF ThreadInv, Active, Attempt
<1>5. \A h \in Helper : Serving(h) => hpc[h] = "read" /\ req[h] = <<>> /\ h = pid
  BY <1>1, IdleQuiet DEF Active
<1>6. HelperInv'
  <2>1. ASSUME NEW h \in Helper PROVE Shape(h)'
    BY <1>1, <1>5 DEF HelperInv, Shape, Serving, helperVars, pipeVars
  <2>2. QED
    BY <2>1, <1>1 DEF HelperInv, Serving, helperVars
<1>7. HelperEnds(pid)' => Quiet(pid)'
  BY <1>1 DEF StageInv, HelperEnds, Alive, Quiet, At, Down, Active,
     helperVars, pipeVars
<1>8. StageInv'
  BY <1>1, <1>2, <1>3, <1>7 DEF StageInv, Active
<1>9. AnswerInv'
  <2>1. \A a \in Attempt : a > attempt' => a > attempt
    BY <1>1 DEF Attempt
  <2>2. QED
    BY <1>1, <1>3, <2>1 DEF AnswerInv, AnswersAreVerdicts, helperVars
<1>10. QED
  BY <1>4, <1>6, <1>8, <1>9

\* start() with no helper begins with a newborn one, or fails at once.
LEMMA StartWithoutHelperInv ==
  ASSUME TypeOK, TypeOK', IInv, StartWithoutHelper
  PROVE  IInv'
<1> USE DEF TypeOK, IInv
<1>1. /\ main = "idle" /\ main' = "idle" /\ ~pending /\ pid = NoHelper /\ pending' /\ cancel' = FALSE
      /\ worker = "none" /\ pid = fds /\ dups = NoHelper /\ chan = "none" /\ cancel = FALSE
      /\ attempt' = attempt + 1 /\ attempt \in Nat /\ attempt' \in Attempt
      /\ UNCHANGED <<main, pipeVars, answer, held, job, verdict>>
  BY BoundsAssumption DEF StartWithoutHelper, BeginAttempt, ThreadInv,
     ParentOK, Attempt, SpawnWorker, FailAtOnce, workerVars, Newborn,
     helperVars
<1>2. answer'[attempt'] = "none" /\ verdict'[attempt'] = "none"
  BY <1>1 DEF AnswerInv, Attempt
<1>3. \/ worker' = "header" /\ chan' = "none" /\ dups' = fds' /\ pid' = fds' /\ pid' \in Helper
      \/ worker' = "none" /\ chan' = "error" /\ dups' = NoHelper /\ pid' = fds'
  BY <1>1 DEF StartWithoutHelper, SpawnWorker, FailAtOnce, workerVars
<1>4. ThreadInv'
  BY <1>1, <1>2, <1>3 DEF ThreadInv, Active, Attempt, NoHelper, Helper
<1>5. \A h \in Helper : ~Serving(h)
  BY <1>1, IdleQuiet DEF Active, NoHelper, Helper
<1>6. \A h \in Helper : \/ hpc'[h] = hpc[h]
                        \/ hpc[h] = "unborn" /\ hpc'[h] = "read" /\ h = pid'
  BY <1>1 DEF StartWithoutHelper, Newborn, helperVars, HelperOK
<1>7. pid' # NoHelper => hpc'[pid'] = "read" /\ hpc[pid'] = "unborn" /\ pid' \in Helper
  BY <1>1 DEF StartWithoutHelper, Newborn, HelperOK
<1>8. HelperInv'
  <2>1. ASSUME NEW h \in Helper PROVE Shape(h)'
    BY <1>1, <1>5, <1>6 DEF HelperInv, Shape, Serving, pipeVars
  <2>2. QED
    BY <2>1, <1>1, <1>5, <1>6, <1>7 DEF HelperInv, Serving
<1>9. pid' # NoHelper => Quiet(pid)'
  BY <1>1, <1>7 DEF HelperInv, Shape, Quiet, At, pipeVars
<1>10. StageInv'
  BY <1>1, <1>2, <1>3, <1>9 DEF StageInv, Active, NoHelper, Helper
<1>11. AnswerInv'
  <2>1. \A a \in Attempt : a > attempt' => a > attempt
    BY <1>1 DEF Attempt
  <2>2. QED
    BY <1>1, <1>3, <2>1 DEF AnswerInv, AnswersAreVerdicts
<1>12. QED
  BY <1>4, <1>8, <1>10, <1>11

\* poll() credits the result in the channel, which is PAM's verdict.
LEMMA PollResultInv == ASSUME TypeOK, TypeOK', IInv, PollResult PROVE IInv'
<1> USE DEF TypeOK, IInv
<1>1. /\ main = "idle" /\ main' = "idle" /\ pending /\ ~pending' /\ chan # "none"
      /\ ~Active /\ worker' = "none" /\ attempt \in Attempt /\ chan' = "none" /\ ~cancel'
      /\ answer' = [answer EXCEPT ![attempt] = chan]
      /\ UNCHANGED <<main, pid, fds, dups, helperVars, pipeVars, attempt>>
  BY DEF PollResult, Active, ThreadInv, ParentOK
<1>2. ThreadInv'
  BY <1>1 DEF ThreadInv, Active
<1>3. \A h \in Helper : Serving(h) => hpc[h] = "read" /\ req[h] = <<>> /\ h = pid
  BY <1>1, IdleQuiet
<1>4. HelperInv'
  <2>1. ASSUME NEW h \in Helper PROVE Shape(h)'
    BY <1>1, <1>3 DEF HelperInv, Shape, Serving, helperVars, pipeVars, F
  <2>2. QED
    BY <2>1, <1>1 DEF HelperInv, Serving, helperVars
<1>5. StageInv'
  <2>1. HelperEnds(pid)' => Quiet(pid)' \/ pid = NoHelper
    BY <1>1 DEF StageInv, HelperEnds, Alive, Quiet, At, Down, helperVars,
       pipeVars
  <2>2. QED
    BY <1>1, <2>1 DEF StageInv
<1>6. AnswerInv'
  <2>1. ASSUME NEW a \in Attempt, answer'[a] \in {"yes", "no"} PROVE answer'[a] = verdict'[a]
    <3>1. CASE a = attempt
      BY <1>1, <2>1, <3>1 DEF AnswerInv, helperVars, ParentOK
    <3>2. CASE a # attempt
      BY <1>1, <2>1, <3>2 DEF AnswerInv, AnswersAreVerdicts, helperVars,
         ParentOK
    <3>3. QED
      BY <3>1, <3>2
  <2>2. ASSUME NEW a \in Attempt, a > attempt' PROVE answer'[a] = "none" /\ verdict'[a] = "none"
    BY <1>1, <2>2 DEF AnswerInv, helperVars, ParentOK, Attempt
  <2>3. QED
    BY <1>1, <2>1, <2>2 DEF AnswerInv, AnswersAreVerdicts
<1>7. QED
  BY <1>2, <1>4, <1>5, <1>6

\* A replacement starts with empty pipes of its own.
LEMMA RestartInv == ASSUME TypeOK, TypeOK', IInv, Restart PROVE IInv'
<1> USE DEF TypeOK, IInv
<1>1. /\ main = "join" /\ main' = "idle" /\ ~Active /\ worker' = "none" /\ ~cancel'
      /\ ~pending /\ ~pending' /\ chan = "none" /\ chan' = "none" /\ pid = NoHelper
      /\ dups = NoHelper /\ dups' = NoHelper /\ pid' = fds' /\ attempt \in Attempt
      /\ answer' = [answer EXCEPT ![attempt] = "error"]
      /\ UNCHANGED <<pipeVars, attempt, held, job, verdict>>
  BY DEF Restart, Active, ThreadInv, HelperInv, ParentOK, callVars, Newborn,
     helperVars
<1>2. ThreadInv'
  BY <1>1 DEF ThreadInv, Active
<1>3. \A h \in Helper : ~Serving(h)
  BY <1>1 DEF HelperInv, NoHelper, Helper
<1>4. \A h \in Helper : \/ hpc'[h] = hpc[h]
                        \/ hpc[h] = "unborn" /\ hpc'[h] = "read" /\ h = pid'
  BY <1>1 DEF Restart, Newborn, helperVars, HelperOK
<1>5. pid' # NoHelper => hpc'[pid'] = "read" /\ hpc[pid'] = "unborn" /\ pid' \in Helper
  BY <1>1 DEF Restart, Newborn, HelperOK
<1>6. HelperInv'
  <2>1. ASSUME NEW h \in Helper PROVE Shape(h)'
    BY <1>1, <1>3, <1>4 DEF HelperInv, Shape, Serving, pipeVars, F
  <2>2. QED
    BY <2>1, <1>1, <1>3, <1>4, <1>5 DEF HelperInv, Serving
<1>7. pid' # NoHelper => Quiet(pid)'
  BY <1>1, <1>5 DEF HelperInv, Shape, Quiet, At, pipeVars
<1>8. StageInv'
  BY <1>1, <1>7 DEF StageInv
<1>9. AnswerInv'
  <2>1. \A a \in Attempt : answer'[a] = IF a = attempt THEN "error" ELSE answer[a]
    BY <1>1 DEF ParentOK
  <2>2. \A a \in Attempt : a > attempt => a # attempt
    BY <1>1 DEF Attempt
  <2>3. QED
    BY <1>1, <2>1, <2>2 DEF AnswerInv, AnswersAreVerdicts
<1>10. QED
  BY <1>2, <1>6, <1>8, <1>9

\* Shutting down kills the helper in mid-request, or closes its pipe.
LEMMA ShutdownInv == ASSUME TypeOK, TypeOK', IInv, Shutdown PROVE IInv'
<1> USE DEF TypeOK, IInv
<1>1. UNCHANGED <<chan, workerVars, held, copies, job, verdict, pipeVars, attempt, answer>>
  BY DEF Shutdown
<1>2. main = "idle" /\ pid = fds
  BY DEF Shutdown, ThreadInv
<1>3. CASE worker # "none"
  <2>1. /\ main' = "reapLast" /\ pid' = NoHelper /\ Kill(pid) /\ ~pending' /\ UNCHANGED fds
    BY <1>3 DEF Shutdown
  <2>2. \A h \in Helper : hpc'[h] = IF h = pid /\ hpc[h] # "dead" THEN "killed" ELSE hpc[h]
    BY <2>1 DEF Kill, HelperOK
  <2>3. ThreadInv'
    BY <1>1, <1>2, <2>1 DEF ThreadInv, Active, workerVars
  <2>4. HelperInv'
    <3>1. ASSUME NEW h \in Helper PROVE Shape(h)'
      BY <1>1, <2>2 DEF HelperInv, Shape, Serving, pipeVars, F
    <3>2. QED
      BY <1>2, <2>1, <2>2, <3>1 DEF HelperInv, Serving
  <2>5. StageInv'
    <3>1. CASE ~Active
      BY <1>1, <1>3, <2>1, <3>1 DEF StageInv, Active, workerVars
    <3>2. CASE Active
      <4>1. dups = pid /\ dups \in Helper
        BY <1>2, <3>2 DEF ThreadInv, WorkerOK
      <4>2. HelperEnds(dups)' = HelperEnds(dups)
        BY <1>1, <2>2, <4>1 DEF HelperEnds, Alive, workerVars,
           HelperInv, NoHelper, Helper
      <4>3. hpc'[dups] \in {"killed", "dead"}
        BY <2>2, <4>1
      <4>4. \A rq, s, rp : At(dups, rq, s, rp) => At(dups, rq, s, rp)'
        BY <1>1, <4>3 DEF At, Down, workerVars, pipeVars
      <4>5. UNCHANGED <<worker, outcome, dups, cancel, answer, verdict, attempt>> /\ main' # "idle"
        BY <1>1, <2>1 DEF workerVars
      <4>6. QED
        BY <4>2, <4>4, <4>5 DEF StageInv, Quiet, F
    <3>3. QED
      BY <3>1, <3>2
  <2>6. AnswerInv'
    BY <1>1, <2>1 DEF AnswerInv, AnswersAreVerdicts
  <2>7. QED
    BY <2>3, <2>4, <2>5, <2>6
<1>4. CASE worker = "none"
  <2>1. /\ main' \in {"gone", "wait"} /\ (pid # NoHelper => main' = "wait")
        /\ fds' = NoHelper /\ ~pending' /\ UNCHANGED <<pid, hpc>>
    BY <1>4 DEF Shutdown
  <2>2. ThreadInv'
    BY <1>1, <1>2, <1>4, <2>1 DEF ThreadInv, Active, workerVars
  <2>3. HelperInv'
    BY <1>1, <1>2, <2>1 DEF HelperInv, Shape, Serving, pipeVars, F
  <2>4. StageInv'
    BY <1>1, <1>4, <2>1 DEF StageInv, workerVars
  <2>5. AnswerInv'
    BY <1>1, <2>1 DEF AnswerInv, AnswersAreVerdicts
  <2>6. QED
    BY <2>2, <2>3, <2>4, <2>5
<1>5. QED
  BY <1>3, <1>4

\* A worker may give up on a cancelled attempt or a broken pipe at any point.
LEMMA GiveUpInv ==
  ASSUME TypeOK, TypeOK', IInv, Active, NEW broken, GiveUp(broken), broken => ~HelperEnds(dups)
  PROVE  IInv'
<1> USE DEF TypeOK, IInv
<1>1. worker' = "report" /\ outcome' = "error" /\ UNCHANGED workerFrame /\ UNCHANGED pipeVars
  BY DEF GiveUp
<1>2. cancel \/ ~HelperEnds(dups)
  BY DEF GiveUp
<1>3. ThreadInv'
  BY <1>1 DEF ThreadInv, Active, workerFrame, callVars
<1>4. HelperInv'
  BY <1>1 DEF HelperInv, Shape, Serving, F, workerFrame, helperVars, pipeVars
<1>5. StageInv'
  BY <1>1, <1>2 DEF StageInv, HelperEnds, Alive, workerFrame, helperVars,
     Active
<1>6. AnswerInv'
  BY <1>1 DEF AnswerInv, AnswersAreVerdicts, workerFrame, callVars, helperVars
<1>7. QED
  BY <1>1, <1>3, <1>4, <1>5, <1>6

\* The worker begins a request: the pipe was empty.
LEMMA WriteHeaderInv == ASSUME TypeOK, TypeOK', IInv, WriteHeader PROVE IInv'
<1> USE DEF TypeOK, IInv
<1>1. /\ worker = "header" /\ Active /\ dups = fds /\ dups \in Helper /\ attempt # 0
      /\ UNCHANGED workerFrame /\ UNCHANGED rep
  BY DEF WriteHeader, WriteFrame, GiveUp, Active, ThreadInv, WorkerOK, pipeVars
<1>2. CASE ~cancel /\ HelperEnds(dups) /\ worker' = "body"
           /\ req' = [req EXCEPT ![dups] = Append(@, F("header"))]
  <2>1. Quiet(dups) /\ answer[attempt] = "none" /\ verdict[attempt] = "none"
    BY <1>1, <1>2 DEF StageInv
  <2>2. req'[dups] = <<F("header")>> /\ \A h \in Helper \ {dups} : req'[h] = req[h]
    BY <1>1, <1>2, <2>1 DEF Quiet, At, PipeOK
  <2>3. ThreadInv'
    BY <1>1, <1>2 DEF ThreadInv, Active, workerFrame, callVars
  <2>4. HelperInv'
    <3>1. ASSUME NEW h \in Helper PROVE Shape(h)'
      <4>1. CASE h = dups
        BY <1>1, <2>1, <2>2, <4>1 DEF HelperInv, Shape, Serving,
           Quiet, At, Down, F, workerFrame, helperVars
      <4>2. CASE h # dups
        BY <1>1, <2>2, <4>2 DEF HelperInv, Shape, Serving, F,
           workerFrame, helperVars
      <4>3. QED
        BY <4>1, <4>2
    <3>2. QED
      BY <1>1, <3>1 DEF HelperInv, Serving, workerFrame, helperVars
  <2>5. StageInv'
    <3>1. At(dups, <<F("header")>>, "read", <<>>)'
      BY <1>1, <2>1, <2>2 DEF Quiet, At, Down, F, workerFrame, helperVars
    <3>2. QED
      BY <1>1, <1>2, <3>1 DEF StageInv, Active, workerFrame
  <2>6. AnswerInv'
    BY <1>1 DEF AnswerInv, AnswersAreVerdicts, workerFrame, callVars,
       helperVars
  <2>7. QED
    BY <2>3, <2>4, <2>5, <2>6
<1>3. CASE GiveUp(~HelperEnds(dups))
  BY <1>1, <1>3, GiveUpInv
<1>4. QED
  BY <1>2, <1>3 DEF WriteHeader, WriteFrame, F

\* The worker completes the request it began.
LEMMA WriteBodyInv == ASSUME TypeOK, TypeOK', IInv, WriteBody PROVE IInv'
<1> USE DEF TypeOK, IInv
<1>1. /\ worker = "body" /\ Active /\ dups = fds /\ dups \in Helper /\ attempt # 0
      /\ UNCHANGED workerFrame /\ UNCHANGED rep
  BY DEF WriteBody, WriteFrame, GiveUp, Active, ThreadInv, WorkerOK, pipeVars
<1>2. CASE ~cancel /\ HelperEnds(dups) /\ worker' = "status"
           /\ req' = [req EXCEPT ![dups] = Append(@, F("body"))]
  <2>1. \/ At(dups, <<F("header")>>, "read", <<>>)
        \/ At(dups, <<>>, "half", <<>>)
    BY <1>1 DEF StageInv
  <2>2. /\ req'[dups] = Append(req[dups], F("body"))
        /\ \A h \in Helper \ {dups} : req'[h] = req[h]
    BY <1>1, <1>2 DEF PipeOK
  <2>3. \/ req[dups] = <<F("header")>> /\ req'[dups] = <<F("header"), F("body")>>
        \/ req[dups] = <<>> /\ req'[dups] = <<F("body")>>
    <3>1. Append(<<F("header")>>, F("body")) = <<F("header"), F("body")>>
      BY AppendOne
    <3>2. Append(<<>>, F("body")) = <<F("body")>>
      OBVIOUS
    <3>3. QED
      BY <2>1, <2>2, <3>1, <3>2 DEF At
  <2>4. ThreadInv'
    BY <1>1, <1>2 DEF ThreadInv, Active, workerFrame, callVars
  <2>5. HelperInv'
    <3>1. ASSUME NEW h \in Helper PROVE Shape(h)'
      <4>1. CASE h = dups
        <5>1. Serving(h) => answer[attempt] = "none" /\ verdict[attempt] = "none"
          BY <2>1, <4>1 DEF HelperInv, Shape, At, Down, Serving
        <5>2. \/ hpc[h] = "read" /\ req'[h] = <<F("header"), F("body")>>
              \/ hpc[h] = "half" /\ req'[h] = <<F("body")>> /\ job[h] = attempt
              \/ Down(h)
          BY <2>1, <2>3, <4>1 DEF At, HelperInv, Shape
        <5>3. UNCHANGED <<hpc, job, verdict, answer, attempt, rep>>
          BY <1>1 DEF workerFrame, helperVars
        <5>4. QED
          BY <1>1, <5>1, <5>2, <5>3 DEF Shape, Serving, Down, F
      <4>2. CASE h # dups
        BY <1>1, <2>2, <4>2 DEF HelperInv, Shape, Serving, F,
           workerFrame, helperVars
      <4>3. QED
        BY <4>1, <4>2
    <3>2. QED
      BY <1>1, <3>1 DEF HelperInv, Serving, workerFrame, helperVars
  <2>6. StageInv'
    <3>1. \/ At(dups, <<F("header"), F("body")>>, "read", <<>>)'
          \/ At(dups, <<F("body")>>, "half", <<>>)'
      BY <1>1, <2>1, <2>3 DEF At, Down, F, workerFrame, helperVars
    <3>2. QED
      BY <1>1, <1>2, <3>1 DEF StageInv, Active, workerFrame
  <2>7. AnswerInv'
    BY <1>1 DEF AnswerInv, AnswersAreVerdicts, workerFrame, callVars,
       helperVars
  <2>8. QED
    BY <2>4, <2>5, <2>6, <2>7
<1>3. CASE GiveUp(~HelperEnds(dups))
  BY <1>1, <1>3, GiveUpInv
<1>4. QED
  BY <1>2, <1>3 DEF WriteBody, WriteFrame, F

\* The status the worker reads is the one PAM decided for this attempt.
LEMMA ReadStatusInv == ASSUME TypeOK, TypeOK', IInv, ReadStatus PROVE IInv'
<1> USE DEF TypeOK, IInv
<1>1. /\ worker = "status" /\ Active /\ dups = fds /\ dups \in Helper /\ attempt # 0
  BY DEF ReadStatus, Active, ThreadInv, WorkerOK
<1>2. CASE rep[dups] # <<>> /\ UNCHANGED <<workerFrame, req>>
           /\ rep' = [rep EXCEPT ![dups] = Tail(@)]
           /\ IF Head(rep[dups]).kind \in {"yes", "no"}
             THEN worker' = Head(rep[dups]).kind /\ UNCHANGED outcome
             ELSE worker' = "report" /\ outcome' = "error"
  <2>1. PICK v \in {"yes", "no"} :
          /\ verdict[attempt] = v
          /\ \/ At(dups, <<>>, "message", <<F(v)>>)
             \/ At(dups, <<>>, "read", <<F(v), F("message")>>)
    BY <1>1, <1>2 DEF StageInv, At
  <2>2. Head(rep[dups]) = F(v)
    BY <2>1 DEF At
  <2>3. worker' = v /\ UNCHANGED outcome
    BY <1>2, <2>2 DEF F
  <2>4. /\ rep'[dups] = Tail(rep[dups])
        /\ \A h \in Helper \ {dups} : rep'[h] = rep[h]
    BY <1>1, <1>2 DEF PipeOK
  <2>5. \/ rep[dups] = <<F(v)>> /\ rep'[dups] = <<>>
        \/ rep[dups] = <<F(v), F("message")>> /\ rep'[dups] = <<F("message")>>
    <3>1. Tail(<<F(v)>>) = <<>> /\ Tail(<<F(v), F("message")>>) = <<F("message")>>
      OBVIOUS
    <3>2. QED
      BY <2>1, <2>4, <3>1 DEF At
  <2>6. ThreadInv'
    BY <1>1, <1>2, <2>3 DEF ThreadInv, Active, workerFrame, callVars
  <2>7. HelperInv'
    <3>1. hpc[dups] # "unborn"
      BY <2>1 DEF At, Down
    <3>2. QED
      BY <1>1, <1>2, <2>4, <3>1 DEF HelperInv, Shape, Serving, F,
         workerFrame, helperVars
  <2>8. StageInv'
    <3>1. \/ At(dups, <<>>, "message", <<>>)'
          \/ At(dups, <<>>, "read", <<F("message")>>)'
      BY <1>2, <2>1, <2>5 DEF At, Down, F, workerFrame, helperVars
    <3>2. QED
      BY <1>1, <1>2, <2>1, <2>3, <3>1 DEF StageInv, Active, workerFrame,
         helperVars
  <2>9. AnswerInv'
    BY <1>2 DEF AnswerInv, AnswersAreVerdicts, workerFrame, callVars,
       helperVars
  <2>10. QED
    BY <2>6, <2>7, <2>8, <2>9
<1>3. CASE GiveUp(rep[dups] = <<>> /\ ~HelperEnds(dups))
  BY <1>1, <1>3, GiveUpInv
<1>4. QED
  BY <1>2, <1>3 DEF ReadStatus

\* The rest of the reply leaves both pipes empty and the helper idle.
LEMMA ReadMessageInv == ASSUME TypeOK, TypeOK', IInv, ReadMessage PROVE IInv'
<1> USE DEF TypeOK, IInv
<1>1. /\ worker \in {"yes", "no"} /\ Active /\ dups = fds /\ dups \in Helper /\ attempt # 0
  BY DEF ReadMessage, Active, ThreadInv, WorkerOK
<1>2. CASE rep[dups] # <<>> /\ UNCHANGED <<workerFrame, req>>
           /\ rep' = [rep EXCEPT ![dups] = Tail(@)]
           /\ worker' = "report" /\ outcome' = worker
  <2>1. At(dups, <<>>, "read", <<F("message")>>) /\ verdict[attempt] = worker
    BY <1>1, <1>2 DEF StageInv, At
  <2>2. /\ rep'[dups] = <<>>
        /\ \A h \in Helper \ {dups} : rep'[h] = rep[h]
    BY <1>1, <1>2, <2>1 DEF PipeOK, At
  <2>3. ThreadInv'
    BY <1>1, <1>2 DEF ThreadInv, Active, workerFrame, callVars
  <2>4. HelperInv'
    <3>1. hpc[dups] # "unborn"
      BY <2>1 DEF At, Down
    <3>2. QED
      BY <1>1, <1>2, <2>2, <3>1 DEF HelperInv, Shape, Serving, F,
         workerFrame, helperVars
  <2>5. StageInv'
    <3>1. Quiet(dups)'
      BY <1>2, <2>1, <2>2 DEF Quiet, At, Down, F, workerFrame, helperVars
    <3>2. QED
      BY <1>1, <1>2, <2>1, <3>1 DEF StageInv, Active, workerFrame, helperVars
  <2>6. AnswerInv'
    BY <1>2 DEF AnswerInv, AnswersAreVerdicts, workerFrame, callVars,
       helperVars
  <2>7. QED
    BY <2>3, <2>4, <2>5, <2>6
<1>3. CASE GiveUp(rep[dups] = <<>> /\ ~HelperEnds(dups))
  BY <1>1, <1>3, GiveUpInv
<1>4. QED
  BY <1>2, <1>3 DEF ReadMessage

\* The helper takes up the current attempt's request, header then body.
LEMMA ReadRequestInv ==
  ASSUME TypeOK, TypeOK', IInv, NEW h \in Helper, ReadRequest(h) PROVE IInv'
<1> USE DEF TypeOK, IInv
<1>1. /\ UNCHANGED <<main, pid, fds, callVars, workerVars, attempt, answer, held, copies, verdict, rep>>
      /\ hpc[h] \in {"read", "half"} /\ req[h] # <<>> /\ Serving(h)
  BY DEF ReadRequest, parentVars, Serving
<1>2. \/ hpc[h] = "read" /\ req[h] = <<F("header")>>
      \/ hpc[h] = "read" /\ req[h] = <<F("header"), F("body")>>
      \/ hpc[h] = "half" /\ req[h] = <<F("body")>>
  BY <1>1 DEF HelperInv, Shape
<1>3. \/ hpc[h] = "read" /\ req[h] = <<F("header")>> /\ hpc'[h] = "half" /\ req'[h] = <<>>
      \/ hpc[h] = "read" /\ req[h] = <<F("header"), F("body")>> /\ hpc'[h] = "half" /\ req'[h] = <<F("body")>>
      \/ hpc[h] = "half" /\ req[h] = <<F("body")>> /\ hpc'[h] = "verify" /\ req'[h] = <<>>
  <2>1. req'[h] = Tail(req[h]) /\ hpc'[h] = IF hpc[h] = "read" THEN "half" ELSE "verify"
    BY DEF ReadRequest, PipeOK, HelperOK
  <2>2. Tail(<<F("header")>>) = <<>> /\ Tail(<<F("header"), F("body")>>) = <<F("body")>> /\ Tail(<<F("body")>>) = <<>>
    OBVIOUS
  <2>3. QED
    BY <1>2, <2>1, <2>2
<1>4. job'[h] = attempt
  <2>1. Head(<<F("header")>>) = F("header") /\ Head(<<F("header"), F("body")>>) = F("header") /\ Head(<<F("body")>>) = F("body")
    OBVIOUS
  <2>2. Head(req[h]).of = attempt
    BY <1>2, <2>1 DEF F
  <2>3. QED
    BY <2>2 DEF ReadRequest, HelperOK
<1>5. attempt # 0 /\ answer[attempt] = "none" /\ verdict[attempt] = "none"
  BY <1>1 DEF HelperInv, Shape
<1>6. \A k \in Helper \ {h} : hpc'[k] = hpc[k] /\ req'[k] = req[k] /\ job'[k] = job[k]
  BY DEF ReadRequest, HelperOK, PipeOK
<1>7. ThreadInv'
  BY <1>1 DEF ThreadInv, Active, callVars, workerVars
<1>8. HelperInv'
  <2>1. Shape(h)'
    BY <1>1, <1>3, <1>4, <1>5 DEF Shape, F
  <2>2. \A k \in Helper \ {h} : Shape(k)'
    BY <1>1, <1>6 DEF HelperInv, Shape, Serving, F
  <2>3. QED
    BY <1>1, <1>3, <1>6, <2>1, <2>2 DEF HelperInv, Serving
<1>9. StageInv'
  <2>1. CASE Active
    <3>1. h = dups /\ main = "idle" /\ pid = dups
      BY <1>1, <2>1, ActiveServing
    <3>2. ~Quiet(h) /\ HelperEnds(h) /\ ~cancel
      BY <1>1, <3>1 DEF Quiet, At, HelperEnds, Serving, Alive, ThreadInv
    <3>3. rep'[dups] = <<>> /\ rep[dups] = <<>> /\ worker \in {"body", "status"}
      BY <1>1, <1>2, <2>1, <3>1, <3>2 DEF StageInv, At, Down, Active,
         WorkerOK, WorkerState
    <3>4. worker = "body" => At(dups, <<>>, "half", <<>>)'
      <4>1. worker = "body" => req[h] = <<F("header")>> /\ hpc[h] = "read"
        BY <1>1, <1>2, <3>1 DEF StageInv, At, Down, Serving
      <4>2. <<F("header")>> # <<F("header"), F("body")>> /\ <<F("header")>> # <<>>
        OBVIOUS
      <4>3. QED
        BY <1>1, <1>3, <3>1, <3>3, <4>1, <4>2 DEF At, workerVars
    <3>5. worker = "status" => \/ At(dups, <<F("body")>>, "half", <<>>)'
                               \/ At(dups, <<>>, "verify", <<>>)'
                               \/ At(dups, <<>>, "half", <<>>)' /\ req[h] = <<F("header")>>
      BY <1>1, <1>2, <1>3, <3>1, <3>3 DEF At, F, workerVars
    <3>6. worker = "status" => req[h] # <<F("header")>>
      BY <1>1, <1>2, <3>1 DEF StageInv, At, Down, Serving, F
    <3>7. QED
      BY <1>1, <2>1, <3>3, <3>4, <3>5, <3>6 DEF StageInv, workerVars, Active
  <2>2. CASE ~Active
    <3>1. main # "idle"
      BY <1>1, <2>2, IdleQuiet
    <3>2. QED
      BY <1>1, <2>2, <3>1 DEF StageInv, Active, workerVars
  <2>3. QED
    BY <2>1, <2>2
<1>10. AnswerInv'
  BY <1>1 DEF AnswerInv, AnswersAreVerdicts, callVars
<1>11. QED
  BY <1>7, <1>8, <1>9, <1>10

\* The helper answers the attempt it was asked about.
LEMMA WriteReplyInv ==
  ASSUME TypeOK, TypeOK', IInv, NEW h \in Helper, WriteReply(h), ParentEnds(h) PROVE IInv'
<1> USE DEF TypeOK, IInv
<1>1. /\ UNCHANGED <<main, pid, fds, callVars, workerVars, attempt, answer, held, copies, job, verdict, req>>
      /\ hpc[h] \in {"yes", "no", "message"} /\ Serving(h)
      /\ rep' = [rep EXCEPT ![h] = Append(@, [kind |-> hpc[h], of |-> job[h]])]
      /\ hpc' = [hpc EXCEPT ![h] = IF @ = "message" THEN "read" ELSE "message"]
  BY DEF WriteReply, parentVars, Serving
<1>2. job[h] = attempt /\ req[h] = <<>> /\ attempt # 0
  BY <1>1 DEF HelperInv, Shape
<1>3. /\ rep'[h] = Append(rep[h], F(hpc[h]))
      /\ hpc'[h] = IF hpc[h] = "message" THEN "read" ELSE "message"
      /\ \A k \in Helper \ {h} : hpc'[k] = hpc[k] /\ rep'[k] = rep[k]
  BY <1>1, <1>2 DEF HelperOK, PipeOK, F
<1>4. ThreadInv'
  BY <1>1 DEF ThreadInv, Active, callVars, workerVars
<1>5. HelperInv'
  <2>1. Shape(h)'
    BY <1>1, <1>2, <1>3 DEF Shape, F
  <2>2. \A k \in Helper \ {h} : Shape(k)'
    BY <1>1, <1>3 DEF HelperInv, Shape, Serving, F
  <2>3. QED
    BY <1>1, <1>3, <2>1, <2>2 DEF HelperInv, Serving
<1>6. StageInv'
  <2>1. CASE Active
    <3>1. h = dups /\ main = "idle" /\ pid = dups
      BY <1>1, <2>1, ActiveServing
    <3>2. ~Quiet(h) /\ HelperEnds(h) /\ ~cancel
      BY <1>1, <3>1 DEF Quiet, At, HelperEnds, Serving, Alive, ThreadInv, Down
    <3>3. worker \in {"status", "yes", "no"}
      BY <1>1, <2>1, <3>1, <3>2 DEF StageInv, At, Down, Active,
         WorkerOK, WorkerState
    <3>4. CASE worker = "status"
      <4>1. PICK v \in {"yes", "no"} :
              /\ verdict[attempt] = v
              /\ \/ hpc[h] = v /\ rep[h] = <<>>
                 \/ hpc[h] = "message" /\ rep[h] = <<F(v)>>
        BY <1>1, <3>1, <3>4 DEF StageInv, At, Down, Serving
      <4>2. Append(<<>>, F(v)) = <<F(v)>> /\ Append(<<F(v)>>, F("message")) = <<F(v), F("message")>>
        BY AppendOne
      <4>3. \/ At(dups, <<>>, "message", <<F(v)>>)'
            \/ At(dups, <<>>, "read", <<F(v), F("message")>>)'
        BY <1>1, <1>2, <1>3, <3>1, <4>1, <4>2 DEF At, F, workerVars
      <4>4. QED
        BY <1>1, <3>4, <4>1, <4>3 DEF StageInv, workerVars, Active
    <3>5. CASE worker \in {"yes", "no"}
      <4>1. hpc[h] = "message" /\ rep[h] = <<>> /\ verdict[attempt] = worker
        BY <1>1, <3>1, <3>5 DEF StageInv, At, Down, Serving
      <4>2. At(dups, <<>>, "read", <<F("message")>>)'
        BY <1>1, <1>2, <1>3, <3>1, <4>1 DEF At, F, workerVars
      <4>3. QED
        BY <1>1, <3>5, <4>1, <4>2 DEF StageInv, workerVars, Active
    <3>6. QED
      BY <3>3, <3>4, <3>5
  <2>2. CASE ~Active
    <3>1. main # "idle"
      BY <1>1, <2>2, IdleQuiet
    <3>2. QED
      BY <1>1, <2>2, <3>1 DEF StageInv, Active, workerVars
  <2>3. QED
    BY <2>1, <2>2
<1>7. AnswerInv'
  BY <1>1 DEF AnswerInv, AnswersAreVerdicts, callVars
<1>8. QED
  BY <1>4, <1>5, <1>6, <1>7

\* PAM decides an attempt that has no verdict and no answer yet.
LEMMA VerifyInv ==
  ASSUME TypeOK, TypeOK', IInv, NEW h \in Helper, Verify(h) PROVE IInv'
<1> USE DEF TypeOK, IInv
<1>1. PICK v \in {"yes", "no"} :
        /\ hpc' = [hpc EXCEPT ![h] = v]
        /\ verdict' = [verdict EXCEPT ![job[h]] = v]
  BY DEF Verify
<1>2. /\ UNCHANGED <<main, pid, fds, callVars, workerVars, attempt, answer, held, copies, job, req, rep>>
      /\ hpc[h] = "verify" /\ Serving(h)
  BY DEF Verify, parentVars, pipeVars, Serving
<1>3. job[h] = attempt /\ req[h] = <<>> /\ attempt # 0 /\ attempt \in Attempt
      /\ answer[attempt] = "none" /\ verdict[attempt] = "none"
  BY <1>2 DEF HelperInv, Shape, ParentOK
<1>4. /\ hpc'[h] = v /\ \A k \in Helper \ {h} : hpc'[k] = hpc[k]
      /\ verdict'[attempt] = v /\ \A a \in Attempt \ {attempt} : verdict'[a] = verdict[a]
  BY <1>1, <1>3 DEF HelperOK
<1>5. ThreadInv'
  BY <1>2 DEF ThreadInv, Active, callVars, workerVars
<1>6. HelperInv'
  <2>1. Shape(h)'
    BY <1>2, <1>3, <1>4 DEF Shape, F
  <2>2. ASSUME NEW k \in Helper, k # h PROVE Shape(k)'
    <3>1. ~Serving(k)
      BY <1>2, <2>2 DEF HelperInv
    <3>2. QED
      BY <1>2, <1>4, <2>2, <3>1 DEF HelperInv, Shape, Serving, F
  <2>3. QED
    BY <1>2, <1>4, <2>1, <2>2 DEF HelperInv, Serving
<1>7. StageInv'
  <2>1. CASE Active
    <3>1. h = dups /\ main = "idle" /\ pid = dups
      BY <1>2, <2>1, ActiveServing
    <3>2. ~Quiet(h) /\ HelperEnds(h) /\ ~cancel
      BY <1>2, <3>1 DEF Quiet, At, HelperEnds, Serving, Alive, ThreadInv, Down
    <3>3. worker = "status" /\ rep[h] = <<>>
      BY <1>2, <1>3, <2>1, <3>1, <3>2 DEF StageInv, At, Down, Active,
         WorkerOK, WorkerState
    <3>4. At(dups, <<>>, v, <<>>)'
      BY <1>2, <1>3, <1>4, <3>1, <3>3 DEF At, workerVars
    <3>5. QED
      BY <1>2, <1>4, <3>3, <3>4 DEF StageInv, workerVars, Active
  <2>2. CASE ~Active
    <3>1. main # "idle"
      BY <1>2, <2>2, IdleQuiet
    <3>2. QED
      BY <1>2, <2>2, <3>1 DEF StageInv, Active, workerVars
  <2>3. QED
    BY <2>1, <2>2
<1>8. AnswerInv'
  <2>1. pending => chan = "none"
    <3>1. CASE Active
      BY <3>1 DEF ThreadInv
    <3>2. CASE ~Active
      BY <1>2, <3>2, IdleQuiet DEF ThreadInv
    <3>3. QED
      BY <3>1, <3>2
  <2>2. \A a \in Attempt : a > attempt => a # attempt
    BY <1>3 DEF Attempt
  <2>3. \A a \in Attempt : answer[a] \in {"yes", "no"} => answer[a] = verdict'[a]
    BY <1>3, <1>4 DEF AnswerInv, AnswersAreVerdicts
  <2>4. QED
    BY <1>2, <1>3, <1>4, <2>1, <2>2, <2>3 DEF AnswerInv,
       AnswersAreVerdicts, callVars
<1>9. QED
  BY <1>5, <1>6, <1>7, <1>8

\* Giving an attempt up kills its helper.
LEMMA PollTimeoutInv == ASSUME TypeOK, TypeOK', IInv, PollTimeout PROVE IInv'
<1> USE DEF TypeOK, IInv, PollTimeout, Kill, workerVars, pipeVars
<1>1. ThreadInv'
  BY DEF ThreadInv, Active
<1>2. HelperInv'
  BY DEF HelperInv, ThreadInv, Shape, Serving, F, ParentOK, HelperOK,
     NoHelper, Helper
<1>3. StageInv'
  BY DEF StageInv, ThreadInv, HelperInv, Active, Quiet, At, Down, F,
     HelperEnds, Alive, ParentOK, HelperOK, NoHelper, Helper
<1>4. AnswerInv'
  BY DEF AnswerInv, AnswersAreVerdicts
<1>5. QED
  BY <1>1, <1>2, <1>3, <1>4

\* Cancelling the worker loosens nothing.
LEMMA ReapInv == ASSUME TypeOK, TypeOK', IInv, Reap PROVE IInv'
<1> USE DEF TypeOK, IInv, Reap, callVars, helperVars, pipeVars
<1>1. ThreadInv'
  BY DEF ThreadInv, Active
<1>2. HelperInv'
  BY DEF HelperInv, Shape, Serving, F, NoHelper
<1>3. StageInv'
  BY DEF StageInv, Quiet, At, Down, F, HelperEnds, Alive, Active
<1>4. AnswerInv'
  BY DEF AnswerInv, AnswersAreVerdicts
<1>5. QED
  BY <1>1, <1>2, <1>3, <1>4

\* The last wait ends, with the helper dead, killed or left to end of file.
LEMMA WaitInv == ASSUME TypeOK, TypeOK', IInv, Wait PROVE IInv'
<1> USE DEF TypeOK, IInv, Wait, Kill, callVars, workerVars, pipeVars
<1>1. ThreadInv'
  BY DEF ThreadInv, Active
<1>2. HelperInv'
  BY DEF HelperInv, Shape, Serving, F, ParentOK, HelperOK
<1>3. StageInv'
  BY DEF StageInv, ThreadInv
<1>4. AnswerInv'
  BY DEF AnswerInv, AnswersAreVerdicts
<1>5. QED
  BY <1>1, <1>2, <1>3, <1>4

\* The last join leaves no worker.
LEMMA ShutdownJoinInv == ASSUME TypeOK, TypeOK', IInv, ShutdownJoin PROVE IInv'
<1> USE DEF TypeOK, IInv, ShutdownJoin, callVars, helperVars, pipeVars
<1>1. ThreadInv'
  BY DEF ThreadInv, Active
<1>2. HelperInv'
  BY DEF HelperInv, Shape, Serving, F
<1>3. StageInv'
  BY DEF StageInv
<1>4. AnswerInv'
  BY DEF AnswerInv, AnswersAreVerdicts
<1>5. QED
  BY <1>1, <1>2, <1>3, <1>4

\* A crash of the locker leaves at most one helper serving.
LEMMA CrashInv == ASSUME TypeOK, TypeOK', IInv, Crash PROVE IInv'
<1> USE DEF TypeOK, IInv, Crash, helperVars, pipeVars
<1>1. ThreadInv'
  BY DEF ThreadInv, Active
<1>2. HelperInv'
  BY DEF HelperInv, Shape, Serving, F
<1>3. StageInv'
  BY DEF StageInv
<1>4. AnswerInv'
  BY DEF AnswerInv, AnswersAreVerdicts
<1>5. QED
  BY <1>1, <1>2, <1>3, <1>4

\* Time passing changes nothing else.
LEMMA DeadlinePassesInv ==
  ASSUME TypeOK, TypeOK', IInv, DeadlinePasses
  PROVE  IInv'
<1> USE DEF TypeOK, IInv, DeadlinePasses, workerVars, helperVars, pipeVars
<1>1. ThreadInv'
  BY DEF ThreadInv, Active
<1>2. HelperInv'
  BY DEF HelperInv, Shape, Serving, F
<1>3. StageInv'
  BY DEF StageInv, Quiet, At, Down, F, HelperEnds, Alive, Active
<1>4. AnswerInv'
  BY DEF AnswerInv, AnswersAreVerdicts
<1>5. QED
  BY <1>1, <1>2, <1>3, <1>4

\* The worker's result is the verdict it read, or an error.
LEMMA ReportInv == ASSUME TypeOK, TypeOK', IInv, Report PROVE IInv'
<1> USE DEF TypeOK, IInv, Report, helperVars, pipeVars
<1>1. ThreadInv'
  BY DEF ThreadInv, Active
<1>2. HelperInv'
  BY DEF HelperInv, Shape, Serving, F
<1>3. StageInv'
  BY DEF StageInv, ThreadInv, Active, Quiet, At, Down, F, HelperEnds, Alive,
     WorkerOK
<1>4. AnswerInv'
  BY DEF AnswerInv, AnswersAreVerdicts, StageInv, ThreadInv, WorkerOK, Active
<1>5. QED
  BY <1>1, <1>2, <1>3, <1>4

\* A helper that dies leaves its pipes as they are.
LEMMA DiesInv ==
  ASSUME TypeOK, TypeOK', IInv, NEW h \in Helper, Dies(h), Alive(h)
  PROVE  IInv'
<1> USE DEF TypeOK, IInv, Dies, parentVars, callVars, workerVars, pipeVars
<1>1. ThreadInv'
  BY DEF ThreadInv, Active
<1>2. HelperInv'
  BY DEF HelperInv, Shape, Serving, F, HelperOK
<1>3. StageInv'
  BY DEF StageInv, ThreadInv, Active, Quiet, At, Down, F, HelperEnds, Alive,
     HelperOK
<1>4. AnswerInv'
  BY DEF AnswerInv, AnswersAreVerdicts
<1>5. QED
  BY <1>1, <1>2, <1>3, <1>4

\* Nothing changes when nothing happens.
LEMMA StutterInv == ASSUME TypeOK, TypeOK', IInv, UNCHANGED vars PROVE IInv'
<1> USE DEF TypeOK, IInv, vars, callVars, workerVars, helperVars, pipeVars
<1>1. ThreadInv'
  BY DEF ThreadInv, Active
<1>2. HelperInv'
  BY DEF HelperInv, Shape, Serving, F
<1>3. StageInv'
  BY DEF StageInv, Quiet, At, Down, F, HelperEnds, Alive, Active
<1>4. AnswerInv'
  BY DEF AnswerInv, AnswersAreVerdicts
<1>5. QED
  BY <1>1, <1>2, <1>3, <1>4

\* The invariant holds before the first attempt.
LEMMA InvInit == Init => IInv
<1> SUFFICES ASSUME Init PROVE IInv
  OBVIOUS
<1>1. TypeOK
  BY TypeInit
<1>2. 1 \in Helper
  BY BoundsAssumption DEF Helper
<1>3. ThreadInv
  BY DEF Init, ThreadInv, Active, NoHelper
<1>4. HelperInv
  BY <1>2 DEF Init, HelperInv, Shape, Serving
<1>5. StageInv
  BY <1>2 DEF Init, StageInv, Quiet, At, Active
<1>6. AnswerInv
  BY DEF Init, AnswerInv, AnswersAreVerdicts
<1>7. QED
  BY <1>1, <1>3, <1>4, <1>5, <1>6 DEF IInv

\* Every step of every party preserves the invariant.
LEMMA InvStep == IInv /\ [Next]_vars => IInv'
<1> SUFFICES ASSUME IInv, [Next]_vars PROVE IInv'
  OBVIOUS
<1>1. TypeOK /\ TypeOK'
  BY TypeStep DEF IInv
<1>2. CASE Start \/ StartWithoutHelper
  BY <1>1, <1>2, StartInv, StartWithoutHelperInv
<1>3. CASE MainStep
  BY <1>1, <1>3, PollResultInv, PollTimeoutInv, ReapInv, RestartInv, WaitInv,
     ShutdownJoinInv DEF MainStep
<1>4. CASE Shutdown \/ Crash \/ DeadlinePasses
  BY <1>1, <1>4, ShutdownInv, CrashInv, DeadlinePassesInv
<1>5. CASE WorkerStep
  BY <1>1, <1>5, WriteHeaderInv, WriteBodyInv, ReadStatusInv, ReadMessageInv,
     ReportInv DEF WorkerStep
<1>6. ASSUME NEW h \in Helper, HelperStep(h) \/ Verify(h) \/ HelperDies(h)
      PROVE  IInv'
  <2>1. CASE ReadRequest(h)
    BY <1>1, <2>1, ReadRequestInv
  <2>2. CASE Verify(h)
    BY <1>1, <2>2, VerifyInv
  <2>3. CASE WriteReply(h) /\ ParentEnds(h)
    BY <1>1, <2>3, WriteReplyInv
  <2>4. CASE Dies(h) /\ Alive(h)
    BY <1>1, <2>4, DiesInv
  <2>5. QED
    BY <1>6, <2>1, <2>2, <2>3, <2>4
       DEF HelperStep, ReadEOF, WriteReply, HelperDies, Alive
<1>7. CASE UNCHANGED vars
  BY <1>1, <1>7, StutterInv
<1>8. QED
  BY <1>2, <1>3, <1>4, <1>5, <1>6, <1>7 DEF Next

\* Worker and helper stay in step on the attempt the parent is waiting for,
\* which is what makes a late reply harmless.
THEOREM Invariance == Spec => []IInv
BY InvInit, InvStep, PTL DEF Spec

\* poll() never returns anything but PAM's verdict on the attempt it was asked
\* about, or an error, for any number of attempts and helpers.
THEOREM AnswersCorrect == Spec => []AnswersAreVerdicts
<1>1. IInv => AnswersAreVerdicts
  BY DEF IInv, AnswerInv
<1>2. QED
  BY <1>1, Invariance, PTL

\* A timeout or a replacement never leaves a helper that still serves.
THEOREM NoneStray == Spec => []NoStrayHelper
<1>1. IInv => NoStrayHelper
  BY DEF IInv, HelperInv, NoStrayHelper, Serving
<1>2. QED
  BY <1>1, Invariance, PTL

\* A helper that has read a header always finds that request's own body.
THEOREM Framed == Spec => []RequestsStayFramed
<1>1. IInv => RequestsStayFramed
  <2> SUFFICES ASSUME IInv, NEW h \in Helper, hpc[h] = "half", req[h] # <<>>
               PROVE  Head(req[h]) = [kind |-> "body", of |-> job[h]]
    BY DEF RequestsStayFramed
  <2>1. req[h] = <<F("body")>> /\ job[h] = attempt
    BY DEF IInv, HelperInv, Shape
  <2>2. Head(<<F("body")>>) = F("body")
    OBVIOUS
  <2>3. QED
    BY <2>1, <2>2 DEF F
<1>2. QED
  BY <1>1, Invariance, PTL

\* fork() happens with no worker thread running, and the child inherits no
\* pipe end but its own.
THEOREM ForkSafe == Spec => ForkIsSingleThreaded
<1>1. IInv /\ [Next]_vars =>
        [\A h \in Helper : hpc[h] = "unborn" /\ hpc'[h] = "read" =>
           worker \in {"none", "exited"} /\ copies'[h] = {}]_vars
  <2> SUFFICES ASSUME IInv, Next, NEW h \in Helper,
                      hpc[h] = "unborn", hpc'[h] = "read"
               PROVE  worker \in {"none", "exited"} /\ copies'[h] = {}
    BY DEF vars, helperVars
  <2> USE DEF IInv, TypeOK
  <2>1. ASSUME NEW k \in Helper, NEW open, Newborn(k, open), open \subseteq {NoHelper}
        PROVE  copies'[h] = {}
    <3>1. k = h
      BY <2>1 DEF Newborn, HelperOK
    <3>2. QED
      BY <2>1, <3>1 DEF Newborn, HelperOK
  <2>2. CASE StartWithoutHelper
    <3>1. worker = "none" /\ fds = NoHelper /\ dups = NoHelper
      BY <2>2 DEF StartWithoutHelper, BeginAttempt, ThreadInv, Active
    <3>2. \E k \in Helper : Newborn(k, {fds, dups})
      BY <2>2 DEF StartWithoutHelper, helperVars
    <3>3. QED
      BY <2>1, <3>1, <3>2
  <2>3. CASE Restart
    <3>1. worker \in {"none", "exited"} /\ dups = NoHelper
      BY <2>3 DEF Restart, ThreadInv, Active
    <3>2. \E k \in Helper : Newborn(k, {dups})
      BY <2>3 DEF Restart, helperVars
    <3>3. QED
      BY <2>1, <3>1, <3>2
  <2>4. CASE Start \/ PollResult \/ Reap \/ ShutdownJoin \/ Crash \/ DeadlinePasses
             \/ WorkerStep
    BY <2>4 DEF Start, PollResult, Reap, ShutdownJoin, Crash, DeadlinePasses,
       WorkerStep, WriteHeader, WriteBody, WriteFrame, ReadStatus, ReadMessage,
       GiveUp, Report, workerFrame, helperVars
  <2>5. CASE PollTimeout \/ Wait \/ Shutdown
    BY <2>5 DEF PollTimeout, Wait, Shutdown, Kill, HelperOK
  <2>6. ASSUME NEW k \in Helper, HelperStep(k) \/ Verify(k) \/ HelperDies(k)
        PROVE  FALSE
    BY <2>6 DEF HelperStep, ReadRequest, ReadEOF, WriteReply, Verify,
       HelperDies,
       Dies, Alive, HelperOK
  <2>7. QED
    BY <2>2, <2>3, <2>4, <2>5, <2>6 DEF Next, MainStep
<1>2. QED
  BY <1>1, Invariance, PTL DEF Spec, ForkIsSingleThreaded
-----------------------------------------------------------------------------
(* The verifier implements AuthService, the service the main thread is     *)
(* modelled against: threads, pipes, replacements and deaths are stutters, *)
(* and the steps that show are the asking, PAM's decision, poll()'s return *)
(* and the end.  That an answer comes at all is left to the model checker. *)

visible == <<phase, attempt, verdict, answer>>

\* The worker, the clock and the wait for a killed helper are not seen.
LEMMA ServiceHidden ==
  ASSUME Reap \/ Wait \/ ShutdownJoin \/ DeadlinePasses \/ WorkerStep
         \/ UNCHANGED vars
  PROVE  UNCHANGED visible
<1> USE DEF visible, phase
<1>1. CASE Reap
  BY <1>1 DEF Reap, helperVars, callVars
<1>2. CASE Wait \/ ShutdownJoin
  BY <1>2 DEF Wait, ShutdownJoin, helperVars, callVars
<1>3. CASE DeadlinePasses
  BY <1>3 DEF DeadlinePasses, helperVars
<1>4. CASE WorkerStep
  BY <1>4 DEF WorkerStep, WriteHeader, WriteBody, WriteFrame, ReadStatus,
     ReadMessage, GiveUp, Report, workerFrame, helperVars, callVars
<1>5. CASE UNCHANGED vars
  BY <1>5 DEF vars, helperVars, callVars
<1>6. QED
  BY <1>1, <1>2, <1>3, <1>4, <1>5

\* start() asks, with or without a helper at hand.
LEMMA ServiceAsks ==
  ASSUME Start \/ StartWithoutHelper
  PROVE  Service!Ask
<1>1. BeginAttempt /\ verdict' = verdict
  BY DEF Start, StartWithoutHelper, Newborn, helperVars
<1>2. QED
  BY <1>1 DEF BeginAttempt, phase, Service!Ask

\* poll() answers with a result the worker sent, which is PAM's verdict.
LEMMA ServicePolls ==
  ASSUME IInv, PollResult
  PROVE  Service!Answer
<1>1. phase = "asked" /\ phase' = "ready"
  BY DEF PollResult, phase
<1>2. chan \in {verdict[attempt], "error"} \ {"none"}
  BY DEF PollResult, IInv, AnswerInv, TypeOK, ParentOK, Result
<1>3. answer' = [answer EXCEPT ![attempt] = chan] /\ UNCHANGED <<attempt, verdict>>
  BY DEF PollResult, helperVars
<1>4. QED
  BY <1>1, <1>2, <1>3 DEF Service!Answer

\* A timeout is answered when the helper has been replaced, with an error.
LEMMA ServiceReplaces ==
  ASSUME IInv, Restart
  PROVE  Service!Answer
<1>1. ~pending /\ main = "join"
  BY DEF Restart, IInv, ThreadInv
<1>2. phase = "asked" /\ phase' = "ready"
  BY <1>1 DEF Restart, phase, callVars
<1>3. answer' = [answer EXCEPT ![attempt] = "error"] /\ UNCHANGED <<attempt, verdict>>
  BY DEF Restart, Newborn, helperVars
<1>4. "error" \in {verdict[attempt], "error"} \ {"none"}
  OBVIOUS
<1>5. QED
  BY <1>2, <1>3, <1>4 DEF Service!Answer

\* Giving an attempt up does not answer it yet, and so does not show.
LEMMA ServiceGivesUp ==
  ASSUME PollTimeout
  PROVE  UNCHANGED visible
BY DEF PollTimeout, visible, phase

\* Dropping the verifier, or a crash, ends the service once.
LEMMA ServiceStops ==
  ASSUME Shutdown \/ Crash
  PROVE  Service!Stop \/ UNCHANGED visible
<1>1. CASE Shutdown
  <2>1. phase # "down" /\ phase' = "down"
    BY <1>1 DEF Shutdown, phase
  <2>2. QED
    BY <1>1, <2>1 DEF Shutdown, Service!Stop
<1>2. CASE Crash
  <2>1. phase' = "down" /\ UNCHANGED <<attempt, verdict, answer>>
    BY <1>2 DEF Crash, phase, helperVars
  <2>2. CASE phase = "down"
    BY <2>1, <2>2 DEF visible
  <2>3. CASE phase # "down"
    BY <2>1, <2>3 DEF Service!Stop
  <2>4. QED
    BY <2>2, <2>3
<1>3. QED
  BY <1>1, <1>2

\* A helper decides nothing but the attempt that was asked last, and only once:
\* between attempts it has nothing in hand, and one given up on is dead.
LEMMA ServiceDecides ==
  ASSUME IInv, NEW h \in Helper, Verify(h)
  PROVE  Service!Decide
<1>1. Serving(h) /\ hpc[h] = "verify"
  BY DEF Verify, Serving
<1>2. /\ job[h] = attempt /\ attempt # 0
      /\ answer[attempt] = "none" /\ verdict[attempt] = "none"
  BY <1>1 DEF IInv, HelperInv, Shape
<1>3. phase # "ready"
  <2>1. SUFFICES ASSUME main \in {"idle", "reap", "join"}, ~pending
                 PROVE  phase # "ready"
    BY DEF phase, IInv, TypeOK, ParentOK, MainState
  <2>2. CASE main = "idle"
    <3>1. ~Active
      BY <2>1, <2>2 DEF IInv, ThreadInv, Active
    <3>2. hpc[h] = "read"
      BY <1>1, <2>2, <3>1, IdleQuiet DEF IInv
    <3>3. QED
      BY <1>1, <3>2
  <2>3. CASE main \in {"reap", "join"}
    BY <2>3 DEF phase
  <2>4. QED
    BY <2>1, <2>2, <2>3
<1>4. /\ \E v \in {"yes", "no"} : verdict' = [verdict EXCEPT ![attempt] = v]
      /\ UNCHANGED <<phase, attempt, answer>>
  BY <1>2 DEF Verify, parentVars, callVars, phase
<1>5. QED
  BY <1>2, <1>3, <1>4 DEF Service!Decide

\* What else a helper does, its death included, does not show.
LEMMA ServiceBlind ==
  ASSUME NEW h \in Helper, HelperStep(h) \/ HelperDies(h)
  PROVE  UNCHANGED visible
<1>1. UNCHANGED parentVars /\ verdict' = verdict
  BY DEF HelperStep, HelperDies, ReadRequest, ReadEOF, WriteReply, Dies
<1>2. QED
  BY <1>1 DEF parentVars, callVars, phase, visible

\* For any number of helpers and attempts, what start() and poll() let the main
\* thread see is what AuthService promises: one attempt at a time, decided by
\* PAM at most once, answered with that decision or with an error.
THEOREM ServiceKept == Spec => Service!Init /\ [][Service!Next]_(Service!vars)
<1>1. Init => Service!Init
  BY DEF Init, phase, Service!Init, Attempt, Service!Attempt
<1>2. IInv /\ [Next]_vars => [Service!Next]_(Service!vars)
  <2> SUFFICES ASSUME IInv, [Next]_vars
               PROVE  Service!Next \/ UNCHANGED visible
    BY DEF visible, Service!vars
  <2>1. CASE Start \/ StartWithoutHelper
    BY <2>1, ServiceAsks DEF Service!Next
  <2>2. CASE PollResult \/ Restart
    BY <2>2, ServicePolls, ServiceReplaces DEF Service!Next
  <2>3. CASE PollTimeout
    BY <2>3, ServiceGivesUp
  <2>4. CASE Shutdown \/ Crash
    BY <2>4, ServiceStops DEF Service!Next
  <2>5. CASE Reap \/ Wait \/ ShutdownJoin \/ DeadlinePasses \/ WorkerStep
             \/ UNCHANGED vars
    BY <2>5, ServiceHidden
  <2>6. ASSUME NEW h \in Helper, HelperStep(h) \/ Verify(h) \/ HelperDies(h)
        PROVE  Service!Next \/ UNCHANGED visible
    BY <2>6, ServiceDecides, ServiceBlind DEF Service!Next
  <2>7. QED
    BY <2>1, <2>2, <2>3, <2>4, <2>5, <2>6 DEF Next, MainStep
<1>3. QED
  BY <1>1, <1>2, Invariance, PTL DEF Spec
=============================================================================
