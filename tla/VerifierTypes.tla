---------------------------- MODULE VerifierTypes ----------------------------
(* The types of the verifier's state, for every number of helpers and      *)
(* attempts.                                                               *)
EXTENDS VerifierInv, SequenceTheorems, TLAPS

-----------------------------------------------------------------------------
(* Type correctness, one part of the state at a time.                      *)

\* A step that leaves a part of the state alone leaves its type alone.
LEMMA ParentStutters ==
  ASSUME ParentOK,
         UNCHANGED <<main, pid, fds, callVars, attempt, answer>>
  PROVE  ParentOK'
BY DEF ParentOK, callVars

LEMMA WorkerStutters == ASSUME WorkerOK, UNCHANGED workerVars PROVE WorkerOK'
BY DEF WorkerOK, workerVars

LEMMA HelperStutters == ASSUME HelperOK, UNCHANGED helperVars PROVE HelperOK'
BY DEF HelperOK, helperVars

LEMMA PipeStutters == ASSUME PipeOK, UNCHANGED pipeVars PROVE PipeOK'
BY DEF PipeOK, pipeVars

\* The operators that several actions share keep the types of what they write.
LEMMA KillType ==
  ASSUME HelperOK, NEW h, Kill(h), UNCHANGED <<held, copies, job, verdict>>
  PROVE  HelperOK'
BY DEF HelperOK, Kill, HelperState

LEMMA NewbornType ==
  ASSUME HelperOK, NEW h \in Helper, NEW open \in SUBSET (Helper \cup {NoHelper}),
         Newborn(h, open)
  PROVE  HelperOK'
BY DEF HelperOK, Newborn, HelperState

LEMMA DiesType ==
  ASSUME HelperOK, PipeOK, NEW h \in Helper, Dies(h)
  PROVE  HelperOK' /\ PipeOK' /\ UNCHANGED parentVars
BY DEF HelperOK, PipeOK, Dies, pipeVars, HelperState

LEMMA SpawnWorkerType ==
  ASSUME NEW h \in Helper \cup {NoHelper}, SpawnWorker(h)
  PROVE  WorkerOK' /\ chan' \in Result
BY DEF SpawnWorker, WorkerOK, WorkerState, Result

LEMMA FailAtOnceType ==
  ASSUME WorkerOK, FailAtOnce
  PROVE  WorkerOK' /\ chan' \in Result
BY DEF FailAtOnce, WorkerOK, workerVars, Result

LEMMA BeginAttemptType ==
  ASSUME ParentOK, PipeOK, BeginAttempt, chan' \in Result,
         pid' \in Helper \cup {NoHelper}, fds' \in Helper \cup {NoHelper}
  PROVE  ParentOK' /\ PipeOK'
<1>1. attempt' \in Attempt
  BY BoundsAssumption DEF BeginAttempt, ParentOK, Attempt
<1>2. QED
  BY <1>1 DEF BeginAttempt, ParentOK, PipeOK, pipeVars

\* Writing to a pipe and reading from it keep it a sequence of frames.
LEMMA WritingType ==
  ASSUME NEW p \in [Helper -> Seq(Frame)], NEW h, NEW f \in Frame
  PROVE  [p EXCEPT ![h] = Append(@, f)] \in [Helper -> Seq(Frame)]
<1>1. CASE h \in Helper
  <2>1. Append(p[h], f) \in Seq(Frame)
    BY <1>1
  <2>2. QED
    BY <2>1
<1>2. CASE h \notin Helper
  BY <1>2
<1>3. QED
  BY <1>1, <1>2

LEMMA ReadingType ==
  ASSUME NEW p \in [Helper -> Seq(Frame)], NEW h, p[h] # <<>>
  PROVE  [p EXCEPT ![h] = Tail(@)] \in [Helper -> Seq(Frame)]
<1>1. CASE h \in Helper
  <2>1. Tail(p[h]) \in Seq(Frame)
    BY <1>1
  <2>2. QED
    BY <2>1
<1>2. CASE h \notin Helper
  BY <1>2
<1>3. QED
  BY <1>1, <1>2

\* The verifier starts well typed.
LEMMA TypeInit == Init => TypeOK
<1> SUFFICES ASSUME Init PROVE TypeOK
  OBVIOUS
<1> USE DEF Init
<1>1. 1 \in Helper
  BY BoundsAssumption DEF Helper
<1>2. ParentOK
  BY <1>1 DEF ParentOK, MainState, Result
<1>3. WorkerOK
  BY DEF WorkerOK, WorkerState, Result
<1>4. HelperOK
  BY DEF HelperOK, HelperState
<1>5. PipeOK
  BY DEF PipeOK
<1>6. QED
  BY <1>2, <1>3, <1>4, <1>5 DEF TypeOK

\* Every step of every party keeps every type.
LEMMA TypeStep == TypeOK /\ [Next]_vars => TypeOK'
<1> SUFFICES ASSUME ParentOK, WorkerOK, HelperOK, PipeOK, [Next]_vars
             PROVE  ParentOK' /\ WorkerOK' /\ HelperOK' /\ PipeOK'
  BY DEF TypeOK
<1>1. CASE Start
  <2>1. WorkerOK' /\ chan' \in Result
    BY <1>1, SpawnWorkerType, FailAtOnceType DEF Start, ParentOK
  <2>2. QED
    BY <1>1, <2>1, BeginAttemptType, HelperStutters DEF Start, ParentOK
<1>2. CASE StartWithoutHelper
  <2>1. CASE FailAtOnce /\ UNCHANGED <<pid, fds, helperVars>>
    BY <1>2, <2>1, FailAtOnceType, BeginAttemptType, HelperStutters
       DEF StartWithoutHelper, ParentOK
  <2>2. ASSUME NEW h \in Helper, Newborn(h, {fds, dups}), pid' = h, fds' = h,
               SpawnWorker(h) \/ FailAtOnce
        PROVE  ParentOK' /\ WorkerOK' /\ HelperOK' /\ PipeOK'
    <3>1. WorkerOK' /\ chan' \in Result
      BY <2>2, SpawnWorkerType, FailAtOnceType
    <3>2. HelperOK'
      BY <2>2, NewbornType DEF ParentOK, WorkerOK
    <3>3. QED
      BY <1>2, <2>2, <3>1, <3>2, BeginAttemptType DEF StartWithoutHelper
  <2>3. QED
    BY <1>2, <2>1, <2>2 DEF StartWithoutHelper
<1>3. CASE PollResult
  <2>1. ParentOK'
    BY <1>3 DEF PollResult, ParentOK, Result
  <2>2. WorkerOK'
    BY <1>3 DEF PollResult, WorkerOK, WorkerState, Result
  <2>3. QED
    BY <1>3, <2>1, <2>2, HelperStutters, PipeStutters DEF PollResult
<1>4. CASE PollTimeout
  <2>1. ParentOK'
    BY <1>4 DEF PollTimeout, ParentOK, MainState
  <2>2. HelperOK'
    BY <1>4, KillType DEF PollTimeout
  <2>3. QED
    BY <1>4, <2>1, <2>2, WorkerStutters, PipeStutters DEF PollTimeout
<1>5. CASE Reap
  <2>1. ParentOK'
    BY <1>5 DEF Reap, ParentOK, MainState, callVars
  <2>2. WorkerOK'
    BY <1>5 DEF Reap, WorkerOK
  <2>3. QED
    BY <1>5, <2>1, <2>2, HelperStutters, PipeStutters DEF Reap
<1>6. CASE Restart
  <2>1. ParentOK'
    BY <1>6 DEF Restart, ParentOK, MainState, callVars, Result
  <2>2. WorkerOK'
    BY <1>6 DEF Restart, WorkerOK, WorkerState, Result
  <2>3. HelperOK'
    BY <1>6, NewbornType, HelperStutters DEF Restart, WorkerOK
  <2>4. QED
    BY <1>6, <2>1, <2>2, <2>3, PipeStutters DEF Restart
<1>7. CASE Wait
  <2>1. ParentOK'
    BY <1>7 DEF Wait, ParentOK, MainState, callVars
  <2>2. HelperOK'
    <3>1. CASE UNCHANGED hpc
      BY <1>7, <3>1, HelperStutters DEF Wait, helperVars
    <3>2. CASE Kill(pid)
      BY <1>7, <3>2, KillType DEF Wait
    <3>3. QED
      BY <1>7, <3>1, <3>2 DEF Wait
  <2>3. QED
    BY <1>7, <2>1, <2>2, WorkerStutters, PipeStutters DEF Wait
<1>8. CASE ShutdownJoin
  <2>1. ParentOK'
    BY <1>8 DEF ShutdownJoin, ParentOK, MainState, callVars
  <2>2. WorkerOK'
    BY <1>8 DEF ShutdownJoin, WorkerOK, WorkerState, Result
  <2>3. QED
    BY <1>8, <2>1, <2>2, HelperStutters, PipeStutters DEF ShutdownJoin
<1>9. CASE Shutdown
  <2>1. ParentOK'
    BY <1>9 DEF Shutdown, ParentOK, MainState
  <2>2. HelperOK'
    BY <1>9, KillType, HelperStutters DEF Shutdown, helperVars
  <2>3. QED
    BY <1>9, <2>1, <2>2, WorkerStutters, PipeStutters DEF Shutdown
<1>10. CASE Crash
  <2>1. ParentOK'
    BY <1>10 DEF Crash, ParentOK, MainState, Result
  <2>2. WorkerOK'
    BY <1>10 DEF Crash, WorkerOK, WorkerState, Result
  <2>3. QED
    BY <1>10, <2>1, <2>2, HelperStutters, PipeStutters DEF Crash
<1>11. CASE DeadlinePasses
  <2>1. ParentOK'
    BY <1>11 DEF DeadlinePasses, ParentOK
  <2>2. QED
    BY <1>11, <2>1, WorkerStutters, HelperStutters, PipeStutters
       DEF DeadlinePasses
<1>12. CASE WriteHeader \/ WriteBody
  <2>1. /\ UNCHANGED workerFrame
        /\ worker' \in WorkerState /\ outcome' \in Result
    BY <1>12 DEF WriteHeader, WriteBody, WriteFrame, GiveUp, WorkerState,
       Result, WorkerOK
  <2>2. PipeOK'
    <3>1. [kind |-> "header", of |-> attempt] \in Frame
          /\ [kind |-> "body", of |-> attempt] \in Frame
      BY DEF Frame, ParentOK
    <3>2. QED
      <4> DEFINE W(f) == [req EXCEPT ![dups] = Append(@, f)]
      <4>1. \A f \in Frame : W(f) \in [Helper -> Seq(Frame)]
        BY WritingType DEF PipeOK
      <4>2. \/ UNCHANGED pipeVars
            \/ /\ UNCHANGED rep
               /\ \/ req' = W([kind |-> "header", of |-> attempt])
                  \/ req' = W([kind |-> "body", of |-> attempt])
        BY <1>12 DEF WriteHeader, WriteBody, WriteFrame, GiveUp, pipeVars
      <4>3. QED
        BY <3>1, <4>1, <4>2, PipeStutters DEF PipeOK
  <2>3. QED
    BY <2>1, <2>2, ParentStutters, HelperStutters DEF workerFrame, WorkerOK
<1>13. CASE ReadStatus \/ ReadMessage
  <2>1. UNCHANGED workerFrame
    BY <1>13 DEF ReadStatus, ReadMessage, GiveUp
  <2>2. worker' \in WorkerState /\ outcome' \in Result
    BY <1>13 DEF ReadStatus, ReadMessage, GiveUp, WorkerState, Result, WorkerOK
  <2>3. PipeOK'
    <3> DEFINE R == [rep EXCEPT ![dups] = Tail(@)]
    <3>1. rep[dups] # <<>> => R \in [Helper -> Seq(Frame)]
      BY ReadingType DEF PipeOK
    <3>2. \/ UNCHANGED pipeVars
          \/ UNCHANGED req /\ rep[dups] # <<>> /\ rep' = R
      BY <1>13 DEF ReadStatus, ReadMessage, GiveUp, pipeVars
    <3>3. QED
      BY <3>1, <3>2, PipeStutters DEF PipeOK
  <2>4. QED
    BY <2>1, <2>2, <2>3, ParentStutters, HelperStutters
       DEF workerFrame, WorkerOK
<1>14. CASE Report
  <2>1. ParentOK'
    BY <1>14 DEF Report, ParentOK, WorkerOK
  <2>2. WorkerOK'
    BY <1>14 DEF Report, WorkerOK, WorkerState
  <2>3. QED
    BY <1>14, <2>1, <2>2, HelperStutters, PipeStutters DEF Report
<1>15. ASSUME NEW h \in Helper, HelperStep(h) \/ Verify(h) \/ HelperDies(h)
       PROVE  ParentOK' /\ WorkerOK' /\ HelperOK' /\ PipeOK'
  <2>1. CASE Dies(h)
    BY <2>1, DiesType, ParentStutters, WorkerStutters DEF parentVars
  <2>2. CASE ReadRequest(h)
    <3>1. Head(req[h]) \in Frame /\ PipeOK'
      BY <2>2 DEF ReadRequest, PipeOK
    <3>2. HelperOK'
      BY <2>2, <3>1 DEF ReadRequest, HelperOK, HelperState, Frame
    <3>3. QED
      BY <2>2, <3>1, <3>2, ParentStutters, WorkerStutters
         DEF ReadRequest, parentVars
  <2>3. CASE WriteReply(h) /\ ParentEnds(h)
    <3>1. [kind |-> hpc[h], of |-> job[h]] \in Frame
      BY <2>3 DEF WriteReply, HelperOK, Frame
    <3>2. PipeOK'
      <4> DEFINE W(f) == [rep EXCEPT ![h] = Append(@, f)]
      <4>1. \A f \in Frame : W(f) \in [Helper -> Seq(Frame)]
        BY WritingType DEF PipeOK
      <4>2. UNCHANGED req /\ rep' = W([kind |-> hpc[h], of |-> job[h]])
        BY <2>3 DEF WriteReply
      <4>3. QED
        BY <3>1, <4>1, <4>2 DEF PipeOK
    <3>3. HelperOK'
      BY <2>3 DEF WriteReply, HelperOK, HelperState
    <3>4. QED
      BY <2>3, <3>2, <3>3, ParentStutters, WorkerStutters
         DEF WriteReply, parentVars
  <2>4. CASE Verify(h)
    <3>1. HelperOK'
      BY <2>4 DEF Verify, HelperOK, HelperState
    <3>2. QED
      BY <2>4, <3>1, ParentStutters, WorkerStutters, PipeStutters
         DEF Verify, parentVars
  <2>5. QED
    BY <1>15, <2>1, <2>2, <2>3, <2>4
       DEF HelperStep, ReadEOF, WriteReply, HelperDies
<1>16. CASE UNCHANGED vars
  BY <1>16, ParentStutters, WorkerStutters, HelperStutters, PipeStutters
     DEF vars
<1>17. QED
  BY <1>1, <1>2, <1>3, <1>4, <1>5, <1>6, <1>7, <1>8, <1>9, <1>10, <1>11,
     <1>12, <1>13, <1>14, <1>15, <1>16 DEF Next, MainStep, WorkerStep

\* Every variable of the verifier keeps its type, whatever the parties do.
THEOREM TypeCorrect == Spec => []TypeOK
BY TypeInit, TypeStep, PTL DEF Spec
=============================================================================
