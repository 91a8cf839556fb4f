---------------------------- MODULE StartupProofs -----------------------------
(***************************************************************************)
(* What SECURITY.md promises of the lock holds for any settings, command   *)
(* lines and config files.  The invariant says how the locker's knowledge  *)
(* follows the compositor's lock: it lags behind it, and what is done on   *)
(* the strength of it (Enter, the newline, daemon()) stays true, because a *)
(* lock once granted can end but not become one that was never granted.    *)
(***************************************************************************)
EXTENDS Startup, Naturals, TLAPS

Validated == {"verifier", "connect", "bind", "ask", "loop", "end", "failed"}

\* Nothing is locked before the command line has been found valid,
LineValidated ==
  /\ locker = "config" => line.parsable
  /\ locker \in Validated \/ session # "open" => LineIsValid

\* the lock is asked for once, in the loop,
NotYetAsked ==
  locker \in {"parse", "config", "verifier", "connect", "bind", "ask"} =>
    session = "open"

\* and all that is said or done on the strength of it comes after it.
WordIsTrue == \A i \in DOMAIN events : events[i] = "locked" => Granted
AskedInTime == helper = "pam" \/ accepted => Granted
AnsweredOnce == ~(accepted /\ helper = "pam")
TellsTheTruth == heard \/ status = "detached" => Granted
Earned == unlocking => accepted /\ locker \in {"end", "gone"}

LockInv ==
  /\ LineValidated /\ NotYetAsked /\ WordIsTrue /\ AskedInTime /\ AnsweredOnce
  /\ TellsTheTruth /\ Earned

SInv == TypeOK /\ LockInv

-----------------------------------------------------------------------------
(* The configuration.                                                      *)

\* Whatever the file says, Config::from_args() fails exactly when a setting of
\* the command line is invalid.
THEOREM OnlyTheLineIsFatal ==
  \A l \in Line, f \in File :
    Builds(l, Usable(l, f)) <=> \A o \in Options : l.settings[o] # "bad"
<1> SUFFICES ASSUME NEW l \in Line, NEW f \in File
             PROVE  Builds(l, Usable(l, f))
                      <=> \A o \in Options : l.settings[o] # "bad"
  OBVIOUS
<1> USE InputsAssumption DEF Line, Setting, Merged
<1>1. ASSUME Builds(l, Usable(l, f)), NEW o \in Options
      PROVE  l.settings[o] # "bad"
  BY <1>1 DEF Builds
<1>2. ASSUME \A o \in Options : l.settings[o] # "bad"
      PROVE  Builds(l, Usable(l, f))
  <2>1. CASE f.state = "parsable" /\ Builds(l, f)
    BY <2>1 DEF Usable
  <2>2. CASE ~(f.state = "parsable" /\ Builds(l, f))
    <3>1. Usable(l, f) = NoFile
      BY <2>2 DEF Usable
    <3>2. Builds(l, NoFile)
      BY <1>2 DEF Builds, NoFile
    <3>3. QED
      BY <3>1, <3>2
  <2>3. QED
    BY <2>1, <2>2
<1>3. QED
  BY <1>1, <1>2

-----------------------------------------------------------------------------
(* Types.                                                                  *)

LEMMA TypeInit == Init => TypeOK
<1> SUFFICES ASSUME Init PROVE TypeOK
  OBVIOUS
<1> USE DEF Init
<1>1. LockerOK
  BY DEF LockerOK
<1>2. HelperOK
  BY DEF HelperOK, Holder
<1>3. ScreenOK
  BY DEF ScreenOK
<1>4. SeenOK
  BY DEF SeenOK
<1>5. QED
  BY <1>1, <1>2, <1>3, <1>4 DEF TypeOK

LEMMA TypeStep == TypeOK /\ [Next]_vars => TypeOK'
<1> SUFFICES ASSUME TypeOK, [Next]_vars PROVE TypeOK'
  OBVIOUS
<1>1. ASSUME Next PROVE LockerOK'
  <2> USE DEF TypeOK, LockerOK, inputs, loop
  <2>1. CASE Run
    BY <2>1 DEF Run, Parse, Configure, InitAuth, Connect, Bind, Ask, Proceed,
       Refuse, Exit, Fails, Detaches, Usable, NoFile, Line, File
  <2>2. CASE Reply \/ Revoke \/ Dispatch \/ Disconnect \/ Leave
    BY <2>2 DEF Reply, Revoke, compositorFrame, Dispatch, Locked, Finished,
       Detach, Disconnect, Fails, Leave, Proceed
  <2>3. CASE Submit \/ Verdict \/ GiveUp \/ HelperDies
    BY <2>3 DEF Submit, Verdict, GiveUp, HelperDies, attemptFrame
  <2>4. CASE Unlock \/ End \/ Failed \/ Signal \/ Crash
    BY <2>4 DEF Unlock, End, Failed, Exit, Signal, Crash, Refuse
  <2>5. QED
    BY <1>1, <2>1, <2>2, <2>3, <2>4 DEF Next
<1>2. ASSUME Next PROVE HelperOK'
  <2> USE DEF TypeOK, HelperOK, Holder, help
  <2>1. CASE Run
    BY <2>1 DEF Run, Parse, Configure, InitAuth, Connect, Bind, Ask, Proceed,
       Refuse, Exit, Fails, Fork
  <2>2. CASE Reply \/ Revoke \/ Dispatch \/ Disconnect \/ Leave
    BY <2>2 DEF Reply, Revoke, compositorFrame, Dispatch, Locked, Finished,
       Notify, Disconnect, Fails, Leave, Proceed
  <2>3. CASE Submit \/ Verdict \/ GiveUp \/ HelperDies
    BY <2>3 DEF Submit, Verdict, GiveUp, HelperDies, Fork
  <2>4. CASE Unlock \/ End \/ Failed \/ Signal \/ Crash
    BY <2>4 DEF Unlock, End, Failed, Drop, Exit, Signal, Crash, Refuse
  <2>5. QED
    BY <1>2, <2>1, <2>2, <2>3, <2>4 DEF Next
<1>3. ASSUME Next PROVE ScreenOK'
  <2> USE DEF TypeOK, ScreenOK
  <2>1. CASE Run
    BY <2>1 DEF Run, Parse, Configure, InitAuth, Connect, Bind, Ask, Proceed,
       Refuse, Exit, Fails
  <2>2. CASE Reply \/ Revoke
    BY <2>2 DEF Reply, Revoke
  <2>3. CASE Dispatch
    BY <2>3 DEF Dispatch, Locked, Finished
  <2>4. CASE Disconnect \/ Leave
    BY <2>4 DEF Disconnect, Fails, Leave, Proceed
  <2>5. CASE Submit \/ Verdict \/ GiveUp \/ HelperDies
    BY <2>5 DEF Submit, Verdict, GiveUp, HelperDies, attemptFrame
  <2>6. CASE Unlock \/ End \/ Failed \/ Signal \/ Crash
    BY <2>6 DEF Unlock, End, Failed, Exit, Signal, Crash, Refuse
  <2>7. QED
    BY <1>3, <2>1, <2>2, <2>3, <2>4, <2>5, <2>6 DEF Next
<1>4. ASSUME Next PROVE SeenOK'
  <2> USE DEF TypeOK, SeenOK
  <2>1. CASE Run
    BY <2>1 DEF Run, Parse, Configure, InitAuth, Connect, Bind, Ask, Proceed,
       Refuse, Exit, Fails
  <2>2. CASE Reply \/ Revoke \/ Dispatch \/ Disconnect \/ Leave
    BY <2>2 DEF Reply, Revoke, compositorFrame, Dispatch, Locked, Finished,
       Notify, Detach, Disconnect, Fails, Leave, Proceed
  <2>3. CASE Submit \/ Verdict \/ GiveUp \/ HelperDies
    BY <2>3 DEF Submit, Verdict, GiveUp, HelperDies, attemptFrame
  <2>4. CASE Unlock \/ End \/ Failed \/ Signal \/ Crash
    BY <2>4 DEF Unlock, End, Failed, Exit, Signal, Crash, Refuse
  <2>5. QED
    BY <1>4, <2>1, <2>2, <2>3, <2>4 DEF Next
<1>5. CASE Next
  BY <1>1, <1>2, <1>3, <1>4, <1>5 DEF TypeOK
<1>6. CASE UNCHANGED vars
  BY <1>6 DEF TypeOK, LockerOK, HelperOK, Holder, ScreenOK, SeenOK, vars,
     inputs, loop, help
<1>7. QED
  BY <1>5, <1>6

-----------------------------------------------------------------------------
(* The locker's knowledge of the lock.                                     *)

\* It is one command line all along, and a lock once asked for or granted is
\* not one that never was.
LEMMA LineStays == [Next]_vars => line' = line /\ LineIsValid' = LineIsValid
<1> SUFFICES ASSUME [Next]_vars PROVE line' = line
  BY DEF LineIsValid
<1> USE DEF inputs
<1>0. CASE UNCHANGED vars
  BY <1>0 DEF vars
<1>1. CASE Run
  BY <1>1 DEF Run, Parse, Configure, InitAuth, Connect, Bind, Ask, Proceed,
     Refuse, Exit, Fails
<1>2. CASE Reply \/ Revoke \/ Dispatch \/ Disconnect \/ Leave
  BY <1>2 DEF Reply, Revoke, compositorFrame, Dispatch, Locked, Finished,
     Disconnect, Fails, Leave, Proceed
<1>3. CASE Submit \/ Verdict \/ GiveUp \/ HelperDies
  BY <1>3 DEF Submit, Verdict, GiveUp, HelperDies, attemptFrame
<1>4. CASE Unlock \/ End \/ Failed \/ Signal \/ Crash
  BY <1>4 DEF Unlock, End, Failed, Exit, Signal, Crash, Refuse
<1>5. QED
  BY <1>0, <1>1, <1>2, <1>3, <1>4 DEF Next

LEMMA LockStays ==
  ASSUME SInv, [Next]_vars
  PROVE  (session # "open" => session' # "open") /\ (Granted => Granted')
<1> USE DEF Granted
<1>1. CASE Run
  <2>1. session = "open"
    BY <1>1 DEF SInv, LockInv, NotYetAsked, Run, Parse, Configure, InitAuth,
       Connect, Bind, Ask
  <2>2. QED
    BY <2>1
<1>2. CASE Reply \/ Revoke
  BY <1>2 DEF Reply, Revoke
<1>3. CASE Dispatch \/ Disconnect \/ Leave
  BY <1>3 DEF Dispatch, Locked, Finished, Disconnect, Fails, Leave, Proceed
<1>4. CASE Submit \/ Verdict \/ GiveUp \/ HelperDies
  BY <1>4 DEF Submit, Verdict, GiveUp, HelperDies, attemptFrame
<1>5. CASE Unlock \/ End \/ Failed \/ Signal \/ Crash
  BY <1>5 DEF Unlock, End, Failed, Signal, Crash, Refuse
<1>6. CASE UNCHANGED vars
  BY <1>6 DEF vars
<1>7. QED
  BY <1>1, <1>2, <1>3, <1>4, <1>5, <1>6 DEF Next

LEMMA LockInit == Init => LockInv
BY DEF Init, LockInv, LineValidated, NotYetAsked, WordIsTrue, AskedInTime,
   AnsweredOnce, Earned, TellsTheTruth, Validated

\* Only Parse and Configure come from where nothing is validated yet.
LEMMA ValidatedStep == SInv /\ [Next]_vars => LineValidated'
<1> SUFFICES ASSUME SInv, [Next]_vars PROVE LineValidated'
  OBVIOUS
<1>0. line' = line /\ LineIsValid' = LineIsValid /\ LineValidated
  BY LineStays DEF SInv, LockInv
<1> USE DEF LineValidated, Validated
<1>1. CASE Parse
  <2>1. session' = session /\ locker' \in {"config", "gone"}
        /\ (locker' = "config" => line.parsable)
    BY <1>1 DEF Parse, Proceed, Refuse, Exit
  <2>2. QED
    BY <1>0, <2>1
<1>2. CASE Configure
  <2>1. line \in Line /\ file \in File /\ line.parsable
    BY <1>0, <1>2, InputsAssumption DEF SInv, TypeOK, LockerOK, Configure
  <2>2. Builds(line, Usable(line, file)) => LineIsValid
    BY <2>1, OnlyTheLineIsFatal DEF LineIsValid
  <2>3. session' = session /\ locker' \in {"verifier", "gone"}
        /\ (locker' = "verifier" => Builds(line, Usable(line, file)))
    BY <1>2 DEF Configure, Refuse, Exit
  <2>4. QED
    BY <1>0, <2>2, <2>3
<1>3. CASE InitAuth \/ Connect \/ Bind \/ Ask
  <2>1. locker \in Validated /\ locker' # "config"
    BY <1>3 DEF InitAuth, Connect, Bind, Ask, Fails, Proceed, Refuse, Exit
  <2>2. QED
    BY <1>0, <2>1
<1>4. CASE Reply \/ Revoke \/ Dispatch \/ Disconnect \/ Leave
  <2>1. /\ locker' # "config" \/ locker' = locker
        /\ session' = session \/ session # "open"
        /\ locker' = locker \/ locker \in Validated
    BY <1>4 DEF Reply, Revoke, compositorFrame, Dispatch, Locked, Finished,
       Disconnect, Fails, Leave, Proceed
  <2>2. QED
    BY <1>0, <2>1
<1>5. CASE Submit \/ Verdict \/ GiveUp \/ HelperDies
  <2>1. UNCHANGED <<locker, session>>
    BY <1>5 DEF Submit, Verdict, GiveUp, HelperDies, attemptFrame
  <2>2. QED
    BY <1>0, <2>1
<1>6. CASE Unlock \/ End \/ Failed \/ Signal \/ Crash
  <2>1. /\ locker' \in {"end", "gone"} \/ locker' = locker
        /\ session' = session \/ session # "open"
        /\ locker' = "gone" \/ locker' = locker \/ locker \in Validated
    BY <1>6 DEF Unlock, End, Failed, Exit, Signal, Crash, Refuse
  <2>2. QED
    BY <1>0, <2>1
<1>7. CASE UNCHANGED vars
  BY <1>0, <1>7 DEF vars
<1>8. QED
  BY <1>1, <1>2, <1>3, <1>4, <1>5, <1>6, <1>7 DEF Next, Run

LEMMA NotYetAskedStep == SInv /\ [Next]_vars => NotYetAsked'
<1> SUFFICES ASSUME SInv, [Next]_vars PROVE NotYetAsked'
  OBVIOUS
<1> USE DEF NotYetAsked
<1>0. NotYetAsked
  BY DEF SInv, LockInv
<1>1. CASE Run
  <2>1. locker' = "loop" \/ (session' = session /\ session = "open")
    BY <1>0, <1>1 DEF Run, Parse, Configure, InitAuth, Connect, Bind, Ask, Fails,
       Proceed, Refuse
  <2>2. QED
    BY <2>1
<1>2. CASE Reply \/ Revoke
  <2>1. session # "open" /\ locker' = locker
    BY <1>2 DEF Reply, Revoke, compositorFrame
  <2>2. QED
    BY <1>0, <2>1
<1>3. CASE Dispatch \/ Disconnect \/ Leave
  <2>1. (locker' = locker /\ session' = session) \/ locker' \in {"failed", "end"}
    BY <1>3 DEF Dispatch, Locked, Finished, Disconnect, Fails, Leave, Proceed
  <2>2. QED
    BY <1>0, <2>1
<1>4. CASE Submit \/ Verdict \/ GiveUp \/ HelperDies
  BY <1>0, <1>4 DEF Submit, Verdict, GiveUp, HelperDies, attemptFrame
<1>5. CASE Unlock \/ End \/ Failed \/ Signal \/ Crash
  <2>1. (locker' = locker /\ session' = session) \/ locker' \in {"gone", "end"}
    BY <1>5 DEF Unlock, End, Failed, Exit, Signal, Crash, Refuse
  <2>2. QED
    BY <1>0, <2>1
<1>6. CASE UNCHANGED vars
  BY <1>0, <1>6 DEF vars
<1>7. QED
  BY <1>1, <1>2, <1>3, <1>4, <1>5, <1>6 DEF Next

\* Only the compositor's answer adds to the events, and it grants the lock
\* before it says so.
LEMMA WordStep == SInv /\ [Next]_vars => WordIsTrue'
<1> SUFFICES ASSUME SInv, [Next]_vars, NEW i \in DOMAIN events',
                    events'[i] = "locked"
             PROVE  Granted'
  BY DEF WordIsTrue
<1>0. WordIsTrue /\ (Granted => Granted')
      /\ events \in Seq({"locked", "finished"})
  BY LockStays DEF SInv, LockInv, TypeOK, ScreenOK
<1>1. CASE UNCHANGED events
  BY <1>0, <1>1 DEF WordIsTrue
<1>2. CASE Reply
  <2>1. CASE session' = "held"
    BY <2>1 DEF Granted
  <2>2. CASE session' # "held"
    <3>1. events' = Append(events, "finished")
      BY <1>2, <2>2 DEF Reply
    <3>2. i \in DOMAIN events /\ events[i] = "locked"
      BY <1>0, <3>1
    <3>3. QED
      BY <1>0, <3>2 DEF WordIsTrue
  <2>3. QED
    BY <2>1, <2>2
<1>3. CASE Revoke
  BY <1>3 DEF Revoke, Granted
<1>4. CASE Dispatch
  <2>1. events # <<>> /\ events' = Tail(events)
    BY <1>4 DEF Dispatch, Locked, Finished
  <2>2. i + 1 \in DOMAIN events /\ events[i + 1] = "locked"
    BY <1>0, <2>1
  <2>3. QED
    BY <1>0, <2>2 DEF WordIsTrue
<1>5. CASE Run
  BY <1>1, <1>5 DEF Run, Parse, Configure, InitAuth, Connect, Bind, Ask, Fails,
     Proceed, Refuse, Exit
<1>6. CASE Disconnect \/ Leave
  BY <1>1, <1>6 DEF Disconnect, Fails, Leave, Proceed
<1>7. CASE Submit \/ Verdict \/ GiveUp \/ HelperDies
  BY <1>1, <1>7 DEF Submit, Verdict, GiveUp, HelperDies, attemptFrame
<1>8. CASE Unlock \/ End \/ Failed \/ Signal \/ Crash
  BY <1>1, <1>8 DEF Unlock, End, Failed, Exit, Signal, Crash, Refuse
<1>9. CASE UNCHANGED vars
  BY <1>1, <1>9 DEF vars
<1>10. QED
  BY <1>2, <1>3, <1>4, <1>5, <1>6, <1>7, <1>8, <1>9 DEF Next

\* Keys come while the lock is shown, and PAM is asked because of a key.
LEMMA AskedStep == SInv /\ [Next]_vars => AskedInTime'
<1> SUFFICES ASSUME SInv, [Next]_vars PROVE AskedInTime'
  OBVIOUS
<1>0. AskedInTime /\ (Granted => Granted')
  BY LockStays DEF SInv, LockInv
<1>1. SUFFICES Granted \/ (accepted' = accepted
                          /\ (helper' = helper \/ helper' # "pam"))
  BY <1>0 DEF AskedInTime
<1> USE DEF loop, help
<1>2. CASE Run
  BY <1>2 DEF Run, Parse, Configure, InitAuth, Connect, Bind, Ask, Fails,
     Proceed, Refuse, Exit
<1>3. CASE Reply \/ Revoke \/ Dispatch \/ Disconnect \/ Leave
  BY <1>3 DEF Reply, Revoke, compositorFrame, Dispatch, Locked, Finished,
     Disconnect, Fails, Leave, Proceed
<1>4. CASE Submit
  BY <1>4 DEF Submit, Shown
<1>5. CASE Verdict
  BY <1>0, <1>5 DEF Verdict, AskedInTime
<1>6. CASE GiveUp \/ HelperDies
  BY <1>6 DEF GiveUp, HelperDies
<1>7. CASE Unlock \/ End \/ Failed \/ Signal \/ Crash
  BY <1>7 DEF Unlock, End, Failed, Drop, Exit, Signal, Crash, Refuse
<1>8. CASE UNCHANGED vars
  BY <1>8 DEF vars
<1>9. QED
  BY <1>2, <1>3, <1>4, <1>5, <1>6, <1>7, <1>8 DEF Next

\* Enter does nothing after a success.
LEMMA AnsweredStep == SInv /\ [Next]_vars => AnsweredOnce'
<1> SUFFICES ASSUME SInv, [Next]_vars PROVE AnsweredOnce'
  OBVIOUS
<1>0. AnsweredOnce
  BY DEF SInv, LockInv
<1> USE DEF AnsweredOnce, loop, help
<1>1. CASE Run
  BY <1>0, <1>1 DEF Run, Parse, Configure, InitAuth, Connect, Bind, Ask, Fails,
     Proceed, Refuse, Exit
<1>2. CASE Reply \/ Revoke \/ Dispatch \/ Disconnect \/ Leave
  BY <1>0, <1>2 DEF Reply, Revoke, compositorFrame, Dispatch, Locked, Finished,
     Disconnect, Fails, Leave, Proceed
<1>3. CASE Submit
  BY <1>3 DEF Submit
<1>4. CASE Verdict \/ GiveUp \/ HelperDies
  BY <1>4 DEF Verdict, GiveUp, HelperDies
<1>5. CASE Unlock \/ End \/ Failed \/ Signal \/ Crash
  BY <1>0, <1>5 DEF Unlock, End, Failed, Drop, Exit, Signal, Crash, Refuse
<1>6. CASE UNCHANGED vars
  BY <1>0, <1>6 DEF vars
<1>7. QED
  BY <1>1, <1>2, <1>3, <1>4, <1>5, <1>6 DEF Next

\* The newline is written and daemon() called on the event Locked only.
LEMMA TellsStep == SInv /\ [Next]_vars => TellsTheTruth'
<1> SUFFICES ASSUME SInv, [Next]_vars PROVE TellsTheTruth'
  OBVIOUS
<1>0. TellsTheTruth /\ (Granted => Granted')
  BY LockStays DEF SInv, LockInv
<1>1. SUFFICES Granted \/ (heard' = heard
                          /\ (status' = status \/ status' # "detached"))
  BY <1>0 DEF TellsTheTruth
<1> USE DEF loop
<1>2. CASE Run
  BY <1>2 DEF Run, Parse, Configure, InitAuth, Connect, Bind, Ask, Fails,
     Proceed, Refuse, Exit
<1>3. CASE Locked
  <2>1. events \in Seq({"locked", "finished"}) /\ WordIsTrue
    BY DEF SInv, TypeOK, ScreenOK, LockInv
  <2>2. 1 \in DOMAIN events /\ events[1] = "locked"
    BY <1>3, <2>1 DEF Locked
  <2>3. QED
    BY <2>1, <2>2 DEF WordIsTrue
<1>4. CASE Reply \/ Revoke \/ Finished \/ Disconnect \/ Leave
  BY <1>4 DEF Reply, Revoke, compositorFrame, Finished, Disconnect, Fails,
     Leave, Proceed
<1>5. CASE Submit \/ Verdict \/ GiveUp \/ HelperDies
  BY <1>5 DEF Submit, Verdict, GiveUp, HelperDies, attemptFrame
<1>6. CASE Unlock \/ End \/ Failed \/ Signal \/ Crash
  BY <1>6 DEF Unlock, End, Failed, Exit, Signal, Crash, Refuse
<1>7. CASE UNCHANGED vars
  BY <1>7 DEF vars
<1>8. QED
  BY <1>2, <1>3, <1>4, <1>5, <1>6, <1>7 DEF Next, Dispatch

\* unlock_on_exit follows a success, in the loop's last iteration.
LEMMA EarnedStep == SInv /\ [Next]_vars => Earned'
<1> SUFFICES ASSUME SInv, [Next]_vars PROVE Earned'
  OBVIOUS
<1> USE DEF Earned, loop
<1>0. Earned
  BY DEF SInv, LockInv
<1>1. CASE Run
  BY <1>0, <1>1 DEF Run, Parse, Configure, InitAuth, Connect, Bind, Ask, Fails,
     Proceed, Refuse, Exit
<1>2. CASE Reply \/ Revoke \/ Dispatch \/ Disconnect \/ Leave
  BY <1>0, <1>2 DEF Reply, Revoke, compositorFrame, Dispatch, Locked, Finished,
     Disconnect, Fails, Leave, Proceed
<1>3. CASE Verdict
  BY <1>0, <1>3 DEF Verdict, attemptFrame
<1>4. CASE Submit \/ GiveUp \/ HelperDies
  BY <1>0, <1>4 DEF Submit, GiveUp, HelperDies, attemptFrame
<1>5. CASE Unlock \/ End \/ Failed \/ Signal \/ Crash
  BY <1>0, <1>5 DEF Unlock, ShouldUnlock, End, Failed, Exit, Signal, Crash, Refuse
<1>6. CASE UNCHANGED vars
  BY <1>0, <1>6 DEF vars
<1>7. QED
  BY <1>1, <1>2, <1>3, <1>4, <1>5, <1>6 DEF Next

\* Newline, detached process, attempt and unlock never run ahead of the lock.
THEOREM StartupInvariance == Spec => []SInv
<1>1. Init => SInv
  BY TypeInit, LockInit DEF SInv
<1>2. SInv /\ [Next]_vars => SInv'
  BY TypeStep, ValidatedStep, NotYetAskedStep, WordStep, AskedStep, AnsweredStep,
     TellsStep, EarnedStep DEF SInv, LockInv
<1>3. QED
  BY <1>1, <1>2, PTL DEF Spec

-----------------------------------------------------------------------------
(* The lock as seen from outside.                                          *)

held == IF ~Granted THEN "no" ELSE IF session = "held" THEN "yes" ELSE session
told == heard \/ status = "detached"
seen == <<LineIsValid, held, accepted, told>>

\* The start, the loop's coming and going and the helper's fate do not show.
LEMMA LockHidden ==
  ASSUME SInv, [Next]_vars,
         Run \/ Disconnect \/ Leave \/ Finished \/ GiveUp \/ HelperDies
         \/ Submit \/ Unlock \/ Failed \/ Signal \/ Crash \/ UNCHANGED vars
  PROVE  UNCHANGED seen
<1>0. UNCHANGED LineIsValid
  BY LineStays
<1>1. Granted' = Granted /\ (session' = session \/ ~Granted)
  <2>0. CASE UNCHANGED vars
    BY <2>0 DEF vars, Granted
  <2>1. CASE Run
    BY <2>1 DEF Run, Parse, Configure, InitAuth, Connect, Bind, Ask, Proceed,
       Refuse, Fails, SInv, LockInv, NotYetAsked, Granted
  <2>2. CASE Disconnect \/ Leave \/ Finished
    BY <2>2 DEF Disconnect, Fails, Leave, Proceed, Finished, Granted
  <2>3. CASE GiveUp \/ HelperDies \/ Submit
    BY <2>3 DEF GiveUp, HelperDies, Submit, attemptFrame, Granted
  <2>4. CASE Unlock \/ Failed \/ Signal \/ Crash
    BY <2>4 DEF Unlock, Failed, Signal, Crash, Refuse, Granted
  <2>5. QED
    BY <2>0, <2>1, <2>2, <2>3, <2>4
<1>2. UNCHANGED <<heard, accepted>>
      /\ (status' = "detached" <=> status = "detached")
  <2> USE DEF loop
  <2>0. CASE UNCHANGED vars
    BY <2>0 DEF vars
  <2>1. CASE Run
    BY <2>1 DEF Run, Parse, Configure, InitAuth, Connect, Bind, Ask, Proceed,
       Refuse, Exit, Fails
  <2>2. CASE Disconnect \/ Leave \/ Finished
    BY <2>2 DEF Disconnect, Fails, Leave, Proceed, Finished
  <2>3. CASE GiveUp \/ HelperDies \/ Submit
    BY <2>3 DEF GiveUp, HelperDies, Submit, attemptFrame
  <2>4. CASE Unlock \/ Failed \/ Signal \/ Crash
    BY <2>4 DEF Unlock, Failed, Signal, Crash, Refuse, Exit
  <2>5. QED
    BY <2>0, <2>1, <2>2, <2>3, <2>4
<1>3. UNCHANGED <<held, told>>
  BY <1>1, <1>2 DEF held, told
<1>4. QED
  BY <1>0, <1>2, <1>3 DEF seen

\* The compositor's own steps are the grant and the revocation.
LEMMA LockAnswered ==
  ASSUME SInv, [Next]_vars, Reply \/ Revoke
  PROVE  Lock!Grant \/ Lock!Revoke \/ UNCHANGED seen
<1>0. UNCHANGED <<LineIsValid, accepted, told>>
  BY LineStays DEF Reply, Revoke, compositorFrame, loop, told
<1>1. CASE Reply
  <2>1. LineIsValid /\ session = "asked"
    BY <1>1 DEF Reply, SInv, LockInv, LineValidated
  <2>2. CASE session' = "held"
    BY <1>0, <2>1, <2>2 DEF Lock!Grant, Granted, told
  <2>3. CASE session' = "refused"
    BY <1>0, <2>1, <2>3 DEF seen, held, Granted
  <2>4. QED
    BY <1>1, <2>2, <2>3 DEF Reply
<1>2. CASE Revoke
  BY <1>0, <1>2 DEF Revoke, Lock!Revoke, Granted, told
<1>3. QED
  BY <1>1, <1>2

\* The newline and daemon() tell of a lock that is held, or was a moment ago.
LEMMA LockTold ==
  ASSUME SInv, [Next]_vars, Locked
  PROVE  Lock!Tell \/ UNCHANGED seen
<1>0. UNCHANGED LineIsValid
  BY LineStays
<1>1. Granted
  <2>1. events \in Seq({"locked", "finished"}) /\ WordIsTrue
    BY DEF SInv, TypeOK, ScreenOK, LockInv
  <2>2. 1 \in DOMAIN events /\ events[1] = "locked"
    BY <2>1 DEF Locked
  <2>3. QED
    BY <2>1, <2>2 DEF WordIsTrue
<1>2. UNCHANGED <<session, accepted>>
  BY DEF Locked
<1>3. UNCHANGED <<Granted, held>>
  BY <1>2 DEF held, Granted
<1>4. heard \in BOOLEAN /\ heard' \in BOOLEAN
  BY TypeStep DEF SInv, TypeOK, SeenOK
<1>5. (heard => heard') /\ (status = "detached" => status' = "detached")
  <2>1. heard' = (heard \/ "locker" \in ready) \/ heard' = heard
    BY Zenon DEF Locked, Notify
  <2>2. heard => heard'
    BY <1>4, <2>1
  <2>3. status = "detached" => status' = "detached"
    BY DEF Locked, Detach
  <2>4. QED
    BY <2>2, <2>3
<1>6. CASE told'
  BY <1>0, <1>1, <1>2, <1>3, <1>6 DEF Lock!Tell, told, held, Granted
<1>7. CASE ~told'
  <2>1. told' = told
    BY <1>4, <1>5, <1>7 DEF told
  <2>2. QED
    BY <1>0, <1>2, <1>3, <2>1 DEF seen
<1>8. QED
  BY <1>6, <1>7

\* PAM is only ever asked while the screen is locked.
LEMMA LockAccepts ==
  ASSUME SInv, [Next]_vars, Verdict
  PROVE  Lock!Accept \/ UNCHANGED seen
<1>0. UNCHANGED LineIsValid
  BY LineStays
<1>1. Granted /\ UNCHANGED <<session, heard, status>>
  BY DEF Verdict, attemptFrame, SInv, LockInv, AskedInTime
<1>2. UNCHANGED <<held, told>>
  BY <1>1 DEF held, told, Granted
<1>3. accepted \in BOOLEAN /\ accepted' \in BOOLEAN
  BY TypeStep DEF SInv, TypeOK, LockerOK
<1>4. CASE accepted'
  BY <1>0, <1>1, <1>2, <1>3, <1>4 DEF Lock!Accept, held, told, Granted
<1>5. CASE ~accepted'
  <2>1. ~accepted
    BY DEF Verdict, SInv, LockInv, AnsweredOnce
  <2>2. QED
    BY <1>0, <1>2, <1>3, <1>5, <2>1 DEF seen
<1>6. QED
  BY <1>4, <1>5

\* At the end the lock is released, after a success, or left as it is.
LEMMA LockEnds ==
  ASSUME SInv, [Next]_vars, End
  PROVE  Lock!Release \/ UNCHANGED seen
<1>0. UNCHANGED LineIsValid
  BY LineStays
<1>1. UNCHANGED <<accepted, heard>>
      /\ (status' = "detached" <=> status = "detached")
  BY DEF End, Exit, loop
<1>2. UNCHANGED told
  BY <1>1 DEF told
<1>3. CASE UNCHANGED session
  BY <1>0, <1>1, <1>2, <1>3 DEF seen, held, Granted
<1>4. CASE session' # session
  <2>1. session = "held" /\ session' = "released" /\ accepted
    BY <1>4 DEF End, SInv, LockInv, Earned
  <2>2. QED
    BY <1>0, <1>1, <1>2, <2>1 DEF Lock!Release, Granted, told
<1>5. QED
  BY <1>3, <1>4

\* For any settings, command lines and config files: a refused command line
\* locks nothing, nobody is told of a lock that was not granted, and only PAM's
\* yes makes the locker release it.
THEOREM LockKept == Spec => ImplementsLock
<1>1. Init => Lock!Init
  BY DEF Init, Lock!Init, Granted, LineIsValid
<1>2. SInv /\ [Next]_vars => [Lock!Next]_(Lock!vars)
  <2> SUFFICES ASSUME SInv, [Next]_vars PROVE Lock!Next \/ UNCHANGED seen
    BY DEF seen, held, told, Lock!vars
  <2>1. CASE Reply \/ Revoke
    BY <2>1, LockAnswered DEF Lock!Next
  <2>2. CASE Locked
    BY <2>2, LockTold DEF Lock!Next
  <2>3. CASE Verdict
    BY <2>3, LockAccepts DEF Lock!Next
  <2>4. CASE End
    BY <2>4, LockEnds DEF Lock!Next
  <2>5. QED
    BY <2>1, <2>2, <2>3, <2>4, LockHidden DEF Next, Dispatch
<1>3. QED
  BY <1>1, <1>2, StartupInvariance, PTL DEF Spec, ImplementsLock, Lock!Spec
=============================================================================
