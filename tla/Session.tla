------------------------------ MODULE Session -------------------------------
(***************************************************************************)
(* The locker's main thread (app.rs, and the event loop of wayland.rs):    *)
(* keys, the authentication state machine, its timers, and when the        *)
(* session is unlocked.  The verifier is what AuthService promises, and    *)
(* one output stands for the screen.                                       *)
(*                                                                         *)
(* Time passes at every step, also while the loop is between two looks at  *)
(* the clock.  An Instant in the past is its age, which stops growing at   *)
(* the duration the code compares it with; a deadline is the time left.    *)
(***************************************************************************)
EXTENDS Naturals, Sequences

CONSTANTS
  None,             \* no value
  MaxAttempt,       \* how many attempts may be started (a bound)
  MaxTyped,         \* how many characters a password buffer takes
  MaxOwed,          \* how many frame callbacks may be outstanding (a bound)
  VerifyEnvelope, CompleteFade, KeystrokeSettle, Frame,   \* the indicator
  MessageTtl, IdleHide,             \* when a message and it disappear
  FailClear, IdleClear,             \* when a failure and a password do
  RepeatDelay, RepeatInterval       \* key repeat

ASSUME SessionAssumption ==
  /\ None \notin Nat
  /\ MaxAttempt \in Nat /\ MaxTyped \in Nat /\ MaxOwed \in Nat \ {0}
  /\ \A d \in {VerifyEnvelope, CompleteFade, KeystrokeSettle, Frame,
               MessageTtl, IdleHide, FailClear, IdleClear} : d \in Nat \ {0}
  /\ RepeatDelay \in Nat /\ RepeatInterval \in Nat

VARIABLES
  app,                            \* the App
  clear, wipe, repeat,            \* auth_clear_at, password_clear_at, repeat_next
  messageWasLive, indicatorWasVisible,
  screen,                         \* the output's surface and what it shows
  pc, wake,                       \* the event loop and its poll() timeout
  running, unlockOnExit, shutdown,
  session,                        \* the session lock
  phase, attempt, verdict, answer \* the verifier

Service == INSTANCE AuthService

timerVars   == <<clear, wipe, repeat>>
edgeVars    == <<messageWasLive, indicatorWasVisible>>
exitVars    == <<running, unlockOnExit, shutdown, session>>
serviceVars == <<phase, attempt, verdict, answer>>
vars == <<app, timerVars, edgeVars, screen, pc, wake, exitVars, serviceVars>>

Maybe(S) == S \cup {None}
Busy     == {"Verifying", "Success", "Invalid"}

App == [auth : {"Idle", "Typing"} \cup Busy,
        typed : Maybe(0 .. MaxTyped),              \* characters, if a buffer
        strokes : Seq(0 .. KeystrokeSettle),       \* ages, oldest first
        started : Maybe(0 .. VerifyEnvelope),
        done : Maybe(0 .. CompleteFade),
        message : Maybe(0 .. MessageTtl),
        touched : Maybe(0 .. IdleHide)]            \* last_interaction

Screen == [surface : {"none", "ready", "pending"},  \* pending: frame_pending
           queued : BOOLEAN,                        \* present_queued
           requested : Nat,              \* frame callbacks not yet flushed,
           owed : Nat,                   \* and those the compositor owes
           indicator : BOOLEAN, message : BOOLEAN,  \* what it shows
           failed : BOOLEAN]                  \* its last draw (the code keeps
                                              \* no note of it)

TypeOK ==
  /\ app \in App /\ screen \in Screen
  /\ clear \in Maybe(0 .. FailClear)
  /\ wipe \in Maybe(0 .. IdleClear)
  /\ repeat \in Maybe(Nat)
  /\ messageWasLive \in BOOLEAN /\ indicatorWasVisible \in BOOLEAN
  /\ pc \in {"before", "timed", "asleep", "after", "ended"} /\ wake \in Maybe(Nat)
  /\ running \in BOOLEAN /\ unlockOnExit \in BOOLEAN /\ shutdown \in BOOLEAN
  /\ session \in {"asked", "locked", "unlocked"}
  /\ phase \in {"ready", "asked", "down"}
  /\ attempt \in 0 .. MaxAttempt
  /\ verdict \in [1 .. MaxAttempt -> {"none", "yes", "no"}]
  /\ answer \in [1 .. MaxAttempt -> {"none", "yes", "no", "error"}]

-----------------------------------------------------------------------------
(* What the App derives from its clock readings.                           *)

Within(age, d) == age # None /\ age < d
Over(age, d)   == age # None /\ age >= d

\* auth_settled(): the attempt's animation has fully played out.
Settled(a) == Over(a.started, VerifyEnvelope) /\ Over(a.done, CompleteFade)

\* Mutant: the indicator is done when the verifier has answered.
ActiveUntilAnswered(a) ==
  \/ a.started # None /\ a.done = None
  \/ a.strokes # <<>> /\ a.strokes[Len(a.strokes)] < KeystrokeSettle

\* indicator_active(): there is still animation to draw.
Active(a) ==
  \/ a.started # None /\ a.done = None
  \/ Within(a.started, VerifyEnvelope)
  \/ a.started # None /\ Within(a.done, CompleteFade)
  \/ a.strokes # <<>> /\ a.strokes[Len(a.strokes)] < KeystrokeSettle

MessageLive(a) == Within(a.message, MessageTtl)

Visible(a) ==
  a.auth # "Idle" \/ MessageLive(a) \/ Within(a.touched, IdleHide)

-----------------------------------------------------------------------------
(* The App's operations, as sets of outcomes.                              *)

Fail(a) == [a EXCEPT !.auth = "Invalid"]

Cleared(a) == [a EXCEPT !.auth = "Idle", !.strokes = <<>>,
                        !.started = None, !.done = None]

\* The password goes to the verifier, unless no locked memory can be had for
\* its copy: then the attempt has failed, and has never started.
ProcessAuth(a) ==
  IF a.typed = 0 THEN {a}
  ELSE LET taken == [a EXCEPT !.typed = None]
       IN  {[taken EXCEPT !.auth = "Verifying", !.started = 0, !.done = None],
            Fail(taken)}

\* Mutant: the keystroke of a deleted character stays.
ErasedKeepsStroke(a) ==
  IF a.typed = 0 THEN [a EXCEPT !.auth = "Idle"]
  ELSE [a EXCEPT !.typed = @ - 1,
                 !.auth = IF a.typed = 1 THEN "Idle" ELSE "Typing"]

Erased(a) ==
  IF a.typed = 0 THEN [a EXCEPT !.auth = "Idle"]
  ELSE [a EXCEPT !.typed = @ - 1,
                 !.strokes = SubSeq(@, 1, Len(@) - 1),
                 !.auth = IF a.typed = 1 THEN "Idle" ELSE "Typing"]

Typed(a) ==
  IF a.typed = MaxTyped THEN a
  ELSE [a EXCEPT !.typed = @ + 1, !.strokes = Append(@, 0), !.auth = "Typing"]

Key == {"enter", "escape", "backspace", "ctrlU", "ctrlC", "char", "control"}

KeyEffect(a, k) ==
  CASE k = "enter"               -> ProcessAuth(a)
    [] k \in {"escape", "ctrlU"} -> {[Cleared(a) EXCEPT !.typed = 0]}
    [] k = "backspace"           -> {Erased(a)}
    [] k = "char"                -> {Typed(a)}
    [] OTHER                     -> {a}

\* Mutant: keys are handled while an attempt is being verified.
HandleKeyAlways(a, k) ==
  IF a.auth \in {"Success", "Invalid"} THEN {a}
  ELSE KeyEffect([a EXCEPT !.touched = 0,
                           !.typed = IF @ = None THEN 0 ELSE @], k)

\* A key needs a password buffer; without memory for one it is dropped.
HandleKey(a, k) ==
  IF a.auth \in Busy THEN {a}
  ELSE LET noted == [a EXCEPT !.touched = 0]
       IN  IF a.typed = None
           THEN {noted} \cup KeyEffect([noted EXCEPT !.typed = 0], k)
           ELSE KeyEffect(noted, k)

\* update_auth() with the verifier's result: PAM may explain a refusal.
Answered(a, result) ==
  LET noted == [a EXCEPT !.done = 0, !.touched = 0, !.message = None]
  IN  CASE result = "yes"   -> {[noted EXCEPT !.auth = "Success"]}
        [] result = "no"    -> {Fail(noted), Fail([noted EXCEPT !.message = 0])}
        [] result = "error" -> {Fail(noted)}

\* draw(): nothing without a configured surface, later while its frame is
\* pending.  A frame with no indicator to show or erase is committed only if
\* its pixels changed (a buffer's first use, an animation).  Without a buffer,
\* or if rendering fails, nothing is committed and no callback requested.
Draw(s, a) ==
  LET frame == [s EXCEPT !.surface = "pending", !.requested = @ + 1,
                         !.indicator = Visible(a), !.message = MessageLive(a),
                         !.failed = FALSE]
      undrawn == [s EXCEPT !.failed = TRUE]
      same    == [s EXCEPT !.failed = FALSE]
  IN  CASE s.surface = "none"    -> {s}
        [] s.surface = "pending" -> {[s EXCEPT !.queued = TRUE]}
        [] s.surface = "ready"   ->
             {frame, undrawn}
               \cup IF Visible(a) \/ s.indicator THEN {} ELSE {same}

-----------------------------------------------------------------------------
(* Time.                                                                   *)

Older(age, d) == IF Within(age, d) THEN age + 1 ELSE age
Sooner(left)  == IF left \in {None, 0} THEN left ELSE left - 1

Aged(a) == [a EXCEPT
  !.strokes = [i \in DOMAIN @ |-> Older(@[i], KeystrokeSettle)],
  !.started = Older(@, VerifyEnvelope), !.done = Older(@, CompleteFade),
  !.message = Older(@, MessageTtl), !.touched = Older(@, IdleHide)]

TimePasses ==
  /\ pc # "ended"
  /\ app' = Aged(app)
  /\ clear' = Sooner(clear) /\ wipe' = Sooner(wipe)
  /\ repeat' = Sooner(repeat)
  /\ wake' = IF pc = "asleep" THEN Sooner(wake) ELSE wake
  /\ UNCHANGED <<edgeVars, screen, pc, exitVars, serviceVars>>

-----------------------------------------------------------------------------
(* The event loop: "before" it computes its timeout, "timed" until it is   *)
(* in poll(), "asleep" there, and dispatching "after" it.                  *)

Init ==
  /\ app = [auth |-> "Idle", typed |-> None, strokes |-> <<>>,
            started |-> None, done |-> None, message |-> None,
            touched |-> None]
  /\ clear = None /\ wipe = None /\ repeat = None
  /\ messageWasLive = FALSE /\ indicatorWasVisible = FALSE
  /\ screen = [surface |-> "none", queued |-> FALSE, requested |-> 0, owed |-> 0,
               indicator |-> FALSE, message |-> FALSE, failed |-> FALSE]
  /\ pc = "before" /\ wake = None
  /\ running = TRUE /\ unlockOnExit = FALSE /\ shutdown = FALSE
  /\ session = "asked"
  /\ Service!Init

\* Mutant: the indicator's frames are left to the frame callbacks.
TimersWithoutIndicator ==
  {t \in {clear, wipe, repeat} : t # None}
    \cup (IF MessageLive(app) THEN {MessageTtl - app.message} ELSE {})

\* Mutant: the failure's deadline does not wake the loop.
TimersWithoutClear ==
  {t \in {wipe, repeat} : t # None}
    \cup (IF Active(app) THEN {Frame} ELSE {})
    \cup (IF MessageLive(app) THEN {MessageTtl - app.message} ELSE {})

\* When next_timer_ms() would wake the loop: deadlines not yet served, except
\* that those the App computes are left out once they have passed.
Timers ==
  {t \in {clear, wipe, repeat} : t # None}
    \cup (IF Active(app) THEN {Frame} ELSE {})
    \cup (IF MessageLive(app) THEN {MessageTtl - app.message} ELSE {})
    \cup (IF app.auth = "Idle" /\ Within(app.touched, IdleHide)
          THEN {IdleHide - app.touched} ELSE {})

Soonest(T) == {t \in T : \A u \in T : t <= u}

\* Requests are flushed and the timeout is computed ...
Plan ==
  /\ pc = "before" /\ running /\ ~shutdown
  /\ pc' = "timed"
  /\ wake' \in IF Timers = {} THEN {None} ELSE Soonest(Timers)
  /\ screen' = [screen EXCEPT !.owed = @ + screen.requested, !.requested = 0]
  /\ UNCHANGED <<app, timerVars, edgeVars, exitVars, serviceVars>>

\* ... and poll() is called with it.
Sleep ==
  /\ pc = "timed" /\ pc' = "asleep"
  /\ UNCHANGED <<app, timerVars, edgeVars, screen, wake, exitVars, serviceVars>>

\* poll() timed out.
TimeOut ==
  /\ pc = "asleep" /\ wake = 0
  /\ pc' = "after"
  /\ UNCHANGED <<app, timerVars, edgeVars, screen, wake, exitVars, serviceVars>>

\* Dispatching an event: the first one ends the poll().
Dispatch ==
  /\ pc \in {"asleep", "after"} /\ pc' = "after"
  /\ UNCHANGED <<wake, unlockOnExit>>

\* Mutant: any settled attempt ends the loop with an unlock.
UnlocksSettled(a) == Settled(a)

\* should_unlock().
Unlocks(a) == Settled(a) /\ a.auth = "Success"

\* Mutant: a failure that has not been shown yet is cleared as well.
ArmClearEarly(a, timer) ==
  IF a.auth = "Invalid" /\ timer = None THEN FailClear ELSE timer

ArmClear(a, timer) ==
  IF Settled(a) /\ a.auth = "Invalid" /\ timer = None THEN FailClear ELSE timer

\* The end of tick_timers(): the attempt's result, what has just disappeared
\* from the screen, and one draw for everything that happened.
Conclude(a, timer, changed) ==
  /\ app' = a
  /\ \/ /\ Unlocks(a)
        /\ running' = FALSE /\ unlockOnExit' = TRUE /\ clear' = timer
        /\ UNCHANGED <<edgeVars, screen>>
     \/ /\ ~Unlocks(a)
        /\ clear' = ArmClear(a, timer)
        /\ messageWasLive' = MessageLive(a)
        /\ indicatorWasVisible' = Visible(a)
        /\ IF \/ changed \/ Active(a)
              \/ messageWasLive /\ ~MessageLive(a)
              \/ indicatorWasVisible /\ ~Visible(a)
           THEN screen' \in Draw(screen, a) ELSE UNCHANGED screen
        /\ UNCHANGED <<running, unlockOnExit>>

\* A failure has been up long enough; the idle password is wiped by an Escape.
Expire(a, idle, keyed) ==
  LET cleared == IF clear = 0 THEN Cleared(a) ELSE a
      timer   == IF clear = 0 THEN None ELSE clear
  IN  \/ /\ idle = 0 /\ wipe' = None
         /\ \E b \in HandleKey(cleared, "escape") : Conclude(b, timer, TRUE)
      \/ /\ idle # 0 /\ wipe' = idle
         /\ Conclude(cleared, timer, keyed \/ clear = 0)

\* tick_timers(), from key repeat on.  The keymap may have changed since the
\* key went down, a rate of zero stops it, and a late loop has to catch up.
ServeTimers(a) ==
  \/ repeat # 0 /\ repeat' = repeat /\ Expire(a, wipe, FALSE)
  \/ /\ repeat = 0 /\ repeat' \in Maybe(0 .. RepeatInterval)
     /\ \/ Expire(a, wipe, FALSE)
        \/ \E k \in Key : \E b \in HandleKey(a, k) : Expire(b, IdleClear, TRUE)

\* A key that submitted the password has called the verifier's start().
Submit ==
  IF app.auth # "Verifying" /\ app'.auth = "Verifying"
  THEN Service!Ask ELSE UNCHANGED serviceVars

\* tick_timers() when the verifier's poll() has a result ...
TickAnswered ==
  /\ pc = "after" /\ ~shutdown /\ pc' = "before"
  /\ Service!Answer
  /\ \E a \in Answered(app, answer'[attempt]) : ServeTimers(a)
  /\ UNCHANGED <<wake, shutdown, session>>

\* ... and when it has none.
Tick ==
  /\ pc = "after" /\ ~shutdown /\ pc' = "before"
  /\ ServeTimers(app)
  /\ Submit
  /\ UNCHANGED <<wake, shutdown, session>>

-----------------------------------------------------------------------------
(* Events of the compositor, which gives the keyboard to a lock surface.   *)

Locked ==
  /\ Dispatch /\ session = "asked" /\ session' = "locked"
  /\ running' \in {running, FALSE}        \* FALSE without a wl_compositor
  /\ UNCHANGED <<app, timerVars, edgeVars, screen, shutdown, serviceVars>>

Finished ==
  /\ Dispatch /\ running' = FALSE
  /\ UNCHANGED <<app, timerVars, edgeVars, screen, shutdown, session,
                 serviceVars>>

Configure ==
  /\ Dispatch /\ session = "locked"
  /\ screen.owed + screen.requested < MaxOwed
  /\ screen' \in Draw([screen EXCEPT !.surface = "ready", !.indicator = FALSE],
                      app)
  /\ UNCHANGED <<app, timerVars, edgeVars, running, shutdown, session,
                 serviceVars>>

FrameDone ==
  /\ Dispatch /\ screen.owed > 0
  /\ LET ready == [screen EXCEPT !.surface = "ready", !.queued = FALSE,
                                 !.owed = @ - 1]
     IN  screen' \in IF screen.queued THEN Draw(ready, app) ELSE {ready}
  /\ UNCHANGED <<app, timerVars, edgeVars, running, shutdown, session,
                 serviceVars>>

\* Modifiers, or an animation frame that is due.
Redraw ==
  /\ Dispatch /\ screen' \in Draw(screen, app)
  /\ UNCHANGED <<app, timerVars, edgeVars, running, shutdown, session,
                 serviceVars>>

\* Mutant: a key does not restart the idle timer if one is running.
OnKeyPressOnce(k) ==
  /\ repeat' \in IF k \in {"enter", "escape", "ctrlC"} THEN {None}
                 ELSE {None, RepeatDelay}
  /\ wipe' = wipe
  /\ clear' = IF app'.auth = "Invalid" THEN clear ELSE None

OnKeyPress(k) ==
  /\ repeat' \in IF k \in {"enter", "escape", "ctrlC"} THEN {None}
                 ELSE {None, RepeatDelay}
  /\ wipe' = IdleClear
  /\ clear' = IF app'.auth = "Invalid" THEN clear ELSE None

Press(k) ==
  /\ Dispatch /\ session = "locked" /\ screen.surface # "none"
  /\ \E a \in HandleKey(app, k) : app' = a /\ screen' \in Draw(screen, a)
  /\ OnKeyPress(k)
  /\ Submit
  /\ UNCHANGED <<edgeVars, running, shutdown, session>>

\* The key goes up, or the keyboard leaves.
Release ==
  /\ Dispatch /\ repeat' = None
  /\ UNCHANGED <<app, clear, wipe, edgeVars, screen, running, shutdown,
                 session, serviceVars>>

\* Any other reason for poll() to return: as_millis() rounds its timeout down.
Interrupt ==
  /\ Dispatch /\ pc = "asleep"
  /\ UNCHANGED <<app, timerVars, edgeVars, screen, running, shutdown, session,
                 serviceVars>>

\* SIGTERM or SIGINT sets a flag; it interrupts poll() only once it is called.
Signal ==
  /\ pc # "ended" /\ shutdown' = TRUE
  /\ pc' = IF pc = "asleep" THEN "after" ELSE pc
  /\ UNCHANGED <<app, timerVars, edgeVars, screen, wake, running, unlockOnExit,
                 session, serviceVars>>

-----------------------------------------------------------------------------
(* The end of the process, and PAM.                                        *)

\* run_wayland() returns: it unlocks only if an attempt has succeeded.
Exit ==
  /\ pc \in {"before", "after"} /\ pc' = "ended"
  /\ shutdown \/ (pc = "before" /\ ~running)
  /\ session' = IF unlockOnExit THEN "unlocked" ELSE session
  /\ Service!Stop
  /\ UNCHANGED <<app, timerVars, edgeVars, screen, wake, running,
                 unlockOnExit, shutdown>>

\* A panic, or an error of the Wayland connection.
Crash ==
  /\ pc # "ended" /\ pc' = "ended"
  /\ Service!Stop
  /\ UNCHANGED <<app, timerVars, edgeVars, screen, wake, exitVars>>

Decide ==
  /\ Service!Decide
  /\ UNCHANGED <<app, timerVars, edgeVars, screen, pc, wake, exitVars>>

Event ==
  \/ Locked \/ Finished \/ Configure \/ FrameDone \/ Redraw
  \/ (\E k \in Key : Press(k)) \/ Release \/ Interrupt \/ Signal

Next ==
  \/ TimePasses \/ Plan \/ Sleep \/ TimeOut \/ TickAnswered \/ Tick
  \/ Event \/ Exit \/ Crash \/ Decide

\* The loop runs, time passes, and a verifier polled for ever answers.
LoopFairness ==
  /\ WF_vars(TimePasses) /\ WF_vars(Plan) /\ WF_vars(Sleep) /\ WF_vars(TimeOut)
  /\ WF_vars(Tick) /\ SF_vars(TickAnswered) /\ WF_vars(Exit)

Spec == Init /\ [][Next]_vars

\* Every frame callback comes.
FairSpec == Spec /\ LoopFairness /\ SF_vars(FrameDone)

\* The outputs are off: the compositor owes no frame callback.
DarkSpec == Spec /\ LoopFairness

-----------------------------------------------------------------------------
(* Safety.                                                                 *)

\* The session is unlocked only when the last attempt was answered yes, and
\* that was PAM's verdict on it (app.rs:451-455, wayland.rs:47-49, 1062-1067).
UnlockedByVerdict ==
  session = "unlocked" =>
    attempt # 0 /\ answer[attempt] = "yes" /\ verdict[attempt] = "yes"

\* A password in memory is never without the deadline that wipes it, and none
\* is left once it has been submitted (wayland.rs:121-123, 580-583, app.rs:402).
PasswordIsTransient ==
  /\ app.typed \notin {None, 0} => wipe # None
  /\ app.auth \in Busy => app.typed = None

\* The indicator's keystrokes are those of the password being typed, and the
\* state says whether there is one (app.rs:345-392).
KeystrokesMatch ==
  app.auth \notin Busy =>
    /\ Len(app.strokes) = (IF app.typed = None THEN 0 ELSE app.typed)
    /\ app.auth = "Typing" <=> app.typed \notin {None, 0}

\* The deadline that clears a failure never meets another attempt: it is set
\* only while a failure is up that has been shown (wayland.rs:526-531).
ClearMeetsItsFailure ==
  clear # None => app.auth = "Invalid" /\ Settled(app)

AuthStep ==
  /\ app.auth = "Verifying" /\ app'.auth # "Verifying" =>
       app'.auth = (IF answer'[attempt] = "yes" THEN "Success" ELSE "Invalid")
  /\ app.auth = "Success" => app'.auth = "Success"
  /\ app.auth = "Invalid" => app'.auth \in {"Invalid", "Idle"}

\* An attempt under way ends with the verifier's answer and nothing else, and
\* success is final (app.rs:322-329, 440-473).
AuthSteps == [][AuthStep]_vars

-----------------------------------------------------------------------------
(* The inductive invariant behind the safety properties.                   *)

AppInv(a) ==
  /\ a.auth \in Busy => a.typed = None
  /\ a.auth \notin Busy =>
       /\ a.started = None /\ a.done = None
       /\ Len(a.strokes) = (IF a.typed = None THEN 0 ELSE a.typed)
       /\ a.auth = "Typing" <=> a.typed \notin {None, 0}
  /\ a.auth = "Verifying" => a.started # None /\ a.done = None

\* An attempt is asked of the verifier exactly while the App verifies it.
AttemptInv ==
  /\ pc = "ended" <=> phase = "down"
  /\ phase = "asked" => app.auth = "Verifying" /\ attempt # 0
  /\ phase = "ready" => app.auth # "Verifying"
  /\ app.auth = "Success" =>
       attempt # 0 /\ answer[attempt] = "yes" /\ verdict[attempt] = "yes"

TimerInv ==
  /\ app.typed \notin {None, 0} => wipe # None
  /\ clear # None => app.auth = "Invalid" /\ Settled(app)

UnlockInv ==
  /\ unlockOnExit => app.auth = "Success"
  /\ session = "unlocked" => unlockOnExit

SInv == TypeOK /\ AppInv(app) /\ AttemptInv /\ TimerInv /\ UnlockInv
=============================================================================
