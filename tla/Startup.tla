------------------------------- MODULE Startup -------------------------------
(***************************************************************************)
(* One life of the locker (cli.rs run(), config.rs, wayland.rs             *)
(* run_wayland()): command line and config file, the first helper, the     *)
(* lock, the word that it is held, and the end, with signals, crashes and  *)
(* a compositor that refuses or goes away at any point.  Attempts are one  *)
(* step here (Verifier and Session have them); what matters of them are    *)
(* the helpers, which inherit every descriptor open when they are forked.  *)
(***************************************************************************)
EXTENDS Sequences

CONSTANTS
  Options,        \* the settings whose values Config::build() validates
  None,           \* a setting that is not given
  Lines, Files    \* the command lines and config files to start with

Setting == {None, "good", "bad"}

\* The last of --daemonize and --no-daemonize wins.
Line == [parsable : BOOLEAN, settings : [Options -> Setting],
         detach : {None, "on", "off"}, ready : BOOLEAN]

File == [state : {"missing", "broken", "parsable"},
         settings : [Options -> Setting], detach : BOOLEAN]

ASSUME InputsAssumption ==
  None \notin {"good", "bad", "on", "off"} /\ Lines \subseteq Line
  /\ Files \subseteq File

VARIABLES
  line, file,  \* the command line and the config file
  locker,      \* what the locker is in the middle of
  detach,      \* config.daemonize
  helper,      \* the helper: "none", "idle", "pam" (an attempt is under way),
               \* "killed" and not yet dead, or "dead"
  ready,       \* who holds a copy of the ready descriptor
  session,     \* the compositor's lock: "open", "asked", "refused", "held",
               \* "released" or "revoked"
  events,      \* its events not yet dispatched
  running, unlocking, flag,  \* running, unlock_on_exit, SHUTDOWN_REQUESTED
  accepted,    \* the App's Success
  heard,       \* the newline on the ready descriptor
  status,      \* what the parent of the process it started sees of it
  excuse       \* what stood in the way of the lock, or ended it

inputs == <<line, file>>
help   == <<helper, ready>>
loop   == <<running, unlocking, flag, accepted>>
vars   == <<inputs, locker, detach, help, session, events, loop, heard,
            status, excuse>>

Holder == {"locker", "helper"}

LockerOK ==
  /\ line \in Lines /\ file \in Files
  /\ locker \in {"parse", "config", "verifier", "connect", "bind", "ask",
                 "loop", "end", "failed", "gone"}
  /\ detach \in BOOLEAN /\ running \in BOOLEAN /\ unlocking \in BOOLEAN
  /\ flag \in BOOLEAN /\ accepted \in BOOLEAN

HelperOK ==
  /\ helper \in {"none", "idle", "pam", "killed", "dead"}
  /\ ready \subseteq Holder

ScreenOK ==
  /\ session \in {"open", "asked", "refused", "held", "released", "revoked"}
  /\ events \in Seq({"locked", "finished"})

SeenOK ==
  /\ heard \in BOOLEAN
  /\ status \in {"running", "detached", "0", "1", "2", "killed"}
  /\ excuse \in {"none", "verifier", "compositor", "signal", "crash"}

TypeOK == LockerOK /\ HelperOK /\ ScreenOK /\ SeenOK

-----------------------------------------------------------------------------
(* Config::from_args().                                                    *)

Merged(l, f) ==
  [o \in Options |-> IF l.settings[o] = None THEN f.settings[o]
                     ELSE l.settings[o]]

Builds(l, f) == \A o \in Options : Merged(l, f)[o] # "bad"

NoFile == [state |-> "missing", settings |-> [o \in Options |-> None],
           detach |-> FALSE]

\* Mutant: a file that parses and is wrong is as fatal as the command line.
UsableParsed(l, f) == IF f.state = "parsable" THEN f ELSE NoFile

\* A file that is missing, unreadable, malformed, or wrong is as good as none.
Usable(l, f) == IF f.state = "parsable" /\ Builds(l, f) THEN f ELSE NoFile

Detaches(l, f) == l.detach = "on" \/ (l.detach = None /\ f.detach)

-----------------------------------------------------------------------------
(* run().                                                                  *)

Init ==
  /\ line \in Lines /\ file \in Files
  /\ locker = "parse" /\ detach = FALSE
  /\ helper = "none"
  /\ ready = IF line.ready THEN {"locker"} ELSE {}
  /\ session = "open" /\ events = <<>>
  /\ running = TRUE /\ unlocking = FALSE /\ flag = FALSE /\ accepted = FALSE
  /\ heard = FALSE /\ status = "running" /\ excuse = "none"

\* The process ends and its descriptors are closed.  After daemon() the parent
\* has already seen the end of the process it started.
Exit(code) ==
  /\ locker' = "gone"
  /\ status' = IF status = "running" THEN code ELSE status
  /\ ready' = ready \ {"locker"}
  /\ UNCHANGED <<inputs, detach, events, loop, heard>>

\* Exit before there is a lock to care for.
Refuse(code) == Exit(code) /\ UNCHANGED <<helper, session>>

compositorFrame == <<inputs, locker, detach, help, loop, heard, status, excuse>>

\* The steps of run() that change no more than where it is.
Proceed(to) ==
  /\ locker' = to
  /\ UNCHANGED <<inputs, detach, help, session, events, loop, heard, status>>

Parse ==
  /\ locker = "parse"
  /\ IF line.parsable THEN Proceed("config") ELSE Refuse("2")
  /\ UNCHANGED excuse

Configure ==
  /\ locker = "config"
  /\ LET used == Usable(line, file) IN
     IF Builds(line, used)
     THEN /\ locker' = "verifier" /\ detach' = Detaches(line, used)
          /\ UNCHANGED <<inputs, help, session, events, loop, heard, status>>
     ELSE Refuse("1")
  /\ UNCHANGED excuse

\* fork() leaves the helper a copy of whatever the locker has open.
Fork == ready' = IF "locker" \in ready THEN Holder ELSE {}

\* No user, an unknown backend, a setuid binary, no pipe or no process: refuse.
InitAuth ==
  /\ locker = "verifier"
  /\ \/ /\ Fork /\ helper' = "idle" /\ locker' = "connect"
        /\ UNCHANGED <<inputs, detach, session, events, loop, heard, status,
                       excuse>>
     \/ Refuse("1") /\ excuse' = "verifier"

\* run_wayland() returns an error, also when dispatching or flushing fails.
Fails == Proceed("failed") /\ excuse' = "compositor"

\* The signal handlers are in place; there may be no display to connect to.
Connect ==
  /\ locker = "connect"
  /\ (Proceed("bind") /\ UNCHANGED excuse) \/ Fails

\* Two roundtrips, and the globals they bring.
Bind ==
  /\ locker = "bind"
  /\ (Proceed("ask") /\ UNCHANGED excuse) \/ Fails

-----------------------------------------------------------------------------
(* The loop.                                                               *)

\* The request is in the connection's buffer until the loop flushes it.
Ask ==
  /\ locker = "ask" /\ ~flag
  /\ locker' = "loop" /\ session' = "asked"
  /\ UNCHANGED <<inputs, detach, help, events, loop, heard, status, excuse>>

\* The compositor grants the lock, or another client holds it already.
Reply ==
  /\ session = "asked"
  /\ \/ session' = "held" /\ events' = Append(events, "locked")
     \/ session' = "refused" /\ events' = Append(events, "finished")
  /\ UNCHANGED compositorFrame

\* By a policy of its own the compositor ends a lock it has granted.
Revoke ==
  /\ session = "held" /\ session' = "revoked"
  /\ events' = Append(events, "finished")
  /\ UNCHANGED compositorFrame

\* Mutant: the ready descriptor is taken and not written to.
NotifySilently ==
  /\ ready' = ready \ {"locker"} /\ UNCHANGED heard

\* The newline, and the locker's own copy is closed.
Notify ==
  /\ heard' = (heard \/ "locker" \in ready)
  /\ ready' = ready \ {"locker"}

\* daemon(): the process that was started exits 0, a copy of it goes on.
Detach ==
  \/ detach /\ status' = "detached" /\ detach' = FALSE
  \/ detach' = FALSE /\ UNCHANGED status

\* Without wl_compositor there is nothing to show on the lock.
Locked ==
  /\ locker = "loop" /\ events # <<>> /\ Head(events) = "locked"
  /\ events' = Tail(events)
  /\ \/ /\ Notify /\ Detach
        /\ UNCHANGED <<running, excuse>>
     \/ /\ running' = FALSE /\ excuse' = "compositor"
        /\ UNCHANGED <<ready, heard, detach, status>>
  /\ UNCHANGED <<inputs, locker, helper, session, unlocking, flag, accepted>>

Finished ==
  /\ locker = "loop" /\ events # <<>> /\ Head(events) = "finished"
  /\ events' = Tail(events)
  /\ running' = FALSE /\ excuse' = "compositor"
  /\ UNCHANGED <<inputs, locker, detach, help, session, unlocking, flag,
                 accepted, heard, status>>

\* The compositor dies or drops the client.
Disconnect == locker = "loop" /\ Fails

-----------------------------------------------------------------------------
(* Attempts.                                                               *)

Granted == session \in {"held", "released", "revoked"}

\* Keys come once there is a lock surface.
Shown == Granted /\ running /\ \A i \in DOMAIN events : events[i] # "locked"

attemptFrame == <<inputs, locker, detach, session, events, running, unlocking,
                  flag, heard, status, excuse>>

\* Enter.  A helper that could not be replaced is forked now, or the attempt
\* fails; so does one that finds its helper dead.
Submit ==
  /\ locker = "loop" /\ Shown /\ ~accepted
  /\ \/ helper = "idle" /\ UNCHANGED ready
     \/ helper = "none" /\ Fork
  /\ helper' = "pam"
  /\ UNCHANGED <<attemptFrame, accepted>>

\* PAM's verdict; nobody hears it when the locker is gone.
Verdict ==
  /\ helper = "pam" /\ helper' = "idle"
  /\ \E yes \in BOOLEAN :
       accepted' = IF locker = "loop" THEN yes ELSE accepted
  /\ UNCHANGED <<attemptFrame, ready>>

\* The attempt's deadline: the helper is killed and replaced, if fork() can.
GiveUp ==
  /\ helper = "pam" /\ locker = "loop"
  /\ \/ helper' = "idle" /\ Fork
     \/ helper' = "none" /\ ready' = ready \ {"helper"}
  /\ UNCHANGED <<attemptFrame, accepted>>

HelperDies ==
  /\ helper \in {"idle", "pam", "killed"} /\ helper' = "dead"
  /\ ready' = ready \ {"helper"}
  /\ UNCHANGED <<attemptFrame, accepted>>

-----------------------------------------------------------------------------
(* The end.                                                                *)

\* Mutant: an attempt need not have succeeded.
UnlockAtOnce == TRUE

\* should_unlock().
ShouldUnlock == accepted

\* tick_timers(), also in the iteration that has seen the lock finished.
Unlock ==
  /\ locker = "loop" /\ ShouldUnlock
  /\ unlocking' = TRUE /\ running' = FALSE /\ locker' = "end"
  /\ UNCHANGED <<inputs, detach, help, session, events, flag, accepted,
                 heard, status, excuse>>

Leave ==
  /\ locker \in {"ask", "loop"} /\ (flag \/ ~running)
  /\ Proceed("end") /\ UNCHANGED excuse

\* A helper in an attempt is killed, another one is left to see end of file.
Drop == helper' = IF helper = "pam" THEN "killed" ELSE helper

\* unlock_and_destroy() and a roundtrip, which may fail before or after the
\* compositor has seen the request.
End ==
  /\ locker = "end" /\ Drop
  /\ \/ ~unlocking /\ Exit("0") /\ UNCHANGED session
     \/ /\ unlocking
        /\ \/ /\ Exit("0") \/ Exit("1")
              /\ session' = IF session = "held" THEN "released" ELSE session
           \/ Exit("1") /\ UNCHANGED session
  /\ UNCHANGED excuse

\* main() reports the error.
Failed ==
  /\ locker = "failed" /\ Drop /\ Exit("1") /\ UNCHANGED <<session, excuse>>

\* SIGTERM or SIGINT: deadly until run_wayland() has installed its handlers.
Signal ==
  /\ locker # "gone" /\ ~flag /\ excuse' = "signal"
  /\ IF locker \in {"parse", "config", "verifier", "connect"}
     THEN Refuse("killed")
     ELSE /\ flag' = TRUE
          /\ UNCHANGED <<inputs, locker, detach, help, session, events, running,
                         unlocking, accepted, heard, status>>

\* A panic aborts, and SIGKILL is no better.
Crash == locker # "gone" /\ Refuse("killed") /\ excuse' = "crash"

-----------------------------------------------------------------------------
Run == Parse \/ Configure \/ InitAuth \/ Connect \/ Bind \/ Ask
Dispatch == Locked \/ Finished

Next ==
  \/ Run \/ Reply \/ Revoke \/ Dispatch \/ Disconnect
  \/ Submit \/ Verdict \/ GiveUp \/ HelperDies
  \/ Unlock \/ Leave \/ End \/ Failed \/ Signal \/ Crash

\* run() goes on, the compositor answers, an event wakes the loop and is
\* dispatched, the loop leaves when it has nothing to wait for, and a helper
\* that was killed or sees end of file exits.  A signal alone may find the
\* loop asleep, and PAM owes nothing.
Fairness ==
  /\ WF_vars(Run) /\ WF_vars(Reply) /\ WF_vars(Dispatch)
  /\ WF_vars((locker = "ask" \/ ~running) /\ Leave)
  /\ WF_vars(End \/ Failed)
  /\ WF_vars((helper = "killed" \/ (helper = "idle" /\ locker = "gone"))
             /\ HelperDies)

Spec == Init /\ [][Next]_vars /\ Fairness
-----------------------------------------------------------------------------
(* Properties.                                                             *)

LineIsValid == line.parsable /\ \A o \in Options : line.settings[o] # "bad"

Lock == INSTANCE ScreenLock WITH
  valid <- LineIsValid,
  held <- IF ~Granted THEN "no" ELSE IF session = "held" THEN "yes" ELSE session,
  accepted <- accepted,
  told <- heard \/ status = "detached"

\* A refused command line locks nothing, a newline on the ready descriptor and
\* a detached process mean that the lock is held, and only PAM's yes makes the
\* locker release it (.github/SECURITY.md:13-33, wayland.rs:875-906, 1055-1067).
ImplementsLock == Lock!Spec

\* No config file stands in the way of the lock: with a valid command line, a
\* verifier and a compositor that grants it, it is granted (config.rs:245-292).
ScreenGetsLocked ==
  locker = "parse" /\ LineIsValid ~> Granted \/ excuse # "none"

\* Who waits on the ready descriptor gets the newline or, however startup
\* fails, end of file, although the helper has a copy (wayland.rs:894-898).
WaiterHears == ready # {} ~> heard \/ ready = {}
=============================================================================
