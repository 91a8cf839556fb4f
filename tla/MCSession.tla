----------------------------- MODULE MCSession ------------------------------
(* What the event loop must bring about, and what its comments promise.    *)
EXTENDS Session

(* Liveness, of DarkSpec: no frame callback need come.  What holds only    *)
(* while the outputs are on says so.                                       *)

Ended == pc = "ended"

FramesCome == SF_vars(FrameDone)

\* Draws do not fail for ever: a failed one is followed by one that does not.
DrawsRecover == []<>~screen.failed

\* Every attempt that was submitted gets its result, also if draws fail
\* (wayland.rs:1028-1034).
VerifyingEnds == app.auth = "Verifying" ~> app.auth # "Verifying" \/ Ended

\* While frame callbacks come and draws recover, success makes the loop end with
\* an unlock, unless the process is stopped before it does: the callback of the
\* last frame wakes a loop that has no timer left (wayland.rs:337-359, 521-525).
SuccessUnlocks ==
  FramesCome /\ DrawsRecover =>
    (app.auth = "Success" ~> unlockOnExit \/ shutdown \/ Ended)

\* Under the same premises a failure that the verifier reported is cleared
\* (wayland.rs:337-359, 496-503, 526-531).
FailureClears ==
  FramesCome /\ DrawsRecover =>
    (app.auth = "Invalid" /\ app.done # None ~> app.auth # "Invalid" \/ Ended)

\* A password is not left in memory by who typed it (wayland.rs:505-512).
IdlePasswordWiped ==
  <>[][~(\E k \in Key : Press(k)) /\ repeat # 0]_vars =>
    (app.typed \notin {None, 0} ~> app.typed \in {None, 0} \/ Ended)

-----------------------------------------------------------------------------
(* What the comments of the code promise.                                  *)

\* "auth results ride the indicator timer during verification", whatever the
\* display does (wayland.rs:1028-1034).
SettledIsServed == app.auth = "Success" ~> unlockOnExit \/ shutdown \/ Ended

\* "poll wakes on Wayland socket activity (POLLIN) or a signal (EINTR)", so a
\* signal ends the process (wayland.rs:1030-1031).
SignalEnds == shutdown ~> Ended

\* "clear auth-failed indicator after 3 s" (wayland.rs:122).
InvalidClears ==
  app.auth = "Invalid" ~> app.auth # "Invalid" \/ shutdown \/ Ended
=============================================================================
