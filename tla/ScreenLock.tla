----------------------------- MODULE ScreenLock ------------------------------
(***************************************************************************)
(* What SECURITY.md promises of the lock, as seen from outside: nothing is *)
(* locked for a command line that is refused, nobody is told of a lock     *)
(* that is not held, and once it is held only PAM's yes releases it.       *)
(***************************************************************************)

VARIABLES
  valid,      \* whether the command line is well-formed; it never changes
  held,       \* "no", "yes", "released" by the locker, "revoked" otherwise
  accepted,   \* PAM has accepted a password
  told        \* somebody has been told that the screen is locked

vars == <<valid, held, accepted, told>>

Init == valid \in BOOLEAN /\ held = "no" /\ ~accepted /\ ~told

Grant ==
  /\ valid /\ held = "no" /\ held' = "yes"
  /\ UNCHANGED <<valid, accepted, told>>

Tell == held # "no" /\ told' = TRUE /\ UNCHANGED <<valid, held, accepted>>

Accept == held # "no" /\ accepted' = TRUE /\ UNCHANGED <<valid, held, told>>

Release ==
  /\ held = "yes" /\ accepted /\ held' = "released"
  /\ UNCHANGED <<valid, accepted, told>>

\* The compositor may have other ways to authenticate, of its own.
Revoke ==
  /\ held = "yes" /\ held' = "revoked"
  /\ UNCHANGED <<valid, accepted, told>>

Next == Grant \/ Tell \/ Accept \/ Release \/ Revoke

Spec == Init /\ [][Next]_vars
=============================================================================
