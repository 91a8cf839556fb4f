---------------------------- MODULE AuthService -----------------------------
(***************************************************************************)
(* What a verifier promises the locker, with no helper, thread or pipe in  *)
(* sight: attempts are asked one at a time, each one asked is answered,    *)
(* and an answer other than an error is what PAM decided of that attempt.  *)
(***************************************************************************)
EXTENDS Naturals

CONSTANT MaxAttempt

Attempt == 1 .. MaxAttempt

VARIABLES phase, attempt, verdict, answer
vars == <<phase, attempt, verdict, answer>>

Init ==
  /\ phase = "ready" /\ attempt = 0
  /\ verdict = [a \in Attempt |-> "none"]
  /\ answer = [a \in Attempt |-> "none"]

Ask ==
  /\ phase = "ready" /\ attempt < MaxAttempt
  /\ phase' = "asked" /\ attempt' = attempt + 1
  /\ UNCHANGED <<verdict, answer>>

\* PAM decides at most once, and only of the attempt last asked.
Decide ==
  /\ phase # "ready" /\ attempt # 0
  /\ verdict[attempt] = "none" /\ answer[attempt] = "none"
  /\ \E v \in {"yes", "no"} : verdict' = [verdict EXCEPT ![attempt] = v]
  /\ UNCHANGED <<phase, attempt, answer>>

Answer ==
  /\ phase = "asked" /\ phase' = "ready"
  /\ \E r \in {verdict[attempt], "error"} \ {"none"} :
       answer' = [answer EXCEPT ![attempt] = r]
  /\ UNCHANGED <<attempt, verdict>>

\* The locker may stop asking, or die, at any time.
Stop ==
  /\ phase # "down" /\ phase' = "down"
  /\ UNCHANGED <<attempt, verdict, answer>>

Next == Ask \/ Decide \/ Answer \/ Stop

Spec == Init /\ [][Next]_vars /\ WF_vars(Answer)
=============================================================================
