---------------------------- MODULE VerifierInv -----------------------------
(***************************************************************************)
(* The inductive invariant behind AnswersAreVerdicts.  The property alone  *)
(* is not inductive: a reply of an earlier attempt left in the pipe would  *)
(* be credited to the next one.  What excludes it is that worker, helper   *)
(* and pipes are at matching stages of one round trip of the current       *)
(* attempt, and that between attempts a helper that can still be heard has *)
(* nothing in hand.                                                        *)
(***************************************************************************)
EXTENDS Verifier

F(kind)    == [kind |-> kind, of |-> attempt]
Active     == worker \notin {"none", "exited"}
Down(h)    == hpc[h] \in {"killed", "dead"}
Serving(h) == hpc[h] \notin {"unborn", "killed", "dead"}

\* Helper h is at s, unless it has died there, with this much in its pipes.
At(h, asked, s, told) ==
  /\ req[h] = asked /\ rep[h] = told
  /\ hpc[h] = s \/ Down(h)

Quiet(h) == At(h, <<>>, "read", <<>>)

\* The parent's bookkeeping: which of its parts exist at the same time.
ThreadInv ==
  /\ Active => dups = fds /\ dups # NoHelper /\ attempt # 0
  /\ ~Active => dups = NoHelper
  /\ main = "idle" => pid = fds /\ ~cancel
  /\ pending => main = "idle" /\ attempt # 0 /\ answer[attempt] = "none"
  /\ main = "idle" /\ ~pending => worker = "none" /\ chan = "none"
  /\ pending /\ chan = "none" => Active
  /\ pending /\ chan # "none" => ~Active
  /\ main \in {"reap", "join"} => attempt # 0 /\ chan = "none"
  /\ main \in {"wait", "gone"} => worker = "none"
  /\ worker = "report" => outcome # "none"

\* Only the current helper serves, and what it has been asked is one request
\* of the current attempt that has no answer yet.
Shape(h) ==
  /\ hpc[h] = "unborn" => req[h] = <<>> /\ rep[h] = <<>>
  /\ hpc[h] = "read" => req[h] \in {<<>>, <<F("header")>>,
                                    <<F("header"), F("body")>>}
  /\ hpc[h] = "half" => req[h] \in {<<>>, <<F("body")>>}
  /\ hpc[h] \in {"verify", "yes", "no", "message"} => req[h] = <<>>
  /\ hpc[h] \in {"half", "verify", "yes", "no", "message"} =>
       job[h] = attempt /\ attempt # 0
  /\ Serving(h) /\ (req[h] # <<>> \/ hpc[h] \in {"half", "verify"}) =>
       attempt # 0 /\ answer[attempt] = "none" /\ verdict[attempt] = "none"

HelperInv ==
  /\ pid # NoHelper => hpc[pid] # "unborn" /\ main \in {"idle", "wait"}
  /\ main # "gone" => \A h \in Helper : Serving(h) => h = pid
  /\ \A h, k \in Helper : Serving(h) /\ Serving(k) => h = k
  /\ \A h \in Helper : Shape(h)

\* Worker and helper are in step, unless the pipe to the helper is broken.
StageInv ==
  /\ worker = "header" => answer[attempt] = "none" /\ verdict[attempt] = "none"
  /\ worker = "header" /\ HelperEnds(dups) => Quiet(dups)
  /\ worker = "body" =>
       \/ At(dups, <<F("header")>>, "read", <<>>)
       \/ At(dups, <<>>, "half", <<>>)
  /\ worker = "status" =>
       \/ At(dups, <<F("header"), F("body")>>, "read", <<>>)
       \/ At(dups, <<F("body")>>, "half", <<>>)
       \/ At(dups, <<>>, "verify", <<>>)
       \/ \E v \in {"yes", "no"} :
            /\ verdict[attempt] = v
            /\ \/ At(dups, <<>>, v, <<>>)
               \/ At(dups, <<>>, "message", <<F(v)>>)
               \/ At(dups, <<>>, "read", <<F(v), F("message")>>)
  /\ worker \in {"yes", "no"} =>
       /\ verdict[attempt] = worker
       /\ \/ At(dups, <<>>, "message", <<>>)
          \/ At(dups, <<>>, "read", <<F("message")>>)
  /\ worker = "report" /\ outcome # "error" =>
       verdict[attempt] = outcome /\ Quiet(dups)
  /\ worker = "report" /\ outcome = "error" => cancel \/ ~HelperEnds(dups)
  /\ main = "idle" /\ ~Active /\ pid # NoHelper /\ HelperEnds(pid) =>
       Quiet(pid)

AnswerInv ==
  /\ pending /\ chan \in {"yes", "no"} => verdict[attempt] = chan
  /\ \A a \in Attempt :
       a > attempt => answer[a] = "none" /\ verdict[a] = "none"
  /\ AnswersAreVerdicts

IInv == TypeOK /\ ThreadInv /\ HelperInv /\ StageInv /\ AnswerInv
=============================================================================
