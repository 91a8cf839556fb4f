----------------------------- MODULE SecureText -----------------------------
(***************************************************************************)
(* What the way of a password from the keyboard to PAM promises, in        *)
(* characters: what is typed and not erased is sent, as a whole, and PAM   *)
(* is given what was sent, once.                                           *)
(***************************************************************************)
EXTENDS Sequences, Integers

CONSTANTS Char, None

VARIABLES
  text,   \* what has been typed
  sent,   \* the text of the attempt under way
  seen    \* what PAM has been given in this attempt

vars == <<text, sent, seen>>

Init == text = <<>> /\ sent = None /\ seen = None

\* One more character.
Type ==
  /\ sent = None
  /\ Len(text') = Len(text) + 1 /\ SubSeq(text', 1, Len(text)) = text
  /\ text'[Len(text')] \in Char
  /\ UNCHANGED <<sent, seen>>

Erase ==
  /\ sent = None /\ text # <<>>
  /\ text' = SubSeq(text, 1, Len(text) - 1)
  /\ UNCHANGED <<sent, seen>>

\* Escape, a deadline, no memory: the text is gone.
Wipe == sent = None /\ text' = <<>> /\ UNCHANGED <<sent, seen>>

Send ==
  /\ sent = None
  /\ sent' = text /\ text' = <<>> /\ UNCHANGED seen

Hand == sent # None /\ seen = None /\ seen' = sent /\ UNCHANGED <<text, sent>>

\* The attempt is over.
End == sent # None /\ sent' = None /\ seen' = None /\ UNCHANGED text

Next == Type \/ Erase \/ Wipe \/ Send \/ Hand \/ End

Spec == Init /\ [][Next]_vars
=============================================================================
