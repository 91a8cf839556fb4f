-------------------------- MODULE PamConversation --------------------------
(***************************************************************************)
(* The conversation of PAM with the helper (auth/pam_ffi.rs): each message *)
(* of each call of pam_conv_callback() is a step, as each may end the call *)
(* with replies already filled in.  PAM itself is free: how often it       *)
(* calls, with which messages, and when it ends.                           *)
(***************************************************************************)
EXTENDS Lists, FiniteSetsExt

CONSTANTS
  Calls,       \* the sequences of messages PAM may call with
  MaxMessage,  \* MAX_PAM_MESSAGE_BYTES, and what a reply may carry: 4096
  None

\* A message is a prompt for the password ("secret") or the user name
\* ("visible"), a notice, or of another style.  The text of a notice is its
\* bytes: "x" stands for a letter, " " for a space, "bad" for no UTF-8.
Message == [style : {"secret", "visible", "notice", "other"},
            text : Seq({"x", " ", "bad"})]

ConversationAssumption ==
  MaxMessage \in Nat /\ Calls \subseteq Seq(Message) /\ None \notin Seq(Message)

VARIABLES
  talking,   \* run_pam_auth() is under way
  password,  \* what take_password() will return: the password's bytes or None
  todo,      \* messages of the call under way yet to be answered, or None
  replies,   \* what is filled in: the password's bytes or None for NULL
  texts,     \* the messages collected, each as its size in bytes
  used,      \* message_bytes
  owned,     \* the passwords that PAM has been given
  residue    \* memory was freed that still held a password

vars == <<talking, password, todo, replies, texts, used, owned, residue>>

\* What may be left of a call.
Rest == UNION {{SubSeq(c, i, Len(c)) : i \in 1 .. Len(c) + 1} : c \in Calls}

TypeOK ==
  /\ talking \in BOOLEAN
  /\ password \in Seq(0 .. 255) \cup {None}
  /\ todo \in Rest \cup {None}
  /\ replies \in Seq(Seq(0 .. 255) \cup {None})
  /\ texts \in Seq(Nat) /\ used \in Nat
  /\ owned \in Seq(Seq(0 .. 255)) /\ residue \in BOOLEAN

Init ==
  /\ talking = FALSE /\ password = None /\ todo = None /\ replies = <<>>
  /\ texts = <<>> /\ used = 0 /\ owned = <<>> /\ residue = FALSE

\* PamConvState::new(); an empty password is none.
Begin(bytes) ==
  /\ ~talking /\ talking' = TRUE
  /\ password' = IF bytes = <<>> THEN None ELSE bytes
  /\ texts' = <<>> /\ used' = 0 /\ owned' = <<>>
  /\ UNCHANGED <<todo, replies, residue>>

\* The callback is called, and gets memory for its replies.
Call ==
  /\ talking /\ todo = None
  /\ todo' \in Calls /\ replies' = <<>>
  /\ UNCHANGED <<talking, password, texts, used, owned, residue>>

-----------------------------------------------------------------------------
(* push_message().                                                         *)

\* The bytes of a text after from_utf8_lossy().
Size(text) == Total([i \in DOMAIN text |-> IF text[i] = "bad" THEN 3 ELSE 1])

Trimmed(text) ==
  LET ink == {i \in DOMAIN text : text[i] # " "}
  IN  IF ink = {} THEN <<>> ELSE SubSeq(text, Min(ink), Max(ink))

\* What is left once characters are popped until n bytes are enough.
Fitting(text, n) ==
  SubSeq(text, 1, Max({k \in 0 .. Len(text) : Size(SubSeq(text, 1, k)) <= n}))

Separator == IF texts = <<>> THEN 0 ELSE 1

\* Mutant: the separator is not counted.
RemainingUnseparated == MaxMessage - used

Remaining == Max({0, MaxMessage - used - Separator})

\* What is kept of a notice.
Kept(text) ==
  LET cut == SubSeq(text, 1, Min({Len(text), Remaining}))
  IN  IF Remaining = 0 THEN <<>> ELSE Fitting(Trimmed(cut), Remaining)

-----------------------------------------------------------------------------
(* The messages of a call.                                                 *)

Asked(style) == talking /\ todo # None /\ todo # <<>> /\ Head(todo).style = style

\* Mutant: the password can be asked for again.
TakenCopy == password

\* take_password(): nothing stays, and what was taken is wiped after its use.
Taken == None

\* A prompt is answered with a copy of the password, if there is memory.
Reply ==
  /\ Asked("secret") /\ password # None
  /\ \E copy \in {password, None} : replies' = Append(replies, copy)
  /\ password' = Taken /\ todo' = Tail(todo)
  /\ UNCHANGED <<talking, texts, used, owned, residue>>

\* Mutant: the reply before the message that failed is not wiped.
WipedBefore(n) == 1 .. n - 1

\* The replies that are wiped when the call fails with n of them filled in.
Wiped(n) == 1 .. n

\* The call fails: at a prompt when the password is used up, at a style that is
\* not known.  Its replies are freed.
Fail ==
  /\ \/ Asked("secret") /\ password = None
     \/ Asked("other")
  /\ residue' =
       (residue \/ \E j \in DOMAIN replies \ Wiped(Len(replies)) : replies[j] # None)
  /\ replies' = <<>> /\ todo' = None
  /\ UNCHANGED <<talking, password, texts, used, owned>>

\* The user name is asked for, which PAM has.
Name ==
  /\ Asked("visible")
  /\ replies' = Append(replies, None) /\ todo' = Tail(todo)
  /\ UNCHANGED <<talking, password, texts, used, owned, residue>>

Notice ==
  /\ Asked("notice")
  /\ LET kept == Kept(Head(todo).text)
     IN  IF kept = <<>> THEN UNCHANGED <<texts, used>>
         ELSE /\ texts' = Append(texts, Size(kept))
              /\ used' = used + Separator + Size(kept)
  /\ replies' = Append(replies, None) /\ todo' = Tail(todo)
  /\ UNCHANGED <<talking, password, owned, residue>>

\* The replies are PAM's.
Return ==
  /\ todo = <<>>
  /\ owned' = owned \o Retained(replies, {j \in DOMAIN replies : replies[j] # None})
  /\ replies' = <<>> /\ todo' = None
  /\ UNCHANGED <<talking, password, texts, used, residue>>

\* pam_end(), the reply is made and the state dropped: a password that was not
\* taken is wiped.
End ==
  /\ talking /\ todo = None
  /\ talking' = FALSE /\ password' = None /\ owned' = <<>>
  /\ texts' = <<>> /\ used' = 0
  /\ UNCHANGED <<todo, replies, residue>>

\* The helper is killed: its memory is gone.
Kill ==
  /\ talking /\ talking' = FALSE
  /\ password' = None /\ todo' = None /\ replies' = <<>> /\ texts' = <<>>
  /\ used' = 0 /\ owned' = <<>> /\ UNCHANGED residue

Step == Call \/ Reply \/ Fail \/ Name \/ Notice \/ Return

-----------------------------------------------------------------------------
(* Properties.                                                             *)

\* The text of the reply: the messages, joined by spaces.
Joined == Total(texts) + (IF texts = <<>> THEN 0 ELSE Len(texts) - 1)

\* The budget is exact, so that a reply is never cut and never refused by the
\* locker (pam_ffi.rs:35-36, ipc.rs:127-136).
RepliesAreWhole == used = Joined /\ Joined <= MaxMessage

\* In an attempt PAM gets the password once, however often it asks
\* (pam_ffi.rs:93-97).
HandedOnce ==
  Len(owned) + Cardinality({j \in DOMAIN replies : replies[j] # None})
    + (IF password = None THEN 0 ELSE 1) <= 1

\* Whatever message a call fails at, no copy is freed unwiped
\* (pam_ffi.rs:182-208).
FreedIsWiped == ~residue
=============================================================================
