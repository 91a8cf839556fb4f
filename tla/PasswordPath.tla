---------------------------- MODULE PasswordPath ----------------------------
(***************************************************************************)
(* The way of a password: typed at the lock screen (handle_key() and       *)
(* process_auth() of app.rs) or at the prompt of --auth-test (cli.rs),     *)
(* copied to the helper and handed to PAM.  Composes TtyPrompt and         *)
(* PamConversation around a password buffer.  How the copy travels and     *)
(* what answers come back is Verifier's.                                   *)
(***************************************************************************)
EXTENDS PasswordBuffer

CONSTANTS Keys, Calls, MaxMessage, Typing, Original, None

VARIABLES
  front,   \* "lock", or of --auth-test "prompt", "feed", "test", "over"
  buffer,  \* the Password, or None before it is allocated
  fed,     \* how many bytes of the line have been read by chars()
  sent,    \* the bytes of the attempt under way, or None
  heard,   \* the helper has got them
  talking, password, todo, replies, texts, used, owned, residue,
  at, result, line, echo, original, handler, installed, undone

Pam    == INSTANCE PamConversation
Prompt == INSTANCE TtyPrompt

ASSUME PathAssumption ==
  /\ Pam!ConversationAssumption /\ Prompt!PromptAssumption
  /\ None \notin Buffer \cup Seq(Int)

pamVars    == <<talking, password, todo, replies, texts, used, owned, residue>>
promptVars == <<at, result, line, echo, original, handler, installed, undone>>

vars == <<front, buffer, fed, sent, heard, pamVars, promptVars>>

TypeOK ==
  /\ Pam!TypeOK /\ Prompt!TypeOK
  /\ front \in {"lock", "prompt", "feed", "test", "over"}
  /\ buffer \in Buffer \cup {None} /\ fed \in 0 .. Capacity
  /\ sent \in Seq(Byte) \cup {None} /\ heard \in BOOLEAN

Init ==
  /\ Pam!Init /\ Prompt!Init
  /\ front \in {"lock", "prompt"}
  /\ buffer = None /\ fed = 0 /\ sent = None /\ heard = FALSE

Quiet == UNCHANGED <<pamVars, promptVars, heard>>

-----------------------------------------------------------------------------
(* The lock screen.  Keys are ignored while an attempt is under way.       *)

Idle == front = "lock" /\ sent = None

\* The buffer that handle_key() finds or allocates.
Found == IF buffer = None THEN NewBuffer ELSE buffer

\* Any character that is not a control character or DEL.
KeyChar ==
  /\ Idle
  /\ \E c \in Keys :
       /\ c >= 32 /\ c # 127
       /\ buffer' = IF CanAppend(Found, c) THEN Appended(Found, c) ELSE Found
  /\ Quiet /\ UNCHANGED <<front, fed, sent>>

KeyBackspace ==
  /\ Idle /\ buffer' = Backspaced(Found)
  /\ Quiet /\ UNCHANGED <<front, fed, sent>>

\* Escape, Ctrl+U, and the idle deadline that presses Escape.
KeyClear ==
  /\ Idle /\ buffer' = Cleared(Found)
  /\ Quiet /\ UNCHANGED <<front, fed, sent>>

\* Enter: the password is taken, whether or not there is memory for its copy.
KeyEnter ==
  /\ Idle /\ buffer # None /\ buffer.len > 0
  /\ buffer' = None
  /\ sent' \in {Bytes(buffer), None}
  /\ Quiet /\ UNCHANGED <<front, fed>>

-----------------------------------------------------------------------------
(* --auth-test.                                                            *)

AtPrompt ==
  /\ front = "prompt" /\ Prompt!Next
  /\ front' = CASE at' = "returned" /\ result' = "ok" -> "feed"
                [] at' = "killed" \/ (at' = "returned" /\ result' = "failed") -> "over"
                [] OTHER -> "prompt"
  /\ UNCHANGED <<buffer, fed, sent, heard, pamVars>>

\* Mutant: what does not fit is dropped.
RefusesNone(b, c) == FALSE

\* Is this line's character one that ends the test?
Refuses(b, c) == ~CanAppend(b, c)

\* The next character of the line is appended; one too many ends the test.
Feed ==
  /\ front = "feed" /\ fed < line.len
  /\ LET piece == Piece(Bytes(line), fed + 1)
         c     == Decoded(piece)
     IN  IF Refuses(Found, c)
         THEN front' = "over" /\ buffer' = None /\ UNCHANGED fed
         ELSE /\ buffer' = IF CanAppend(Found, c) THEN Appended(Found, c) ELSE Found
              /\ fed' = fed + Len(piece) /\ UNCHANGED front
  /\ Quiet /\ UNCHANGED sent

\* The test ends for want of memory.
GiveUp ==
  /\ front = "feed" /\ front' = "over" /\ buffer' = None
  /\ Quiet /\ UNCHANGED <<fed, sent>>

Submit ==
  /\ front = "feed" /\ fed = line.len
  /\ sent' = Bytes(Found) /\ buffer' = None /\ front' = "test"
  /\ Quiet /\ UNCHANGED fed

-----------------------------------------------------------------------------
(* The attempt.                                                            *)

\* The helper reads the request and starts the conversation.
Begin ==
  /\ sent # None /\ ~heard /\ heard' = TRUE
  /\ Pam!Begin(sent)
  /\ UNCHANGED <<front, buffer, fed, sent, promptVars>>

Talk ==
  /\ heard /\ Pam!Step
  /\ UNCHANGED <<front, buffer, fed, sent, heard, promptVars>>

Over ==
  /\ sent' = None /\ heard' = FALSE
  /\ front' = IF front = "test" THEN "over" ELSE front
  /\ UNCHANGED <<buffer, fed, promptVars>>

\* The reply comes.
Answered == heard /\ Pam!End /\ Over

\* The helper cannot be reached, takes too long, dies or is killed.
Lost ==
  /\ sent # None /\ Over
  /\ IF talking THEN Pam!Kill ELSE UNCHANGED pamVars

Next ==
  \/ KeyChar \/ KeyBackspace \/ KeyClear \/ KeyEnter
  \/ AtPrompt \/ Feed \/ GiveUp \/ Submit
  \/ Begin \/ Talk \/ Answered \/ Lost

Spec == Init /\ [][Next]_vars

-----------------------------------------------------------------------------
(* Properties.                                                             *)

Clean(b) == b.len < Capacity /\ \A i \in b.len + 1 .. Capacity : b.mem[i] = 0

\* Erased and cleared characters are not left in memory, and at least one zero
\* follows the text (password/buffer.rs:19-33, secure/buffer.rs:77-90).
NothingBehind == buffer # None => Clean(buffer)

\* The line of --auth-test is sent as it was typed or not at all
\* (cli.rs:297-317).
LineIsSent == front = "test" /\ sent # None => sent = Bytes(line)

\* Whatever fails and whenever SIGINT, SIGTERM or SIGQUIT comes, --auth-test leaves
\* the terminal as it was (cli.rs:40-51, 83-105).
TerminalRestored == Prompt!TerminalRestored

\* The messages of PAM fit the reply that carries them (pam_ffi.rs:35-36,
\* 99-118).
RepliesAreWhole == Pam!RepliesAreWhole

\* One attempt hands the password over once (pam_ffi.rs:93-97).
HandedOnce == Pam!HandedOnce

\* A call that fails frees no copy of the password unwiped (pam_ffi.rs:182-208).
FreedIsWiped == Pam!FreedIsWiped

-----------------------------------------------------------------------------
(* The text that the bytes stand for.                                      *)

Characters == {c \in Nat : IsChar(c)}

TextOf(bytes) == IF bytes = None THEN None ELSE Chars(bytes)

Text == INSTANCE SecureText WITH
  Char <- Characters, None <- None,
  text <- IF buffer = None THEN <<>> ELSE Chars(Bytes(buffer)),
  sent <- TextOf(sent),
  seen <- IF owned = <<>> THEN None ELSE Chars(owned[1])

\* What is typed and not erased is sent whole, and PAM is given just that
\* (password/buffer.rs:24-58, pam_ffi.rs:93-97).
ImplementsText == Text!Spec
=============================================================================
