----------------------------- MODULE TtyPrompt ------------------------------
(***************************************************************************)
(* The password prompt of --auth-test: read_password() of cli.rs, one      *)
(* system call at a step, and signals between any two of them.  Every call *)
(* may fail; whatever was changed until then has to be changed back.       *)
(***************************************************************************)
EXTENDS PasswordBuffer

CONSTANTS
  Typing,   \* the bytes that may be typed; 10 ends the line
  Original  \* the dispositions the process may have been started with

Signal == {"INT", "TERM", "QUIT"}

PromptAssumption ==
  /\ Typing \subseteq Byte
  /\ Original \subseteq [Signal -> {"default", "ignore"}]

VARIABLES
  at,         \* where read_password() stands
  result,     \* what it is about to return: "none", "ok", "failed"
  line,       \* bytes: the SecureBuffer
  echo,       \* the terminal's ECHO
  original,   \* the dispositions before
  handler,    \* the dispositions
  installed,  \* how many of them have been changed,
  undone      \* and how many of those changed back

vars == <<at, result, line, echo, original, handler, installed, undone>>

\* The order in which they are installed and put back.
InOrder == <<"INT", "TERM", "QUIT">>

TypeOK ==
  /\ at \in {"open", "install", "silence", "allocate", "read", "restore",
             "handlers", "returned", "killed"}
  /\ result \in {"none", "ok", "failed"}
  /\ line \in Buffer /\ echo \in BOOLEAN
  /\ original \in Original
  /\ handler \in [Signal -> {"default", "ignore", "noop"}]
  /\ installed \in 0 .. 3 /\ undone \in 0 .. installed

Init ==
  /\ at = "open" /\ result = "none" /\ line = NewBuffer /\ echo = TRUE
  /\ original \in Original /\ handler = original
  /\ installed = 0 /\ undone = 0

Goes(place, outcome) == at' = place /\ result' = outcome

\* open() and tcgetattr(): there may be no terminal.
Open ==
  /\ at = "open"
  /\ Goes("install", "none") \/ Goes("returned", "failed")
  /\ UNCHANGED <<line, echo, original, handler, installed, undone>>

\* sigaction() of the next signal.
Install ==
  /\ at = "install"
  /\ handler' = [handler EXCEPT ![InOrder[installed + 1]] = "noop"]
  /\ installed' = installed + 1
  /\ Goes(IF installed = 2 THEN "silence" ELSE "install", "none")
  /\ UNCHANGED <<line, echo, original, undone>>

InstallFails ==
  /\ at = "install" /\ Goes("handlers", "failed")
  /\ UNCHANGED <<line, echo, original, handler, installed, undone>>

\* From here on TermiosRestore puts everything back.
Silence ==
  /\ at = "silence"
  /\ \/ echo' = FALSE /\ Goes("allocate", "none")
     \/ echo' = echo /\ Goes("restore", "failed")
  /\ UNCHANGED <<line, original, handler, installed, undone>>

Allocate ==
  /\ at = "allocate"
  /\ Goes("read", "none") \/ Goes("restore", "failed")
  /\ UNCHANGED <<line, echo, original, handler, installed, undone>>

\* The line without the CR of its end.
Stripped(b) ==
  IF b.len > 0 /\ b.mem[b.len] = 13 THEN Truncated(b, b.len - 1) ELSE b

\* A byte is typed.
Read ==
  /\ at = "read"
  /\ \E byte \in Typing \ {10} :
       IF Fits(line, <<byte>>)
       THEN line' = Pushed(line, <<byte>>) /\ UNCHANGED <<at, result>>
       ELSE Goes("restore", "failed") /\ UNCHANGED line
  /\ UNCHANGED <<echo, original, handler, installed, undone>>

\* The line or the input ends.
EndOfLine ==
  /\ at = "read"
  /\ line' = Stripped(line)
  /\ Goes("restore", IF IsUtf8(Bytes(line')) THEN "ok" ELSE "failed")
  /\ UNCHANGED <<echo, original, handler, installed, undone>>

ReadFails ==
  /\ at = "read" /\ Goes("restore", "failed")
  /\ UNCHANGED <<line, echo, original, handler, installed, undone>>

\* Mutant: the signals installed before the guard existed stay installed.
OwedByGuard(n) == IF n = 3 THEN 3 ELSE 0

\* How many dispositions are to be put back when so many were changed.
Owed(n) == n

\* The guard is dropped: the echo first, however often a signal interrupts.
Restore ==
  /\ at = "restore" /\ echo' = TRUE /\ Goes("handlers", result)
  /\ UNCHANGED <<line, original, handler, installed, undone>>

PutBack ==
  /\ at = "handlers" /\ undone < Owed(installed)
  /\ LET s == InOrder[undone + 1]
     IN  handler' = [handler EXCEPT ![s] = original[s]]
  /\ undone' = undone + 1
  /\ UNCHANGED <<at, result, line, echo, original, installed>>

Return ==
  /\ at = "handlers" /\ undone = Owed(installed) /\ Goes("returned", result)
  /\ UNCHANGED <<line, echo, original, handler, installed, undone>>

\* A signal kills the process or interrupts a read(); in any other place
\* termination_noop() is all that happens.
Interrupt ==
  /\ at \notin {"returned", "killed"}
  /\ \E s \in Signal :
       \/ handler[s] = "default" /\ Goes("killed", result)
       \/ handler[s] = "noop" /\ at = "read" /\ Goes("restore", "failed")
  /\ UNCHANGED <<line, echo, original, handler, installed, undone>>

Next ==
  \/ Open \/ Install \/ InstallFails \/ Silence \/ Allocate
  \/ Read \/ EndOfLine \/ ReadFails
  \/ Restore \/ PutBack \/ Return \/ Interrupt

Spec == Init /\ [][Next]_vars

-----------------------------------------------------------------------------
(* Properties.                                                             *)

\* Whatever fails and whenever SIGINT, SIGTERM or SIGQUIT comes: the process
\* neither returns nor dies with the echo off, and returns with the dispositions
\* it had of them
\* (cli.rs:40-51, 69-71, 83-105).
TerminalRestored ==
  /\ at \in {"returned", "killed"} => echo
  /\ at = "returned" => handler = original
=============================================================================
