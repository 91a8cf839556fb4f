--------------------------- MODULE PasswordProofs ---------------------------
(* Theorems about the memory of a password and the terminal of the prompt, *)
(* for every capacity, whatever is typed and wherever the prompt fails.    *)
EXTENDS PasswordPath, ListProofs, SequenceTheorems, TLAPS

-----------------------------------------------------------------------------
(* UTF-8.                                                                  *)

\* A character's bytes: as many as its width, and only the first of them is no
\* continuation byte.
LEMMA EncodeFacts ==
  ASSUME NEW c, IsChar(c)
  PROVE  /\ Encode(c) \in Seq(Byte)
         /\ Len(Encode(c)) = Width(c) /\ Width(c) \in 1 .. 4
         /\ ~IsContinuation(Encode(c)[1])
         /\ \A i \in 2 .. Width(c) : IsContinuation(Encode(c)[i])
<1>1. c \in Nat /\ c <= 1114111
  BY DEF IsChar
<1>2. \A n \in Nat : Low(n) \in 128 .. 191
  BY DEF Low
<1>3. CASE c < 128
  <2>1. Encode(c) = <<c>> /\ Width(c) = 1
    BY <1>1, <1>3 DEF Encode, Width
  <2>2. c \in Byte /\ ~IsContinuation(c)
    BY <1>1, <1>3 DEF Byte, IsContinuation
  <2>3. QED
    BY <2>1, <2>2
<1>4. CASE c >= 128 /\ c < 2048
  <2>1. Encode(c) = <<192 + (c \div 64), Low(c)>> /\ Width(c) = 2
    BY <1>1, <1>4 DEF Encode, Width
  <2>2. 192 + (c \div 64) \in 192 .. 255
    BY <1>1, <1>4
  <2>3. QED
    BY <1>1, <1>2, <2>1, <2>2 DEF Byte, IsContinuation
<1>5. CASE c >= 2048 /\ c < 65536
  <2>1. /\ Encode(c) = <<224 + (c \div 4096), Low(c \div 64), Low(c)>>
        /\ Width(c) = 3
    BY <1>1, <1>5 DEF Encode, Width
  <2>2. 224 + (c \div 4096) \in 192 .. 255 /\ c \div 64 \in Nat
    BY <1>1, <1>5
  <2>3. QED
    BY <1>1, <1>2, <2>1, <2>2 DEF Byte, IsContinuation
<1>6. CASE c >= 65536
  <2>1. /\ Encode(c) = <<240 + (c \div 262144), Low(c \div 4096),
                         Low(c \div 64), Low(c)>>
        /\ Width(c) = 4
    BY <1>1, <1>6 DEF Encode, Width
  <2>2. /\ 240 + (c \div 262144) \in 192 .. 255
        /\ c \div 64 \in Nat /\ c \div 4096 \in Nat
    BY <1>1, <1>6
  <2>3. QED
    BY <1>1, <1>2, <2>1, <2>2 DEF Byte, IsContinuation
<1>7. QED
  BY <1>1, <1>3, <1>4, <1>5, <1>6

-----------------------------------------------------------------------------
(* Buffers.                                                                *)

CleanBuffer(b) == b \in Buffer /\ Clean(b)

LEMMA NewIsClean == CleanBuffer(NewBuffer)
BY CapacityAssumption DEF CleanBuffer, Clean, NewBuffer, Buffer, Byte

LEMMA TruncatedIsClean ==
  ASSUME NEW b, CleanBuffer(b), NEW n \in 0 .. b.len
  PROVE  CleanBuffer(Truncated(b, n))
<1>1. /\ b.len \in 0 .. Capacity /\ b.len < Capacity /\ Capacity \in Nat
      /\ b.mem \in [1 .. Capacity -> Byte]
      /\ \A i \in b.len + 1 .. Capacity : b.mem[i] = 0
  BY CapacityAssumption DEF CleanBuffer, Clean, Buffer
<1> DEFINE mem == [i \in 1 .. Capacity |->
                     IF i \in n + 1 .. b.len THEN 0 ELSE b.mem[i]]
<1>2. Truncated(b, n) = [mem |-> mem, len |-> n]
  BY DEF Truncated
<1>3. mem \in [1 .. Capacity -> Byte]
  <2>1. 0 \in Byte
    BY DEF Byte
  <2>2. QED
    BY <1>1, <2>1
<1>4. \A i \in n + 1 .. Capacity : mem[i] = 0
  BY <1>1
<1>5. n \in 0 .. Capacity /\ n < Capacity
  BY <1>1
<1> HIDE DEF mem
<1>6. QED
  BY <1>2, <1>3, <1>4, <1>5 DEF CleanBuffer, Clean, Buffer

LEMMA AppendedIsClean ==
  ASSUME NEW b, CleanBuffer(b), NEW c, CanAppend(b, c)
  PROVE  CleanBuffer(Appended(b, c))
<1> DEFINE data == Encode(c)
           w    == Width(c)
           mem  == [i \in 1 .. Capacity |->
                      IF i \in b.len + 1 .. b.len + Len(data)
                      THEN data[i - b.len] ELSE b.mem[i]]
<1>1. /\ b.len \in 0 .. Capacity /\ Capacity \in Nat
      /\ b.mem \in [1 .. Capacity -> Byte]
      /\ \A i \in b.len + 1 .. Capacity : b.mem[i] = 0
  BY CapacityAssumption DEF CleanBuffer, Clean, Buffer
<1>2. data \in Seq(Byte) /\ Len(data) = w /\ w \in 1 .. 4
  BY EncodeFacts DEF CanAppend
<1>3. b.len + w + 1 <= Capacity
  BY DEF CanAppend
<1>4. Appended(b, c) = [mem |-> mem, len |-> b.len + w]
  BY <1>2 DEF Appended, Pushed
<1>5. \A j \in 1 .. w : data[j] \in Byte
  BY <1>2, ElementOfSeq
<1> HIDE DEF data, w
<1>6. mem \in [1 .. Capacity -> Byte]
  BY <1>1, <1>2, <1>5
<1>7. \A i \in b.len + w + 1 .. Capacity : mem[i] = 0
  BY <1>1, <1>2
<1>8. b.len + w \in 0 .. Capacity /\ b.len + w < Capacity
  BY <1>1, <1>2, <1>3
<1> HIDE DEF mem
<1>9. QED
  BY <1>4, <1>6, <1>7, <1>8 DEF CleanBuffer, Clean, Buffer

\* The walk of backspace() ends inside the text, at the last start there is.
LEMMA LastStartFacts ==
  ASSUME NEW b \in Buffer, b.len > 0
  PROVE  /\ LastStart(b) \in 1 .. b.len
         /\ LastStart(b) = 1 \/ ~IsContinuation(b.mem[LastStart(b)])
         /\ \A j \in LastStart(b) + 1 .. b.len : IsContinuation(b.mem[j])
<1> DEFINE starts == {i \in 1 .. b.len : i = 1 \/ ~IsContinuation(b.mem[i])}
<1>1. b.len \in Nat
  BY CapacityAssumption DEF Buffer
<1>2. 1 \in starts /\ starts \in SUBSET (0 .. b.len)
  BY <1>1
<1>3. PICK m \in starts : \A n \in starts : n <= m
  BY <1>1, <1>2, GreatestBelow
<1>4. \A j \in m + 1 .. b.len : IsContinuation(b.mem[j])
  BY <1>1, <1>3
<1>5. m \in 1 .. b.len /\ (m = 1 \/ ~IsContinuation(b.mem[m]))
  OBVIOUS
<1>6. QED
  BY <1>4, <1>5 DEF LastStart

LEMMA BackspacedIsClean ==
  ASSUME NEW b, CleanBuffer(b)
  PROVE  CleanBuffer(Backspaced(b))
<1>1. b.len \in Nat
  BY CapacityAssumption DEF CleanBuffer, Buffer
<1>2. CASE b.len = 0
  BY <1>2 DEF Backspaced
<1>3. CASE b.len > 0
  <2>1. LastStart(b) \in 1 .. b.len
    BY <1>3, LastStartFacts DEF CleanBuffer
  <2>2. LastStart(b) - 1 \in 0 .. b.len
    BY <1>1, <2>1
  <2>3. QED
    BY <1>3, <2>2, TruncatedIsClean DEF Backspaced
<1>4. QED
  BY <1>1, <1>2, <1>3

\* Backspace takes back exactly the character that was typed last, whatever
\* its width, and leaves the memory as it was before (password/buffer.rs:24-58,
\* secure/buffer.rs:60-90).
THEOREM BackspaceUndoesAppend ==
  ASSUME NEW b, CleanBuffer(b), NEW c, CanAppend(b, c)
  PROVE  Backspaced(Appended(b, c)) = b
<1> DEFINE data == Encode(c)
           w    == Width(c)
           d    == Appended(b, c)
           mem  == [i \in 1 .. Capacity |->
                      IF i \in b.len + 1 .. b.len + Len(data)
                      THEN data[i - b.len] ELSE b.mem[i]]
<1>1. /\ b.len \in 0 .. Capacity /\ Capacity \in Nat
      /\ b.mem \in [1 .. Capacity -> Byte]
      /\ \A i \in b.len + 1 .. Capacity : b.mem[i] = 0
      /\ b = [mem |-> b.mem, len |-> b.len]
  BY CapacityAssumption DEF CleanBuffer, Clean, Buffer
<1>2. /\ Len(data) = w /\ w \in 1 .. 4 /\ ~IsContinuation(data[1])
      /\ \A i \in 2 .. w : IsContinuation(data[i])
  BY EncodeFacts DEF CanAppend
<1>3. b.len + w + 1 <= Capacity
  BY DEF CanAppend
<1>4. d = [mem |-> mem, len |-> b.len + w] /\ d.mem = mem /\ d.len = b.len + w
  BY <1>2 DEF Appended, Pushed
<1>5. d \in Buffer
  BY AppendedIsClean DEF CleanBuffer
<1> HIDE DEF d, data, w
<1>6. /\ mem[b.len + 1] = data[1]
      /\ \A i \in 2 .. w : mem[b.len + i] = data[i]
      /\ \A i \in 1 .. Capacity : i \notin b.len + 1 .. b.len + w
                                    => mem[i] = b.mem[i]
  <2>1. \A k \in 1 .. w : b.len + k \in 1 .. Capacity
                          /\ b.len + k \in b.len + 1 .. b.len + Len(data)
                          /\ (b.len + k) - b.len = k
    BY <1>1, <1>2, <1>3
  <2>2. \A k \in 1 .. w : mem[b.len + k] = data[k]
    BY <2>1
  <2>3. 1 \in 1 .. w /\ \A i \in 2 .. w : i \in 1 .. w
    BY <1>2
  <2>4. \A i \in 1 .. Capacity : i \notin b.len + 1 .. b.len + w
                                  => mem[i] = b.mem[i]
    BY <1>2
  <2>5. QED
    BY <2>2, <2>3, <2>4
<1> HIDE DEF mem
<1> DEFINE l == LastStart(d)
<1>7. /\ l \in 1 .. b.len + w
      /\ l = 1 \/ ~IsContinuation(mem[l])
      /\ \A j \in l + 1 .. b.len + w : IsContinuation(mem[j])
  BY <1>1, <1>2, <1>4, <1>5, LastStartFacts
<1> HIDE DEF l
<1>8. l = b.len + 1
  <2>1. CASE l > b.len + 1
    <3>1. l - b.len \in 2 .. w /\ l = b.len + (l - b.len) /\ l # 1
      BY <1>1, <1>2, <1>7, <2>1
    <3>2. IsContinuation(mem[l])
      BY <1>2, <1>6, <3>1
    <3>3. QED
      BY <1>7, <3>1, <3>2
  <2>2. CASE l < b.len + 1
    <3>1. b.len + 1 \in l + 1 .. b.len + w
      BY <1>1, <1>2, <1>7, <2>2
    <3>2. QED
      BY <1>2, <1>6, <1>7, <3>1
  <2>3. QED
    BY <1>1, <1>2, <1>7, <2>1, <2>2
<1>9. Backspaced(d) = Truncated(d, b.len)
  BY <1>1, <1>2, <1>4, <1>8 DEF Backspaced, l
<1> DEFINE back == [i \in 1 .. Capacity |->
                      IF i \in b.len + 1 .. b.len + w THEN 0 ELSE mem[i]]
<1>10. Truncated(d, b.len) = [mem |-> back, len |-> b.len]
  BY <1>4 DEF Truncated
<1>11. back = b.mem
  BY <1>1, <1>6
<1>12. QED
  BY <1>1, <1>9, <1>10, <1>11 DEF d

\* A number in the digits of its encoding.
LEMMA LastDigit ==
  ASSUME NEW c \in Nat, NEW m \in Nat, m = c \div 64, NEW r \in Nat, r = c % 64
  PROVE  c = m * 64 + r
OBVIOUS

LEMMA Shifts ==
  ASSUME NEW c \in Nat
  PROVE  /\ c \div 64 \in Nat /\ c \div 4096 \in Nat /\ c \div 262144 \in Nat
         /\ (c \div 64) \div 64 = c \div 4096
         /\ (c \div 4096) \div 64 = c \div 262144
         /\ c % 64 \in Nat
BY SMT

LEMMA Digits ==
  ASSUME NEW c \in Nat, NEW m \in Nat, NEW n \in Nat, NEW o \in Nat,
         NEW c0 \in Nat, NEW m0 \in Nat, NEW n0 \in Nat,
         m = c \div 64, n = m \div 64, o = n \div 64,
         c0 = c % 64, m0 = m % 64, n0 = n % 64
  PROVE  /\ c = m * 64 + c0
         /\ c = n * 4096 + m0 * 64 + c0
         /\ c = o * 262144 + n0 * 4096 + m0 * 64 + c0
<1>1. c = m * 64 + c0 /\ m = n * 64 + m0 /\ n = o * 64 + n0
  BY LastDigit, SMT
<1>2. c = n * 4096 + m0 * 64 + c0
  BY <1>1, SMT
<1>3. c = o * 262144 + n0 * 4096 + m0 * 64 + c0
  BY <1>1, <1>2, SMT
<1>4. QED
  BY <1>1, <1>2, <1>3, SMT

\* What is read back from a character's bytes is that character
\* (password/buffer.rs:24-41, 60-65).
THEOREM EncodingIsExact ==
  ASSUME NEW c, IsChar(c)
  PROVE  Decoded(Encode(c)) = c
<1>1. c \in Nat
  BY SMT DEF IsChar
<1> DEFINE m  == c \div 64
           n  == c \div 4096
           o  == c \div 262144
           c0 == c % 64
           m0 == m % 64
           n0 == n % 64
<1>2. /\ m \in Nat /\ n \in Nat /\ o \in Nat
      /\ c0 \in Nat /\ m0 \in Nat /\ n0 \in Nat
      /\ m = c \div 64 /\ n = m \div 64 /\ o = n \div 64
      /\ c0 = c % 64 /\ m0 = m % 64 /\ n0 = n % 64
  BY <1>1, Shifts, SMT
<1>3. /\ c < 128 => Encode(c) = <<c>>
      /\ c >= 128 /\ c < 2048 => Encode(c) = <<192 + m, 128 + c0>>
      /\ c >= 2048 /\ c < 65536 =>
           Encode(c) = <<224 + n, 128 + m0, 128 + c0>>
      /\ c >= 65536 =>
           Encode(c) = <<240 + o, 128 + n0, 128 + m0, 128 + c0>>
  BY <1>1, SMT DEF Encode, Low
<1> HIDE DEF m, n, o, c0, m0, n0
<1>4. /\ c = m * 64 + c0
      /\ c = n * 4096 + m0 * 64 + c0
      /\ c = o * 262144 + n0 * 4096 + m0 * 64 + c0
  BY <1>1, <1>2, Digits, SMT
<1>5. CASE c < 128
  BY <1>1, <1>3, <1>5, SMT DEF Decoded
<1>6. CASE c >= 128 /\ c < 2048
  <2>1. Decoded(<<192 + m, 128 + c0>>) = m * 64 + c0
    BY <1>2, SMT DEF Decoded
  <2>2. QED
    BY <1>3, <1>4, <1>6, <2>1, SMT
<1>7. CASE c >= 2048 /\ c < 65536
  <2>1. Decoded(<<224 + n, 128 + m0, 128 + c0>>) = n * 4096 + m0 * 64 + c0
    BY <1>2, SMT DEF Decoded
  <2>2. QED
    BY <1>3, <1>4, <1>7, <2>1, SMT
<1>8. CASE c >= 65536
  <2>1. Decoded(<<240 + o, 128 + n0, 128 + m0, 128 + c0>>)
          = o * 262144 + n0 * 4096 + m0 * 64 + c0
    BY <1>2, SMT DEF Decoded
  <2>2. QED
    BY <1>3, <1>4, <1>8, <2>1, SMT
<1>9. QED
  BY <1>1, <1>5, <1>6, <1>7, <1>8, SMT

-----------------------------------------------------------------------------
(* The password's memory.                                                  *)

BufferInv == buffer # None => CleanBuffer(buffer)

LEMMA BufferNext == BufferInv /\ [Next]_vars => BufferInv'
<1> SUFFICES ASSUME BufferInv, [Next]_vars PROVE BufferInv'
  OBVIOUS
<1>1. CleanBuffer(Found)
  BY NewIsClean DEF BufferInv, Found
<1>2. CASE KeyChar
  BY <1>1, <1>2, AppendedIsClean DEF KeyChar, BufferInv
<1>3. CASE KeyBackspace
  BY <1>1, <1>3, BackspacedIsClean DEF KeyBackspace, BufferInv
<1>4. CASE KeyClear
  <2>1. 0 \in 0 .. Found.len
    BY <1>1, CapacityAssumption DEF CleanBuffer, Buffer
  <2>2. QED
    BY <1>1, <1>4, <2>1, TruncatedIsClean DEF KeyClear, Cleared, BufferInv
<1>5. CASE KeyEnter \/ GiveUp \/ Submit
  BY <1>5 DEF KeyEnter, GiveUp, Submit, BufferInv
<1>6. CASE Feed
  BY <1>1, <1>6, AppendedIsClean DEF Feed, BufferInv
<1>7. CASE AtPrompt \/ Begin \/ Talk \/ Answered \/ Lost \/ UNCHANGED vars
  BY <1>7 DEF AtPrompt, Begin, Talk, Answered, Lost, Over, vars, BufferInv
<1>8. QED
  BY <1>2, <1>3, <1>4, <1>5, <1>6, <1>7 DEF Next

\* For every capacity and all keys: what is erased, cleared or refused leaves
\* nothing behind the text, and a zero follows it (password/buffer.rs:19-58,
\* secure/buffer.rs:77-90).
THEOREM NothingLeftBehind == Spec => []NothingBehind
<1>1. Init => BufferInv
  BY DEF Init, BufferInv
<1>2. BufferInv => NothingBehind
  BY DEF BufferInv, NothingBehind, CleanBuffer
<1>3. QED
  BY <1>1, <1>2, BufferNext, PTL DEF Spec

-----------------------------------------------------------------------------
(* The terminal of the prompt.                                             *)

\* The disposition of the k-th signal.
Disposition(k) ==
  IF k \in undone + 1 .. installed THEN "noop" ELSE original[Prompt!InOrder[k]]

\* Where read_password() stands tells what has been changed by now.
PromptInv ==
  /\ installed \in 0 .. 3 /\ undone \in 0 .. installed
  /\ original \in [Prompt!Signal -> {"default", "ignore"}]
  /\ handler \in [Prompt!Signal -> {"default", "ignore", "noop"}]
  /\ \A k \in 1 .. 3 : handler[Prompt!InOrder[k]] = Disposition(k)
  /\ at \in {"open", "install", "silence"} => echo = TRUE /\ undone = 0
  /\ at = "open" => installed = 0
  /\ at = "install" => installed \in 0 .. 2
  /\ at \in {"silence", "allocate", "read", "restore"}
       => installed = 3 /\ undone = 0
  /\ at \in {"handlers", "returned", "killed"} => echo = TRUE
  /\ at = "returned" => undone = installed
  /\ at \in {"open", "install", "silence", "allocate", "read", "restore",
             "handlers", "returned", "killed"}

LEMMA SignalsInOrder ==
  /\ Prompt!InOrder \in [1 .. 3 -> Prompt!Signal]
  /\ \A s \in Prompt!Signal : \E k \in 1 .. 3 : s = Prompt!InOrder[k]
  /\ \A j, k \in 1 .. 3 : Prompt!InOrder[j] = Prompt!InOrder[k] => j = k
BY DEF Prompt!InOrder, Prompt!Signal

LEMMA PromptInit == Init => PromptInv
<1>1. Original \subseteq [Prompt!Signal -> {"default", "ignore"}]
  BY PathAssumption DEF Prompt!PromptAssumption
<1>2. QED
  BY <1>1, SignalsInOrder DEF Init, Prompt!Init, PromptInv, Disposition

\* The steps that change no disposition.
LEMMA PromptPlaces ==
  ASSUME PromptInv,
         UNCHANGED <<original, handler, installed, undone>>,
         \/ Prompt!Open \/ Prompt!InstallFails \/ Prompt!Silence
         \/ Prompt!Allocate \/ Prompt!Read \/ Prompt!EndOfLine
         \/ Prompt!ReadFails \/ Prompt!Restore \/ Prompt!Return
  PROVE  PromptInv'
<1>1. \A k \in 1 .. 3 : Disposition(k)' = Disposition(k)
  BY DEF Disposition
<1>2. CASE Prompt!Open
  BY <1>1, <1>2 DEF PromptInv, Prompt!Open, Prompt!Goes
<1>3. CASE Prompt!InstallFails
  BY <1>1, <1>3 DEF PromptInv, Prompt!InstallFails, Prompt!Goes
<1>4. CASE Prompt!Silence
  BY <1>1, <1>4 DEF PromptInv, Prompt!Silence, Prompt!Goes
<1>5. CASE Prompt!Allocate
  BY <1>1, <1>5 DEF PromptInv, Prompt!Allocate, Prompt!Goes
<1>6. CASE Prompt!Read \/ Prompt!ReadFails
  BY <1>1, <1>6 DEF PromptInv, Prompt!Read, Prompt!ReadFails, Prompt!Goes
<1>7. CASE Prompt!EndOfLine
  BY <1>1, <1>7 DEF PromptInv, Prompt!EndOfLine, Prompt!Goes
<1>8. CASE Prompt!Restore
  BY <1>1, <1>8 DEF PromptInv, Prompt!Restore, Prompt!Goes
<1>9. CASE Prompt!Return
  BY <1>1, <1>9 DEF PromptInv, Prompt!Return, Prompt!Owed, Prompt!Goes
<1>10. QED
  BY <1>2, <1>3, <1>4, <1>5, <1>6, <1>7, <1>8, <1>9

LEMMA PromptInstall == ASSUME PromptInv, Prompt!Install PROVE PromptInv'
<1>1. /\ at = "install" /\ installed \in 0 .. 2 /\ undone = 0 /\ echo = TRUE
      /\ installed' = installed + 1 /\ undone' = 0 /\ echo' = TRUE
      /\ original' = original
      /\ handler' = [handler EXCEPT ![Prompt!InOrder[installed + 1]] = "noop"]
      /\ at' = IF installed = 2 THEN "silence" ELSE "install"
  BY DEF PromptInv, Prompt!Install, Prompt!Goes
<1>2. handler \in [Prompt!Signal -> {"default", "ignore", "noop"}]
  BY DEF PromptInv
<1>3. installed + 1 \in 1 .. 3
  BY <1>1
<1>4. ASSUME NEW k \in 1 .. 3
      PROVE  handler'[Prompt!InOrder[k]] = Disposition(k)'
  <2>1. handler[Prompt!InOrder[k]] = Disposition(k)
    BY DEF PromptInv
  <2>2. CASE k = installed + 1
    BY <1>1, <1>2, <1>3, <2>2, SignalsInOrder DEF Disposition
  <2>3. CASE k # installed + 1
    BY <1>1, <1>2, <1>3, <2>1, <2>3, SignalsInOrder DEF Disposition
  <2>4. QED
    BY <2>2, <2>3
<1>5. handler' \in [Prompt!Signal -> {"default", "ignore", "noop"}]
  BY <1>1, <1>2
<1>6. QED
  BY <1>1, <1>3, <1>4, <1>5 DEF PromptInv

LEMMA PromptPutBack == ASSUME PromptInv, Prompt!PutBack PROVE PromptInv'
<1>1. /\ at = "handlers" /\ undone < installed /\ echo' = echo /\ at' = at
      /\ installed' = installed /\ undone' = undone + 1 /\ original' = original
      /\ handler' = [handler EXCEPT ![Prompt!InOrder[undone + 1]] =
                                       original[Prompt!InOrder[undone + 1]]]
  BY DEF Prompt!PutBack, Prompt!Owed
<1>2. /\ handler \in [Prompt!Signal -> {"default", "ignore", "noop"}]
      /\ original \in [Prompt!Signal -> {"default", "ignore"}]
      /\ installed \in 0 .. 3 /\ undone \in 0 .. installed
  BY DEF PromptInv
<1>3. undone + 1 \in 1 .. 3 /\ undone + 1 \in 0 .. installed
  BY <1>1, <1>2
<1>4. ASSUME NEW k \in 1 .. 3
      PROVE  handler'[Prompt!InOrder[k]] = Disposition(k)'
  <2>1. handler[Prompt!InOrder[k]] = Disposition(k)
    BY DEF PromptInv
  <2>2. CASE k = undone + 1
    BY <1>1, <1>2, <1>3, <2>2, SignalsInOrder DEF Disposition
  <2>3. CASE k # undone + 1
    BY <1>1, <1>2, <1>3, <2>1, <2>3, SignalsInOrder DEF Disposition
  <2>4. QED
    BY <2>2, <2>3
<1>5. handler' \in [Prompt!Signal -> {"default", "ignore", "noop"}]
  <2>1. original[Prompt!InOrder[undone + 1]] \in {"default", "ignore", "noop"}
    BY <1>2, <1>3, SignalsInOrder
  <2>2. QED
    BY <1>1, <1>2, <2>1
<1>6. QED
  BY <1>1, <1>2, <1>3, <1>4, <1>5 DEF PromptInv

\* A signal: while the echo is off none of them has its default disposition.
LEMMA PromptInterrupt == ASSUME PromptInv, Prompt!Interrupt PROVE PromptInv'
<1>1. UNCHANGED <<echo, original, handler, installed, undone>>
  BY DEF Prompt!Interrupt
<1>2. \A k \in 1 .. 3 : Disposition(k)' = Disposition(k)
  BY <1>1 DEF Disposition
<1>3. CASE at = "read" /\ at' = "restore"
  BY <1>1, <1>2, <1>3 DEF PromptInv
<1>4. ASSUME NEW s \in Prompt!Signal, handler[s] = "default", at' = "killed",
             at \notin {"returned", "killed"}
      PROVE  PromptInv'
  <2>1. PICK k \in 1 .. 3 : s = Prompt!InOrder[k]
    BY SignalsInOrder
  <2>2. Disposition(k) = "default"
    BY <1>4, <2>1 DEF PromptInv
  <2>3. ~(installed = 3 /\ undone = 0)
    BY <2>2 DEF Disposition
  <2>4. echo = TRUE
    BY <1>4, <2>3 DEF PromptInv
  <2>5. QED
    BY <1>1, <1>2, <1>4, <2>4 DEF PromptInv
<1>5. QED
  BY <1>3, <1>4 DEF Prompt!Interrupt, Prompt!Goes

LEMMA PromptNext == PromptInv /\ [Next]_vars => PromptInv'
<1> SUFFICES ASSUME PromptInv, [Next]_vars PROVE PromptInv'
  OBVIOUS
<1>1. CASE UNCHANGED promptVars
  BY <1>1 DEF PromptInv, Disposition, promptVars
<1>2. CASE Prompt!Next
  <2>1. CASE Prompt!Install \/ Prompt!PutBack \/ Prompt!Interrupt
    BY <2>1, PromptInstall, PromptPutBack, PromptInterrupt
  <2>2. CASE ~(Prompt!Install \/ Prompt!PutBack \/ Prompt!Interrupt)
    <3>1. UNCHANGED <<original, handler, installed, undone>>
      BY <1>2, <2>2
         DEF Prompt!Next, Prompt!Open, Prompt!InstallFails, Prompt!Silence,
             Prompt!Allocate, Prompt!Read, Prompt!EndOfLine, Prompt!ReadFails,
             Prompt!Restore, Prompt!Return
    <3>2. QED
      BY <1>2, <2>2, <3>1, PromptPlaces DEF Prompt!Next
  <2>3. QED
    BY <2>1, <2>2
<1>3. QED
  BY <1>1, <1>2
     DEF Next, KeyChar, KeyBackspace, KeyClear, KeyEnter, AtPrompt, Feed, GiveUp,
         Submit, Begin, Talk, Answered, Lost, Over, Quiet, vars

\* Whichever call of the prompt fails and whenever SIGINT, SIGTERM or SIGQUIT
\* comes, the process neither returns nor dies with the echo off, and it returns
\* with the dispositions it was started with, whatever they were
\* (cli.rs:40-51, 69-105).
THEOREM TerminalComesBack == Spec => []TerminalRestored
<1>1. PromptInv => TerminalRestored
  <2> SUFFICES ASSUME PromptInv PROVE TerminalRestored
    OBVIOUS
  <2>1. at \in {"returned", "killed"} => echo
    BY DEF PromptInv
  <2>2. ASSUME at = "returned" PROVE handler = original
    <3>1. \A k \in 1 .. 3 : handler[Prompt!InOrder[k]] = original[Prompt!InOrder[k]]
      BY <2>2 DEF PromptInv, Disposition
    <3>2. \A s \in Prompt!Signal : handler[s] = original[s]
      BY <3>1, SignalsInOrder
    <3>3. QED
      BY <3>2 DEF PromptInv
  <2>3. QED
    BY <2>1, <2>2 DEF TerminalRestored, Prompt!TerminalRestored
<1>2. QED
  BY <1>1, PromptInit, PromptNext, PTL DEF Spec

-----------------------------------------------------------------------------
(* The replies of a call.                                                  *)

\* A password under way, and the replies made of it.
Secret == Seq(Byte) \cup {None}

RepliesInv ==
  /\ BufferInv
  /\ sent \in Secret /\ password \in Secret
  /\ replies \in Seq(Secret)
  /\ ~residue

LEMMA BytesAreSecret ==
  ASSUME NEW b, CleanBuffer(b)
  PROVE  Bytes(b) \in Secret
<1>1. /\ b.len \in 0 .. Capacity /\ b.mem \in [1 .. Capacity -> Byte]
      /\ Capacity \in Nat
  BY CapacityAssumption DEF CleanBuffer, Buffer
<1>2. b.len \in Nat /\ \A i \in 1 .. b.len : b.mem[i] \in Byte
  BY <1>1
<1> DEFINE bytes == [i \in 1 .. b.len |-> b.mem[i]]
<1>3. bytes \in [1 .. b.len -> Byte]
  BY <1>2
<1>4. bytes \in Seq(Byte)
  BY <1>2, <1>3
<1>5. QED
  BY <1>4 DEF Bytes, Secret

\* What the conversation's steps do to the replies.
LEMMA ConversationKeepsReplies ==
  ASSUME RepliesInv, Pam!Step
  PROVE  password' \in Secret /\ replies' \in Seq(Secret) /\ ~residue'
<1>1. None \in Secret /\ <<>> \in Seq(Secret)
  BY DEF Secret
<1>2. password \in Secret /\ replies \in Seq(Secret) /\ ~residue
  BY DEF RepliesInv
<1>3. \A r \in Secret : Append(replies, r) \in Seq(Secret)
  BY <1>2
<1>4. CASE Pam!Call
  BY <1>1, <1>2, <1>4 DEF Pam!Call
<1>5. CASE Pam!Return
  <2>1. replies' = <<>> /\ UNCHANGED <<password, residue>>
    BY <1>5, Zenon DEF Pam!Return
  <2>2. QED
    BY <1>1, <1>2, <2>1
<1>6. CASE Pam!Reply
  BY <1>1, <1>2, <1>3, <1>6 DEF Pam!Reply, Pam!Taken
<1>7. CASE Pam!Name
  BY <1>1, <1>2, <1>3, <1>7 DEF Pam!Name
<1>8. CASE Pam!Notice
  BY <1>1, <1>2, <1>3, <1>8 DEF Pam!Notice
<1>9. CASE Pam!Fail
  <2>1. DOMAIN replies \ Pam!Wiped(Len(replies)) = {}
    BY <1>2 DEF Pam!Wiped
  <2>2. QED
    BY <1>1, <1>2, <1>9, <2>1 DEF Pam!Fail
<1>10. QED
  BY <1>4, <1>5, <1>6, <1>7, <1>8, <1>9 DEF Pam!Step

LEMMA RepliesNext == RepliesInv /\ [Next]_vars => RepliesInv'
<1> SUFFICES ASSUME RepliesInv, [Next]_vars PROVE RepliesInv'
  OBVIOUS
<1>1. BufferInv'
  BY BufferNext DEF RepliesInv
<1>2. None \in Secret /\ <<>> \in Seq(Secret)
  BY DEF Secret
<1>3. CleanBuffer(Found)
  BY NewIsClean DEF RepliesInv, BufferInv, Found
<1>4. CASE KeyChar \/ KeyBackspace \/ KeyClear \/ Feed \/ GiveUp
  BY <1>1, <1>4 DEF KeyChar, KeyBackspace, KeyClear, Feed, GiveUp, Quiet, pamVars,
     RepliesInv
<1>5. CASE KeyEnter
  <2>1. CleanBuffer(buffer)
    BY <1>5 DEF KeyEnter, RepliesInv, BufferInv
  <2>2. sent' \in Secret
    BY <1>2, <1>5, <2>1, BytesAreSecret DEF KeyEnter
  <2>3. QED
    BY <1>1, <1>5, <2>2 DEF KeyEnter, Quiet, pamVars, RepliesInv
<1>6. CASE Submit
  <2>1. sent' \in Secret
    BY <1>3, <1>6, BytesAreSecret DEF Submit
  <2>2. QED
    BY <1>1, <1>6, <2>1 DEF Submit, Quiet, pamVars, RepliesInv
<1>7. CASE Begin
  BY <1>1, <1>2, <1>7 DEF Begin, Pam!Begin, RepliesInv
<1>8. CASE Talk
  BY <1>1, <1>8, ConversationKeepsReplies DEF Talk, RepliesInv
<1>9. CASE Answered
  BY <1>1, <1>2, <1>9 DEF Answered, Over, Pam!End, RepliesInv
<1>10. CASE Lost
  BY <1>1, <1>2, <1>10 DEF Lost, Over, Pam!Kill, pamVars, RepliesInv
<1>11. CASE AtPrompt \/ UNCHANGED vars
  BY <1>1, <1>11 DEF AtPrompt, pamVars, vars, RepliesInv
<1>12. QED
  BY <1>4, <1>5, <1>6, <1>7, <1>8, <1>9, <1>10, <1>11 DEF Next

\* Whatever PAM calls with, and at whichever message of a call the conversation
\* fails, no reply is freed with a password in it (auth/pam_ffi.rs:182-208).
THEOREM RepliesAreWiped == Spec => []FreedIsWiped
<1>1. Init => RepliesInv
  BY DEF Init, Pam!Init, RepliesInv, BufferInv, Secret
<1>2. RepliesInv => FreedIsWiped
  BY DEF RepliesInv, FreedIsWiped, Pam!FreedIsWiped
<1>3. QED
  BY <1>1, <1>2, RepliesNext, PTL DEF Spec

-----------------------------------------------------------------------------
(* The password is handed over once.                                       *)

\* What a step of the whole does to the conversation.
LEMMA ConversationSteps ==
  ASSUME [Next]_vars
  PROVE  \/ UNCHANGED pamVars
         \/ ~talking /\ sent # None /\ Pam!Begin(sent)
         \/ Pam!Step \/ Pam!End \/ Pam!Kill
<1>1. CASE KeyChar \/ KeyBackspace \/ KeyClear \/ KeyEnter \/ AtPrompt \/ Feed
           \/ GiveUp \/ Submit \/ UNCHANGED vars
  BY <1>1 DEF KeyChar, KeyBackspace, KeyClear, KeyEnter, AtPrompt, Feed, GiveUp,
     Submit, Quiet, vars
<1>2. CASE Begin
  BY <1>2 DEF Begin, Pam!Begin
<1>3. CASE Talk \/ Answered \/ Lost
  BY <1>3, Zenon DEF Talk, Answered, Lost
<1>4. QED
  BY <1>1, <1>2, <1>3 DEF Next

\* PamConversation walks its lists and counts as Lists and FiniteSets do.
LEMMA SameCounts == \A S : Pam!Cardinality(S) = Cardinality(S)
BY DEF Pam!Cardinality, Cardinality

LEMMA SameWalks ==
  /\ \A list, keep : Pam!Retained(list, keep) = Retained(list, keep)
  /\ \A list : Pam!Total(list) = Total(list)
BY DEF Pam!Retained, Retained, Pam!Retaining, Retaining,
       Pam!Total, Total, Pam!Sums, Sums

Filled(list, j) == list[j] # None

\* The password is in one place at a time: with the helper, in one reply of the
\* call under way, or with PAM.
HandInv ==
  /\ ~talking => todo = None
  /\ todo \in Seq(Pam!Message) \cup {None}
  /\ todo = None => replies = <<>>
  /\ owned \in Seq(Secret) /\ Len(owned) <= 1
  /\ password # None => owned = <<>> /\ \A j \in DOMAIN replies : ~Filled(replies, j)
  /\ \A j, k \in DOMAIN replies : Filled(replies, j) /\ Filled(replies, k) => j = k
  /\ (\E j \in DOMAIN replies : Filled(replies, j)) => owned = <<>>

\* What PAM gets of a call's replies is not more than one of them.
LEMMA RetainedOnce ==
  ASSUME RepliesInv, HandInv
  PROVE  LET got == Retained(replies, {j \in DOMAIN replies : replies[j] # None})
         IN  /\ got \in Seq(Secret) /\ Len(got) <= 1
             /\ got # <<>> => \E j \in DOMAIN replies : Filled(replies, j)
<1> DEFINE keep   == {j \in DOMAIN replies : replies[j] # None}
           got    == Retained(replies, keep)
           places == keep \cap (1 .. Len(replies))
<1>1. replies \in Seq(Secret)
  BY DEF RepliesInv
<1>2. got \in Seq(Secret) /\ \E h : Origins(got, replies, places, h)
  BY <1>1, RetainedFacts
<1>3. \A j \in places : j \in DOMAIN replies /\ Filled(replies, j) /\ j \in Nat
  BY <1>1 DEF Filled
<1> HIDE DEF got, places
<1>4. PICK h : Origins(got, replies, places, h)
  BY <1>2
<1>5. Len(got) \in Nat /\ h \in [1 .. Len(got) -> places]
      /\ \A j, k \in 1 .. Len(got) : j < k => h[j] < h[k]
  BY <1>2, <1>4 DEF Origins
<1>6. Len(got) <= 1
  <2> SUFFICES ASSUME Len(got) >= 2 PROVE FALSE
    BY <1>5
  <2>1. 1 \in 1 .. Len(got) /\ 2 \in 1 .. Len(got)
    BY <1>5
  <2>2. h[1] \in places /\ h[2] \in places /\ h[1] < h[2]
    BY <1>5, <2>1
  <2>3. h[1] = h[2]
    BY <1>3, <2>2 DEF HandInv
  <2>4. QED
    BY <1>3, <2>2, <2>3
<1>7. ASSUME got # <<>> PROVE \E j \in DOMAIN replies : Filled(replies, j)
  <2>1. Len(got) # 0
    BY <1>2, <1>7
  <2>2. 1 \in 1 .. Len(got)
    BY <1>5, <2>1
  <2>3. h[1] \in places
    BY <1>5, <2>2
  <2>4. QED
    BY <1>3, <2>3
<1>8. QED
  BY <1>2, <1>6, <1>7 DEF got

\* A message asked for is one of PAM's, and the rest of its call remains.
LEMMA AskedOf ==
  ASSUME todo \in Seq(Pam!Message) \cup {None}, todo # None, todo # <<>>
  PROVE  /\ Head(todo) \in Pam!Message
         /\ Tail(todo) \in Seq(Pam!Message) /\ Tail(todo) # None
<1>1. None \notin Seq(Pam!Message)
  BY PathAssumption DEF Pam!ConversationAssumption
<1> DEFINE M == Pam!Message
<1> HIDE DEF M
<1>2. todo \in Seq(M) /\ todo # <<>>
  BY DEF M
<1>3. Head(todo) \in M /\ Tail(todo) \in Seq(M)
  BY <1>2
<1>4. QED
  BY <1>1, <1>3 DEF M

LEMMA StepKeepsHand ==
  ASSUME RepliesInv, HandInv, Pam!Step
  PROVE  HandInv'
<1>1. replies \in Seq(Secret) /\ <<>> \in Seq(Secret)
  BY DEF RepliesInv
<1>2. CASE Pam!Call
  <2>1. /\ todo' \in Calls /\ replies' = <<>> /\ talking
        /\ UNCHANGED <<talking, password, owned>>
    BY <1>2 DEF Pam!Call
  <2>2. todo' \in Seq(Pam!Message)
    BY <2>1, PathAssumption DEF Pam!ConversationAssumption
  <2>3. QED
    BY <2>1, <2>2 DEF HandInv, Filled
<1>3. ASSUME NEW copy, copy \in Secret, copy # None => password # None,
             replies' = Append(replies, copy), owned' = owned,
             todo # None, todo # <<>>, todo' = Tail(todo),
             talking, talking' = talking, copy # None => password' = None,
             password' # None => password # None
      PROVE  HandInv'
  <2>1. /\ Len(replies) \in Nat /\ DOMAIN replies = 1 .. Len(replies)
        /\ DOMAIN replies' = 1 .. Len(replies) + 1
        /\ replies'[Len(replies) + 1] = copy
        /\ \A j \in 1 .. Len(replies) : replies'[j] = replies[j]
    BY <1>1, <1>3
  <2>2. \A j \in DOMAIN replies' : j \in DOMAIN replies \/ j = Len(replies) + 1
    BY <2>1
  <2>3. \A j \in DOMAIN replies : Filled(replies', j) <=> Filled(replies, j)
    BY <2>1 DEF Filled
  <2>4. Filled(replies', Len(replies) + 1) => password # None /\ password' = None
    BY <1>3, <2>1 DEF Filled
  <2>5. Filled(replies', Len(replies) + 1) => copy # None
    BY <2>1 DEF Filled
  <2>6. password' # None => \A j \in DOMAIN replies' : ~Filled(replies', j)
    BY <1>3, <2>2, <2>3, <2>4 DEF HandInv
  <2>7. \A j, k \in DOMAIN replies' : Filled(replies', j) /\ Filled(replies', k) => j = k
    BY <2>2, <2>3, <2>4 DEF HandInv
  <2>8. (\E j \in DOMAIN replies' : Filled(replies', j)) => owned = <<>>
    BY <2>2, <2>3, <2>4 DEF HandInv
  <2>9. password' # None => owned = <<>>
    BY <1>3 DEF HandInv
  <2>10. todo' \in Seq(Pam!Message) /\ todo' # None
    BY <1>3, AskedOf DEF HandInv
  <2>11. QED
    BY <1>3, <2>6, <2>7, <2>8, <2>9, <2>10 DEF HandInv
<1>4. CASE Pam!Reply
  <2>1. PICK copy \in {password, None} : replies' = Append(replies, copy)
    BY <1>4 DEF Pam!Reply
  <2>2. /\ password # None /\ password' = None /\ owned' = owned
        /\ talking /\ talking' = talking /\ todo' = Tail(todo)
        /\ todo # None /\ todo # <<>>
    BY <1>4 DEF Pam!Reply, Pam!Taken, Pam!Asked
  <2>3. password \in Secret /\ None \in Secret
    BY DEF RepliesInv, Secret
  <2>4. QED
    BY <1>3, <2>1, <2>2, <2>3
<1>5. CASE Pam!Name \/ Pam!Notice
  <2>1. /\ replies' = Append(replies, None)
        /\ UNCHANGED <<talking, password, owned>>
        /\ talking /\ todo' = Tail(todo) /\ todo # None /\ todo # <<>>
    BY <1>5 DEF Pam!Name, Pam!Notice, Pam!Asked
  <2>2. None \in Secret
    BY DEF Secret
  <2>3. QED
    BY <1>3, <2>1, <2>2
<1>6. CASE Pam!Fail
  BY <1>1, <1>6 DEF Pam!Fail, HandInv, Filled
<1>7. CASE Pam!Return
  <2> DEFINE got == Retained(replies, {j \in DOMAIN replies : replies[j] # None})
  <2>1. /\ owned' = owned \o got /\ replies' = <<>> /\ todo' = None
        /\ UNCHANGED <<talking, password>>
    BY <1>7, SameWalks, Zenon DEF Pam!Return
  <2>2. /\ got \in Seq(Secret) /\ Len(got) <= 1
        /\ got # <<>> => \E j \in DOMAIN replies : Filled(replies, j)
    BY RetainedOnce
  <2> HIDE DEF got
  <2>3. CASE got = <<>>
    BY <2>1, <2>3 DEF HandInv, Filled
  <2>4. CASE got # <<>>
    <3>1. owned = <<>> /\ password = None
      BY <2>2, <2>4 DEF HandInv
    <3>2. owned' = got
      BY <2>1, <2>2, <3>1
    <3>3. QED
      BY <2>1, <2>2, <3>1, <3>2 DEF HandInv, Filled
  <2>5. QED
    BY <2>3, <2>4
<1>8. QED
  BY <1>2, <1>4, <1>5, <1>6, <1>7 DEF Pam!Step

LEMMA HandNext == RepliesInv /\ HandInv /\ [Next]_vars => HandInv'
<1> SUFFICES ASSUME RepliesInv, HandInv, [Next]_vars PROVE HandInv'
  OBVIOUS
<1>1. CASE UNCHANGED pamVars
  BY <1>1 DEF pamVars, HandInv, Filled
<1>2. CASE ~talking /\ Pam!Begin(sent)
  <2>1. replies' = <<>> /\ todo' = None /\ owned' = <<>>
    BY <1>2 DEF Pam!Begin, HandInv
  <2>2. QED
    BY <2>1 DEF HandInv, Filled
<1>3. CASE Pam!Step
  BY <1>3, StepKeepsHand
<1>4. CASE Pam!End \/ Pam!Kill
  <2>1. replies' = <<>> /\ todo' = None /\ owned' = <<>> /\ password' = None
    BY <1>4 DEF Pam!End, Pam!Kill, HandInv
  <2>2. QED
    BY <2>1 DEF HandInv, Filled
<1>5. QED
  BY <1>1, <1>2, <1>3, <1>4, ConversationSteps

\* Whatever PAM calls with, whatever is out of memory and wherever a call fails,
\* an attempt gives PAM the password once (auth/pam_ffi.rs:93-97, 147-180).
THEOREM HandedOverOnce == Spec => []HandedOnce
<1>1. Init => RepliesInv /\ HandInv
  BY DEF Init, Pam!Init, RepliesInv, BufferInv, Secret, HandInv, Filled
<1>2. RepliesInv /\ HandInv => HandedOnce
  <2> SUFFICES ASSUME RepliesInv, HandInv PROVE HandedOnce
    OBVIOUS
  <2> DEFINE filled == {j \in DOMAIN replies : replies[j] # None}
  <2>1. Len(owned) \in Nat /\ Len(owned) <= 1 /\ (owned = <<>> => Len(owned) = 0)
    BY DEF HandInv
  <2>2. CASE filled = {}
    <3>1. Cardinality(filled) = 0
      BY <2>2, FS_EmptySet
    <3>2. password # None => owned = <<>>
      BY DEF HandInv
    <3> HIDE DEF filled
    <3>3. Len(owned) + Cardinality(filled) + (IF password = None THEN 0 ELSE 1) <= 1
      BY <2>1, <3>1, <3>2
    <3>4. QED
      BY <3>3, SameCounts DEF filled, HandedOnce, Pam!HandedOnce
  <2>3. CASE filled # {}
    <3>1. PICK j \in filled : TRUE
      BY <2>3
    <3>2. filled = {j} /\ owned = <<>> /\ password = None
      BY <3>1 DEF HandInv, Filled
    <3>3. Cardinality(filled) = 1
      BY <3>2, FS_Singleton
    <3> HIDE DEF filled
    <3>4. Len(owned) + Cardinality(filled) + (IF password = None THEN 0 ELSE 1) <= 1
      BY <2>1, <3>2, <3>3
    <3>5. QED
      BY <3>4, SameCounts DEF filled, HandedOnce, Pam!HandedOnce
  <2>4. QED
    BY <2>2, <2>3
<1>3. QED
  BY <1>1, <1>2, RepliesNext, HandNext, PTL DEF Spec

-----------------------------------------------------------------------------
(* The text of the reply.                                                  *)

Letter == {"x", " ", "bad"}

LEMMA SizeIsNat ==
  ASSUME NEW text \in Seq(Letter)
  PROVE  Pam!Size(text) \in Nat
<1> DEFINE sizes == [i \in DOMAIN text |-> IF text[i] = "bad" THEN 3 ELSE 1]
<1>1. DOMAIN text = 1 .. Len(text) /\ Len(text) \in Nat
  OBVIOUS
<1>2. sizes \in [1 .. Len(text) -> Nat]
  BY <1>1
<1>3. sizes \in Seq(Nat)
  BY <1>1, <1>2
<1> HIDE DEF sizes
<1>4. Total(sizes) \in Nat
  BY <1>3, TotalIsNat
<1>5. QED
  BY <1>4, SameWalks DEF Pam!Size, sizes

LEMMA SizeOfNone == Pam!Size(<<>>) = 0
<1>1. [i \in DOMAIN <<>> |-> IF <<>>[i] = "bad" THEN 3 ELSE 1] = <<>>
  OBVIOUS
<1>2. QED
  BY <1>1, SameWalks, TotalOfNone DEF Pam!Size

LEMMA GreatestIs ==
  ASSUME NEW k \in Nat, NEW S \in SUBSET (0 .. k), S # {}
  PROVE  Pam!Max(S) \in S
<1>1. PICK m \in S : \A n \in S : n <= m
  BY GreatestBelow
<1>2. \A n \in S : m >= n
  BY <1>1
<1>3. QED
  BY <1>2 DEF Pam!Max

LEMMA LeastIs ==
  ASSUME NEW S \in SUBSET Nat, S # {}
  PROVE  Pam!Min(S) \in S
<1>1. PICK m \in S : \A n \in S : m <= n
  BY LeastNat
<1>2. QED
  BY <1>1 DEF Pam!Min

LEMMA TrimmedIs ==
  ASSUME NEW text \in Seq(Letter)
  PROVE  Pam!Trimmed(text) \in Seq(Letter)
<1> DEFINE ink == {i \in DOMAIN text : text[i] # " "}
<1>1. Len(text) \in Nat /\ ink \in SUBSET (0 .. Len(text)) /\ ink \in SUBSET Nat
      /\ ink \in SUBSET (1 .. Len(text))
  <2>1. Len(text) \in Nat /\ DOMAIN text = 1 .. Len(text)
    OBVIOUS
  <2>2. ink \in SUBSET (1 .. Len(text))
    BY <2>1, Zenon
  <2> HIDE DEF ink
  <2>3. QED
    BY <2>1, <2>2
<1>2. CASE ink = {}
  <2>1. Pam!Trimmed(text) = <<>>
    BY <1>2, Zenon DEF Pam!Trimmed
  <2>2. QED
    BY <2>1
<1>3. CASE ink # {}
  <2> HIDE DEF ink
  <2>1. Pam!Min(ink) \in 1 .. Len(text) /\ Pam!Max(ink) \in 1 .. Len(text)
    BY <1>1, <1>3, GreatestIs, LeastIs
  <2>2. SubSeq(text, Pam!Min(ink), Pam!Max(ink)) \in Seq(Letter)
    <3> DEFINE a == Pam!Min(ink)
               b == Pam!Max(ink)
    <3>1. a \in 1 .. Len(text) /\ b \in 1 .. Len(text)
      BY <2>1
    <3> HIDE DEF a, b
    <3>2. SubSeq(text, a, b) \in Seq(Letter)
      BY <3>1
    <3>3. QED
      BY <3>2 DEF a, b
  <2>3. QED
    BY <1>3, <2>2 DEF Pam!Trimmed, ink
<1>4. QED
  BY <1>2, <1>3

\* What fits is not larger than the room there is.
LEMMA FittingFits ==
  ASSUME NEW text \in Seq(Letter), NEW n \in Nat
  PROVE  /\ Pam!Fitting(text, n) \in Seq(Letter)
         /\ Pam!Size(Pam!Fitting(text, n)) <= n
<1> DEFINE K == {k \in 0 .. Len(text) : Pam!Size(SubSeq(text, 1, k)) <= n}
<1>1. Len(text) \in Nat /\ K \in SUBSET (0 .. Len(text))
  OBVIOUS
<1>2. SubSeq(text, 1, 0) = <<>>
  OBVIOUS
<1>3. 0 \in K
  <2>1. 0 \in 0 .. Len(text) /\ 0 <= n
    BY <1>1
  <2>2. Pam!Size(SubSeq(text, 1, 0)) <= n
    BY <1>2, <2>1, SizeOfNone, Zenon
  <2>3. QED
    BY <2>1, <2>2, Zenon
<1>4. Pam!Max(K) \in K
  <2> HIDE DEF K
  <2>1. QED
    BY <1>1, <1>3, GreatestIs
<1>5. PICK m \in K : m = Pam!Max(K)
  BY <1>4
<1>6. SubSeq(text, 1, m) \in Seq(Letter) /\ Pam!Size(SubSeq(text, 1, m)) <= n
  <2>1. m \in 0 .. Len(text) /\ Pam!Size(SubSeq(text, 1, m)) <= n
    BY <1>5, Zenon
  <2>2. SubSeq(text, 1, m) \in Seq(Letter)
    BY <1>1, <2>1
  <2>3. QED
    BY <2>1, <2>2
<1>7. QED
  BY <1>5, <1>6 DEF Pam!Fitting

\* The budget is not overdrawn.
TextInv ==
  /\ texts \in Seq(Nat) /\ used \in Nat
  /\ RepliesAreWhole

LEMMA RemainingIs ==
  ASSUME used \in Nat
  PROVE  /\ Pam!Remaining \in Nat
         /\ Pam!Remaining # 0 => Pam!Remaining = MaxMessage - used - Pam!Separator
<1> DEFINE left == MaxMessage - used - Pam!Separator
<1>1. MaxMessage \in Nat
  BY PathAssumption DEF Pam!ConversationAssumption
<1>2. left \in Int
  BY <1>1 DEF Pam!Separator
<1> HIDE DEF left
<1>3. \E m \in {0, left} : \A n \in {0, left} : m >= n
  <2>1. CASE left >= 0
    BY <1>2, <2>1
  <2>2. CASE ~(left >= 0)
    BY <1>2, <2>2
  <2>3. QED
    BY <2>1, <2>2
<1>4. Pam!Max({0, left}) \in {0, left} /\ Pam!Max({0, left}) >= 0
  BY <1>3 DEF Pam!Max
<1>5. Pam!Remaining = Pam!Max({0, left})
  BY DEF Pam!Remaining, left
<1>6. QED
  BY <1>2, <1>4, <1>5 DEF left

\* What is kept of a notice leaves the budget in balance.
LEMMA KeptFits ==
  ASSUME used \in Nat, NEW text \in Seq(Letter), Pam!Kept(text) # <<>>
  PROVE  /\ Pam!Size(Pam!Kept(text)) \in Nat
         /\ used + Pam!Separator + Pam!Size(Pam!Kept(text)) <= MaxMessage
<1> DEFINE room == Pam!Remaining
           cut  == SubSeq(text, 1, Pam!Min({Len(text), room}))
<1>1. /\ room \in Nat /\ MaxMessage \in Nat
      /\ room # 0 => room = MaxMessage - used - Pam!Separator
  BY RemainingIs, PathAssumption DEF Pam!ConversationAssumption
<1>2. room # 0 /\ Pam!Kept(text) = Pam!Fitting(Pam!Trimmed(cut), room)
  BY DEF Pam!Kept
<1> HIDE DEF room
<1>3. cut \in Seq(Letter)
  <2> DEFINE both == {Len(text), room}
  <2>1. both \in SUBSET Nat /\ both # {}
    BY <1>1
  <2> HIDE DEF both
  <2>2. Pam!Min(both) \in both
    BY <2>1, LeastIs
  <2>3. PICK k \in both : k = Pam!Min(both)
    BY <2>2
  <2>4. k \in Nat
    BY <2>1
  <2>5. k <= Len(text)
    <3>1. \E m \in both : \A n \in both : m <= n
      BY <2>1, LeastNat
    <3>2. \A n \in both : Pam!Min(both) <= n
      BY <3>1 DEF Pam!Min
    <3>3. QED
      BY <2>3, <3>2 DEF both
  <2>6. SubSeq(text, 1, k) \in Seq(Letter)
    BY <2>4, <2>5
  <2>7. QED
    BY <2>3, <2>6 DEF both
<1> HIDE DEF cut
<1>4. Pam!Trimmed(cut) \in Seq(Letter)
  BY <1>3, TrimmedIs
<1>5. /\ Pam!Kept(text) \in Seq(Letter)
      /\ Pam!Size(Pam!Kept(text)) <= room
  BY <1>1, <1>2, <1>4, FittingFits
<1>6. Pam!Size(Pam!Kept(text)) \in Nat
  BY <1>5, SizeIsNat
<1>7. Pam!Separator \in {0, 1}
  BY DEF Pam!Separator
<1>8. QED
  BY <1>1, <1>2, <1>5, <1>6, <1>7

LEMMA NoticeKeepsText ==
  ASSUME HandInv, TextInv, Pam!Notice
  PROVE  TextInv'
<1> DEFINE text == Head(todo).text
           kept == Pam!Kept(text)
<1>1. Head(todo) \in Pam!Message
  BY AskedOf DEF HandInv, Pam!Notice, Pam!Asked
<1>2. text \in Seq(Letter)
  BY <1>1 DEF Pam!Message, Letter
<1>3. \/ UNCHANGED <<texts, used>>
      \/ /\ kept # <<>> /\ texts' = Append(texts, Pam!Size(kept))
         /\ used' = used + Pam!Separator + Pam!Size(kept)
  BY DEF Pam!Notice
<1> HIDE DEF text
<1>4. CASE UNCHANGED <<texts, used>>
  BY <1>4 DEF TextInv, RepliesAreWhole, Pam!RepliesAreWhole, Pam!Joined
<1>5. CASE /\ kept # <<>> /\ texts' = Append(texts, Pam!Size(kept))
           /\ used' = used + Pam!Separator + Pam!Size(kept)
  <2> DEFINE size == Pam!Size(kept)
             n    == Len(texts)
  <2>1. size \in Nat /\ used + Pam!Separator + size <= MaxMessage
    BY <1>2, <1>5, KeptFits DEF TextInv
  <2> HIDE DEF kept, size
  <2>2. /\ texts \in Seq(Nat) /\ used \in Nat
        /\ used = Total(texts) + (IF texts = <<>> THEN 0 ELSE Len(texts) - 1)
    BY SameWalks DEF TextInv, RepliesAreWhole, Pam!RepliesAreWhole, Pam!Joined
  <2>3. /\ texts' = Append(texts, size) /\ used' = used + Pam!Separator + size
    BY <1>5 DEF size
  <2>4. /\ texts' \in Seq(Nat) /\ texts' # <<>> /\ Len(texts') = n + 1
        /\ n \in Nat /\ (texts = <<>> => n = 0)
    BY <2>1, <2>2, <2>3
  <2>5. Total(texts') = Total(texts) + size /\ Total(texts) \in Nat
    BY <2>1, <2>2, <2>3, TotalOfMore, TotalIsNat
  <2>6. Pam!Joined' = Total(texts') + n
    BY <2>4, <2>5, SameWalks DEF Pam!Joined
  <2>7. CASE texts = <<>>
    <3>1. used = Total(texts) /\ Pam!Separator = 0 /\ n = 0
      BY <2>2, <2>4, <2>5, <2>7 DEF Pam!Separator
    <3>2. used' = Pam!Joined'
      BY <2>1, <2>2, <2>3, <2>5, <2>6, <3>1
    <3>3. QED
      BY <2>1, <2>2, <2>3, <2>4, <3>1, <3>2
         DEF TextInv, RepliesAreWhole, Pam!RepliesAreWhole
  <2>8. CASE texts # <<>>
    <3>1. used = Total(texts) + n - 1 /\ Pam!Separator = 1
      BY <2>2, <2>8 DEF Pam!Separator
    <3>2. used' = Pam!Joined'
      BY <2>1, <2>2, <2>3, <2>4, <2>5, <2>6, <3>1
    <3>3. QED
      BY <2>1, <2>2, <2>3, <2>4, <3>1, <3>2
         DEF TextInv, RepliesAreWhole, Pam!RepliesAreWhole
  <2>9. QED
    BY <2>7, <2>8
<1>6. QED
  BY <1>3, <1>4, <1>5

LEMMA NoTextYet == texts = <<>> /\ used = 0 => TextInv
<1>1. MaxMessage \in Nat
  BY PathAssumption DEF Pam!ConversationAssumption
<1>2. Total(<<>>) = 0 /\ <<>> \in Seq(Nat)
  BY TotalOfNone
<1>3. QED
  BY <1>1, <1>2, SameWalks
     DEF TextInv, RepliesAreWhole, Pam!RepliesAreWhole, Pam!Joined

LEMMA TextNext == HandInv /\ TextInv /\ [Next]_vars => TextInv'
<1> SUFFICES ASSUME HandInv, TextInv, [Next]_vars PROVE TextInv'
  OBVIOUS
<1>1. CASE UNCHANGED <<texts, used>>
  BY <1>1 DEF TextInv, RepliesAreWhole, Pam!RepliesAreWhole, Pam!Joined
<1>2. CASE texts' = <<>> /\ used' = 0
  <2>1. (texts = <<>> /\ used = 0 => TextInv)'
    BY NoTextYet, PathAssumption, PTL
  <2>2. QED
    BY <1>2, <2>1
<1>3. CASE UNCHANGED pamVars \/ Pam!Call \/ Pam!Reply \/ Pam!Fail \/ Pam!Name
           \/ Pam!Return
  <2>1. UNCHANGED <<texts, used>>
    BY <1>3, Zenon DEF pamVars, Pam!Call, Pam!Reply, Pam!Fail, Pam!Name, Pam!Return
  <2>2. QED
    BY <1>1, <2>1
<1>4. CASE Pam!Begin(sent) \/ Pam!End \/ Pam!Kill
  <2>1. texts' = <<>> /\ used' = 0
    BY <1>4, Zenon DEF Pam!Begin, Pam!End, Pam!Kill
  <2>2. QED
    BY <1>2, <2>1
<1>5. CASE Pam!Notice
  BY <1>5, NoticeKeepsText
<1>6. QED
  BY <1>3, <1>4, <1>5, ConversationSteps DEF Pam!Step

\* However many notices PAM sends and whatever is in them: the budget counts
\* what the joined text will be, to the byte, and the text fits the reply
\* (auth/pam_ffi.rs:35-36, 99-118, auth/ipc.rs:127-136).
THEOREM RepliesFit == Spec => []RepliesAreWhole
<1>1. Init => RepliesInv /\ HandInv /\ TextInv
  <2>1. Init => RepliesInv /\ HandInv
    BY DEF Init, Pam!Init, RepliesInv, BufferInv, Secret, HandInv, Filled
  <2>2. QED
    BY <2>1, NoTextYet DEF Init, Pam!Init
<1>2. TextInv => RepliesAreWhole
  BY DEF TextInv
<1>3. QED
  BY <1>1, <1>2, RepliesNext, HandNext, TextNext, PTL DEF Spec
-----------------------------------------------------------------------------
(* Reading UTF-8.                                                          *)

\* Every character ends somewhere.
LEMMA PieceEnds ==
  ASSUME NEW bytes \in Seq(Byte), NEW i \in DOMAIN bytes
  PROVE  \E j \in i .. Len(bytes) : EndsAt(bytes, i, j)
<1> DEFINE n    == Len(bytes)
           next == {k \in i + 1 .. n + 1 : k = n + 1 \/ k \in Starts(bytes)}
<1>1. n \in Nat /\ i \in 1 .. n
  OBVIOUS
<1> HIDE DEF n
<1>2. next \in SUBSET Nat /\ n + 1 \in next
  BY <1>1
<1>3. PICK m \in next : \A k \in next : m <= k
  BY <1>2, LeastNat
<1>4. m \in i + 1 .. n + 1 /\ (m = n + 1 \/ m \in Starts(bytes))
  OBVIOUS
<1>5. m - 1 \in i .. n /\ (m - 1) + 1 = m
  BY <1>1, <1>4
<1>6. \A k \in i + 1 .. m - 1 : k \notin Starts(bytes)
  <2> SUFFICES ASSUME NEW k \in i + 1 .. m - 1, k \in Starts(bytes) PROVE FALSE
    OBVIOUS
  <2>1. k \in i + 1 .. n + 1 /\ ~(m <= k)
    BY <1>1, <1>4
  <2>2. k \in next
    BY <2>1
  <2>3. QED
    BY <1>3, <2>1, <2>2
<1>7. EndsAt(bytes, i, m - 1)
  BY <1>4, <1>5, <1>6 DEF EndsAt, n
<1>8. QED
  BY <1>5, <1>7 DEF n

\* And at one place only.
LEMMA PieceIs ==
  ASSUME NEW bytes \in Seq(Byte), NEW i \in DOMAIN bytes,
         NEW j \in i .. Len(bytes), EndsAt(bytes, i, j)
  PROVE  Piece(bytes, i) = SubSeq(bytes, i, j)
<1> DEFINE l == CHOOSE l \in i .. Len(bytes) : EndsAt(bytes, i, l)
<1>1. l \in i .. Len(bytes) /\ EndsAt(bytes, i, l)
  OBVIOUS
<1>2. i \in 1 .. Len(bytes) /\ Len(bytes) \in Nat
  OBVIOUS
<1>3. Piece(bytes, i) = SubSeq(bytes, i, l)
  BY DEF Piece
<1> HIDE DEF l
<1>4. ASSUME NEW a \in i .. Len(bytes), NEW b \in i .. Len(bytes),
             EndsAt(bytes, i, a), EndsAt(bytes, i, b)
      PROVE  ~(a < b)
  <2> SUFFICES ASSUME a < b PROVE FALSE
    OBVIOUS
  <2>1. a + 1 \in i + 1 .. b /\ a + 1 # Len(bytes) + 1
    BY <1>2
  <2>2. QED
    BY <1>4, <2>1 DEF EndsAt
<1>5. ~(j < l) /\ ~(l < j)
  BY <1>1, <1>4
<1>6. j = l
  BY <1>1, <1>2, <1>5
<1>7. QED
  BY <1>3, <1>6

-----------------------------------------------------------------------------
(* The line of --auth-test.                                                *)

\* The prompt's buffers are those of PasswordBuffer.
LEMMA SameBuffers ==
  /\ Prompt!NewBuffer = NewBuffer
  /\ \A b, n : Prompt!Truncated(b, n) = Truncated(b, n)
  /\ \A b, data : /\ Prompt!Pushed(b, data) = Pushed(b, data)
                  /\ Prompt!Fits(b, data) = Fits(b, data)
  /\ \A b : Prompt!Bytes(b) = Bytes(b)
BY DEF Prompt!NewBuffer, NewBuffer, Prompt!Truncated, Truncated,
       Prompt!Pushed, Pushed, Prompt!Fits, Fits, Prompt!Bytes, Bytes

LEMMA SameReading ==
  \A bytes : Prompt!IsUtf8(bytes) <=> IsUtf8(bytes)
BY DEF Prompt!IsUtf8, IsUtf8, Prompt!IsChar, IsChar, Prompt!Encode, Encode,
       Prompt!Low, Low, Prompt!Decoded, Decoded, Prompt!Piece, Piece,
       Prompt!EndsAt, EndsAt, Prompt!Starts, Starts,
       Prompt!IsContinuation, IsContinuation
LEMMA BufferFacts ==
  ASSUME NEW b \in Buffer
  PROVE  /\ b.len \in 0 .. Capacity /\ b.len \in Nat /\ Capacity \in Nat
         /\ b.mem \in [1 .. Capacity -> Byte]
         /\ Bytes(b) \in Seq(Byte) /\ Len(Bytes(b)) = b.len
         /\ DOMAIN Bytes(b) = 1 .. b.len
         /\ \A i \in 1 .. b.len : Bytes(b)[i] = b.mem[i]
<1>1. /\ b.len \in 0 .. Capacity /\ b.mem \in [1 .. Capacity -> Byte]
      /\ Capacity \in Nat /\ b.len \in Nat
  BY CapacityAssumption DEF Buffer
<1>2. \A i \in 1 .. b.len : b.mem[i] \in Byte
  BY <1>1
<1> DEFINE bytes == [i \in 1 .. b.len |-> b.mem[i]]
<1>3. bytes \in [1 .. b.len -> Byte]
  BY <1>2
<1>4. bytes \in Seq(Byte) /\ Len(bytes) = b.len /\ DOMAIN bytes = 1 .. b.len
  BY <1>1, <1>3
<1>5. QED
  BY <1>1, <1>4 DEF Bytes

\* What has been fed is what the line begins with, up to a character's end.
FedInv ==
  /\ fed \in 0 .. line.len /\ Found.len = fed
  /\ \A k \in 1 .. fed : Found.mem[k] = line.mem[k]
  /\ fed + 1 \in Starts(Bytes(line)) \cup {line.len + 1}

LineInv ==
  /\ line \in Buffer
  /\ result = "ok" => /\ at \in {"restore", "handlers", "returned", "killed"}
                      /\ IsUtf8(Bytes(line))
  /\ front = "prompt" => buffer = None /\ fed = 0
  /\ front \in {"prompt", "feed"} => sent = None
  /\ front = "feed" => result = "ok" /\ FedInv
  /\ LineIsSent

LEMMA NoneIsNoBuffer == None \notin Buffer
BY PathAssumption

LEMMA NewIsBuffer == NewBuffer \in Buffer
BY NewIsClean DEF CleanBuffer

LEMMA PushedIsBuffer ==
  ASSUME NEW b \in Buffer, NEW data \in Seq(Byte), Fits(b, data)
  PROVE  Pushed(b, data) \in Buffer
<1>1. /\ b.len \in 0 .. Capacity /\ b.mem \in [1 .. Capacity -> Byte]
      /\ Capacity \in Nat /\ b.len \in Nat
  BY BufferFacts
<1> DEFINE w   == Len(data)
           mem == [i \in 1 .. Capacity |->
                     IF i \in b.len + 1 .. b.len + w
                     THEN data[i - b.len] ELSE b.mem[i]]
<1>2. Pushed(b, data) = [mem |-> mem, len |-> b.len + w]
  BY DEF Pushed
<1>3. w \in Nat /\ \A k \in 1 .. w : data[k] \in Byte
  BY ElementOfSeq
<1>4. b.len + w \in 0 .. Capacity
  BY <1>1, <1>3 DEF Fits
<1> HIDE DEF w
<1>5. mem \in [1 .. Capacity -> Byte]
  BY <1>1, <1>3
<1> HIDE DEF mem
<1>6. QED
  BY <1>2, <1>4, <1>5 DEF Buffer

LEMMA TruncatedIsBuffer ==
  ASSUME NEW b \in Buffer, NEW n \in 0 .. b.len
  PROVE  Truncated(b, n) \in Buffer
<1>1. /\ b.len \in 0 .. Capacity /\ b.mem \in [1 .. Capacity -> Byte]
      /\ Capacity \in Nat /\ b.len \in Nat
  BY BufferFacts
<1> DEFINE mem == [i \in 1 .. Capacity |->
                     IF i \in n + 1 .. b.len THEN 0 ELSE b.mem[i]]
<1>2. Truncated(b, n) = [mem |-> mem, len |-> n]
  BY DEF Truncated
<1>3. 0 \in Byte
  BY DEF Byte
<1>4. mem \in [1 .. Capacity -> Byte]
  BY <1>1, <1>3
<1>5. n \in 0 .. Capacity
  BY <1>1
<1> HIDE DEF mem
<1>6. QED
  BY <1>2, <1>4, <1>5 DEF Buffer

\* The steps of the prompt: the line is read whole before it is judged.
PromptLine ==
  /\ line \in Buffer
  /\ result = "ok" => /\ at \in {"restore", "handlers", "returned", "killed"}
                      /\ IsUtf8(Bytes(line))

LEMMA PromptKeepsLine ==
  ASSUME PromptLine, Prompt!Next
  PROVE  PromptLine'
<1>1. CASE Prompt!Read
  <2>1. at = "read" /\ result # "ok"
    BY <1>1 DEF Prompt!Read, PromptLine
  <2>2. PICK byte \in Typing :
          \/ /\ Prompt!Fits(line, <<byte>>) /\ line' = Prompt!Pushed(line, <<byte>>)
             /\ result' = result
          \/ line' = line /\ result' = "failed"
    BY <1>1 DEF Prompt!Read, Prompt!Goes
  <2>3. <<byte>> \in Seq(Byte)
    BY PathAssumption DEF Prompt!PromptAssumption, Prompt!Byte, Byte
  <2>4. line' \in Buffer
    BY <2>2, <2>3, SameBuffers, PushedIsBuffer DEF PromptLine
  <2>5. QED
    BY <2>1, <2>2, <2>4 DEF PromptLine
<1>2. CASE Prompt!EndOfLine
  <2>1. line' \in {line, Truncated(line, line.len - 1)} /\ (line' # line => line.len > 0)
    BY <1>2, SameBuffers DEF Prompt!EndOfLine, Prompt!Stripped
  <2>2. line' \in Buffer
    <3>1. line.len > 0 => line.len - 1 \in 0 .. line.len
      BY BufferFacts DEF PromptLine
    <3>2. QED
      BY <2>1, <3>1, TruncatedIsBuffer DEF PromptLine
  <2>3. at' = "restore" /\ (result' = "ok" => IsUtf8(Bytes(line')))
    BY <1>2, SameBuffers, SameReading DEF Prompt!EndOfLine, Prompt!Goes
  <2>4. QED
    BY <2>2, <2>3 DEF PromptLine
<1>3. CASE Prompt!Restore \/ Prompt!PutBack \/ Prompt!Return
  BY <1>3 DEF Prompt!Restore, Prompt!PutBack, Prompt!Return, Prompt!Goes, PromptLine
<1>4. CASE Prompt!Interrupt
  BY <1>4 DEF Prompt!Interrupt, Prompt!Goes, PromptLine
<1>5. CASE Prompt!Open \/ Prompt!Install \/ Prompt!InstallFails \/ Prompt!Silence
           \/ Prompt!Allocate \/ Prompt!ReadFails
  BY <1>5 DEF Prompt!Open, Prompt!Install, Prompt!InstallFails, Prompt!Silence,
     Prompt!Allocate, Prompt!ReadFails, Prompt!Goes, PromptLine
<1>6. QED
  BY <1>1, <1>2, <1>3, <1>4, <1>5 DEF Prompt!Next

\* One more character of the line is fed.
LEMMA FeedKeepsLine ==
  ASSUME BufferInv, LineInv, Feed, front' = "feed"
  PROVE  FedInv'
<1> DEFINE all   == Bytes(line)
           piece == Piece(all, fed + 1)
           c     == Decoded(piece)
           b     == Found
           w     == Len(piece)
<1>1. front = "feed" /\ fed < line.len /\ UNCHANGED line
  BY DEF Feed, Quiet, promptVars
<1>2. line \in Buffer /\ IsUtf8(all) /\ FedInv
  BY <1>1 DEF LineInv
<1>3. /\ line.len \in Nat /\ all \in Seq(Byte) /\ Len(all) = line.len
      /\ DOMAIN all = 1 .. line.len
      /\ \A i \in 1 .. line.len : all[i] = line.mem[i]
  BY <1>2, BufferFacts
<1>4. CleanBuffer(b) /\ b \in Buffer
  BY NewIsClean DEF BufferInv, Found, CleanBuffer
<1>5. /\ fed \in 0 .. line.len /\ b.len = fed
      /\ \A k \in 1 .. fed : b.mem[k] = line.mem[k]
      /\ fed + 1 \in Starts(all)
  BY <1>1, <1>2, <1>3 DEF FedInv
<1>6. IsChar(c) /\ Encode(c) = piece
  BY <1>2, <1>5 DEF IsUtf8
<1>7. CanAppend(b, c) /\ buffer' = Appended(b, c) /\ fed' = fed + w
  BY <1>1 DEF Feed, Refuses
<1>8. w \in 1 .. 4
  BY <1>6, EncodeFacts
<1>9. fed + 1 \in DOMAIN all
  BY <1>5 DEF Starts
<1> HIDE DEF all, c
<1>10. PICK j \in fed + 1 .. Len(all) : EndsAt(all, fed + 1, j)
  BY <1>3, <1>9, PieceEnds
<1>11. piece = SubSeq(all, fed + 1, j)
  BY <1>3, <1>9, <1>10, PieceIs
<1>12. /\ w = j - fed /\ j \in fed + 1 .. line.len
       /\ \A k \in 1 .. w : piece[k] = all[fed + k]
  <2> HIDE DEF piece
  <2>1. j \in fed + 1 .. line.len /\ fed \in Nat
    BY <1>3, <1>5, <1>10
  <2>2. /\ Len(SubSeq(all, fed + 1, j)) = j - fed
        /\ \A k \in 1 .. j - fed : SubSeq(all, fed + 1, j)[k] = all[fed + k]
    BY <1>3, <2>1
  <2>3. QED
    BY <1>11, <2>1, <2>2
<1> HIDE DEF piece, w
<1>13. fed' = j /\ j \in 0 .. line.len
  BY <1>5, <1>7, <1>12
<1>14. j + 1 \in Starts(all) \cup {line.len + 1}
  BY <1>3, <1>10 DEF EndsAt
<1>15. /\ buffer'.len = j
       /\ \A k \in 1 .. j : buffer'.mem[k] = line.mem[k]
  <2> DEFINE mem == [i \in 1 .. Capacity |->
                       IF i \in b.len + 1 .. b.len + w
                       THEN piece[i - b.len] ELSE b.mem[i]]
  <2>1. buffer' = [mem |-> mem, len |-> b.len + w]
    BY <1>6, <1>7 DEF Appended, Pushed, w
  <2>2. line.len <= Capacity /\ Capacity \in Nat
    BY <1>2, BufferFacts
  <2>3. ASSUME NEW k \in 1 .. j PROVE mem[k] = line.mem[k]
    <3>1. k \in 1 .. Capacity /\ k \in 1 .. line.len
      BY <1>3, <1>12, <2>2
    <3>2. CASE k <= fed
      BY <1>5, <3>1, <3>2
    <3>3. CASE k > fed
      <4>1. k \in b.len + 1 .. b.len + w /\ k - fed \in 1 .. w
        BY <1>5, <1>12, <3>3
      <4>2. mem[k] = piece[k - fed]
        BY <1>5, <3>1, <4>1
      <4>3. fed + (k - fed) = k
        BY <1>5
      <4>4. piece[k - fed] = all[k]
        BY <1>12, <4>1, <4>3
      <4>5. QED
        BY <1>3, <3>1, <4>2, <4>4
    <3>4. QED
      BY <1>5, <3>1, <3>2, <3>3
  <2> HIDE DEF mem
  <2>4. b.len + w = j
    BY <1>5, <1>12
  <2>5. QED
    BY <2>1, <2>3, <2>4
<1>16. buffer' # None
  <2>1. CleanBuffer(Appended(b, c))
    BY <1>4, <1>7, AppendedIsClean
  <2>2. QED
    BY <1>7, <1>13, <1>15, NoneIsNoBuffer, <2>1 DEF CleanBuffer
<1>17. Found' = buffer'
  BY <1>16 DEF Found
<1>18. QED
  BY <1>1, <1>13, <1>14, <1>15, <1>17 DEF FedInv, all

LEMMA LineNext == BufferInv /\ LineInv /\ [Next]_vars => LineInv'
<1> SUFFICES ASSUME BufferInv, LineInv, [Next]_vars PROVE LineInv'
  OBVIOUS
<1>1. CASE KeyChar \/ KeyBackspace \/ KeyClear \/ KeyEnter
  <2>1. front = "lock" /\ front' = front /\ UNCHANGED promptVars
    BY <1>1 DEF KeyChar, KeyBackspace, KeyClear, KeyEnter, Idle, Quiet
  <2>2. QED
    BY <2>1 DEF LineInv, LineIsSent, promptVars
<1>2. CASE AtPrompt
  <2>1. PromptLine'
    BY <1>2, PromptKeepsLine DEF AtPrompt, LineInv, PromptLine
  <2>2. /\ front = "prompt" /\ buffer = None /\ fed = 0 /\ sent = None
        /\ UNCHANGED <<buffer, fed, sent>>
        /\ front' \in {"prompt", "feed", "over"}
        /\ front' = "feed" => result' = "ok"
    BY <1>2 DEF AtPrompt, LineInv
  <2>3. Found' = NewBuffer
    BY <2>2 DEF Found
  <2>4. FedInv'
    <3>1. line' \in Buffer
      BY <2>1 DEF PromptLine
    <3>2. /\ line'.len \in Nat /\ DOMAIN Bytes(line') = 1 .. line'.len
      BY <3>1, BufferFacts
    <3>3. 1 \in Starts(Bytes(line')) \cup {line'.len + 1}
      BY <3>2 DEF Starts
    <3>4. QED
      BY <2>2, <2>3, <3>2, <3>3 DEF FedInv, NewBuffer
  <2>5. QED
    BY <2>1, <2>2, <2>4 DEF LineInv, PromptLine, LineIsSent
<1>3. CASE Feed
  <2>1. /\ front = "feed" /\ front' \in {"feed", "over"} /\ sent' = sent
        /\ UNCHANGED promptVars
    BY <1>3 DEF Feed, Quiet
  <2>2. front' = "feed" => FedInv'
    BY <1>3, FeedKeepsLine
  <2>3. QED
    BY <2>1, <2>2 DEF LineInv, LineIsSent, promptVars
<1>4. CASE GiveUp
  BY <1>4 DEF GiveUp, Quiet, LineInv, LineIsSent, promptVars
<1>5. CASE Submit
  <2>1. /\ front = "feed" /\ fed = line.len /\ sent' = Bytes(Found)
        /\ front' = "test" /\ UNCHANGED promptVars
    BY <1>5 DEF Submit, Quiet
  <2>2. /\ Found.len = line.len
        /\ \A k \in 1 .. line.len : Found.mem[k] = line.mem[k]
    BY <2>1 DEF LineInv, FedInv
  <2>3. Bytes(Found) = Bytes(line)
    BY <2>2 DEF Bytes
  <2>4. QED
    BY <2>1, <2>3 DEF LineInv, LineIsSent, promptVars
<1>6. CASE Begin \/ Talk
  <2>1. UNCHANGED <<front, buffer, fed, sent, promptVars>>
    BY <1>6 DEF Begin, Talk
  <2>2. QED
    BY <2>1 DEF LineInv, FedInv, Found, LineIsSent, promptVars
<1>7. CASE Answered \/ Lost
  <2>1. /\ sent' = None /\ UNCHANGED <<buffer, fed, promptVars>>
        /\ front' = IF front = "test" THEN "over" ELSE front
    BY <1>7 DEF Answered, Lost, Over
  <2>2. QED
    BY <2>1 DEF LineInv, FedInv, Found, LineIsSent, promptVars
<1>8. CASE UNCHANGED vars
  BY <1>8 DEF vars, LineInv, FedInv, Found, LineIsSent, promptVars
<1>9. QED
  BY <1>1, <1>2, <1>3, <1>4, <1>5, <1>6, <1>7, <1>8 DEF Next

\* Whatever is typed and whatever the capacity: --auth-test sends the bytes of
\* the line, fed a character at a time, or nothing (cli.rs:94-135, 297-317).
THEOREM LineGoesWhole == Spec => []LineIsSent
<1>1. Init => BufferInv /\ LineInv
  <2>1. NewBuffer \in Buffer
    BY NewIsBuffer
  <2>2. QED
    BY <2>1, SameBuffers DEF Init, Prompt!Init, BufferInv, LineInv, LineIsSent
<1>2. LineInv => LineIsSent
  BY DEF LineInv
<1>3. QED
  BY <1>1, <1>2, BufferNext, LineNext, PTL DEF Spec
-----------------------------------------------------------------------------
(* The text that bytes stand for.                                          *)

LEMMA DecodedIsInt ==
  ASSUME NEW piece \in Seq(Byte)
  PROVE  Decoded(piece) \in Int
<1>1. Len(piece) \in Nat /\ \A k \in 1 .. Len(piece) : piece[k] \in Int
  <2>1. \A k \in 1 .. Len(piece) : piece[k] \in Byte
    BY ElementOfSeq
  <2>2. Len(piece) \in Nat
    OBVIOUS
  <2>3. Byte \subseteq Int
    BY DEF Byte
  <2>4. QED
    BY <2>1, <2>2, <2>3
<1>2. CASE Len(piece) = 1
  BY <1>1, <1>2, SMT DEF Decoded
<1>3. CASE Len(piece) = 2
  <2>1. piece[1] \in Int /\ piece[2] \in Int
    BY <1>1, <1>3
  <2>2. QED
    BY <1>3, <2>1, SMT DEF Decoded
<1>4. CASE Len(piece) = 3
  <2>1. piece[1] \in Int /\ piece[2] \in Int /\ piece[3] \in Int
    BY <1>1, <1>4
  <2>2. QED
    BY <1>4, <2>1, SMT DEF Decoded
<1>5. CASE Len(piece) = 4
  <2>1. piece[1] \in Int /\ piece[2] \in Int /\ piece[3] \in Int /\ piece[4] \in Int
    BY <1>1, <1>5
  <2>2. QED
    BY <1>5, <2>1, SMT DEF Decoded
<1>6. CASE Len(piece) \notin 1 .. 4
  BY <1>1, <1>6, SMT DEF Decoded
<1>7. QED
  BY <1>1, <1>2, <1>3, <1>4, <1>5, <1>6

LEMMA PieceIsBytes ==
  ASSUME NEW bytes \in Seq(Byte), NEW i \in DOMAIN bytes
  PROVE  Piece(bytes, i) \in Seq(Byte)
<1>1. PICK j \in i .. Len(bytes) : EndsAt(bytes, i, j)
  BY PieceEnds
<1>2. Piece(bytes, i) = SubSeq(bytes, i, j)
  BY <1>1, PieceIs
<1>3. i \in 1 .. Len(bytes) /\ j \in 1 .. Len(bytes)
  OBVIOUS
<1>4. SubSeq(bytes, i, j) \in Seq(Byte)
  <2> DEFINE B == Byte
  <2> HIDE DEF B
  <2>1. bytes \in Seq(B)
    BY DEF B
  <2>2. SubSeq(bytes, i, j) \in Seq(B)
    BY <1>3, <2>1
  <2>3. QED
    BY <2>2 DEF B
<1>5. QED
  BY <1>2, <1>4

LEMMA ReadingsAre ==
  ASSUME NEW bytes \in Seq(Byte)
  PROVE  /\ Readings(bytes) \in Seq(Int) /\ Len(Readings(bytes)) = Len(bytes)
         /\ \A i \in DOMAIN bytes : Readings(bytes)[i] = Decoded(Piece(bytes, i))
<1> DEFINE n    == Len(bytes)
           list == [i \in DOMAIN bytes |-> Decoded(Piece(bytes, i))]
<1>1. n \in Nat /\ DOMAIN bytes = 1 .. n
  OBVIOUS
<1>2. \A i \in DOMAIN bytes : Decoded(Piece(bytes, i)) \in Int
  BY PieceIsBytes, DecodedIsInt
<1> HIDE DEF n
<1>3. list \in [1 .. n -> Int]
  BY <1>1, <1>2
<1>4. list \in Seq(Int) /\ Len(list) = n
  BY <1>1, <1>3
<1>5. QED
  BY <1>4 DEF Readings, n

\* What is read one byte after the other.
LEMMA ReadingIs ==
  ASSUME NEW bytes \in Seq(Byte)
  PROVE  LET r == Retaining(Readings(bytes), Starts(bytes))
         IN  /\ r \in [0 .. Len(bytes) -> Seq(Int)] /\ r[0] = <<>>
             /\ r[Len(bytes)] = Chars(bytes)
             /\ \A i \in 1 .. Len(bytes) :
                  r[i] = IF i \in Starts(bytes)
                         THEN Append(r[i - 1], Decoded(Piece(bytes, i)))
                         ELSE r[i - 1]
<1> DEFINE list == Readings(bytes)
           keep == Starts(bytes)
           r    == Retaining(list, keep)
<1>1. list \in Seq(Int) /\ Len(list) = Len(bytes)
      /\ \A i \in DOMAIN bytes : list[i] = Decoded(Piece(bytes, i))
  BY ReadingsAre
<1>2. DOMAIN bytes = 1 .. Len(bytes)
  OBVIOUS
<1>3. r[Len(bytes)] = Chars(bytes)
  BY <1>1 DEF Chars, Retained
<1> HIDE DEF list, keep
<1>4. /\ r \in [0 .. Len(list) -> Seq(Int)] /\ r[0] = <<>>
      /\ \A i \in 1 .. Len(list) :
           r[i] = IF i \in keep THEN Append(r[i - 1], list[i]) ELSE r[i - 1]
  BY <1>1, RetainingIs
<1> HIDE DEF r
<1>5. \A i \in 1 .. Len(bytes) :
        r[i] = IF i \in keep THEN Append(r[i - 1], Decoded(Piece(bytes, i)))
               ELSE r[i - 1]
  BY <1>1, <1>2, <1>4
<1>6. QED
  BY <1>1, <1>3, <1>4, <1>5 DEF r, keep, list

\* A text that is cut at the start of a character begins as it did.
LEMMA SameBeginning ==
  ASSUME NEW bytes \in Seq(Byte), NEW l \in Nat, l < Len(bytes),
         l + 1 \in Starts(bytes)
  PROVE  Retaining(Readings(bytes), Starts(bytes))[l] = Chars(SubSeq(bytes, 1, l))
<1> DEFINE s  == SubSeq(bytes, 1, l)
           n  == Len(bytes)
           r  == Retaining(Readings(bytes), Starts(bytes))
           rs == Retaining(Readings(s), Starts(s))
<1>1. /\ n \in Nat /\ s \in Seq(Byte) /\ Len(s) = l
      /\ DOMAIN s = 1 .. l /\ DOMAIN bytes = 1 .. n
      /\ \A i \in 1 .. l : s[i] = bytes[i]
  <2> DEFINE B == Byte
  <2> HIDE DEF B
  <2>1. bytes \in Seq(B)
    BY DEF B
  <2>2. /\ n \in Nat /\ s \in Seq(B) /\ Len(s) = l
        /\ DOMAIN s = 1 .. l /\ DOMAIN bytes = 1 .. n
        /\ \A i \in 1 .. l : s[i] = bytes[i]
    BY <2>1
  <2>3. QED
    BY <2>2 DEF B
<1>2. \A i \in 1 .. l : i \in Starts(s) <=> i \in Starts(bytes)
  BY <1>1 DEF Starts
<1>3. ASSUME NEW i \in 1 .. l
      PROVE  Piece(s, i) = Piece(bytes, i)
  <2> HIDE DEF s, n
  <2>1. i \in DOMAIN s /\ i \in DOMAIN bytes
    BY <1>1 DEF n
  <2>2. PICK j \in i .. Len(s) : EndsAt(s, i, j)
    BY <1>1, <2>1, PieceEnds
  <2>3. j \in i .. l /\ j \in i .. Len(bytes) /\ j \in Nat
    BY <1>1, <2>2 DEF n
  <2>4. j + 1 \in Starts(bytes)
    <3>1. CASE j = l
      BY <3>1
    <3>2. CASE j # l
      <4>1. j + 1 \in 1 .. l /\ j + 1 # Len(s) + 1
        BY <1>1, <2>3, <3>2
      <4>2. j + 1 \in Starts(s)
        BY <2>2, <4>1 DEF EndsAt
      <4>3. QED
        BY <1>2, <4>1, <4>2
    <3>3. QED
      BY <3>1, <3>2
  <2>5. \A k \in i + 1 .. j : k \notin Starts(bytes)
    <3>1. \A k \in i + 1 .. j : k \in 1 .. l /\ k \notin Starts(s)
      BY <2>2, <2>3 DEF EndsAt
    <3>2. QED
      BY <1>2, <3>1
  <2>6. EndsAt(bytes, i, j)
    BY <2>4, <2>5 DEF EndsAt
  <2>7. Piece(s, i) = SubSeq(s, i, j)
    BY <1>1, <2>1, <2>2, PieceIs
  <2>8. Piece(bytes, i) = SubSeq(bytes, i, j)
    BY <2>1, <2>3, <2>6, PieceIs
  <2>9. SubSeq(s, i, j) = SubSeq(bytes, i, j)
    <3>1. i \in 1 .. l /\ j \in 1 .. l /\ l < Len(bytes)
      BY <2>3
    <3>2. SubSeq(SubSeq(bytes, 1, l), i, j) = SubSeq(bytes, i, j)
      BY <3>1
    <3>3. QED
      BY <3>2 DEF s
  <2>10. QED
    BY <2>7, <2>8, <2>9
<1>4. /\ r[0] = <<>>
      /\ \A i \in 1 .. n : r[i] = IF i \in Starts(bytes)
                                  THEN Append(r[i - 1], Decoded(Piece(bytes, i)))
                                  ELSE r[i - 1]
  BY ReadingIs
<1>5. /\ rs[0] = <<>> /\ rs[l] = Chars(s)
      /\ \A i \in 1 .. l : rs[i] = IF i \in Starts(s)
                                   THEN Append(rs[i - 1], Decoded(Piece(s, i)))
                                   ELSE rs[i - 1]
  <2> HIDE DEF s
  <2>1. QED
    BY <1>1, ReadingIs
<1> HIDE DEF s, n, r, rs
<1> DEFINE S == {i \in 0 .. l : r[i] = rs[i]}
<1>6. 0 .. l \subseteq S
  <2>1. 0 \in S
    BY <1>4, <1>5
  <2>2. ASSUME NEW i \in 1 .. l, i - 1 \in S PROVE i \in S
    <3>1. r[i - 1] = rs[i - 1] /\ i \in 1 .. n /\ i \in 0 .. l
      BY <1>1, <2>2 DEF n
    <3>2. r[i] = rs[i]
      BY <1>2, <1>3, <1>4, <1>5, <3>1
    <3>3. QED
      BY <3>1, <3>2
  <2> HIDE DEF S
  <2>3. QED
    BY <2>1, <2>2, UpTo
<1>7. l \in S
  BY <1>6
<1>8. QED
  BY <1>5, <1>7 DEF s, r

\* The last character of some bytes and the text before it.
LEMMA LastChar ==
  ASSUME NEW bytes \in Seq(Byte), NEW l \in Nat, l < Len(bytes),
         l + 1 \in Starts(bytes), EndsAt(bytes, l + 1, Len(bytes))
  PROVE  Chars(bytes) = Append(Chars(SubSeq(bytes, 1, l)),
                               Decoded(SubSeq(bytes, l + 1, Len(bytes))))
<1> DEFINE n == Len(bytes)
           r == Retaining(Readings(bytes), Starts(bytes))
<1>1. /\ n \in Nat /\ DOMAIN bytes = 1 .. n /\ l + 1 \in 1 .. n
      /\ n \in l + 1 .. n
  OBVIOUS
<1>2. /\ r[n] = Chars(bytes)
      /\ \A i \in 1 .. n : r[i] = IF i \in Starts(bytes)
                                  THEN Append(r[i - 1], Decoded(Piece(bytes, i)))
                                  ELSE r[i - 1]
  BY ReadingIs
<1>3. r[l] = Chars(SubSeq(bytes, 1, l))
  BY SameBeginning
<1>4. Piece(bytes, l + 1) = SubSeq(bytes, l + 1, n)
  BY <1>1, PieceIs
<1>5. (l + 1) - 1 = l
  OBVIOUS
<1>6. \A k \in l + 2 .. n : k \notin Starts(bytes)
  BY <1>1 DEF EndsAt
<1> HIDE DEF n, r
<1>7. r[l + 1] = Append(r[l], Decoded(SubSeq(bytes, l + 1, n)))
  BY <1>1, <1>2, <1>4, <1>5
<1> DEFINE S == {i \in 0 .. n : i <= l \/ r[i] = r[l + 1]}
<1>8. 0 .. n \subseteq S
  <2>1. 0 \in S
    BY <1>1
  <2>2. ASSUME NEW i \in 1 .. n, i - 1 \in S PROVE i \in S
    <3>1. CASE i <= l + 1
      BY <3>1
    <3>2. CASE i > l + 1
      <4>1. i \in l + 2 .. n /\ ~(i - 1 <= l)
        BY <1>1, <3>2
      <4>2. r[i] = r[i - 1]
        BY <1>2, <1>6, <4>1
      <4>3. QED
        BY <2>2, <4>1, <4>2
    <3>3. QED
      BY <3>1, <3>2
  <2> HIDE DEF S
  <2>3. QED
    BY <1>1, <2>1, <2>2, UpTo
<1>9. n \in S /\ ~(n <= l)
  BY <1>1, <1>8
<1>10. r[n] = r[l + 1]
  BY <1>9
<1>11. QED
  BY <1>2, <1>3, <1>7, <1>10 DEF n
LEMMA CharsAre ==
  ASSUME NEW bytes \in Seq(Byte)
  PROVE  Chars(bytes) \in Seq(Int) /\ Chars(bytes) # None
<1>1. Len(bytes) \in 0 .. Len(bytes)
  OBVIOUS
<1>2. Chars(bytes) \in Seq(Int)
  BY <1>1, ReadingIs
<1>3. None \notin Seq(Int)
  BY PathAssumption
<1>4. QED
  BY <1>2, <1>3

LEMMA NoChars == Chars(<<>>) = <<>>
<1>1. <<>> \in Seq(Byte) /\ Len(<<>>) = 0
  OBVIOUS
<1>2. QED
  BY <1>1, ReadingIs

LEMMA SameBytes ==
  ASSUME NEW s, NEW t, NEW B, s \in Seq(B), t \in Seq(B), Len(s) = Len(t),
         \A i \in 1 .. Len(s) : s[i] = t[i]
  PROVE  s = t
OBVIOUS

LEMMA BytesAreNotNone ==
  ASSUME NEW bytes \in Seq(Byte)
  PROVE  bytes # None
<1> DEFINE n == Len(bytes)
           B == Byte
<1>1. B \subseteq Int
  BY DEF Byte
<1> HIDE DEF B
<1>2. n \in Nat /\ bytes \in [1 .. n -> B]
  <2>1. bytes \in Seq(B)
    BY DEF B
  <2>2. QED
    BY <2>1
<1> HIDE DEF n
<1>3. bytes \in [1 .. n -> Int]
  BY <1>1, <1>2
<1>4. bytes \in Seq(Int)
  BY <1>2, <1>3
<1>5. QED
  BY <1>4, PathAssumption

\* What is typed is one character more.
LEMMA CharsOfMore ==
  ASSUME NEW b, CleanBuffer(b), NEW c, CanAppend(b, c)
  PROVE  Chars(Bytes(Appended(b, c))) = Append(Chars(Bytes(b)), c)
<1> DEFINE data == Encode(c)
           w    == Width(c)
           d    == Appended(b, c)
           l    == b.len
           all  == Bytes(d)
           mem  == [i \in 1 .. Capacity |->
                      IF i \in l + 1 .. l + Len(data) THEN data[i - l] ELSE b.mem[i]]
<1>1. /\ b \in Buffer /\ l \in Nat /\ Capacity \in Nat
      /\ Bytes(b) \in Seq(Byte) /\ Len(Bytes(b)) = l
      /\ \A i \in 1 .. l : Bytes(b)[i] = b.mem[i]
  BY BufferFacts DEF CleanBuffer
<1>2. /\ data \in Seq(Byte) /\ Len(data) = w /\ w \in 1 .. 4
      /\ ~IsContinuation(data[1])
      /\ \A i \in 2 .. w : IsContinuation(data[i])
      /\ Decoded(data) = c
  BY EncodeFacts, EncodingIsExact DEF CanAppend
<1>3. l + w + 1 <= Capacity
  BY DEF CanAppend
<1>4. d = [mem |-> mem, len |-> l + w] /\ d.mem = mem /\ d.len = l + w
  BY <1>2 DEF Appended, Pushed
<1>5. d \in Buffer
  BY AppendedIsClean DEF CleanBuffer
<1>6. /\ all \in Seq(Byte) /\ Len(all) = l + w /\ DOMAIN all = 1 .. l + w
      /\ \A i \in 1 .. l + w : all[i] = mem[i]
  <2> HIDE DEF d, mem
  <2>1. QED
    BY <1>4, <1>5, BufferFacts
<1> HIDE DEF d, data, w, all
<1>7. \A i \in 1 .. l : all[i] = Bytes(b)[i]
  <2> SUFFICES ASSUME NEW i \in 1 .. l PROVE all[i] = Bytes(b)[i]
    OBVIOUS
  <2>1. i \in 1 .. l + w /\ i \in 1 .. Capacity /\ i \notin l + 1 .. l + Len(data)
    BY <1>1, <1>2, <1>3
  <2>2. mem[i] = b.mem[i]
    BY <2>1
  <2> HIDE DEF mem, l
  <2>3. QED
    BY <1>1, <1>6, <2>1, <2>2
<1>8. \A k \in 1 .. w : all[l + k] = data[k]
  <2> SUFFICES ASSUME NEW k \in 1 .. w PROVE all[l + k] = data[k]
    OBVIOUS
  <2>1. /\ l + k \in 1 .. l + w /\ l + k \in 1 .. Capacity /\ (l + k) - l = k
        /\ l + k \in l + 1 .. l + Len(data)
    BY <1>1, <1>2, <1>3
  <2>2. mem[l + k] = data[k]
    BY <2>1
  <2> HIDE DEF mem, l
  <2>3. QED
    BY <1>6, <2>1, <2>2
<1> HIDE DEF mem, l
<1>9. 1 \in 1 .. w /\ l + 1 \in 1 .. l + w /\ l < Len(all)
  BY <1>1, <1>2, <1>6
<1>10. l + 1 \in Starts(all)
  BY <1>2, <1>6, <1>8, <1>9 DEF Starts
<1>11. EndsAt(all, l + 1, Len(all))
  <2>1. ASSUME NEW k \in l + 2 .. l + w PROVE k \notin Starts(all)
    <3>1. k - l \in 2 .. w /\ l + (k - l) = k /\ k # 1
      BY <1>1, <1>2
    <3>2. k - l \in 1 .. w
      BY <1>2, <3>1
    <3>3. all[k] = data[k - l]
      BY <1>8, <3>1, <3>2
    <3>4. IsContinuation(all[k])
      BY <1>2, <3>1, <3>3
    <3>5. QED
      BY <3>1, <3>4 DEF Starts
  <2>2. (l + 1) + 1 = l + 2
    BY <1>1
  <2>3. QED
    BY <1>6, <2>1, <2>2 DEF EndsAt
<1>12. Chars(all) = Append(Chars(SubSeq(all, 1, l)),
                           Decoded(SubSeq(all, l + 1, Len(all))))
  BY <1>1, <1>6, <1>9, <1>10, <1>11, LastChar
<1>13. SubSeq(all, 1, l) = Bytes(b)
  <2>1. /\ SubSeq(all, 1, l) \in Seq(Byte) /\ Len(SubSeq(all, 1, l)) = l
        /\ \A i \in 1 .. l : SubSeq(all, 1, l)[i] = all[i]
    <3> DEFINE B == Byte
    <3> HIDE DEF B
    <3>1. all \in Seq(B)
      BY <1>6 DEF B
    <3>2. /\ SubSeq(all, 1, l) \in Seq(B) /\ Len(SubSeq(all, 1, l)) = l
          /\ \A i \in 1 .. l : SubSeq(all, 1, l)[i] = all[i]
      BY <1>1, <1>9, <3>1
    <3>3. QED
      BY <3>2 DEF B
  <2> DEFINE s == SubSeq(all, 1, l)
             t == Bytes(b)
  <2>2. /\ s \in Seq(Byte) /\ t \in Seq(Byte) /\ Len(s) = Len(t)
        /\ \A i \in 1 .. Len(s) : s[i] = t[i]
    BY <1>1, <1>7, <2>1
  <2> HIDE DEF s, t
  <2>3. s = t
    BY <2>2, SameBytes
  <2>4. QED
    BY <2>3 DEF s, t
<1>14. SubSeq(all, l + 1, Len(all)) = data
  <2> DEFINE s == SubSeq(all, l + 1, l + w)
             B == Byte
  <2> HIDE DEF B
  <2>1. all \in Seq(B)
    BY <1>6 DEF B
  <2>2. /\ s \in Seq(B) /\ Len(s) = w
        /\ \A i \in 1 .. w : s[i] = all[l + i]
    BY <1>1, <1>2, <1>6, <2>1
  <2>3. data \in Seq(B)
    BY <1>2 DEF B
  <2> HIDE DEF s
  <2>4. /\ Len(s) = Len(data) /\ \A i \in 1 .. Len(s) : s[i] = data[i]
    BY <1>2, <1>8, <2>2
  <2>5. s = data
    BY <2>2, <2>3, <2>4, SameBytes
  <2>6. QED
    BY <1>6, <2>5 DEF s
<1>15. QED
  BY <1>2, <1>12, <1>13, <1>14 DEF all, d

\* What backspace leaves is one character less.
LEMMA CharsOfLess ==
  ASSUME NEW b \in Buffer, b.len > 0
  PROVE  /\ Chars(Bytes(b)) # <<>>
         /\ Chars(Bytes(Backspaced(b)))
              = SubSeq(Chars(Bytes(b)), 1, Len(Chars(Bytes(b))) - 1)
<1> DEFINE all  == Bytes(b)
           n    == b.len
           l    == LastStart(b) - 1
           less == Truncated(b, l)
<1>1. /\ n \in Nat /\ n > 0 /\ Capacity \in Nat /\ n <= Capacity
      /\ all \in Seq(Byte) /\ Len(all) = n /\ DOMAIN all = 1 .. n
      /\ \A i \in 1 .. n : all[i] = b.mem[i]
  BY BufferFacts
<1>2. /\ LastStart(b) \in 1 .. n
      /\ LastStart(b) = 1 \/ ~IsContinuation(b.mem[LastStart(b)])
      /\ \A j \in LastStart(b) + 1 .. n : IsContinuation(b.mem[j])
  BY LastStartFacts
<1>3. l \in 0 .. n /\ l \in Nat /\ l < n /\ l + 1 = LastStart(b) /\ l + 1 \in 1 .. n
  BY <1>1, <1>2
<1>4. Backspaced(b) = less
  BY <1>1 DEF Backspaced
<1>5. less \in Buffer
  BY <1>3, TruncatedIsBuffer
<1>6. less.len = l /\ \A i \in 1 .. l : less.mem[i] = b.mem[i]
  <2> DEFINE mem == [i \in 1 .. Capacity |-> IF i \in l + 1 .. n THEN 0 ELSE b.mem[i]]
  <2>1. less = [mem |-> mem, len |-> l]
    BY DEF Truncated
  <2> HIDE DEF l
  <2>2. \A i \in 1 .. l : i \in 1 .. Capacity /\ i \notin l + 1 .. n
    BY <1>1, <1>3
  <2>3. \A i \in 1 .. l : mem[i] = b.mem[i]
    BY <2>2
  <2> HIDE DEF mem
  <2>4. QED
    BY <2>1, <2>3
<1> HIDE DEF all, n, l, less
<1>7. l + 1 \in Starts(all)
  BY <1>1, <1>2, <1>3 DEF Starts
<1>8. EndsAt(all, l + 1, Len(all))
  <2>1. ASSUME NEW k \in (l + 1) + 1 .. n PROVE k \notin Starts(all)
    <3>1. k \in 1 .. n /\ k # 1 /\ k \in LastStart(b) + 1 .. n
      BY <1>1, <1>3
    <3>2. QED
      BY <1>1, <1>2, <3>1 DEF Starts
  <2>2. QED
    BY <1>1, <2>1 DEF EndsAt
<1>9. Chars(all) = Append(Chars(SubSeq(all, 1, l)),
                          Decoded(SubSeq(all, l + 1, Len(all))))
  BY <1>1, <1>3, <1>7, <1>8, LastChar
<1> DEFINE s == SubSeq(all, 1, l)
           t == Bytes(less)
           B == Byte
<1> HIDE DEF B
<1>10. s \in Seq(B) /\ Len(s) = l /\ \A i \in 1 .. l : s[i] = all[i]
  <2>1. all \in Seq(B)
    BY <1>1 DEF B
  <2>2. QED
    BY <1>1, <1>3, <2>1
<1>11. t \in Seq(B) /\ Len(t) = l /\ \A i \in 1 .. l : t[i] = b.mem[i]
  BY <1>5, <1>6, BufferFacts DEF B
<1> HIDE DEF s, t
<1>12. s = t
  <2>1. Len(s) = Len(t) /\ \A i \in 1 .. Len(s) : s[i] = t[i]
    BY <1>1, <1>3, <1>10, <1>11
  <2>2. QED
    BY <1>10, <1>11, <2>1, SameBytes
<1> DEFINE last == Decoded(SubSeq(all, l + 1, Len(all)))
           text == Chars(t)
<1>13. text \in Seq(Int)
  BY <1>11, CharsAre DEF B
<1>14. Chars(all) = Append(text, last)
  BY <1>9, <1>12 DEF s
<1> HIDE DEF last, text
<1>15. last \in Int
  <2>1. l + 1 \in DOMAIN all /\ Len(all) \in l + 1 .. Len(all)
    BY <1>1, <1>3
  <2>2. Piece(all, l + 1) = SubSeq(all, l + 1, Len(all))
    BY <1>1, <1>8, <2>1, PieceIs
  <2>3. QED
    BY <1>1, <2>1, <2>2, PieceIsBytes, DecodedIsInt DEF last
<1>16. Append(text, last) # <<>>
       /\ SubSeq(Append(text, last), 1, Len(Append(text, last)) - 1) = text
  <2>1. \A x : x \in Int => /\ Append(text, x) \in Seq(Int)
                            /\ Len(Append(text, x)) = Len(text) + 1
                            /\ \A i \in 1 .. Len(text) : Append(text, x)[i] = text[i]
    BY <1>13
  <2> DEFINE more == Append(text, last)
             m    == Len(text)
  <2>2. /\ more \in Seq(Int) /\ Len(more) = m + 1 /\ m \in Nat
        /\ \A i \in 1 .. m : more[i] = text[i]
    BY <1>13, <1>15, <2>1
  <2> HIDE DEF more
  <2>3. Len(more) - 1 = m /\ more # <<>>
    BY <2>2
  <2>4. /\ SubSeq(more, 1, m) \in Seq(Int) /\ Len(SubSeq(more, 1, m)) = m
        /\ \A i \in 1 .. m : SubSeq(more, 1, m)[i] = text[i]
    BY <2>2
  <2>5. SubSeq(more, 1, m) = text
    BY <1>13, <2>4, SameBytes
  <2>6. QED
    BY <2>3, <2>5 DEF more
<1>17. QED
  BY <1>4, <1>14, <1>16 DEF all, less, text, t
-----------------------------------------------------------------------------
(* What PAM is given.                                                      *)

\* Every copy of the password there is is of what was sent.
SentInv ==
  /\ heard => sent # None
  /\ talking => heard
  /\ ~talking => owned = <<>> /\ password = None
  /\ password \in {None, sent}
  /\ \A j \in DOMAIN replies : replies[j] \in {None, sent}
  /\ owned # <<>> => owned[1] = sent

\* What a call's replies give PAM is what was sent.
LEMMA RetainedSent ==
  ASSUME RepliesInv, HandInv, SentInv
  PROVE  LET got == Retained(replies, {j \in DOMAIN replies : replies[j] # None})
         IN  /\ got = <<>> \/ (owned = <<>> /\ owned \o got = got /\ got[1] = sent)
             /\ got = <<>> => owned \o got = owned
<1> DEFINE keep   == {j \in DOMAIN replies : replies[j] # None}
           got    == Retained(replies, keep)
           places == keep \cap (1 .. Len(replies))
<1>1. replies \in Seq(Secret)
  BY DEF RepliesInv
<1>2. got \in Seq(Secret) /\ \E h : Origins(got, replies, places, h)
  BY <1>1, RetainedFacts
<1>3. \A j \in places : replies[j] = sent
  BY DEF SentInv
<1>4. got # <<>> => \E j \in DOMAIN replies : Filled(replies, j)
  BY RetainedOnce
<1> HIDE DEF got, places
<1>5. PICK h : Origins(got, replies, places, h)
  BY <1>2
<1>6. owned \in Seq(Secret)
  BY DEF HandInv
<1>7. CASE got = <<>>
  <2>1. owned \o <<>> = owned
    BY <1>6
  <2>2. QED
    BY <1>7, <2>1 DEF got
<1>8. CASE got # <<>>
  <2>1. owned = <<>>
    BY <1>4, <1>8 DEF HandInv
  <2>2. 1 \in 1 .. Len(got)
    BY <1>2, <1>8
  <2>3. h[1] \in places /\ got[1] = replies[h[1]]
    BY <1>5, <2>2 DEF Origins
  <2>4. owned \o got = got
    BY <1>2, <2>1
  <2>5. QED
    BY <1>3, <1>8, <2>1, <2>3, <2>4 DEF got
<1>9. QED
  BY <1>7, <1>8

LEMMA EmptyIsNotNone == <<>> # None
<1>1. <<>> \in Seq(Int)
  OBVIOUS
<1>2. QED
  BY <1>1, PathAssumption

LEMMA StepKeepsSent ==
  ASSUME RepliesInv, HandInv, SentInv, Pam!Step, UNCHANGED <<sent, heard>>
  PROVE  SentInv'
<1>1. replies \in Seq(Secret)
  BY DEF RepliesInv
<1>2. ASSUME NEW copy \in {None, sent}, replies' = Append(replies, copy),
             owned' = owned, talking, talking' = talking,
             password' \in {None, sent}
      PROVE  SentInv'
  <2>1. sent \in Secret /\ None \in Secret
    BY DEF RepliesInv, Secret
  <2>2. \A j \in DOMAIN replies' : replies'[j] \in {None, sent}
    <3>1. copy \in Secret
      BY <2>1
    <3>2. \A j \in DOMAIN replies' : replies'[j] = copy
             \/ (j \in DOMAIN replies /\ replies'[j] = replies[j])
      BY <1>1, <1>2, <3>1
    <3>3. QED
      BY <3>2 DEF SentInv
  <2>3. QED
    BY <1>2, <2>2 DEF SentInv
<1>3. CASE Pam!Reply
  BY <1>2, <1>3 DEF Pam!Reply, Pam!Taken, Pam!Asked, SentInv
<1>4. CASE Pam!Name \/ Pam!Notice
  BY <1>2, <1>4 DEF Pam!Name, Pam!Notice, Pam!Asked, SentInv
<1>5. CASE Pam!Call \/ Pam!Fail
  <2>1. replies' = <<>> /\ UNCHANGED <<talking, password, owned>>
    BY <1>5 DEF Pam!Call, Pam!Fail
  <2>2. QED
    BY <2>1 DEF SentInv
<1>6. CASE Pam!Return
  <2> DEFINE got == Retained(replies, {j \in DOMAIN replies : replies[j] # None})
  <2>1. /\ owned' = owned \o got /\ replies' = <<>> /\ todo # None
        /\ UNCHANGED <<talking, password>>
    BY <1>6, SameWalks, EmptyIsNotNone, Zenon DEF Pam!Return
  <2>2. /\ got = <<>> \/ (owned = <<>> /\ owned \o got = got /\ got[1] = sent)
        /\ got = <<>> => owned \o got = owned
    BY RetainedSent
  <2>3. talking
    BY <2>1 DEF HandInv
  <2> HIDE DEF got
  <2>4. owned' # <<>> => owned'[1] = sent
    BY <2>1, <2>2 DEF SentInv
  <2>5. QED
    BY <2>1, <2>3, <2>4 DEF SentInv
<1>7. QED
  BY <1>3, <1>4, <1>5, <1>6 DEF Pam!Step

LEMMA SentNext ==
  RepliesInv /\ HandInv /\ LineInv /\ SentInv /\ [Next]_vars => SentInv'
<1> SUFFICES ASSUME RepliesInv, HandInv, LineInv, SentInv, [Next]_vars
             PROVE SentInv'
  OBVIOUS
<1>1. CASE KeyChar \/ KeyBackspace \/ KeyClear \/ AtPrompt \/ Feed \/ GiveUp
           \/ UNCHANGED vars
  <2>1. UNCHANGED <<sent, heard, talking, password, replies, owned>>
    BY <1>1 DEF KeyChar, KeyBackspace, KeyClear, AtPrompt, Feed, GiveUp, Quiet,
       pamVars, vars
  <2>2. QED
    BY <2>1 DEF SentInv
<1>2. CASE KeyEnter \/ Submit
  <2>1. sent = None /\ UNCHANGED <<heard, talking, password, replies, owned>>
    BY <1>2 DEF KeyEnter, Submit, Idle, Quiet, pamVars, LineInv
  <2>2. QED
    BY <2>1 DEF SentInv
<1>3. CASE Begin
  <2>1. /\ sent # None /\ sent' = sent /\ heard' = TRUE /\ talking' = TRUE
        /\ ~talking /\ replies' = replies /\ owned' = <<>>
        /\ password' \in {None, sent}
    BY <1>3 DEF Begin, Pam!Begin
  <2>2. QED
    BY <2>1 DEF SentInv
<1>4. CASE Talk
  BY <1>4, StepKeepsSent DEF Talk
<1>5. CASE Answered \/ Lost
  <2>1. sent' = None /\ heard' = FALSE
    BY <1>5 DEF Answered, Lost, Over
  <2>2. ~talking' /\ owned' = <<>> /\ password' = None /\ replies' = <<>>
    <3>1. CASE Pam!End
      BY <3>1 DEF Pam!End, HandInv
    <3>2. CASE Pam!Kill
      BY <3>2 DEF Pam!Kill
    <3>3. CASE ~talking /\ UNCHANGED pamVars
      BY <3>3 DEF pamVars, HandInv, SentInv
    <3>4. QED
      BY <1>5, <3>1, <3>2, <3>3 DEF Answered, Lost
  <2>3. QED
    BY <2>1, <2>2 DEF SentInv
<1>6. QED
  BY <1>1, <1>2, <1>3, <1>4, <1>5 DEF Next
-----------------------------------------------------------------------------
(* The way of a password implements SecureText.                            *)

Typed == IF buffer = None THEN <<>> ELSE Chars(Bytes(buffer))

Seen == IF owned = <<>> THEN None ELSE Chars(owned[1])

\* A buffer that is yet to be allocated and an empty one are the same text.
LEMMA TypedIs ==
  ASSUME BufferInv
  PROVE  /\ CleanBuffer(Found) /\ Typed = Chars(Bytes(Found)) /\ Typed \in Seq(Int)
         /\ Found.len = 0 => Typed = <<>>
<1>1. CleanBuffer(Found) /\ Found \in Buffer
  BY NewIsClean DEF BufferInv, Found, CleanBuffer
<1>2. Bytes(Found) \in Seq(Byte) /\ Len(Bytes(Found)) = Found.len
  BY <1>1, BufferFacts
<1>3. Found.len = 0 => Bytes(Found) = <<>>
  BY <1>2
<1>4. Typed = Chars(Bytes(Found))
  <2>1. CASE buffer = None
    <3>1. Found.len = 0
      BY <2>1 DEF Found, NewBuffer
    <3>2. QED
      BY <1>3, <2>1, <3>1, NoChars DEF Typed
  <2>2. CASE buffer # None
    BY <2>2 DEF Typed, Found
  <2>3. QED
    BY <2>1, <2>2
<1>5. QED
  BY <1>1, <1>2, <1>3, <1>4, CharsAre, NoChars

\* What is allocated is not None.
LEMMA TypedThen ==
  ASSUME NEW b, CleanBuffer(b), buffer' = b
  PROVE  Typed' = Chars(Bytes(b))
<1>1. b # None
  BY NoneIsNoBuffer DEF CleanBuffer
<1>2. QED
  BY <1>1 DEF Typed

\* The actions of SecureText in these terms.
LEMMA AbstractStep ==
  /\ /\ sent = None /\ UNCHANGED <<sent, owned>>
     /\ Len(Typed') = Len(Typed) + 1 /\ SubSeq(Typed', 1, Len(Typed)) = Typed
     /\ Typed'[Len(Typed')] \in Characters
     => Text!Type
  /\ /\ sent = None /\ UNCHANGED <<sent, owned>> /\ Typed # <<>>
     /\ Typed' = SubSeq(Typed, 1, Len(Typed) - 1)
     => Text!Erase
  /\ sent = None /\ UNCHANGED <<sent, owned>> /\ Typed' = <<>> => Text!Wipe
  /\ sent = None /\ TextOf(sent') = Typed /\ owned' = owned /\ Typed' = <<>>
     => Text!Send
  /\ TextOf(sent) # None /\ Seen = None /\ Seen' = TextOf(sent)
     /\ UNCHANGED <<buffer, sent>>
     => Text!Hand
  /\ TextOf(sent) # None /\ sent' = None /\ owned' = <<>> /\ UNCHANGED buffer
     => Text!End
  /\ UNCHANGED <<Typed, sent, owned>> => UNCHANGED Text!vars
<1>1. sent = None => TextOf(sent) = None
  BY DEF TextOf
<1>2. sent' = None => TextOf(sent') = None
  BY DEF TextOf
<1>3. UNCHANGED owned => Seen' = Seen
  BY DEF Seen
<1>4. UNCHANGED sent => TextOf(sent)' = TextOf(sent)
  BY DEF TextOf
<1>5. UNCHANGED buffer => Typed' = Typed
  BY DEF Typed
<1>6. owned' = <<>> => Seen' = None
  BY DEF Seen
<1>7. QED
  BY <1>1, <1>2, <1>3, <1>4, <1>5, <1>6
     DEF Text!Type, Text!Erase, Text!Wipe, Text!Send, Text!Hand, Text!End,
         Text!vars, Typed, Seen
LEMMA OneMoreIsTyped ==
  ASSUME BufferInv, sent = None, UNCHANGED <<sent, owned>>,
         NEW c, CanAppend(Found, c), buffer' = Appended(Found, c)
  PROVE  Text!Type
<1>1. /\ CleanBuffer(Found) /\ Typed = Chars(Bytes(Found)) /\ Typed \in Seq(Int)
  BY TypedIs
<1>2. CleanBuffer(Appended(Found, c))
  BY <1>1, AppendedIsClean
<1>3. Typed' = Append(Typed, c)
  <2>1. Typed' = Chars(Bytes(Appended(Found, c)))
    BY <1>2, TypedThen
  <2>2. QED
    BY <1>1, <2>1, CharsOfMore
<1>4. c \in Characters /\ c \in Int
  BY SMT DEF CanAppend, IsChar, Characters
<1> DEFINE text == Typed
           next == Typed'
<1>5. text \in Seq(Int) /\ next = Append(text, c)
  BY <1>1, <1>3
<1> HIDE DEF text, next
<1>6. /\ Len(next) = Len(text) + 1 /\ next[Len(next)] = c
      /\ SubSeq(next, 1, Len(text)) = text
  <2>1. /\ next \in Seq(Int) /\ Len(next) = Len(text) + 1 /\ Len(text) \in Nat
        /\ next[Len(text) + 1] = c
        /\ \A i \in 1 .. Len(text) : next[i] = text[i]
    BY <1>4, <1>5
  <2> DEFINE s == SubSeq(next, 1, Len(text))
  <2>2. s \in Seq(Int) /\ Len(s) = Len(text)
        /\ \A i \in 1 .. Len(s) : s[i] = text[i]
    BY <2>1
  <2> HIDE DEF s
  <2>3. s = text
    BY <1>5, <2>2, SameBytes
  <2>4. QED
    BY <2>1, <2>3 DEF s
<1>7. QED
  BY <1>4, <1>6, AbstractStep DEF text, next

LEMMA NothingNew ==
  ASSUME BufferInv, UNCHANGED <<sent, owned>>, buffer' \in {buffer, Found}
  PROVE  UNCHANGED Text!vars
<1>1. CleanBuffer(Found) /\ Typed = Chars(Bytes(Found))
  BY TypedIs
<1>2. CASE buffer' = buffer
  <2>1. Typed' = Typed
    BY <1>2 DEF Typed
  <2>2. QED
    BY <2>1, AbstractStep
<1>3. CASE buffer' = Found
  <2>1. Typed' = Typed
    BY <1>1, <1>3, TypedThen
  <2>2. QED
    BY <2>1, AbstractStep
<1>4. QED
  BY <1>2, <1>3

\* A step of a password's way is one of SecureText or leaves the text alone.
LEMMA SecureTextNext ==
  ASSUME BufferInv, RepliesInv, HandInv, LineInv, SentInv, [Next]_vars
  PROVE  Text!Next \/ UNCHANGED Text!vars
<1>1. /\ CleanBuffer(Found) /\ Typed = Chars(Bytes(Found)) /\ Typed \in Seq(Int)
      /\ Found.len = 0 => Typed = <<>>
  BY TypedIs
<1>2. Idle \/ front \in {"prompt", "feed"} => sent = None
  BY DEF Idle, LineInv
<1>3. CASE KeyChar
  <2>1. PICK c \in Keys :
          buffer' = IF CanAppend(Found, c) THEN Appended(Found, c) ELSE Found
    BY <1>3 DEF KeyChar
  <2>2. sent = None /\ UNCHANGED <<sent, owned>>
    BY <1>2, <1>3 DEF KeyChar, Quiet, pamVars
  <2>3. CASE CanAppend(Found, c)
    BY <2>1, <2>2, <2>3, OneMoreIsTyped DEF Text!Next
  <2>4. CASE ~CanAppend(Found, c)
    BY <2>1, <2>2, <2>4, NothingNew
  <2>5. QED
    BY <2>3, <2>4
<1>4. CASE KeyBackspace
  <2>1. sent = None /\ UNCHANGED <<sent, owned>> /\ buffer' = Backspaced(Found)
    BY <1>2, <1>4 DEF KeyBackspace, Quiet, pamVars
  <2>2. CASE Found.len = 0
    BY <2>1, <2>2, NothingNew DEF Backspaced
  <2>3. CASE Found.len # 0
    <3>1. Found \in Buffer /\ Found.len > 0
      BY <1>1, <2>3, CapacityAssumption DEF CleanBuffer, Buffer
    <3>2. Typed # <<>>
          /\ Chars(Bytes(Backspaced(Found))) = SubSeq(Typed, 1, Len(Typed) - 1)
      BY <1>1, <3>1, CharsOfLess
    <3>3. Typed' = Chars(Bytes(Backspaced(Found)))
      BY <1>1, <2>1, BackspacedIsClean, TypedThen
    <3>4. QED
      BY <2>1, <3>2, <3>3, AbstractStep DEF Text!Next
  <2>4. QED
    BY <2>2, <2>3
<1>5. CASE KeyClear
  <2>1. sent = None /\ UNCHANGED <<sent, owned>> /\ buffer' = Cleared(Found)
    BY <1>2, <1>5 DEF KeyClear, Quiet, pamVars
  <2>2. 0 \in 0 .. Found.len
    BY <1>1, CapacityAssumption DEF CleanBuffer, Buffer
  <2>3. CleanBuffer(Cleared(Found)) /\ Cleared(Found).len = 0
    <3>1. CleanBuffer(Truncated(Found, 0))
      BY <1>1, <2>2, TruncatedIsClean
    <3>2. QED
      BY <3>1 DEF Cleared, Truncated
  <2>4. Bytes(Cleared(Found)) = <<>>
    <3>1. /\ Bytes(Cleared(Found)) \in Seq(Byte)
          /\ Len(Bytes(Cleared(Found))) = Cleared(Found).len
      BY <2>3, BufferFacts DEF CleanBuffer
    <3>2. QED
      BY <2>3, <3>1
  <2>5. Typed' = <<>>
    BY <2>1, <2>3, <2>4, TypedThen, NoChars
  <2>6. QED
    BY <2>1, <2>5, AbstractStep DEF Text!Next
<1>6. CASE KeyEnter
  <2>1. /\ sent = None /\ owned' = owned /\ Typed' = <<>>
        /\ sent' \in {Bytes(buffer), None} /\ buffer # None
    BY <1>2, <1>6 DEF KeyEnter, Quiet, pamVars, Typed
  <2>2. CASE sent' = None
    BY <2>1, <2>2, AbstractStep DEF Text!Next
  <2>3. CASE sent' = Bytes(buffer) /\ sent' # None
    <3>1. TextOf(sent') = Typed
      BY <2>1, <2>3 DEF TextOf, Typed
    <3>2. QED
      BY <2>1, <3>1, AbstractStep DEF Text!Next
  <2>4. QED
    BY <2>1, <2>2, <2>3
<1>7. CASE AtPrompt
  <2>1. UNCHANGED <<buffer, sent, owned>>
    BY <1>7 DEF AtPrompt, pamVars
  <2>2. QED
    BY <2>1, NothingNew
<1>8. CASE Feed
  <2>1. sent = None /\ UNCHANGED <<sent, owned>>
    BY <1>2, <1>8 DEF Feed, Quiet, pamVars
  <2>2. PICK c : IF Refuses(Found, c) THEN buffer' = None
                 ELSE buffer' = IF CanAppend(Found, c) THEN Appended(Found, c) ELSE Found
    BY <1>8 DEF Feed
  <2>3. CASE CanAppend(Found, c)
    BY <2>1, <2>2, <2>3, OneMoreIsTyped DEF Text!Next, Refuses
  <2>4. CASE ~CanAppend(Found, c)
    <3>1. Typed' = <<>>
      BY <2>2, <2>4 DEF Refuses, Typed
    <3>2. QED
      BY <2>1, <3>1, AbstractStep DEF Text!Next
  <2>5. QED
    BY <2>3, <2>4
<1>9. CASE GiveUp
  <2>1. sent = None /\ UNCHANGED <<sent, owned>> /\ Typed' = <<>>
    BY <1>2, <1>9 DEF GiveUp, Quiet, pamVars, Typed
  <2>2. QED
    BY <2>1, AbstractStep DEF Text!Next
<1>10. CASE Submit
  <2>1. sent = None /\ owned' = owned /\ Typed' = <<>> /\ sent' = Bytes(Found)
    BY <1>2, <1>10 DEF Submit, Quiet, pamVars, Typed
  <2>2. sent' # None
    <3>1. Bytes(Found) \in Seq(Byte)
      BY <1>1, BufferFacts DEF CleanBuffer
    <3>2. QED
      BY <2>1, <3>1, BytesAreNotNone
  <2>3. TextOf(sent') = Typed
    BY <1>1, <2>1, <2>2 DEF TextOf
  <2>4. QED
    BY <2>1, <2>3, AbstractStep DEF Text!Next
<1>11. CASE Begin
  <2>1. owned = <<>> /\ owned' = <<>> /\ UNCHANGED <<buffer, sent>>
    BY <1>11 DEF Begin, Pam!Begin, SentInv
  <2>2. QED
    BY <2>1, NothingNew
<1>12. CASE Talk
  <2>1. UNCHANGED <<buffer, sent>>
    BY <1>12 DEF Talk
  <2>2. CASE owned' = owned
    BY <2>1, <2>2, NothingNew
  <2>3. CASE owned' # owned
    <3> DEFINE got == Retained(replies, {j \in DOMAIN replies : replies[j] # None})
    <3>1. Pam!Return
      BY <1>12, <2>3, Zenon
         DEF Talk, Pam!Step, Pam!Call, Pam!Reply, Pam!Fail, Pam!Name, Pam!Notice
    <3>2. owned' = owned \o got
      BY <3>1, SameWalks, Zenon DEF Pam!Return
    <3>3. /\ got = <<>> \/ (owned = <<>> /\ owned \o got = got /\ got[1] = sent)
          /\ got = <<>> => owned \o got = owned
      BY RetainedSent
    <3> HIDE DEF got
    <3>4. owned = <<>> /\ owned' = got /\ got # <<>> /\ got[1] = sent
      BY <2>3, <3>2, <3>3
    <3>5. sent # None /\ sent \in Seq(Byte)
      BY <1>12 DEF Talk, SentInv, RepliesInv, Secret
    <3>6. TextOf(sent) = Chars(sent) /\ TextOf(sent) # None
      BY <3>5, CharsAre DEF TextOf
    <3>7. Seen = None /\ Seen' = TextOf(sent)
      BY <3>4, <3>6 DEF Seen
    <3>8. QED
      BY <2>1, <3>6, <3>7, AbstractStep DEF Text!Next
  <2>4. QED
    BY <2>2, <2>3
<1>13. CASE Answered \/ Lost
  <2>1. sent' = None /\ buffer' = buffer /\ sent # None
    BY <1>13 DEF Answered, Lost, Over, SentInv
  <2>2. owned' = <<>>
    BY <1>13 DEF Answered, Lost, Pam!End, Pam!Kill, pamVars, SentInv
  <2>3. sent \in Seq(Byte)
    BY <2>1 DEF RepliesInv, Secret
  <2>4. TextOf(sent) # None
    BY <2>1, <2>3, CharsAre DEF TextOf
  <2>5. QED
    BY <2>1, <2>2, <2>4, AbstractStep DEF Text!Next
<1>14. CASE UNCHANGED vars
  <2>1. UNCHANGED <<buffer, sent, owned>>
    BY <1>14 DEF vars, pamVars
  <2>2. QED
    BY <2>1, NothingNew
<1>15. QED
  BY <1>3, <1>4, <1>5, <1>6, <1>7, <1>8, <1>9, <1>10, <1>11, <1>12, <1>13, <1>14
     DEF Next

\* For every capacity, all keys, all lines and all that PAM may call with: what
\* is typed and not erased is sent, as a whole, and PAM is given what was sent
\* (app.rs:140-152, password/buffer.rs:24-65, auth/pam_ffi.rs:93-97).
THEOREM TextIsKept == Spec => ImplementsText
<1>1. Init => BufferInv /\ RepliesInv /\ HandInv /\ LineInv /\ SentInv
  <2>1. Init => BufferInv /\ RepliesInv /\ HandInv
    BY DEF Init, Pam!Init, RepliesInv, BufferInv, Secret, HandInv, Filled
  <2>2. Init => LineInv
    BY NewIsBuffer, SameBuffers DEF Init, Prompt!Init, LineInv, LineIsSent
  <2>3. Init => SentInv
    BY DEF Init, Pam!Init, SentInv
  <2>4. QED
    BY <2>1, <2>2, <2>3
<1>2. Init => Text!Init
  BY DEF Init, Pam!Init, Text!Init, TextOf
<1>3. BufferInv /\ RepliesInv /\ HandInv /\ LineInv /\ SentInv /\ [Next]_vars
        => [Text!Next]_(Text!vars)
  BY SecureTextNext
<1>4. QED
  BY <1>1, <1>2, <1>3, BufferNext, RepliesNext, HandNext, LineNext, SentNext, PTL
     DEF Spec, ImplementsText, Text!Spec
-----------------------------------------------------------------------------
(* The types.                                                              *)

PlacesInv ==
  /\ front \in {"lock", "prompt", "feed", "test", "over"}
  /\ fed \in 0 .. Capacity /\ heard \in BOOLEAN
  /\ result \in {"none", "ok", "failed"} /\ original \in Original
  /\ talking \in BOOLEAN /\ residue \in BOOLEAN /\ echo \in BOOLEAN
  /\ todo \in Pam!Rest \cup {None}

LEMMA TailOfRest ==
  ASSUME todo \in Pam!Rest, todo # <<>>
  PROVE  Tail(todo) \in Pam!Rest
<1>1. PICK c \in Calls : \E i \in 1 .. Len(c) + 1 : todo = SubSeq(c, i, Len(c))
  BY DEF Pam!Rest
<1>2. PICK i \in 1 .. Len(c) + 1 : todo = SubSeq(c, i, Len(c))
  BY <1>1
<1> DEFINE M == Pam!Message
           n == Len(c)
<1>3. c \in Seq(M)
  BY PathAssumption DEF Pam!ConversationAssumption
<1> HIDE DEF M
<1>4. n \in Nat
  BY <1>3
<1>5. i \in 1 .. n
  <2>1. SubSeq(c, n + 1, n) = <<>>
    BY <1>3, <1>4
  <2>2. i # n + 1
    BY <1>2, <2>1
  <2>3. QED
    BY <1>4, <2>2
<1>6. Tail(SubSeq(c, i, n)) = SubSeq(c, i + 1, n)
  <2> DEFINE s == SubSeq(c, i, n)
             t == SubSeq(c, i + 1, n)
  <2>1. /\ s \in Seq(M) /\ Len(s) = n - i + 1
        /\ \A k \in 1 .. n - i + 1 : s[k] = c[i + k - 1]
    BY <1>3, <1>4, <1>5
  <2>2. /\ t \in Seq(M) /\ Len(t) = n - i
        /\ \A k \in 1 .. n - i : t[k] = c[i + k]
    BY <1>3, <1>4, <1>5
  <2> HIDE DEF s, t
  <2>3. s # <<>>
    BY <1>4, <1>5, <2>1
  <2>4. /\ Tail(s) \in Seq(M) /\ Len(Tail(s)) = n - i
        /\ \A k \in 1 .. n - i : Tail(s)[k] = s[k + 1]
    BY <1>4, <1>5, <2>1, <2>3
  <2>5. \A k \in 1 .. n - i : Tail(s)[k] = t[k]
    BY <1>4, <1>5, <2>1, <2>2, <2>4
  <2>6. Tail(s) = t
    BY <2>2, <2>4, <2>5, SameBytes
  <2>7. QED
    BY <2>6 DEF s, t
<1>7. i + 1 \in 1 .. n + 1
  BY <1>4, <1>5
<1>8. Tail(todo) \in {SubSeq(c, k, Len(c)) : k \in 1 .. Len(c) + 1}
  BY <1>2, <1>6, <1>7
<1>9. QED
  BY <1>8, Zenon DEF Pam!Rest

LEMMA CallsAreRest == Calls \subseteq Pam!Rest
<1>1. ASSUME NEW c \in Calls PROVE c \in Pam!Rest
  <2> DEFINE M == Pam!Message
             s == SubSeq(c, 1, Len(c))
  <2>1. c \in Seq(M)
    BY PathAssumption DEF Pam!ConversationAssumption
  <2> HIDE DEF M
  <2>2. /\ s \in Seq(M) /\ Len(s) = Len(c) /\ Len(c) \in Nat
        /\ \A k \in 1 .. Len(c) : s[k] = c[k]
    BY <2>1
  <2> HIDE DEF s
  <2>3. s = c
    BY <2>1, <2>2, SameBytes
  <2>4. 1 \in 1 .. Len(c) + 1
    BY <2>2
  <2>5. QED
    BY <2>3, <2>4 DEF Pam!Rest, s
<1>2. QED
  BY <1>1

LEMMA PlacesNext ==
  LineInv /\ HandInv /\ BufferInv /\ PlacesInv /\ [Next]_vars => PlacesInv'
<1> SUFFICES ASSUME LineInv, HandInv, BufferInv, PlacesInv, [Next]_vars
             PROVE PlacesInv'
  OBVIOUS
<1>1. CASE KeyChar \/ KeyBackspace \/ KeyClear \/ KeyEnter \/ GiveUp \/ Submit
           \/ UNCHANGED vars
  BY <1>1 DEF KeyChar, KeyBackspace, KeyClear, KeyEnter, GiveUp, Submit, Idle, Quiet,
     pamVars, promptVars, vars, PlacesInv
<1>2. CASE AtPrompt
  <2>1. /\ result' \in {"none", "ok", "failed"} /\ original' = original
        /\ echo' \in BOOLEAN
    BY <1>2 DEF AtPrompt, PlacesInv, Prompt!Next, Prompt!Open, Prompt!Install,
       Prompt!InstallFails, Prompt!Silence, Prompt!Allocate, Prompt!Read,
       Prompt!EndOfLine, Prompt!ReadFails, Prompt!Restore, Prompt!PutBack,
       Prompt!Return, Prompt!Interrupt, Prompt!Goes
  <2>2. /\ front' \in {"feed", "over", "prompt"}
        /\ UNCHANGED <<fed, heard, talking, residue, todo>>
    BY <1>2 DEF AtPrompt, pamVars
  <2>3. QED
    BY <2>1, <2>2 DEF PlacesInv
<1>3. CASE Feed
  <2>1. /\ front' \in {"feed", "over"} /\ (front' = "over" => fed' = fed)
        /\ UNCHANGED <<heard, talking, residue, todo, result, original, echo>>
    BY <1>3 DEF Feed, Quiet, pamVars, promptVars
  <2>2. line' \in Buffer
    BY <1>3 DEF Feed, Quiet, promptVars, LineInv
  <2>3. line'.len \in 0 .. Capacity /\ Capacity \in Nat
    BY <2>2, CapacityAssumption DEF Buffer
  <2>4. front' = "feed" => fed' \in 0 .. line'.len
    BY <1>3, FeedKeepsLine DEF FedInv
  <2>5. fed' \in 0 .. Capacity
    BY <2>1, <2>3, <2>4 DEF PlacesInv
  <2>6. QED
    BY <2>1, <2>5 DEF PlacesInv
<1>4. CASE Begin
  BY <1>4 DEF Begin, Pam!Begin, promptVars, PlacesInv
<1>5. CASE Talk
  <2>1. todo' \in Pam!Rest \cup {None} /\ talking' = talking
    <3>1. CASE Pam!Call
      BY <3>1, CallsAreRest DEF Pam!Call
    <3>2. CASE Pam!Reply \/ Pam!Name \/ Pam!Notice
      <4>1. todo' = Tail(todo) /\ talking' = talking /\ todo # None /\ todo # <<>>
        BY <3>2 DEF Pam!Reply, Pam!Name, Pam!Notice, Pam!Asked
      <4>2. QED
        BY <4>1, TailOfRest DEF PlacesInv
    <3>3. CASE Pam!Fail \/ Pam!Return
      <4>1. todo' = None /\ talking' = talking
        BY <3>3, Zenon DEF Pam!Fail, Pam!Return
      <4>2. QED
        BY <4>1
    <3>4. QED
      BY <1>5, <3>1, <3>2, <3>3 DEF Talk, Pam!Step
  <2>2. UNCHANGED <<front, fed, heard, result, original, echo>>
    BY <1>5 DEF Talk, promptVars
  <2>3. residue' \in BOOLEAN
    <3>1. CASE Pam!Fail
      BY <3>1 DEF Pam!Fail
    <3>2. CASE ~Pam!Fail
      <4>1. residue' = residue
        BY <1>5, <3>2, Zenon DEF Talk, Pam!Step, Pam!Call, Pam!Reply, Pam!Name,
           Pam!Notice, Pam!Return
      <4>2. QED
        BY <4>1 DEF PlacesInv
    <3>3. QED
      BY <3>1, <3>2
  <2>4. QED
    BY <2>1, <2>2, <2>3 DEF PlacesInv
<1>6. CASE Answered \/ Lost
  <2>1. /\ heard' = FALSE /\ UNCHANGED <<fed, result, original, echo>>
        /\ front' \in {front, "over"}
    BY <1>6 DEF Answered, Lost, Over, promptVars
  <2>2. /\ talking' \in BOOLEAN /\ residue' \in BOOLEAN
        /\ todo' \in Pam!Rest \cup {None}
    BY <1>6 DEF Answered, Lost, Pam!End, Pam!Kill, pamVars, PlacesInv
  <2>3. QED
    BY <2>1, <2>2 DEF PlacesInv
<1>7. QED
  BY <1>1, <1>2, <1>3, <1>4, <1>5, <1>6 DEF Next

LEMMA OwnedAreBytes ==
  ASSUME HandInv, RepliesInv, SentInv
  PROVE  owned \in Seq(Seq(Byte))
<1>1. owned \in Seq(Secret) /\ Len(owned) <= 1 /\ Len(owned) \in Nat
  BY DEF HandInv
<1>2. CASE owned = <<>>
  BY <1>2
<1>3. CASE owned # <<>>
  <2>1. owned[1] \in Seq(Byte)
    <3>1. sent # None /\ owned[1] = sent
      BY <1>3 DEF SentInv
    <3>2. QED
      BY <3>1 DEF RepliesInv, Secret
  <2> DEFINE B == Seq(Byte)
             n == Len(owned)
  <2>2. n \in Nat
    BY <1>1
  <2>3. \A k \in 1 .. n : owned[k] \in B
    BY <1>1, <2>1
  <2> HIDE DEF B
  <2>4. owned \in [1 .. n -> B]
    BY <1>1, <2>3
  <2> HIDE DEF n
  <2>5. owned \in Seq(B)
    BY <2>2, <2>4
  <2>6. QED
    BY <2>5 DEF B
<1>4. QED
  BY <1>2, <1>3

\* The types of a password's way, of its prompt and its conversation.
THEOREM PathTyped == Spec => []TypeOK
<1> DEFINE Inv == /\ RepliesInv /\ HandInv /\ TextInv /\ LineInv /\ SentInv
                  /\ PromptInv /\ PlacesInv
<1>1. Init => Inv
  <2>1. Init => RepliesInv /\ HandInv /\ SentInv /\ TextInv
    BY NoTextYet DEF Init, Pam!Init, RepliesInv, BufferInv, Secret, HandInv, Filled,
       SentInv
  <2>2. Init => LineInv
    BY NewIsBuffer, SameBuffers DEF Init, Prompt!Init, LineInv, LineIsSent
  <2>3. Init => PlacesInv
    <3>1. Init => todo \in Pam!Rest \cup {None}
      BY DEF Init, Pam!Init
    <3>2. 0 \in 0 .. Capacity
      BY CapacityAssumption
    <3>3. QED
      BY <3>1, <3>2 DEF Init, Pam!Init, Prompt!Init, PlacesInv
  <2>4. QED
    BY <2>1, <2>2, <2>3, PromptInit
<1>2. Inv /\ [Next]_vars => Inv'
  <2>1. RepliesInv => BufferInv
    BY DEF RepliesInv
  <2>2. QED
    BY <2>1, RepliesNext, HandNext, TextNext, LineNext, SentNext, PromptNext, PlacesNext
<1>3. Inv => TypeOK
  <2> SUFFICES ASSUME Inv PROVE TypeOK
    OBVIOUS
  <2>1. Pam!TypeOK
    <3>1. owned \in Seq(Seq(0 .. 255))
      BY OwnedAreBytes DEF Byte
    <3>2. /\ password \in Seq(0 .. 255) \cup {None}
          /\ replies \in Seq(Seq(0 .. 255) \cup {None})
      BY DEF RepliesInv, Secret, Byte
    <3>3. texts \in Seq(Nat) /\ used \in Nat
      BY DEF TextInv
    <3>4. talking \in BOOLEAN /\ residue \in BOOLEAN
      BY DEF PlacesInv
    <3>5. todo \in Pam!Rest \cup {None}
      BY DEF PlacesInv
    <3>6. QED
      BY <3>1, <3>2, <3>3, <3>4, <3>5, Zenon DEF Pam!TypeOK
  <2>2. Prompt!TypeOK
    <3>1. line \in Prompt!Buffer
      BY DEF LineInv, Buffer, Prompt!Buffer, Byte, Prompt!Byte
    <3>2. QED
      BY <3>1 DEF PromptInv, PlacesInv, Prompt!TypeOK
  <2>3. QED
    BY <2>1, <2>2 DEF TypeOK, PlacesInv, RepliesInv, BufferInv, CleanBuffer, Secret
<1>4. QED
  BY <1>1, <1>2, <1>3, PTL DEF Spec
=============================================================================
