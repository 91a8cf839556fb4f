--------------------------- MODULE PasswordBuffer ---------------------------
(***************************************************************************)
(* The memory of a password: a SecureBuffer (secure/buffer.rs) and the     *)
(* UTF-8 that Password keeps in it (password/buffer.rs), as functions.     *)
(* The bytes behind the length are kept too: they have to be zero.         *)
(***************************************************************************)
EXTENDS Integers, Sequences, Lists

CONSTANT Capacity   \* in bytes: 256

ASSUME CapacityAssumption == Capacity \in Nat \ {0}

Byte == 0 .. 255

\* The codepoints that char::from_u32() accepts: no surrogates.
IsChar(c) == c \in Nat /\ c <= 1114111 /\ (c < 55296 \/ c > 57343)

\* len_utf8() and encode_utf8().
Width(c) ==
  CASE c < 128 -> 1 [] c >= 128 /\ c < 2048 -> 2
    [] c >= 2048 /\ c < 65536 -> 3 [] OTHER -> 4

Low(n) == 128 + (n % 64)

Encode(c) ==
  CASE c < 128 -> <<c>>
    [] c >= 128 /\ c < 2048 -> <<192 + (c \div 64), Low(c)>>
    [] c >= 2048 /\ c < 65536 ->
         <<224 + (c \div 4096), Low(c \div 64), Low(c)>>
    [] OTHER ->
         <<240 + (c \div 262144), Low(c \div 4096), Low(c \div 64), Low(c)>>

\* The codepoint that so many bytes stand for, if they are one's encoding.
Decoded(piece) ==
  LET low(k) == piece[k] - 128
  IN  CASE Len(piece) = 1 -> piece[1]
        [] Len(piece) = 2 -> (piece[1] - 192) * 64 + low(2)
        [] Len(piece) = 3 -> (piece[1] - 224) * 4096 + low(2) * 64 + low(3)
        [] Len(piece) = 4 -> (piece[1] - 240) * 262144 + low(2) * 4096
                               + low(3) * 64 + low(4)
        [] OTHER -> -1

-----------------------------------------------------------------------------
(* SecureBuffer.                                                           *)

Buffer == [mem : [1 .. Capacity -> Byte], len : 0 .. Capacity]

NewBuffer == [mem |-> [i \in 1 .. Capacity |-> 0], len |-> 0]

\* as_slice().
Bytes(b) == [i \in 1 .. b.len |-> b.mem[i]]

Fits(b, data) == b.len + Len(data) <= Capacity

\* try_push() of data that fits.
Pushed(b, data) ==
  [mem |-> [i \in 1 .. Capacity |->
              IF i \in b.len + 1 .. b.len + Len(data) THEN data[i - b.len]
              ELSE b.mem[i]],
   len |-> b.len + Len(data)]

\* Mutant: the length shrinks and the bytes stay.
TruncatedUnwiped(b, n) == [b EXCEPT !.len = n]

\* truncate(), and with 0 clear(): the removed bytes are zeroed.
Truncated(b, n) ==
  [mem |-> [i \in 1 .. Capacity |->
              IF i \in n + 1 .. b.len THEN 0 ELSE b.mem[i]],
   len |-> n]

Cleared(b) == Truncated(b, 0)

-----------------------------------------------------------------------------
(* Password.                                                               *)

\* Does append_char() take this codepoint?
CanAppend(b, c) == IsChar(c) /\ b.len + Width(c) + 1 <= Capacity

Appended(b, c) == Pushed(b, Encode(c))

\* Mutant: only the lowest continuation bytes are taken for such.
IsContinuationLow(x) == x \in 128 .. 168

IsContinuation(x) == x \in 128 .. 191

\* Where the walk of backspace() stops.
LastStart(b) ==
  CHOOSE i \in 1 .. b.len :
    /\ i = 1 \/ ~IsContinuation(b.mem[i])
    /\ \A j \in i + 1 .. b.len : IsContinuation(b.mem[j])

Backspaced(b) ==
  IF b.len = 0 THEN b ELSE Truncated(b, LastStart(b) - 1)

-----------------------------------------------------------------------------
(* Reading UTF-8.                                                          *)

\* Where a character begins: where none goes on.
Starts(bytes) == {i \in DOMAIN bytes : i = 1 \/ ~IsContinuation(bytes[i])}

\* Does the character that begins at i end at j?
EndsAt(bytes, i, j) ==
  /\ j + 1 \in Starts(bytes) \cup {Len(bytes) + 1}
  /\ \A k \in i + 1 .. j : k \notin Starts(bytes)

\* The bytes of the character that begins at i.
Piece(bytes, i) ==
  SubSeq(bytes, i, CHOOSE j \in i .. Len(bytes) : EndsAt(bytes, i, j))

\* as_str(): is it valid?
IsUtf8(bytes) ==
  \A i \in Starts(bytes) : LET c == Decoded(Piece(bytes, i))
                           IN  IsChar(c) /\ Encode(c) = Piece(bytes, i)

\* What is read at every place, be it a start or not.
Readings(bytes) == [i \in DOMAIN bytes |-> Decoded(Piece(bytes, i))]

\* chars() of a valid string: what is read at its starts, in order.
Chars(bytes) == Retained(Readings(bytes), Starts(bytes))
=============================================================================
