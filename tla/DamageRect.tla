----------------------------- MODULE DamageRect ------------------------------
(***************************************************************************)
(* Rectangles of a surface (render/mod.rs) in 32-bit integers: the areas   *)
(* that Present has as sets of regions.                                    *)
(***************************************************************************)
EXTENDS Integers

MaxInt == 2147483647
Int32  == -MaxInt - 1 .. MaxInt

Rect == [x : Int32, y : Int32, width : Int32, height : Int32]

FullRect(width, height) == [x |-> 0, y |-> 0, width |-> width, height |-> height]

\* i32::saturating_add() and i32::clamp(0, high).
Saturated(n) ==
  IF n > MaxInt THEN MaxInt ELSE IF n < -MaxInt - 1 THEN -MaxInt - 1 ELSE n

Clamped(n, high) == IF n < 0 THEN 0 ELSE IF n > high THEN high ELSE n

\* Some rectangle, or none: a set of at most one.
Clipped(x, y, width, height, bufWidth, bufHeight) ==
  LET x0 == Clamped(x, bufWidth)
      y0 == Clamped(y, bufHeight)
      x1 == Clamped(Saturated(x + width), bufWidth)
      y1 == Clamped(Saturated(y + height), bufHeight)
  IN  IF x1 > x0 /\ y1 > y0
      THEN {[x |-> x0, y |-> y0, width |-> x1 - x0, height |-> y1 - y0]} ELSE {}

Smaller(m, n) == IF m < n THEN m ELSE n
Larger(m, n)  == IF m > n THEN m ELSE n

Right(r)  == r.x + r.width
Bottom(r) == r.y + r.height

Union(r, s) ==
  LET x == Smaller(r.x, s.x)
      y == Smaller(r.y, s.y)
  IN  [x |-> x, y |-> y, width |-> Larger(Right(r), Right(s)) - x,
       height |-> Larger(Bottom(r), Bottom(s)) - y]

-----------------------------------------------------------------------------
\* The pixel in column i of line j.
Covers(r, i, j) == r.x <= i /\ i < Right(r) /\ r.y <= j /\ j < Bottom(r)

\* A part of a surface's buffer that is not empty.
Inside(r, bufWidth, bufHeight) ==
  /\ 0 <= r.x /\ 0 < r.width /\ Right(r) <= bufWidth
  /\ 0 <= r.y /\ 0 < r.height /\ Bottom(r) <= bufHeight
=============================================================================
