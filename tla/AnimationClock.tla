--------------------------- MODULE AnimationClock ---------------------------
(***************************************************************************)
(* The frame clock of one animation (AnimationPlayer of player.rs), as     *)
(* functions of a player.  Instants are kept relative to the present: the  *)
(* age of the last tick, the time left until the next wakeup (0 once it is *)
(* past).  An animation is the delays its ticks may ask for, whether its   *)
(* frames are interpolated, and how its render() relates to its ticks.     *)
(***************************************************************************)
EXTENDS Integers, Sequences

CONSTANTS
  Mode,          \* the registered modes
  FirstDelay,    \* of each mode: frame_delay_us() of a new animation
  Delays,        \* of each mode: what tick() may change it to
  Incremental,   \* the modes whose render() consumes what one tick() queued
  Interpolating, \* the modes that are rendered between two ticks
  Refresh,       \* REFRESH_US: 16 666
  CatchUp,       \* the ticks a fast clock may catch up at once: 10
  Floors,        \* min_delay_us as max_fps may be configured; 0 without
  None           \* no value

Longest == CHOOSE d \in UNION {Delays[m] : m \in Mode} :
             \A e \in UNION {Delays[m] : m \in Mode} : e <= d

ASSUME ClockAssumption ==
  /\ FirstDelay \in [Mode -> Nat \ {0}]
  /\ Delays \in [Mode -> SUBSET Nat]
  /\ \A m \in Mode : FirstDelay[m] \in Delays[m]
  /\ Interpolating \subseteq Mode /\ Incremental \subseteq Mode \ Interpolating
  /\ Refresh \in Nat /\ CatchUp \in Nat \ {0} /\ Floors \subseteq Nat
  /\ Longest \in Nat
  /\ None \notin Nat /\ None \notin Mode

Larger(a, b)  == IF a >= b THEN a ELSE b
Smaller(a, b) == IF a <= b THEN a ELSE b

\* buffer: not there, its background only, or with a frame of the animation;
\* drawn: it was written to since a surface copied it.
Player == [mode : Mode, floor : Floors, delay : Nat, age : Nat \cup {None},
           wake : Nat \cup {None}, buffer : {"none", "blank", "frame"},
           dirty : BOOLEAN, drawn : BOOLEAN]

\* AnimationPlayer::new().
NewPlayer(m, floor) ==
  [mode |-> m, floor |-> floor, delay |-> FirstDelay[m], age |-> None,
   wake |-> None, buffer |-> "none", dirty |-> FALSE, drawn |-> FALSE]

\* ensure_sized() with a size that is new to the player.
Sized(p) ==
  [p EXCEPT !.delay = FirstDelay[p.mode], !.buffer = "blank", !.dirty = TRUE,
            !.drawn = TRUE]

-----------------------------------------------------------------------------
(* advance().                                                              *)

\* The clock is not asked: the next interpolated frame is not due.
NotDue(p) ==
  p.mode \in Interpolating /\ ~p.dirty /\ p.wake # None /\ p.wake > 0

MaxTicks(p) ==
  IF p.mode \in Interpolating \/ p.delay < Refresh THEN CatchUp ELSE 1

\* How many ticks are planned.
Planned(p) ==
  IF p.age = None THEN 1 ELSE Smaller(p.age \div p.delay, MaxTicks(p))

\* Mutant: a backlog that is too long to catch up with is kept.
AnchorKept(p) ==
  CASE p.age = None  -> 0
    [] p.age # None  -> p.age - Planned(p) * p.delay

\* The age of the tick the clock is anchored to if all planned ones are made.
Anchor(p) ==
  CASE p.age = None -> 0
    [] p.age # None /\ p.age >= (MaxTicks(p) + 1) * p.delay -> 0
    [] OTHER -> p.age - Planned(p) * p.delay

\* The delays that the ticks of one advance() may leave behind, one after the
\* other.  At least one tick is made of those planned, and as many as the 8 ms
\* of the budget allow.  Without a buffer the clock runs on its own.
Runs(p) ==
  CASE p.buffer = "none" -> {[i \in 1 .. Planned(p) |-> p.delay]}
    [] p.buffer # "none" /\ Planned(p) = 0 -> {<<>>}
    [] OTHER -> UNION {[1 .. n -> Delays[p.mode]] : n \in 1 .. Planned(p)}

\* Is a frame rendered, if these ticks are made?
Renders(p, run) ==
  /\ p.buffer # "none"
  /\ \/ run # <<>>
     \/ p.mode \notin Incremental /\ (p.dirty \/ p.mode \in Interpolating)

Left(d) == Larger(d, 0)

\* The next wakeup, when the last tick of the run is of that age.
Wake(p, run, age) ==
  LET asked == IF run = <<>> THEN p.delay ELSE run[Len(run)]
  IN  CASE asked # 0 /\ asked # p.delay -> Left(Larger(asked, p.floor) - age)
        [] p.mode \in Interpolating /\ (asked = 0 \/ asked = p.delay) ->
             Larger(p.floor, 1)
        [] OTHER -> Left(Larger(p.delay, p.floor) - age)

\* The player after these ticks.
Ran(p, run) ==
  LET age      == IF Len(run) < Planned(p) THEN 0 ELSE Anchor(p)
      rendered == Renders(p, run)
  IN  [p EXCEPT
        !.delay  = IF run = <<>> THEN @ ELSE run[Len(run)],
        !.age    = age,
        !.wake   = Wake(p, run, age),
        !.buffer = IF rendered THEN "frame" ELSE @,
        !.drawn  = @ \/ rendered,
        !.dirty  = @ /\ (p.mode \in Incremental \/ ~rendered)]

\* What advance() may do: the player, the ticks it made, and whether it says
\* that the frame changed.
Advances(p) ==
  CASE p.delay = 0 ->
         {[player |-> [p EXCEPT !.wake = None], run |-> <<>>, changed |-> FALSE]}
    [] p.delay # 0 /\ NotDue(p) ->
         {[player |-> p, run |-> <<>>, changed |-> FALSE]}
    [] OTHER ->
         {[player |-> Ran(p, run), run |-> run, changed |-> Renders(p, run)] :
            run \in Runs(p)}

\* The age from which nothing depends on it any more.
OldAge == (CatchUp + 1) * Longest

\* One unit of time passes.
Older(p) ==
  [p EXCEPT !.age = IF @ = None THEN None ELSE Smaller(@ + 1, OldAge),
            !.wake = IF @ = None THEN None ELSE Left(@ - 1)]
=============================================================================
