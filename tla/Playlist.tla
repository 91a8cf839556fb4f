------------------------------ MODULE Playlist ------------------------------
(***************************************************************************)
(* The animation behind the indicator, for outputs of one size: the        *)
(* playlist (playlist.rs) that rotates the player through the configured   *)
(* modes, its life in the App (playlist_for(), advance_animations(),       *)
(* next_anim_wake(), retain_animation_sizes() of app.rs), and a surface    *)
(* that copies the frame when its identity is new.                         *)
(***************************************************************************)
EXTENDS AnimationClock, FiniteSets, Functions

CONSTANTS
  Lists,   \* the lists of modes that a configuration may have
  Cycle    \* how long each of several modes plays

\* Playlist::new() keeps the modes that are registered.
Registered(list) == SelectSeq(list, LAMBDA m : m \in Mode)

ASSUME ListAssumption ==
  /\ Cycle \in Nat \ {0}
  /\ \A list \in Lists : Registered(list) \in Seq(Mode)
  /\ None \notin Player

VARIABLES
  config,   \* the modes in their order, and the frame delay's floor
  enabled,  \* animation_enabled
  order,    \* the playlist's modes, shuffled
  idx,      \* which of them plays
  switch,   \* the time left until switch_at
  player,   \* None while there is no playlist of this size
  newId,    \* frame_id() is not the one that a surface made its copy under
  ran       \* what the last draw() ticked, for the properties

vars == <<config, enabled, order, idx, switch, player, newId, ran>>

Config == [modes : Lists, floor : Floors]

Valid == Registered(config.modes)

TypeOK ==
  /\ config \in Config /\ enabled \in BOOLEAN
  /\ order \in Seq(Mode) /\ Range(order) \subseteq Range(Valid)
  /\ idx \in Nat /\ (player # None => idx \in DOMAIN order)
  /\ switch \in 0 .. Cycle \cup {None}
  /\ player \in Player \cup {None}
  /\ newId \in BOOLEAN
  /\ ran \in [run : Seq(Nat), delay : Nat, age : Nat \cup {None}] \cup {None}

-----------------------------------------------------------------------------
(* The playlist.                                                           *)

\* All the orders that shuffle() may make of one.
Shuffles(list) ==
  {[i \in DOMAIN list |-> list[f[i]]] :
     f \in Bijection(DOMAIN list, DOMAIN list)}

\* Mutant: a new round may begin with the mode that ended the last one.
Repeating(list, last) == list

\* The first two are swapped if the first has just played.
NoRepeat(list, last) ==
  IF Len(list) > 1 /\ list[1] = last
  THEN [i \in DOMAIN list |-> CASE i = 1 -> list[2] [] i = 2 -> list[1]
                                [] OTHER -> list[i]]
  ELSE list

Multi == Len(order) > 1

\* Is it time to switch to the next mode?
SwitchDue == Multi /\ switch = 0

\* switch_to_next(): the order and place of the next mode.
NextPlaces ==
  IF idx < Len(order) THEN {[order |-> order, idx |-> idx + 1]}
  ELSE {[order |-> NoRepeat(list, order[Len(order)]), idx |-> 1] :
          list \in Shuffles(order)}

\* Mutant: the new player is not given the size of the surface.
SwitchedUnsized(m) == NewPlayer(m, config.floor)

\* The player of the mode switched to.
Switched(m) == Sized(NewPlayer(m, config.floor))

\* Mutant: a frame that was ticked after a switch or not at all is not new.
ChangedBySwitch(switched, changed) == switched

\* Playlist::advance() moves on to another generation of frames.
Changed(switched, changed) == switched \/ changed

\* advance() from one place and player: the clock advances, and the surface's
\* copy is out of date if anything was drawn.
AdvanceFrom(place, p, switched) ==
  \E a \in Advances(p) :
    /\ order' = place.order /\ idx' = place.idx
    /\ switch' = CASE ~(Len(place.order) > 1) -> switch
                   [] Len(place.order) > 1 /\ (switch = None \/ switched) -> Cycle
                   [] OTHER -> switch
    /\ player' = a.player
    /\ ran' = [run |-> a.run, delay |-> p.delay, age |-> p.age]
    /\ newId' = (newId \/ Changed(switched, a.changed))
    /\ UNCHANGED <<config, enabled>>

-----------------------------------------------------------------------------
(* The App.                                                                *)

Init ==
  /\ config \in Config /\ enabled = (config.modes # <<>>)
  /\ order = <<>> /\ idx = 1 /\ switch = None
  /\ player = None /\ newId = TRUE /\ ran = None

\* playlist_for() of the first surface of this size.
Create ==
  /\ player = None /\ enabled /\ Valid # <<>>
  /\ \E list \in Shuffles(Valid) :
       \E a \in Advances(Switched(list[1])) :
         /\ order' = list /\ idx' = 1
         /\ switch' = IF Len(list) > 1 THEN Cycle ELSE None
         /\ player' = a.player
         /\ ran' = [run |-> a.run, delay |-> FirstDelay[list[1]], age |-> None]
  /\ newId' = TRUE
  /\ UNCHANGED <<config, enabled>>

\* playlist_for() when no mode is registered.
Disable ==
  /\ player = None /\ enabled /\ Valid = <<>> /\ enabled' = FALSE
  /\ UNCHANGED <<config, order, idx, switch, player, newId, ran>>

\* draw(): every playlist's clock advances, whatever the reason to draw.
Draw ==
  /\ player # None
  /\ IF SwitchDue
     THEN \E place \in NextPlaces :
            AdvanceFrom(place, Switched(place.order[place.idx]), TRUE)
     ELSE AdvanceFrom([order |-> order, idx |-> idx], player, FALSE)

\* render_to_surface() copies the frame, unless it has that one already.
Blit ==
  /\ player # None /\ newId
  /\ newId' = FALSE /\ player' = [player EXCEPT !.drawn = FALSE]
  /\ UNCHANGED <<config, enabled, order, idx, switch, ran>>

\* retain_animation_sizes(): no output has this size any more.
Prune ==
  /\ player # None
  /\ player' = None /\ order' = <<>> /\ idx' = 1 /\ switch' = None
  /\ newId' = TRUE
  /\ ran' = None /\ UNCHANGED <<config, enabled>>

TimePasses ==
  /\ player # None /\ player' = Older(player)
  /\ switch' = IF switch = None THEN None ELSE Left(switch - 1)
  /\ ran' = None
  /\ UNCHANGED <<config, enabled, order, idx, newId>>

Next == Create \/ Disable \/ Draw \/ Blit \/ Prune \/ TimePasses

Spec == Init /\ [][Next]_vars

\* Mutant: the loop is woken for frames only.
NextWakeOfFrames == IF player = None THEN None ELSE player.wake

\* next_wake(): the earlier of the next frame and the next switch.
NextWake ==
  CASE player = None -> None
    [] player # None /\ (player.wake = None \/ switch = None) ->
         IF player.wake = None THEN switch ELSE player.wake
    [] OTHER -> Smaller(player.wake, switch)

\* draw() as the timer of the event loop calls it.
DrawOnTime == NextWake = 0 /\ Draw

\* While the outputs are on and stay, the loop draws when it is time to.
FairSpec == Spec /\ WF_vars(TimePasses) /\ WF_vars(DrawOnTime)

-----------------------------------------------------------------------------
(* Properties.                                                             *)

\* A surface that has the current frame_id() has the current frame: nothing is
\* drawn into the buffer, by a tick, a switch or a new size, without a new
\* generation (playlist.rs:115-139, app.rs:202-209).
FrameIdTellsFrames == player # None /\ player.drawn => newId

\* A surface never copies a buffer without a frame, also right after a switch
\* (player.rs:31-34, playlist.rs:101-107).
NeverBlank == player # None => player.buffer = "frame"

\* No backlog is carried on: after its ticks the clock is less than one delay
\* behind, however late it was (player.rs:117-121, 156-160).
NoBacklog == ran # None /\ ran.run # <<>> => player.age < ran.delay

-----------------------------------------------------------------------------
(* The modes take turns.                                                   *)

\* What the playlist shows of the rotation.
playing == IF player = None THEN None ELSE player.mode
toPlay  == {order[i] : i \in idx + 1 .. Len(order)}

Turns == INSTANCE Rotation WITH
  All <- Mode, modes <- Range(Valid), mode <- playing, left <- toPlay

\* The playlist implements the rotation: every mode once in a round, and no
\* mode twice in a row where two rounds meet (playlist.rs:3-7).
ImplementsRotation == Turns!Spec
=============================================================================
