------------------------------ MODULE Rotation ------------------------------
(***************************************************************************)
(* What a playlist promises: the modes take turns.  A round plays every    *)
(* mode once, in any order, and no round begins with the mode that ended   *)
(* the round before it.                                                    *)
(***************************************************************************)
CONSTANTS All, None

VARIABLES
  modes,   \* the modes of the playlist
  mode,    \* the one that plays
  left     \* what is left of the round

vars == <<modes, mode, left>>

Init == modes \in SUBSET All /\ mode = None /\ left = {}

Start ==
  /\ mode = None
  /\ mode' \in modes /\ left' = modes \ {mode'} /\ UNCHANGED modes

Turn ==
  /\ mode # None /\ left # {}
  /\ mode' \in left /\ left' = left \ {mode'} /\ UNCHANGED modes

Round ==
  /\ mode # None /\ left = {}
  /\ mode' \in modes \ {mode} /\ left' = modes \ {mode'} /\ UNCHANGED modes

\* The playlist is dropped, with what is left of its round.
Drop == mode # None /\ mode' = None /\ left' = {} /\ UNCHANGED modes

Next == Start \/ Turn \/ Round \/ Drop

Spec == Init /\ [][Next]_vars
=============================================================================
