----------------------------- MODULE MCPresent ------------------------------
(* Pictures and areas for TLC, and liveness.                               *)
EXTENDS Present, TLC

MCRegions == {"rim", "ring", "text"}
MCNone    == [area |-> {}, look |-> "ink"]
MCRing    == [area |-> {"ring"}, look |-> "ink"]
MCTwo     == {MCNone, MCRing}
MCOne     == {MCNone}

\* One size is as good as another.
SizeSymmetry == Permutations(Sizes)

\* What is shown has no effect on anything else.
ButScreen ==
  <<locked, out, pool, owed, queued, wake, low, playing, picture>>

-----------------------------------------------------------------------------
(* Liveness, of FairSpec.                                                  *)

\* No output lags for ever: a draw() that finds surfaces waiting for their
\* callbacks is made up for (wayland.rs:250-262, 291-296, 958-980).
CatchesUp ==
  \A o \in Outputs :
    out[o].configured ~> ~out[o].configured \/ screen[o] = Wanted(o)

=============================================================================
