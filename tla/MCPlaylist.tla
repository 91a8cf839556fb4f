----------------------------- MODULE MCPlaylist -----------------------------
(* Modes for TLC, and liveness.                                             *)
EXTENDS Playlist

CONSTANTS fast, still, smooth   \* modes

MCMode == {fast, still, smooth}

\* fast: below the refresh period, with a pause; still: stops its own clock.
MCFirst  == [m \in MCMode |-> IF m = fast THEN 1 ELSE 2]
MCDelays == [m \in MCMode |-> CASE m = fast -> {1, 3} [] m = still -> {2, 0}
                                [] OTHER -> {2}]

\* Lists of configurations; "typo" is no registered mode.
MCLists == {<<fast, "typo", still, smooth>>, <<smooth, still>>, <<fast>>,
            <<"typo">>, <<>>}

-----------------------------------------------------------------------------
(* Liveness.                                                               *)

\* Of FairSpec, while the outputs stay: every mode comes up again and again,
\* also after one that has stopped its clock (playlist.rs:158-160).
EveryModeAirs ==
  \A m \in Mode :
    <>[](player # None /\ Multi /\ m \in Range(Valid)) => []<>(playing = m)

=============================================================================
