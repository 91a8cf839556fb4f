----------------------------- MODULE MCStartup -------------------------------
(* Command lines and config files for TLC.                                 *)
EXTENDS Startup

CONSTANTS color, cycle

MCOptions == {color, cycle}

Give(a, b) == [o \in MCOptions |-> IF o = color THEN a ELSE b]

MCLines ==
  {[parsable |-> FALSE, settings |-> Give(None, None), detach |-> None,
    ready |-> TRUE]}
  \cup {[parsable |-> TRUE, settings |-> s, detach |-> d, ready |-> r] :
          s \in {Give(None, None), Give("good", None), Give("bad", None),
                 Give("good", "good")},
          d \in {None, "on", "off"}, r \in BOOLEAN}

MCFiles ==
  {[state |-> s, settings |-> Give(None, None), detach |-> FALSE] :
     s \in {"missing", "broken"}}
  \cup {[state |-> "parsable", settings |-> s, detach |-> d] :
          s \in {Give(None, None), Give("bad", None), Give(None, "bad"),
                 Give("good", "good")},
          d \in BOOLEAN}
=============================================================================
