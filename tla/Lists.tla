------------------------------- MODULE Lists -------------------------------
(* Walks over a list from its first element on, as recursive functions of  *)
(* how much of it has been walked.                                         *)
EXTENDS Integers, Sequences

\* What Vec::retain() has kept after i elements: those at the places of keep.
Retaining(list, keep) ==
  LET upto[i \in 0 .. Len(list)] ==
        IF i = 0 THEN <<>>
        ELSE IF i \in keep THEN Append(upto[i - 1], list[i]) ELSE upto[i - 1]
  IN  upto

Retained(list, keep) == Retaining(list, keep)[Len(list)]

\* The sums of the first i numbers.
Sums(list) ==
  LET upto[i \in 0 .. Len(list)] == IF i = 0 THEN 0 ELSE upto[i - 1] + list[i]
  IN  upto

Total(list) == Sums(list)[Len(list)]
=============================================================================
