----------------------------- MODULE ListProofs -----------------------------
(* Lemmas about the walks over lists: that the recursive functions are     *)
(* what their equations say, and what they keep and count.  The provers    *)
(* take induction as a fact about the least number of a set.               *)
EXTENDS Lists, FiniteSets, FiniteSetTheorems, WellFoundedInduction, TLAPS

-----------------------------------------------------------------------------
(* The greatest of some bounded numbers.                                   *)

Less == {q \in Nat \X Nat : q[1] < q[2]}

LEMMA LessWellFounded == IsWellFoundedOn(Less, Nat)
<1>1. IsWellFoundedOn({q \in Nat \X Nat : q[1] < q[2]}, Nat)
  BY NatLessThanWellFounded DEF OpToRel
<1>2. QED
  BY <1>1 DEF Less

LEMMA LeastNat ==
  ASSUME NEW S \in SUBSET Nat, S # {}
  PROVE  \E m \in S : \A n \in S : m <= n
<1>1. PICK m \in S : \A n \in S : ~(<<n, m>> \in Less)
  BY LessWellFounded, WFMin
<1>2. \A n \in S : n < m => <<n, m>> \in Less
  BY DEF Less
<1>3. ASSUME NEW n \in S PROVE m <= n
  <2>1. ~(n < m)
    BY <1>1, <1>2
  <2>2. n \in Nat /\ m \in Nat
    OBVIOUS
  <2>3. QED
    BY <2>1, <2>2
<1>4. QED
  BY <1>3

LEMMA GreatestBelow ==
  ASSUME NEW k \in Nat, NEW S \in SUBSET (0 .. k), S # {}
  PROVE  \E m \in S : \A n \in S : n <= m
<1> DEFINE T == {j \in Nat : \E n \in S : j = k - n}
<1>1. T # {}
  <2>1. PICK n \in S : TRUE
    OBVIOUS
  <2>2. k - n \in T
    OBVIOUS
  <2>3. QED
    BY <2>2
<1>2. PICK t \in T : \A u \in T : t <= u
  BY <1>1, LeastNat
<1>3. PICK m \in S : t = k - m
  OBVIOUS
<1>4. ASSUME NEW n \in S PROVE n <= m
  <2>1. k - n \in T
    OBVIOUS
  <2>2. QED
    BY <1>2, <1>3, <2>1
<1>5. QED
  BY <1>4

-----------------------------------------------------------------------------
(* Induction and recursion over 0 .. n.                                    *)

LEMMA UpTo ==
  ASSUME NEW n \in Nat, NEW S, 0 \in S,
         \A i \in 1 .. n : i - 1 \in S => i \in S
  PROVE  0 .. n \subseteq S
<1> SUFFICES ASSUME NEW k \in 0 .. n, k \notin S PROVE FALSE
  OBVIOUS
<1> DEFINE T == {i \in 0 .. n : i \notin S}
<1>1. T \in SUBSET Nat /\ T # {}
  OBVIOUS
<1>2. PICK m \in T : \A i \in T : m <= i
  BY <1>1, LeastNat
<1>3. m \in 1 .. n
  OBVIOUS
<1>4. m - 1 \in 0 .. n /\ ~(m <= m - 1)
  BY <1>3
<1>5. m - 1 \in S
  BY <1>2, <1>4
<1>6. QED
  BY <1>3, <1>5

\* The first value and the steps of a function on 0 .. n.
Recurs(f, n, a, step) ==
  f[0] = a /\ \A i \in 1 .. n : f[i] = step[<<f[i - 1], i>>]

LEMMA RecursionExists ==
  ASSUME NEW n \in Nat, NEW V, NEW a \in V, NEW step \in [V \X (1 .. n) -> V]
  PROVE  \E f \in [0 .. n -> V] : Recurs(f, n, a, step)
<1> DEFINE Solves(f, k) == Recurs(f, k, a, step)
           S == {k \in 0 .. n : \E f \in [0 .. k -> V] : Solves(f, k)}
<1>1. 0 \in S
  <2> DEFINE f == [i \in 0 .. 0 |-> a]
  <2>1. f \in [0 .. 0 -> V] /\ f[0] = a
    OBVIOUS
  <2> HIDE DEF f
  <2>2. Solves(f, 0)
    BY <2>1 DEF Recurs
  <2> HIDE DEF Solves
  <2>3. QED
    BY <2>1, <2>2
<1>2. ASSUME NEW k \in 1 .. n, k - 1 \in S PROVE k \in S
  <2>1. PICK f \in [0 .. k - 1 -> V] : Solves(f, k - 1)
    BY <1>2
  <2> DEFINE last == step[<<f[k - 1], k>>]
             g    == [i \in 0 .. k |-> IF i = k THEN last ELSE f[i]]
  <2>2. f[k - 1] \in V
    OBVIOUS
  <2>3. last \in V
    BY <2>2
  <2> HIDE DEF last
  <2>4. /\ g \in [0 .. k -> V] /\ g[k] = last
        /\ \A i \in 0 .. k - 1 : g[i] = f[i]
    BY <2>3
  <2> HIDE DEF g
  <2>5. g[0] = a
    BY <2>1, <2>4 DEF Recurs
  <2>6. ASSUME NEW i \in 1 .. k PROVE g[i] = step[<<g[i - 1], i>>]
    <3>1. g[i - 1] = f[i - 1]
      BY <2>4
    <3>2. CASE i = k
      BY <2>4, <3>1, <3>2 DEF last
    <3>3. CASE i # k
      <4>1. i \in 1 .. k - 1
        BY <3>3
      <4>2. g[i] = f[i]
        BY <2>4, <4>1
      <4>3. f[i] = step[<<f[i - 1], i>>]
        BY <2>1, <4>1 DEF Recurs
      <4>4. QED
        BY <3>1, <4>2, <4>3
    <3>4. QED
      BY <3>2, <3>3
  <2>7. Solves(g, k)
    BY <2>5, <2>6 DEF Recurs
  <2> HIDE DEF Solves
  <2>8. QED
    BY <2>4, <2>7
<1> HIDE DEF S
<1>3. 0 .. n \subseteq S
  BY <1>1, <1>2, UpTo
<1>4. n \in S
  BY <1>3
<1>5. QED
  BY <1>4 DEF S

-----------------------------------------------------------------------------
(* What is retained.                                                       *)

LEMMA RetainingIs ==
  ASSUME NEW B, NEW list \in Seq(B), NEW keep
  PROVE  /\ Retaining(list, keep) \in [0 .. Len(list) -> Seq(B)]
         /\ Retaining(list, keep)[0] = <<>>
         /\ \A i \in 1 .. Len(list) :
              Retaining(list, keep)[i] =
                IF i \in keep THEN Append(Retaining(list, keep)[i - 1], list[i])
                ELSE Retaining(list, keep)[i - 1]
<1> DEFINE n == Len(list)
           e == <<>>
           V == Seq(B)
           P(f) == f = [i \in 0 .. n |->
                          IF i = 0 THEN e
                          ELSE IF i \in keep THEN Append(f[i - 1], list[i])
                               ELSE f[i - 1]]
           step == [q \in V \X (1 .. n) |->
                      IF q[2] \in keep THEN Append(q[1], list[q[2]]) ELSE q[1]]
           r == Retaining(list, keep)
<1>1. n \in Nat /\ e \in V
  OBVIOUS
<1>2. \A s \in V, i \in 1 .. n : Append(s, list[i]) \in V
  OBVIOUS
<1>3. r = CHOOSE f : P(f)
  BY Zenon DEF Retaining
<1> HIDE DEF r, n, e, V
<1>4. step \in [V \X (1 .. n) -> V]
  BY <1>2
<1>5. \A s \in V, i \in 1 .. n :
        step[<<s, i>>] = IF i \in keep THEN Append(s, list[i]) ELSE s
  OBVIOUS
<1> HIDE DEF step
<1>6. PICK f \in [0 .. n -> V] : Recurs(f, n, e, step)
  BY <1>1, <1>4, RecursionExists
<1>7. \A i \in 0 .. n : i = 0 \/ (i \in 1 .. n /\ i # 0 /\ i - 1 \in 0 .. n)
  BY <1>1
<1>8. \A i \in 1 .. n :
        f[i] = IF i \in keep THEN Append(f[i - 1], list[i]) ELSE f[i - 1]
  BY <1>1, <1>5, <1>6 DEF Recurs
<1>9. P(f)
  BY <1>6, <1>7, <1>8 DEF Recurs
<1> HIDE DEF P
<1>10. P(r)
  BY <1>3, <1>9
<1>11. /\ r = [i \in 0 .. n |-> r[i]] /\ r[0] = e
       /\ \A i \in 1 .. n :
            r[i] = IF i \in keep THEN Append(r[i - 1], list[i]) ELSE r[i - 1]
  <2>1. r = [i \in 0 .. n |-> r[i]]
    BY <1>10 DEF P
  <2>2. r[0] = e
    BY <1>1, <1>10 DEF P
  <2>3. ASSUME NEW i \in 1 .. n
        PROVE  r[i] = IF i \in keep THEN Append(r[i - 1], list[i]) ELSE r[i - 1]
    <3>1. i \in 0 .. n /\ i # 0
      BY <1>1
    <3>2. QED
      BY <1>10, <3>1, Zenon DEF P
  <2>4. QED
    BY <2>1, <2>2, <2>3
<1> DEFINE S == {i \in 0 .. n : r[i] \in V}
<1>12. 0 .. n \subseteq S
  <2>1. 0 \in S
    BY <1>1, <1>11
  <2>2. ASSUME NEW i \in 1 .. n, i - 1 \in S PROVE i \in S
    <3>1. r[i - 1] \in V /\ i \in 0 .. n
      BY <1>1, <2>2
    <3>2. Append(r[i - 1], list[i]) \in V
      BY <1>2, <3>1
    <3>3. r[i] \in V
      BY <1>11, <3>1, <3>2
    <3>4. QED
      BY <3>1, <3>3
  <2> HIDE DEF S
  <2>3. QED
    BY <1>1, <2>1, <2>2, UpTo
<1>13. r \in [0 .. n -> V]
  BY <1>11, <1>12
<1>14. QED
  BY <1>11, <1>13 DEF r, n, e, V

\* Where what was retained came from: h gives its places in the list, in order.
Origins(kept, list, places, h) ==
  /\ h \in [1 .. Len(kept) -> places]
  /\ \A j \in 1 .. Len(kept) : kept[j] = list[h[j]]
  /\ \A j, k \in 1 .. Len(kept) : j < k => h[j] < h[k]
  /\ \A i \in places : \E j \in 1 .. Len(kept) : h[j] = i

LEMMA OriginsGrow ==
  ASSUME NEW B, NEW kept \in Seq(B), NEW list, NEW n \in Nat,
         NEW places \in SUBSET (1 .. n), NEW h, Origins(kept, list, places, h),
         list[n + 1] \in B
  PROVE  \E g : Origins(Append(kept, list[n + 1]), list, places \cup {n + 1}, g)
<1> DEFINE m    == Len(kept)
           more == Append(kept, list[n + 1])
           g    == [j \in 1 .. m + 1 |-> IF j = m + 1 THEN n + 1 ELSE h[j]]
<1>1. /\ m \in Nat /\ Len(more) = m + 1 /\ more[m + 1] = list[n + 1]
      /\ \A j \in 1 .. m : more[j] = kept[j]
  OBVIOUS
<1>2. /\ \A j \in 1 .. m : g[j] = h[j]
      /\ g[m + 1] = n + 1 /\ DOMAIN g = 1 .. m + 1
  BY <1>1
<1>3. /\ h \in [1 .. m -> places]
      /\ \A j \in 1 .. m : kept[j] = list[h[j]]
      /\ \A j, k \in 1 .. m : j < k => h[j] < h[k]
      /\ \A i \in places : \E j \in 1 .. m : h[j] = i
  BY DEF Origins
<1>4. g \in [1 .. m + 1 -> places \cup {n + 1}]
  BY <1>1, <1>3
<1> HIDE DEF m, more, g
<1>5. \A j \in 1 .. m + 1 : j \in 1 .. m \/ j = m + 1
  BY <1>1
<1>6. \A j \in 1 .. m + 1 : more[j] = list[g[j]]
  BY <1>1, <1>2, <1>3, <1>5
<1>7. ASSUME NEW j \in 1 .. m + 1, NEW k \in 1 .. m + 1, j < k
      PROVE  g[j] < g[k]
  <2>1. j \in 1 .. m
    BY <1>1, <1>7
  <2>2. g[j] = h[j] /\ h[j] \in places
    BY <1>2, <1>3, <2>1
  <2>3. h[j] \in 1 .. n
    BY <2>2
  <2>4. CASE k = m + 1
    BY <1>2, <2>2, <2>3, <2>4
  <2>5. CASE k # m + 1
    BY <1>2, <1>3, <1>5, <1>7, <2>1, <2>2, <2>5
  <2>6. QED
    BY <2>4, <2>5
<1>8. ASSUME NEW i \in places \cup {n + 1}
      PROVE  \E j \in 1 .. m + 1 : g[j] = i
  <2>1. CASE i = n + 1
    BY <1>1, <1>2, <2>1
  <2>2. CASE i # n + 1
    BY <1>1, <1>2, <1>3, <2>2
  <2>3. QED
    BY <2>1, <2>2
<1>9. Origins(more, list, places \cup {n + 1}, g)
  BY <1>1, <1>4, <1>6, <1>7, <1>8 DEF Origins
<1>10. QED
  BY <1>9 DEF more

\* What is retained is what was at the places to keep, each once and in order.
LEMMA RetainedFacts ==
  ASSUME NEW B, NEW list \in Seq(B), NEW keep
  PROVE  /\ Retained(list, keep) \in Seq(B)
         /\ \E h : Origins(Retained(list, keep), list,
                           keep \cap (1 .. Len(list)), h)
<1> DEFINE n == Len(list)
           r == Retaining(list, keep)
           S == {i \in 0 .. n :
                   \E h : Origins(r[i], list, keep \cap (1 .. i), h)}
<1>1. /\ n \in Nat /\ r \in [0 .. n -> Seq(B)] /\ r[0] = <<>>
      /\ \A i \in 1 .. n :
           r[i] = IF i \in keep THEN Append(r[i - 1], list[i]) ELSE r[i - 1]
  BY RetainingIs
<1>2. \A i \in 1 .. n : list[i] \in B
  OBVIOUS
<1> HIDE DEF n, r
<1>3. 0 \in S
  <2> DEFINE h == [j \in 1 .. 0 |-> 0]
             places == keep \cap (1 .. 0)
  <2>1. Len(r[0]) = 0 /\ 1 .. Len(r[0]) = {} /\ places = {}
    BY <1>1
  <2>2. h \in [1 .. Len(r[0]) -> places]
    BY <2>1
  <2> HIDE DEF h, places
  <2>3. Origins(r[0], list, places, h)
    BY <2>1, <2>2 DEF Origins
  <2>4. QED
    BY <1>1, <2>3 DEF places
<1>4. ASSUME NEW i \in 1 .. n, i - 1 \in S PROVE i \in S
  <2> DEFINE places == keep \cap (1 .. i - 1)
  <2>1. PICK h : Origins(r[i - 1], list, places, h)
    BY <1>4
  <2>2. /\ i - 1 \in Nat /\ (i - 1) + 1 = i /\ r[i - 1] \in Seq(B)
        /\ places \in SUBSET (1 .. i - 1) /\ list[i] \in B
    BY <1>1, <1>2
  <2>3. CASE i \in keep
    <3>1. keep \cap (1 .. i) = places \cup {i}
      BY <2>2, <2>3
    <3> HIDE DEF places
    <3>2. \E g : Origins(Append(r[i - 1], list[i]), list, places \cup {i}, g)
      <4> DEFINE k == i - 1
      <4>1. /\ k \in Nat /\ k + 1 = i /\ places \in SUBSET (1 .. k)
            /\ list[k + 1] \in B /\ r[k] \in Seq(B) /\ Origins(r[k], list, places, h)
        BY <2>1, <2>2
      <4> HIDE DEF k
      <4>2. \E g : Origins(Append(r[k], list[k + 1]), list, places \cup {k + 1}, g)
        BY <4>1, OriginsGrow, Zenon
      <4>3. QED
        BY <4>1, <4>2 DEF k
    <3>3. r[i] = Append(r[i - 1], list[i]) /\ i \in 0 .. n
      <4>1. r[i] = IF i \in keep THEN Append(r[i - 1], list[i]) ELSE r[i - 1]
        BY <1>1, Zenon
      <4>2. i \in 0 .. n
        BY <1>1
      <4>3. QED
        BY <2>3, <4>1, <4>2, Zenon
    <3>4. \E g : Origins(r[i], list, keep \cap (1 .. i), g)
      BY <3>1, <3>2, <3>3, Zenon
    <3>5. QED
      BY <3>3, <3>4, Zenon
  <2>4. CASE i \notin keep
    <3>1. keep \cap (1 .. i) = places
      BY <2>2, <2>4
    <3>2. r[i] = r[i - 1] /\ i \in 0 .. n
      BY <1>1, <2>4
    <3>3. \E g : Origins(r[i], list, keep \cap (1 .. i), g)
      BY <2>1, <3>1, <3>2, Zenon
    <3>4. QED
      BY <3>2, <3>3, Zenon
  <2>5. QED
    BY <2>3, <2>4
<1>5. n \in S
  <2> HIDE DEF S
  <2>1. 0 .. n \subseteq S
    BY <1>1, <1>3, <1>4, UpTo
  <2>2. QED
    BY <1>1, <2>1
<1>6. Retained(list, keep) = r[n] /\ r[n] \in Seq(B)
  BY <1>1 DEF Retained, r, n
<1>7. QED
  BY <1>5, <1>6 DEF n

-----------------------------------------------------------------------------
(* What is summed.                                                         *)

LEMMA SumsIs ==
  ASSUME NEW list \in Seq(Nat)
  PROVE  /\ Sums(list) \in [0 .. Len(list) -> Nat]
         /\ Sums(list)[0] = 0
         /\ \A i \in 1 .. Len(list) : Sums(list)[i] = Sums(list)[i - 1] + list[i]
<1> DEFINE n == Len(list)
           P(f) == f = [i \in 0 .. n |-> IF i = 0 THEN 0 ELSE f[i - 1] + list[i]]
           step == [q \in Nat \X (1 .. n) |-> q[1] + list[q[2]]]
           r == Sums(list)
<1>1. n \in Nat /\ \A i \in 1 .. n : list[i] \in Nat
  OBVIOUS
<1>2. r = CHOOSE f : P(f)
  BY Zenon DEF Sums
<1> HIDE DEF r, n
<1>3. step \in [Nat \X (1 .. n) -> Nat]
  BY <1>1
<1>4. \A s \in Nat, i \in 1 .. n : step[<<s, i>>] = s + list[i]
  OBVIOUS
<1> HIDE DEF step
<1>5. PICK f \in [0 .. n -> Nat] : Recurs(f, n, 0, step)
  BY <1>1, <1>3, RecursionExists
<1>6. \A i \in 0 .. n : i = 0 \/ (i \in 1 .. n /\ i # 0 /\ i - 1 \in 0 .. n)
  BY <1>1
<1>7. ASSUME NEW i \in 1 .. n PROVE f[i] = f[i - 1] + list[i]
  <2>1. f[i - 1] \in Nat
    BY <1>1, <1>5
  <2>2. f[i] = step[<<f[i - 1], i>>]
    BY <1>5 DEF Recurs
  <2>3. QED
    BY <1>4, <2>1, <2>2
<1>8. P(f)
  BY <1>5, <1>6, <1>7 DEF Recurs
<1> HIDE DEF P
<1>9. P(r)
  BY <1>2, <1>8
<1>10. r = [i \in 0 .. n |-> r[i]] /\ r[0] = 0
  BY <1>1, <1>9 DEF P
<1>11. ASSUME NEW i \in 1 .. n PROVE r[i] = r[i - 1] + list[i]
  <2>1. i \in 0 .. n /\ i # 0
    BY <1>1
  <2>2. QED
    BY <1>9, <2>1, Zenon DEF P
<1> DEFINE S == {i \in 0 .. n : r[i] \in Nat}
<1>12. 0 .. n \subseteq S
  <2>1. 0 \in S
    BY <1>1, <1>10
  <2>2. ASSUME NEW i \in 1 .. n, i - 1 \in S PROVE i \in S
    <3>1. r[i - 1] \in Nat /\ list[i] \in Nat /\ i \in 0 .. n
      BY <1>1, <2>2
    <3>2. r[i] \in Nat
      BY <1>11, <3>1
    <3>3. QED
      BY <3>1, <3>2
  <2> HIDE DEF S
  <2>3. QED
    BY <1>1, <2>1, <2>2, UpTo
<1>13. r \in [0 .. n -> Nat]
  BY <1>10, <1>12
<1>14. QED
  BY <1>10, <1>11, <1>13 DEF r, n

LEMMA TotalIsNat == ASSUME NEW list \in Seq(Nat) PROVE Total(list) \in Nat
BY SumsIs DEF Total

LEMMA TotalOfNone == Total(<<>>) = 0
<1>1. <<>> \in Seq(Nat) /\ Len(<<>>) = 0
  OBVIOUS
<1>2. QED
  BY <1>1, SumsIs DEF Total

\* One more number counts once.
LEMMA TotalOfMore ==
  ASSUME NEW list \in Seq(Nat), NEW x \in Nat
  PROVE  Total(Append(list, x)) = Total(list) + x
<1> DEFINE n == Len(list)
           more == Append(list, x)
           S == {i \in 0 .. n : Sums(more)[i] = Sums(list)[i]}
<1>1. /\ n \in Nat /\ more \in Seq(Nat) /\ Len(more) = n + 1 /\ more[n + 1] = x
      /\ \A i \in 1 .. n : more[i] = list[i]
  OBVIOUS
<1> HIDE DEF more
<1>2. /\ Sums(more)[0] = 0
      /\ \A i \in 1 .. n + 1 : Sums(more)[i] = Sums(more)[i - 1] + more[i]
  BY <1>1, SumsIs
<1>3. /\ Sums(list)[0] = 0
      /\ \A i \in 1 .. n : Sums(list)[i] = Sums(list)[i - 1] + list[i]
  BY SumsIs
<1> HIDE DEF n
<1>4. 0 \in S
  BY <1>1, <1>2, <1>3
<1>5. ASSUME NEW i \in 1 .. n, i - 1 \in S PROVE i \in S
  BY <1>1, <1>2, <1>3, <1>5
<1>6. n \in S
  <2> HIDE DEF S
  <2>1. 0 .. n \subseteq S
    BY <1>1, <1>4, <1>5, UpTo
  <2>2. QED
    BY <1>1, <2>1
<1>7. Sums(more)[n + 1] = Sums(list)[n] + x
  BY <1>1, <1>2, <1>6
<1>8. QED
  BY <1>1, <1>7 DEF Total, more, n
=============================================================================
