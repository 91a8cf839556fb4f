--------------------------- MODULE PlaylistProofs ---------------------------
(* Theorems about Playlist and its clock, for any modes, delays, floors    *)
(* and lists.                                                              *)
EXTENDS Playlist, SequenceTheorems, TLAPS

-----------------------------------------------------------------------------
(* Arithmetic of the clock.                                                *)

LEMMA Multiples ==
  ASSUME NEW d \in Nat \ {0}, NEW q \in Nat, NEW m \in Nat, q * d < m * d
  PROVE  q < m
<1>1. SUFFICES ASSUME m <= q PROVE FALSE
  OBVIOUS
<1>2. q - m \in Nat /\ q = m + (q - m)
  BY <1>1
<1>3. q * d = m * d + (q - m) * d /\ (q - m) * d \in Nat
  BY <1>2
<1>4. m * d \in Nat /\ q * d \in Nat
  OBVIOUS
<1>5. QED
  BY <1>3, <1>4

LEMMA Division ==
  ASSUME NEW a \in Nat, NEW d \in Nat \ {0}
  PROVE  /\ a \div d \in Nat
         /\ (a \div d) * d <= a /\ a < (a \div d) * d + d
OBVIOUS

-----------------------------------------------------------------------------
(* The clock.                                                              *)

LEMMA SmallerFacts ==
  ASSUME NEW a \in Nat, NEW b \in Nat
  PROVE  /\ Smaller(a, b) \in Nat /\ Smaller(a, b) <= a /\ Smaller(a, b) <= b
         /\ Larger(a, b) \in Nat /\ Larger(a, b) >= a /\ Larger(a, b) >= b
         /\ Smaller(a, b) \in {a, b}
BY DEF Smaller, Larger

LEMMA LeftType == ASSUME NEW d \in Int PROVE Left(d) \in Nat
BY DEF Left, Larger

LEMMA PlannedType ==
  ASSUME NEW p \in Player, p.delay # 0
  PROVE  MaxTicks(p) \in Nat \ {0} /\ Planned(p) \in Nat
<1>1. MaxTicks(p) \in Nat \ {0}
  BY ClockAssumption DEF MaxTicks
<1>2. CASE p.age = None
  BY <1>1, <1>2 DEF Planned
<1>3. CASE p.age # None
  <2>1. p.age \in Nat /\ p.delay \in Nat \ {0}
    BY <1>3 DEF Player
  <2>2. QED
    BY <1>1, <1>3, <2>1, Division, SmallerFacts DEF Planned
<1>4. QED
  BY <1>1, <1>2, <1>3

\* The anchor is in the past, and less than one delay behind.
LEMMA AnchorFacts ==
  ASSUME NEW p \in Player, p.delay # 0
  PROVE  Anchor(p) \in Nat /\ Anchor(p) < p.delay
<1> DEFINE d == p.delay
           m == MaxTicks(p)
<1>1. d \in Nat \ {0} /\ m \in Nat \ {0}
  BY PlannedType DEF Player
<1>2. CASE p.age = None
  BY <1>1, <1>2 DEF Anchor
<1>3. CASE p.age # None
  <2> DEFINE a == p.age
             q == a \div d
  <2>1. a \in Nat
    BY <1>3 DEF Player
  <2>2. q \in Nat /\ q * d <= a /\ a < q * d + d
    BY <1>1, <2>1, Division
  <2>3. Planned(p) = Smaller(q, m)
    BY <1>3 DEF Planned
  <2>4. CASE a >= (m + 1) * d
    BY <1>1, <1>3, <2>4 DEF Anchor
  <2>5. CASE ~(a >= (m + 1) * d)
    <3>1. Anchor(p) = a - Planned(p) * d
      BY <1>3, <2>5 DEF Anchor
    <3> HIDE DEF q, a, d, m
    <3>2. q * d \in Nat /\ (m + 1) * d \in Nat
      BY <1>1, <2>2
    <3>3. q * d < (m + 1) * d
      BY <2>1, <2>2, <2>5, <3>2
    <3>4. q <= m
      BY <1>1, <2>2, <3>3, Multiples
    <3>5. Planned(p) = q
      BY <2>3, <3>4 DEF Smaller
    <3>6. QED
      BY <1>1, <2>1, <2>2, <3>1, <3>2, <3>5 DEF d
  <2>6. QED
    BY <2>4, <2>5
<1>4. QED
  BY <1>2, <1>3

LEMMA RunsType ==
  ASSUME NEW p \in Player, p.delay # 0, NEW run \in Runs(p)
  PROVE  /\ run \in Seq(Nat)
         /\ p.buffer # "none" /\ Planned(p) # 0 => run # <<>>
<1>1. Planned(p) \in Nat
  BY PlannedType
<1>2. CASE p.buffer = "none"
  BY <1>1, <1>2 DEF Runs, Player
<1>3. CASE p.buffer # "none" /\ Planned(p) = 0
  BY <1>3 DEF Runs
<1>4. CASE p.buffer # "none" /\ Planned(p) # 0
  <2>1. PICK n \in 1 .. Planned(p) : run \in [1 .. n -> Delays[p.mode]]
    BY <1>4 DEF Runs
  <2>2. Delays[p.mode] \subseteq Nat
    BY ClockAssumption DEF Player
  <2>3. run \in [1 .. n -> Nat] /\ n \in Nat
    BY <1>1, <2>1, <2>2
  <2>4. run \in Seq(Nat) /\ Len(run) = n
    BY <2>3
  <2>5. QED
    BY <1>1, <2>4
<1>5. QED
  BY <1>2, <1>3, <1>4

LEMMA WakeType ==
  ASSUME NEW p \in Player, NEW run \in Seq(Nat), NEW age \in Nat
  PROVE  Wake(p, run, age) \in Nat
<1> DEFINE asked == IF run = <<>> THEN p.delay ELSE run[Len(run)]
<1>1. p.delay \in Nat /\ p.floor \in Nat
  BY ClockAssumption DEF Player
<1>2. asked \in Nat
  BY <1>1
<1> HIDE DEF asked
<1>3. /\ Left(Larger(asked, p.floor) - age) \in Nat
      /\ Left(Larger(p.delay, p.floor) - age) \in Nat
      /\ Larger(p.floor, 1) \in Nat
  <2>1. /\ Larger(asked, p.floor) \in Nat /\ Larger(p.delay, p.floor) \in Nat
        /\ Larger(p.floor, 1) \in Nat
    BY <1>1, <1>2, SmallerFacts
  <2>2. /\ Larger(asked, p.floor) - age \in Int
        /\ Larger(p.delay, p.floor) - age \in Int
    BY <2>1
  <2>3. QED
    BY <2>1, <2>2, LeftType
<1>4. Wake(p, run, age) \in {Left(Larger(asked, p.floor) - age),
                             Larger(p.floor, 1),
                             Left(Larger(p.delay, p.floor) - age)}
  BY DEF Wake, asked
<1>5. QED
  BY <1>3, <1>4

\* What the ticks leave of the player.
LEMMA RanFacts ==
  ASSUME NEW p \in Player, p.delay # 0, NEW run \in Runs(p)
  PROVE  LET q == Ran(p, run)
         IN  /\ q \in Player /\ q.mode = p.mode
             /\ q.age \in Nat /\ q.age < p.delay
             /\ q.buffer = IF Renders(p, run) THEN "frame" ELSE p.buffer
             /\ q.drawn = (p.drawn \/ Renders(p, run))
<1> DEFINE age == IF Len(run) < Planned(p) THEN 0 ELSE Anchor(p)
           delay == IF run = <<>> THEN p.delay ELSE run[Len(run)]
           rendered == Renders(p, run)
           wake == Wake(p, run, age)
           q == [p EXCEPT !.delay = delay, !.age = age, !.wake = wake,
                          !.buffer = IF rendered THEN "frame" ELSE @,
                          !.drawn = @ \/ rendered,
                          !.dirty = @ /\ (p.mode \in Incremental \/ ~rendered)]
<1>1. run \in Seq(Nat) /\ p.delay \in Nat \ {0}
  BY RunsType DEF Player
<1>2. age \in Nat /\ age < p.delay
  BY <1>1, AnchorFacts
<1>3. delay \in Nat
  BY <1>1
<1>4. rendered \in BOOLEAN
  BY DEF Renders
<1>5. Ran(p, run) = q
  BY DEF Ran
<1> HIDE DEF age, delay, rendered
<1>6. wake \in Nat
  BY <1>1, <1>2, WakeType
<1> HIDE DEF wake
<1>7. q \in Player
  BY <1>2, <1>3, <1>4, <1>6 DEF Player
<1>8. /\ q.mode = p.mode /\ q.age = age
      /\ q.buffer = (IF rendered THEN "frame" ELSE p.buffer)
      /\ q.drawn = (p.drawn \/ rendered)
  BY DEF Player
<1> HIDE DEF q
<1>9. QED
  BY <1>2, <1>5, <1>7, <1>8 DEF rendered

\* advance() of a player that has a buffer.  A frame that changed is announced,
\* a burst leaves no backlog, and a player that was sized just now gets a frame.
LEMMA AdvanceFacts ==
  ASSUME NEW p \in Player, p.buffer # "none", NEW a \in Advances(p)
  PROVE  /\ a.player \in Player /\ a.player.mode = p.mode
         /\ a.run \in Seq(Nat)
         /\ a.run # <<>> => a.player.age \in Nat /\ a.player.age < p.delay
         /\ p.buffer = "frame" => a.player.buffer = "frame"
         /\ a.player.drawn => p.drawn \/ a.changed
         /\ p.delay # 0 /\ p.dirty /\ p.age = None => a.player.buffer = "frame"
<1>1. CASE p.delay = 0
  <2>1. a = [player |-> [p EXCEPT !.wake = None], run |-> <<>>, changed |-> FALSE]
    BY <1>1 DEF Advances
  <2>2. [p EXCEPT !.wake = None] \in Player
    BY DEF Player
  <2>3. QED
    BY <1>1, <2>1, <2>2 DEF Player
<1>2. CASE p.delay # 0 /\ NotDue(p)
  <2>1. a = [player |-> p, run |-> <<>>, changed |-> FALSE]
    BY <1>2 DEF Advances
  <2>2. ~p.dirty
    BY <1>2 DEF NotDue
  <2>3. QED
    BY <2>1, <2>2 DEF Player
<1>3. CASE p.delay # 0 /\ ~NotDue(p)
  <2>1. PICK run \in Runs(p) :
          a = [player |-> Ran(p, run), run |-> run, changed |-> Renders(p, run)]
    BY <1>3 DEF Advances
  <2> DEFINE q == Ran(p, run)
  <2>2. /\ q \in Player /\ q.mode = p.mode /\ q.age \in Nat /\ q.age < p.delay
        /\ q.buffer = IF Renders(p, run) THEN "frame" ELSE p.buffer
        /\ q.drawn = (p.drawn \/ Renders(p, run))
    BY <1>3, <2>1, RanFacts
  <2>3. run \in Seq(Nat)
    BY <1>3, <2>1, RunsType
  <2>4. p.age = None => Renders(p, run)
    <3>1. p.age = None => Planned(p) = 1
      BY DEF Planned
    <3>2. p.age = None => run # <<>>
      BY <1>3, <2>1, <3>1, RunsType
    <3>3. QED
      BY <3>2 DEF Renders
  <2>5. a.player = q /\ a.run = run /\ a.changed = Renders(p, run)
    BY <2>1
  <2> HIDE DEF q
  <2>6. QED
    BY <2>2, <2>3, <2>4, <2>5
<1>4. QED
  BY <1>1, <1>2, <1>3

\* A new player with the size of its surface.
LEMMA SizedFacts ==
  ASSUME NEW m \in Mode, NEW floor \in Floors
  PROVE  LET p == Sized(NewPlayer(m, floor))
         IN  /\ p \in Player /\ p.mode = m /\ p.buffer = "blank"
             /\ p.delay # 0 /\ p.dirty /\ p.age = None
             /\ p.delay = FirstDelay[m]
BY ClockAssumption DEF Sized, NewPlayer, Player

-----------------------------------------------------------------------------
(* Shuffles.                                                               *)

Distinct(list) == \A i, j \in DOMAIN list : list[i] = list[j] => i = j

\* The same modes, as often as before.
Reorders(list, new) ==
  /\ new \in Seq(Mode) /\ Len(new) = Len(list)
  /\ Range(new) = Range(list)
  /\ Distinct(list) => Distinct(new)

LEMMA ShuffleReorders ==
  ASSUME NEW list \in Seq(Mode), NEW new \in Shuffles(list)
  PROVE  Reorders(list, new)
<1> DEFINE D == DOMAIN list
<1>1. D = 1 .. Len(list) /\ Len(list) \in Nat /\ \A i \in D : list[i] \in Mode
  OBVIOUS
<1>2. PICK f \in Bijection(D, D) : new = [i \in D |-> list[f[i]]]
  BY DEF Shuffles
<1>3. /\ f \in [D -> D]
      /\ \A i, j \in D : f[i] = f[j] => i = j
      /\ \A j \in D : \E i \in D : f[i] = j
  BY <1>2 DEF Bijection, Injection, Surjection, IsInjective
<1>4. new \in [1 .. Len(list) -> Mode]
  BY <1>1, <1>2, <1>3
<1>5. new \in Seq(Mode) /\ Len(new) = Len(list) /\ DOMAIN new = D
  BY <1>1, <1>4
<1>6. \A i \in D : new[i] = list[f[i]]
  BY <1>2
<1> HIDE DEF D
<1>7. Range(new) = Range(list)
  BY <1>3, <1>5, <1>6 DEF Range, D
<1>8. Distinct(list) => Distinct(new)
  BY <1>3, <1>5, <1>6 DEF Distinct, D
<1>9. QED
  BY <1>5, <1>7, <1>8 DEF Reorders

LEMMA NoRepeatReorders ==
  ASSUME NEW list \in Seq(Mode), NEW last
  PROVE  /\ Reorders(list, NoRepeat(list, last))
         /\ Distinct(list) /\ Len(list) > 1 => NoRepeat(list, last)[1] # last
<1> DEFINE new == NoRepeat(list, last)
           swapped == [i \in DOMAIN list |-> CASE i = 1 -> list[2]
                                              [] i = 2 -> list[1]
                                              [] OTHER -> list[i]]
<1>1. Len(list) \in Nat /\ DOMAIN list = 1 .. Len(list)
      /\ \A i \in DOMAIN list : list[i] \in Mode
  OBVIOUS
<1>2. CASE Len(list) > 1 /\ list[1] = last
  <2>1. new = swapped
    BY <1>2 DEF NoRepeat
  <2>2. 1 \in DOMAIN list /\ 2 \in DOMAIN list
    BY <1>1, <1>2
  <2>3. /\ swapped[1] = list[2] /\ swapped[2] = list[1]
        /\ \A i \in DOMAIN list : i # 1 /\ i # 2 => swapped[i] = list[i]
        /\ DOMAIN swapped = DOMAIN list
    BY <2>2
  <2> HIDE DEF swapped, new
  <2>4. \A i \in DOMAIN list : swapped[i] \in Mode
    BY <1>1, <2>2, <2>3
  <2>5. swapped \in [1 .. Len(list) -> Mode]
    BY <1>1, <2>4 DEF swapped
  <2>6. swapped \in Seq(Mode) /\ Len(swapped) = Len(list)
    BY <1>1, <2>5
  <2>7. Range(swapped) = Range(list)
    <3>1. ASSUME NEW i \in DOMAIN list PROVE list[i] \in Range(swapped)
      BY <2>2, <2>3 DEF Range
    <3>2. ASSUME NEW i \in DOMAIN list PROVE swapped[i] \in Range(list)
      BY <2>2, <2>3 DEF Range
    <3>3. QED
      BY <2>3, <3>1, <3>2 DEF Range
  <2>8. Distinct(list) => Distinct(swapped)
    BY <2>2, <2>3 DEF Distinct
  <2>9. Distinct(list) => swapped[1] # last
    BY <1>2, <2>2, <2>3 DEF Distinct
  <2>10. QED
    BY <2>1, <2>6, <2>7, <2>8, <2>9 DEF Reorders, new
<1>3. CASE ~(Len(list) > 1 /\ list[1] = last)
  <2>1. new = list
    BY <1>3 DEF NoRepeat
  <2>2. QED
    BY <1>3, <2>1 DEF Reorders
<1>4. QED
  BY <1>2, <1>3

\* The place of the next mode.
LEMMA NextPlacesFacts ==
  ASSUME order \in Seq(Mode), idx \in DOMAIN order, NEW place \in NextPlaces
  PROVE  /\ Reorders(order, place.order) /\ place.idx \in DOMAIN place.order
         /\ idx < Len(order) => place.order = order /\ place.idx = idx + 1
         /\ ~(idx < Len(order)) =>
              /\ place.idx = 1
              /\ Distinct(order) /\ Len(order) > 1
                   => place.order[1] # order[Len(order)]
<1>1. Len(order) \in Nat /\ DOMAIN order = 1 .. Len(order)
  OBVIOUS
<1>2. CASE idx < Len(order)
  BY <1>1, <1>2 DEF NextPlaces, Reorders
<1>3. CASE ~(idx < Len(order))
  <2> DEFINE last == order[Len(order)]
  <2>1. PICK list \in Shuffles(order) :
          place = [order |-> NoRepeat(list, last), idx |-> 1]
    BY <1>3 DEF NextPlaces
  <2>2. Reorders(order, list)
    BY ShuffleReorders
  <2> DEFINE new == NoRepeat(list, last)
  <2> HIDE DEF last
  <2>3. /\ Reorders(list, new)
        /\ Distinct(list) /\ Len(list) > 1 => new[1] # last
    BY <2>2, NoRepeatReorders DEF Reorders
  <2> HIDE DEF new
  <2>4. Reorders(order, new)
    BY <2>2, <2>3 DEF Reorders
  <2>5. 1 \in DOMAIN new
    BY <1>1, <2>4 DEF Reorders
  <2>6. Distinct(order) /\ Len(order) > 1 => new[1] # last
    BY <2>2, <2>3 DEF Reorders
  <2>7. place.order = new /\ place.idx = 1
    BY <2>1 DEF new
  <2>8. QED
    BY <1>3, <2>4, <2>5, <2>6, <2>7 DEF last
<1>4. QED
  BY <1>2, <1>3

-----------------------------------------------------------------------------
(* The inductive invariant.                                                *)

\* While there is a playlist: its player plays what its place says, has a frame,
\* and no frame is newer than its identity.
Playing ==
  player # None =>
    /\ Range(order) = Range(Valid)
    /\ player.mode = order[idx]
    /\ player.buffer = "frame"
    /\ player.drawn => newId

Silent == player = None => order = <<>> /\ ran = None

PInv == TypeOK /\ Playing /\ Silent /\ NoBacklog

LEMMA ValidType == ASSUME TypeOK PROVE Valid \in Seq(Mode)
BY ListAssumption DEF TypeOK, Valid, Config

LEMMA PInit == Init => PInv
<1> SUFFICES ASSUME Init PROVE PInv
  OBVIOUS
<1>1. TypeOK
  BY DEF Init, TypeOK, Range
<1>2. QED
  BY <1>1 DEF Init, PInv, Playing, Silent, NoBacklog

\* What advance() may start from: the player there was, or a new one.
Fresh(p) == p.buffer = "blank" /\ p.delay # 0 /\ p.dirty /\ p.age = None

\* A player that has advanced at a place of the playlist.
LEMMA AdvancedAt ==
  ASSUME PInv, UNCHANGED <<config, enabled>>,
         NEW p \in Player, p.buffer = "frame" \/ Fresh(p),
         NEW a \in Advances(p),
         order' \in Seq(Mode), idx' \in DOMAIN order',
         Range(order') = Range(Valid), p.mode = order'[idx'],
         switch' \in 0 .. Cycle \cup {None},
         player' = a.player, newId' \in BOOLEAN,
         p.drawn \/ a.changed => newId',
         ran' = [run |-> a.run, delay |-> p.delay, age |-> p.age]
  PROVE  PInv' /\ player' # None
<1>1. /\ a.player \in Player /\ a.player.mode = p.mode
      /\ a.run \in Seq(Nat)
      /\ a.run # <<>> => a.player.age \in Nat /\ a.player.age < p.delay
      /\ a.player.buffer = "frame"
      /\ a.player.drawn => p.drawn \/ a.changed
  BY AdvanceFacts DEF Fresh
<1>2. player' # None
  BY <1>1, ListAssumption
<1>3. Valid' = Valid
  BY DEF Valid
<1>4. config \in Config /\ enabled \in BOOLEAN
  BY DEF PInv, TypeOK
<1>5. /\ ran' \in [run : Seq(Nat), delay : Nat, age : Nat \cup {None}]
      /\ ran'.run = a.run /\ ran'.delay = p.delay
  BY <1>1 DEF Player
<1>6. idx' \in Nat
  OBVIOUS
<1>7. TypeOK'
  BY <1>1, <1>3, <1>4, <1>5, <1>6 DEF TypeOK
<1>8. Playing'
  BY <1>1, <1>3 DEF Playing
<1>9. NoBacklog'
  BY <1>1, <1>5 DEF NoBacklog
<1>10. QED
  BY <1>2, <1>7, <1>8, <1>9 DEF PInv, Silent

LEMMA CreateKeeps ==
  ASSUME PInv, Create
  PROVE  PInv' /\ player' # None /\ Reorders(Valid, order') /\ idx' = 1
         /\ UNCHANGED config
<1>1. PICK list \in Shuffles(Valid) :
        \E a \in Advances(Switched(list[1])) :
          /\ order' = list /\ idx' = 1
          /\ switch' = IF Len(list) > 1 THEN Cycle ELSE None
          /\ player' = a.player
          /\ ran' = [run |-> a.run, delay |-> FirstDelay[list[1]], age |-> None]
  BY DEF Create
<1>2. PICK a \in Advances(Switched(list[1])) :
        /\ order' = list /\ idx' = 1
        /\ switch' = IF Len(list) > 1 THEN Cycle ELSE None
        /\ player' = a.player
        /\ ran' = [run |-> a.run, delay |-> FirstDelay[list[1]], age |-> None]
  BY <1>1
<1>3. Valid \in Seq(Mode) /\ Valid # <<>>
  BY ValidType DEF Create, PInv
<1>4. Reorders(Valid, list)
  BY <1>3, ShuffleReorders
<1>5. /\ list \in Seq(Mode) /\ 1 \in DOMAIN list /\ list[1] \in Mode
      /\ Range(list) = Range(Valid)
  BY <1>3, <1>4 DEF Reorders
<1>6. config.floor \in Floors
  BY DEF PInv, TypeOK, Config
<1> DEFINE p == Switched(list[1])
<1>7. /\ p \in Player /\ p.mode = list[1] /\ Fresh(p) /\ p.age = None
      /\ p.delay = FirstDelay[list[1]]
  BY <1>5, <1>6, SizedFacts DEF Switched, Fresh
<1>8. /\ newId' = TRUE /\ UNCHANGED <<config, enabled>>
      /\ switch' \in 0 .. Cycle \cup {None}
  BY <1>2, ListAssumption DEF Create
<1> HIDE DEF p
<1>9. a \in Advances(p)
  BY <1>2 DEF p
<1>10. PInv' /\ player' # None
  BY <1>2, <1>5, <1>7, <1>8, <1>9, AdvancedAt
<1>11. QED
  BY <1>2, <1>4, <1>8, <1>10

\* draw() without a switch: the same place.
LEMMA DrawStays ==
  ASSUME PInv, Draw, ~SwitchDue
  PROVE  PInv' /\ player' # None /\ UNCHANGED <<config, order, idx>>
         /\ player'.mode = player.mode
<1> DEFINE place == [order |-> order, idx |-> idx]
<1>1. player # None /\ AdvanceFrom(place, player, FALSE)
  BY DEF Draw
<1>2. place.order = order /\ place.idx = idx
  OBVIOUS
<1> HIDE DEF place
<1>3. PICK a \in Advances(player) :
        /\ order' = order /\ idx' = idx /\ player' = a.player
        /\ switch' \in {switch, Cycle}
        /\ ran' = [run |-> a.run, delay |-> player.delay, age |-> player.age]
        /\ newId' = (newId \/ Changed(FALSE, a.changed))
        /\ UNCHANGED <<config, enabled>>
  BY <1>1, <1>2 DEF AdvanceFrom
<1>4. /\ player \in Player /\ player.buffer = "frame"
      /\ order \in Seq(Mode) /\ idx \in DOMAIN order
      /\ Range(order) = Range(Valid) /\ player.mode = order[idx]
      /\ (player.drawn => newId) /\ newId \in BOOLEAN
      /\ switch \in 0 .. Cycle \cup {None}
  BY <1>1 DEF PInv, TypeOK, Playing
<1>5. switch' \in 0 .. Cycle \cup {None}
  BY <1>3, <1>4, ListAssumption
<1>6. newId' \in BOOLEAN /\ (player.drawn \/ a.changed => newId')
  BY <1>3, <1>4 DEF Changed
<1>7. PInv' /\ player' # None
  BY <1>3, <1>4, <1>5, <1>6, AdvancedAt
<1>8. player'.mode = player.mode
  BY <1>3, <1>4, AdvanceFacts
<1>9. QED
  BY <1>3, <1>7, <1>8

\* draw() with a switch: the next place, with a new player.
LEMMA DrawSwitches ==
  ASSUME PInv, Draw, SwitchDue
  PROVE  /\ PInv' /\ player # None /\ player' # None /\ UNCHANGED config
         /\ \E place \in NextPlaces : order' = place.order /\ idx' = place.idx
<1>1. PICK place \in NextPlaces :
        AdvanceFrom(place, Switched(place.order[place.idx]), TRUE)
  BY DEF Draw
<1>2. player # None
  BY DEF Draw
<1> DEFINE m == place.order[place.idx]
           p == Switched(m)
<1>3. PICK a \in Advances(p) :
        /\ order' = place.order /\ idx' = place.idx /\ player' = a.player
        /\ switch' \in {switch, Cycle}
        /\ ran' = [run |-> a.run, delay |-> p.delay, age |-> p.age]
        /\ newId' = (newId \/ Changed(TRUE, a.changed))
        /\ UNCHANGED <<config, enabled>>
  BY <1>1 DEF AdvanceFrom
<1>4. /\ order \in Seq(Mode) /\ idx \in DOMAIN order
      /\ Range(order) = Range(Valid) /\ newId \in BOOLEAN
      /\ switch \in 0 .. Cycle \cup {None} /\ config.floor \in Floors
  BY <1>2 DEF PInv, TypeOK, Playing, Config
<1>5. Reorders(order, place.order) /\ place.idx \in DOMAIN place.order
  BY <1>4, NextPlacesFacts
<1>6. /\ place.order \in Seq(Mode) /\ m \in Mode
      /\ Range(place.order) = Range(Valid)
  BY <1>4, <1>5 DEF Reorders
<1>7. p \in Player /\ p.mode = m /\ Fresh(p)
  BY <1>4, <1>6, SizedFacts DEF Switched, Fresh
<1>8. newId' = TRUE /\ switch' \in 0 .. Cycle \cup {None}
  <2>1. newId' = (newId \/ Changed(TRUE, a.changed))
    BY <1>3
  <2>2. newId' = TRUE
    BY <2>1, Zenon DEF Changed
  <2>3. switch' \in {switch, Cycle}
    BY <1>3
  <2>4. switch' \in 0 .. Cycle \cup {None}
    BY <1>4, <2>3, ListAssumption
  <2>5. QED
    BY <2>2, <2>4
<1> HIDE DEF p
<1>9. PInv' /\ player' # None
  BY <1>3, <1>5, <1>6, <1>7, <1>8, AdvancedAt
<1>10. QED
  BY <1>2, <1>3, <1>9

\* The steps that leave the player's place alone.
LEMMA OtherKeeps ==
  ASSUME PInv, Blit \/ TimePasses \/ Disable
  PROVE  PInv' /\ UNCHANGED <<config, order, idx>>
         /\ (player' = None <=> player = None)
         /\ (player # None => player'.mode = player.mode)
<1>1. CASE Disable
  <2>1. /\ enabled' = FALSE
        /\ UNCHANGED <<config, order, idx, switch, player, newId, ran>>
    BY <1>1 DEF Disable
  <2>2. Valid' = Valid
    BY <2>1 DEF Valid
  <2>3. QED
    BY <2>1, <2>2 DEF PInv, TypeOK, Playing, Silent, NoBacklog
<1>2. CASE Blit
  <2> DEFINE p == [player EXCEPT !.drawn = FALSE]
  <2>1. /\ player # None /\ player' = p /\ newId' = FALSE
        /\ UNCHANGED <<config, enabled, order, idx, switch, ran>>
    BY <1>2 DEF Blit
  <2>2. player \in Player
    BY <2>1 DEF PInv, TypeOK
  <2>3. /\ p \in Player /\ p.mode = player.mode /\ p.buffer = player.buffer
        /\ p.drawn = FALSE /\ p.age = player.age
    BY <2>2 DEF Player
  <2> HIDE DEF p
  <2>4. p # None /\ Valid' = Valid
    BY <2>1, <2>3, ListAssumption DEF Valid
  <2>5. QED
    BY <2>1, <2>3, <2>4 DEF PInv, TypeOK, Playing, Silent, NoBacklog
<1>3. CASE TimePasses
  <2> DEFINE p == Older(player)
  <2>1. /\ player # None /\ player' = p /\ ran' = None
        /\ switch' = (IF switch = None THEN None ELSE Left(switch - 1))
        /\ UNCHANGED <<config, enabled, order, idx, newId>>
    BY <1>3 DEF TimePasses
  <2>2. player \in Player /\ switch \in 0 .. Cycle \cup {None}
    BY <2>1 DEF PInv, TypeOK
  <2> DEFINE age  == IF player.age = None THEN None
                     ELSE Smaller(player.age + 1, OldAge)
             wake == IF player.wake = None THEN None ELSE Left(player.wake - 1)
  <2>3. OldAge \in Nat
    BY ClockAssumption DEF OldAge
  <2>4. age \in Nat \cup {None} /\ wake \in Nat \cup {None}
    <3>1. player.age # None => player.age + 1 \in Nat
      BY <2>2 DEF Player
    <3>2. player.wake # None => player.wake - 1 \in Int
      BY <2>2 DEF Player
    <3>3. QED
      BY <2>3, <3>1, <3>2, SmallerFacts, LeftType
  <2>5. p = [player EXCEPT !.age = age, !.wake = wake]
    BY DEF Older
  <2> HIDE DEF p, age, wake
  <2>6. /\ p \in Player /\ p.mode = player.mode /\ p.buffer = player.buffer
        /\ p.drawn = player.drawn
    BY <2>2, <2>4, <2>5 DEF Player
  <2>7. switch' \in 0 .. Cycle \cup {None}
    BY <2>1, <2>2, ListAssumption DEF Left, Larger
  <2>8. p # None /\ Valid' = Valid
    BY <2>1, <2>6, ListAssumption DEF Valid
  <2>9. QED
    BY <2>1, <2>6, <2>7, <2>8 DEF PInv, TypeOK, Playing, Silent, NoBacklog
<1>4. QED
  BY <1>1, <1>2, <1>3

LEMMA PruneKeeps ==
  ASSUME PInv, Prune
  PROVE  PInv' /\ player' = None /\ toPlay' = {} /\ UNCHANGED config
<1>1. /\ player' = None /\ order' = <<>> /\ idx' = 1 /\ switch' = None
      /\ newId' = TRUE /\ ran' = None /\ UNCHANGED <<config, enabled>>
  BY DEF Prune
<1>2. TypeOK'
  BY <1>1 DEF PInv, TypeOK, Range
<1>3. QED
  BY <1>1, <1>2 DEF PInv, Playing, Silent, NoBacklog, toPlay

LEMMA PNext == PInv /\ [Next]_vars => PInv'
<1> SUFFICES ASSUME PInv, [Next]_vars PROVE PInv'
  OBVIOUS
<1>1. CASE UNCHANGED vars
  BY <1>1 DEF vars, PInv, TypeOK, Playing, Silent, NoBacklog, Valid
<1>2. CASE Create
  BY <1>2, CreateKeeps
<1>3. CASE Draw
  BY <1>3, DrawStays, DrawSwitches
<1>4. CASE Blit \/ TimePasses \/ Disable
  BY <1>4, OtherKeeps
<1>5. CASE Prune
  BY <1>5, PruneKeeps
<1>6. QED
  BY <1>1, <1>2, <1>3, <1>4, <1>5 DEF Next

-----------------------------------------------------------------------------
(* The theorems.                                                           *)

THEOREM PlaylistInvariance == Spec => []PInv
BY PInit, PNext, PTL DEF Spec

\* The types of the playlist and its clock: above all, a tick is never anchored
\* in the future and a deadline never lies in the past (player.rs:169-188).
THEOREM PlaylistTypes == Spec => []TypeOK
<1>1. PInv => TypeOK
  BY DEF PInv
<1>2. QED
  BY <1>1, PlaylistInvariance, PTL

\* For any modes and delays, a surface that has copied the frame of the current
\* identity shows what is in the buffer (playlist.rs:115-139, app.rs:202-209).
THEOREM IdentityTellsFrames == Spec => []FrameIdTellsFrames
<1>1. PInv => FrameIdTellsFrames
  BY DEF PInv, Playing, FrameIdTellsFrames
<1>2. QED
  BY <1>1, PlaylistInvariance, PTL

\* A player that was created or switched to a moment ago has a frame when the
\* surface copies it (player.rs:31-34, playlist.rs:101-107).
THEOREM FrameIsThere == Spec => []NeverBlank
<1>1. PInv => NeverBlank
  BY DEF PInv, Playing, NeverBlank
<1>2. QED
  BY <1>1, PlaylistInvariance, PTL

\* For any delays, any refresh period and any allowance of ticks, no backlog of
\* ticks outlives the draw() that was late (player.rs:117-121, 156-188).
THEOREM NoBurst == Spec => []NoBacklog
<1>1. PInv => NoBacklog
  BY DEF PInv
<1>2. QED
  BY <1>1, PlaylistInvariance, PTL

-----------------------------------------------------------------------------
(* The refinement: the playlist implements the rotation.                   *)

RInv == PInv /\ (player # None => Distinct(order))

\* What the rotation sees of a place.
LEMMA PlaceSeen ==
  ASSUME NEW s \in Seq(Mode), NEW i \in DOMAIN s, Distinct(s)
  PROVE  LET left == {s[j] : j \in i + 1 .. Len(s)}
         IN  /\ i = 1 => left = Range(s) \ {s[1]}
             /\ i < Len(s) =>
                  /\ s[i + 1] \in left /\ i + 1 \in DOMAIN s
                  /\ {s[j] : j \in i + 2 .. Len(s)} = left \ {s[i + 1]}
             /\ i = Len(s) => left = {}
<1> DEFINE left == {s[j] : j \in i + 1 .. Len(s)}
<1>1. Len(s) \in Nat /\ DOMAIN s = 1 .. Len(s) /\ i \in 1 .. Len(s)
  OBVIOUS
<1>2. i = Len(s) => left = {}
  BY <1>1
<1>3. ASSUME i = 1 PROVE left = Range(s) \ {s[1]}
  <2>1. \A j \in 1 .. Len(s) : j # 1 => s[j] # s[1]
    BY <1>1, <1>3 DEF Distinct
  <2>2. \A j \in 1 .. Len(s) : j # 1 <=> j \in i + 1 .. Len(s)
    BY <1>1, <1>3
  <2>3. QED
    BY <1>1, <2>1, <2>2 DEF Range
<1>4. ASSUME i < Len(s)
      PROVE  /\ s[i + 1] \in left /\ i + 1 \in DOMAIN s
             /\ {s[j] : j \in i + 2 .. Len(s)} = left \ {s[i + 1]}
  <2>1. i + 1 \in DOMAIN s /\ i + 1 \in i + 1 .. Len(s)
    BY <1>1, <1>4
  <2>2. \A j \in i + 1 .. Len(s) : j \in 1 .. Len(s)
    BY <1>1
  <2>3. \A j \in i + 1 .. Len(s) : j # i + 1 => s[j] # s[i + 1]
    BY <1>1, <2>1, <2>2 DEF Distinct
  <2>4. \A j : j \in i + 2 .. Len(s) <=> j \in i + 1 .. Len(s) /\ j # i + 1
    BY <1>1
  <2>5. QED
    BY <2>1, <2>3, <2>4
<1>5. QED
  BY <1>2, <1>3, <1>4

LEMMA RStep ==
  ASSUME RInv, [Next]_vars,
         \A list \in Lists : Distinct(Registered(list))
  PROVE  RInv' /\ [Turns!Next]_Turns!vars
<1>1. PInv /\ PInv'
  BY PNext DEF RInv
<1>2. CASE UNCHANGED vars
  BY <1>1, <1>2 DEF vars, RInv, Turns!vars, playing, toPlay, Valid
<1>3. CASE Create
  <2>1. /\ player = None /\ player' # None /\ Reorders(Valid, order') /\ idx' = 1
        /\ UNCHANGED config
    BY <1>1, <1>3, CreateKeeps DEF Create
  <2>2. Distinct(Valid)
    BY <1>1 DEF PInv, TypeOK, Config, Valid
  <2>3. Valid' = Valid
    BY <2>1 DEF Valid
  <2>4. /\ order' \in Seq(Mode) /\ 1 \in DOMAIN order' /\ Distinct(order')
        /\ Range(order') = Range(Valid)
        /\ player'.mode = order'[1]
    BY <1>1, <2>1, <2>2 DEF Reorders, PInv, TypeOK, Playing
  <2>5. toPlay' = Range(Valid) \ {order'[1]}
    BY <2>1, <2>4, PlaceSeen DEF toPlay
  <2>6. order'[1] \in Range(Valid)
    BY <2>4 DEF Range
  <2>7. playing = None /\ playing' = order'[1]
    BY <2>1, <2>4 DEF playing
  <2>8. Turns!Start
    BY <2>3, <2>5, <2>6, <2>7 DEF Turns!Start
  <2>9. QED
    BY <1>1, <2>4, <2>8 DEF RInv, Turns!Next
<1>4. CASE Draw /\ ~SwitchDue
  <2>1. /\ player # None /\ player' # None /\ UNCHANGED <<config, order, idx>>
        /\ player'.mode = player.mode
    BY <1>1, <1>4, DrawStays DEF Draw
  <2>2. UNCHANGED Turns!vars
    BY <2>1 DEF Turns!vars, playing, toPlay, Valid
  <2>3. QED
    BY <1>1, <2>1, <2>2 DEF RInv
<1>5. CASE Draw /\ SwitchDue
  <2>1. player # None /\ player' # None /\ UNCHANGED config
    BY <1>1, <1>5, DrawSwitches
  <2>2. PICK place \in NextPlaces : order' = place.order /\ idx' = place.idx
    BY <1>1, <1>5, DrawSwitches
  <2>3. /\ order \in Seq(Mode) /\ idx \in DOMAIN order /\ Distinct(order)
        /\ Range(order) = Range(Valid) /\ player.mode = order[idx]
    BY <1>1, <2>1 DEF RInv, PInv, TypeOK, Playing
  <2>4. /\ Reorders(order, order') /\ idx' \in DOMAIN order'
        /\ idx < Len(order) => order' = order /\ idx' = idx + 1
        /\ ~(idx < Len(order)) =>
             /\ idx' = 1
             /\ Distinct(order) /\ Len(order) > 1 => order'[1] # order[Len(order)]
    BY <2>2, <2>3, NextPlacesFacts
  <2>5. Distinct(order') /\ order' \in Seq(Mode) /\ Range(order') = Range(Valid)
    BY <2>3, <2>4 DEF Reorders
  <2>6. /\ Valid' = Valid /\ player'.mode = order'[idx'] /\ order[idx] \in Mode
        /\ Len(order) > 1
    BY <1>1, <1>5, <2>1, <2>3 DEF Valid, PInv, Playing, SwitchDue, Multi
  <2>7. playing = order[idx] /\ playing' = order'[idx'] /\ playing # None
    BY <2>1, <2>3, <2>6, ClockAssumption DEF playing
  <2>8. CASE idx < Len(order)
    <3>1. order' = order /\ idx' = idx + 1
      BY <2>4, <2>8
    <3>2. /\ order[idx + 1] \in toPlay
          /\ {order[j] : j \in idx + 2 .. Len(order)} = toPlay \ {order[idx + 1]}
      BY <2>3, <2>8, PlaceSeen DEF toPlay
    <3>3. toPlay' = {order[j] : j \in idx + 2 .. Len(order)}
      <4>1. idx + 1 + 1 = idx + 2
        BY <2>3
      <4>2. QED
        BY <3>1, <4>1 DEF toPlay
    <3>4. playing' \in toPlay /\ toPlay' = toPlay \ {playing'} /\ toPlay # {}
      BY <2>7, <3>1, <3>2, <3>3
    <3>5. Turns!Turn
      BY <2>6, <2>7, <3>4 DEF Turns!Turn
    <3>6. QED
      BY <1>1, <2>5, <3>5 DEF RInv, Turns!Next
  <2>9. CASE ~(idx < Len(order))
    <3>1. idx = Len(order)
      BY <2>3, <2>9
    <3>2. toPlay = {}
      BY <2>3, <3>1, PlaceSeen DEF toPlay
    <3>3. idx' = 1 /\ order'[1] # order[Len(order)]
      BY <2>3, <2>4, <2>6, <2>9
    <3>4. toPlay' = Range(Valid) \ {order'[1]}
      BY <2>4, <2>5, <3>3, PlaceSeen DEF toPlay
    <3>5. order'[1] \in Range(Valid)
      BY <2>4, <2>5, <3>3 DEF Range
    <3>6. Turns!Round
      BY <2>6, <2>7, <3>1, <3>2, <3>3, <3>4, <3>5 DEF Turns!Round
    <3>7. QED
      BY <1>1, <2>5, <3>6 DEF RInv, Turns!Next
  <2>10. QED
    BY <2>8, <2>9
<1>6. CASE Blit \/ TimePasses \/ Disable
  <2>1. /\ UNCHANGED <<config, order, idx>>
        /\ (player' = None <=> player = None)
        /\ (player # None => player'.mode = player.mode)
    BY <1>1, <1>6, OtherKeeps
  <2>2. UNCHANGED Turns!vars
    BY <2>1 DEF Turns!vars, playing, toPlay, Valid
  <2>3. QED
    BY <1>1, <2>1, <2>2 DEF RInv
<1>7. CASE Prune
  <2>1. /\ player # None /\ player' = None /\ toPlay' = {} /\ UNCHANGED config
    BY <1>1, <1>7, PruneKeeps DEF Prune
  <2>2. playing # None /\ playing' = None
    BY <1>1, <2>1, ClockAssumption DEF playing, PInv, TypeOK, Player
  <2>3. Turns!Drop
    BY <2>1, <2>2 DEF Turns!Drop, Valid
  <2>4. QED
    BY <1>1, <2>1, <2>3 DEF RInv, Turns!Next
<1>8. QED
  BY <1>2, <1>3, <1>4, <1>5, <1>6, <1>7 DEF Next

\* For every list that names no mode twice, the playlist implements the rotation:
\* the modes take turns, all of them in every round, none twice in a row
\* (playlist.rs:3-7, 88-113).
THEOREM ModesTakeTurns ==
  ASSUME \A list \in Lists : Distinct(Registered(list))
  PROVE  Spec => ImplementsRotation
<1>1. Init => RInv /\ Turns!Init
  <2> SUFFICES ASSUME Init PROVE RInv /\ Turns!Init
    OBVIOUS
  <2>1. PInv /\ player = None /\ order = <<>> /\ idx = 1
    BY PInit DEF Init
  <2>2. Range(Valid) \subseteq Mode
    <3>1. Valid \in Seq(Mode)
      BY <2>1, ValidType DEF PInv
    <3>2. QED
      BY <3>1 DEF Range
  <2>3. toPlay = {}
    BY <2>1 DEF toPlay
  <2>4. QED
    BY <2>1, <2>2, <2>3 DEF RInv, Turns!Init, playing
<1>2. RInv /\ [Next]_vars => RInv' /\ [Turns!Next]_Turns!vars
  BY RStep
<1>3. QED
  BY <1>1, <1>2, PTL DEF Spec, ImplementsRotation, Turns!Spec
=============================================================================
